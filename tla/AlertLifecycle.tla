--------------------------- MODULE AlertLifecycle ---------------------------
(***************************************************************************)
(* What an alert id promises, whoever works on it: it is raised at most    *)
(* once, or closed before it was raised; while it is open people may be    *)
(* paged; once closed it is never open again, and the id is never reused   *)
(* (docs/bridge-hub-protocol.md, "Run state").                             *)
(***************************************************************************)
CONSTANT Ids

VARIABLE phase

Phases == {"none", "open", "closed"}

Init == phase = [a \in Ids |-> "none"]

Raise(a) == phase[a] = "none" /\ phase' = [phase EXCEPT ![a] = "open"]

\* Also of an alert that was never raised: the tombstone.
Close(a) == phase[a] # "closed" /\ phase' = [phase EXCEPT ![a] = "closed"]

Next == \E a \in Ids : Raise(a) \/ Close(a)

Spec == Init /\ [][Next]_phase
=============================================================================
