---------------------------- MODULE MCEscalation ----------------------------
(* Small instances of Escalation. *)
EXTENDS Escalation, TLC

\* Two tries one second apart, then one of a second tier at once; the lease
\* is two seconds.
TwoTiers == <<[wait |-> 1, maxRetries |-> 2], [wait |-> 0, maxRetries |-> 1]>>

Symmetry == Permutations(Engines)
=============================================================================
