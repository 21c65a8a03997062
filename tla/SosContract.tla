----------------------------- MODULE SosContract -----------------------------
(***************************************************************************)
(* What the Hub promises of one SOS run (docs/bridge-hub-protocol.md,      *)
(* "SOS identity (C10)"), without replicas, bearers or failures: a run is  *)
(* active, then cancelled for good; each change owes work on the run's one *)
(* alert, and the debt is dropped only when the alert matches the run.     *)
(***************************************************************************)
VARIABLES
    state,   \* "none", "active" or "cancelled"
    alert,   \* "none", "open" or "closed"
    owed,    \* alert work is owed
    chained  \* the tenant has an escalation chain: somebody to page

cvars == <<state, alert, owed, chained>>

Init == state = "none" /\ alert = "none" /\ owed = FALSE /\ chained = TRUE

Start ==
    /\ state = "none"
    /\ state' = "active" /\ owed' = TRUE
    /\ UNCHANGED <<alert, chained>>

Cancel ==
    /\ state # "cancelled"
    /\ state' = "cancelled" /\ owed' = TRUE
    /\ UNCHANGED <<alert, chained>>

\* Once per run: by its start, or by a start that could not be stored.
Raise ==
    /\ alert = "none"
    /\ alert' = "open"
    /\ UNCHANGED <<state, owed, chained>>

\* By whoever was paged, by the end of the chain, or for the cancel; an alert
\* not yet raised is closed only for a cancelled run.
Close ==
    /\ alert = "open" \/ (alert = "none" /\ state = "cancelled")
    /\ alert' = "closed"
    /\ UNCHANGED <<state, owed, chained>>

Settle ==
    /\ owed
    /\ state = "cancelled" => alert = "closed"
    /\ state = "active" /\ chained => alert # "none"
    /\ owed' = FALSE
    /\ UNCHANGED <<state, alert, chained>>

Unchain ==
    /\ chained
    /\ chained' = FALSE
    /\ UNCHANGED <<state, alert, owed>>

Next == Start \/ Cancel \/ Raise \/ Close \/ Settle \/ Unchain

Spec == Init /\ [][Next]_cvars
=============================================================================
