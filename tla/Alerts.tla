------------------------------- MODULE Alerts -------------------------------
(***************************************************************************)
(* The alerts table as the store functions of the Hub read and write it:   *)
(* CreateAlert, UpdateAlert and AdvanceAlert of                            *)
(* src/internal/store/postgres, and the rows the escalation engine hands   *)
(* them (src/internal/escalation).  A row keeps what the escalation        *)
(* decides on: its state, the tier and the retry it is at, next_esc_at and *)
(* created_at.                                                             *)
(*                                                                         *)
(* A timestamp is "a clock reading plus a whole number of seconds":        *)
(* at is its position in time, by the number of the reading it came from.  *)
(* Timestamps carry microseconds, so two of them are equal only when they  *)
(* come from the same reading and the same number of seconds was added;    *)
(* at alone, in the model's coarse seconds, would make unrelated           *)
(* timestamps collide.                                                     *)
(***************************************************************************)
EXTENDS Naturals

OpenStates == {"triggered", "escalating"}

ClosedStates == {"acknowledged", "cancelled", "exhausted"}

Timestamp == [at : Nat, by : Nat]

\* A row of the table; state "absent" is a key without a row.
AlertRow == [state : {"absent"} \cup OpenStates \cup ClosedStates,
             tier : Nat, retries : Nat, next : Timestamp, born : Nat]

Never == [at |-> 0, by |-> 0]

NoAlert == [state |-> "absent", tier |-> 0, retries |-> 0, next |-> Never, born |-> 0]

Phase(row) == IF row.state = "absent" THEN "none"
              ELSE IF row.state \in OpenStates THEN "open" ELSE "closed"

IsOpen(row) == row.state \in OpenStates

IsClosed(row) == row.state \in ClosedStates

Exists(row) == row.state # "absent"

\* The row Trigger inserts at a clock reading: due at once.
Triggered(now, reading) ==
    [state |-> "triggered", tier |-> 0, retries |-> 0,
     next |-> [at |-> now, by |-> reading], born |-> reading]

\* INSERT: the primary key refuses a second row, which leaves the first.
CreateAlert(row, new) == IF Exists(row) THEN row ELSE new

\* UPDATE of every mutable column, whatever the row holds by now.
UpdateAlert(row, new) == IF Exists(row) THEN new ELSE row

CanAdvance_AnyNext(row, expected) == IsOpen(row)

CanAdvance_AnyState(row, expected) == row.next = expected /\ Exists(row)

\* The compare-and-set's WHERE clause: next_esc_at as expected, and still open.
CanAdvance(row, expected) == row.next = expected /\ IsOpen(row)

AdvanceAlert(row, new, expected) == IF CanAdvance(row, expected) THEN new ELSE row
=============================================================================
