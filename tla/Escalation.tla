----------------------------- MODULE Escalation -----------------------------
(***************************************************************************)
(* The escalation engine (src/internal/escalation/escalation.go): every    *)
(* 10 s a sweep lists the open alerts, and for each one that is due takes  *)
(* a lease by compare-and-set on next_esc_at, notifies the tier, and       *)
(* writes the outcome by compare-and-set against that lease.  The loop is  *)
(* a leader singleton, but a handover may overlap (the old leader's loop   *)
(* is given 45 s to stop), so several Engines run it at once here.         *)
(* Operators acknowledge and cancel alerts meanwhile, chains are deleted,  *)
(* store calls fail and replicas stop between any two steps.               *)
(***************************************************************************)
EXTENDS Alerts, FiniteSets, Sequences

CONSTANTS
    Engines,      \* replicas that run the loop
    Users,        \* API requests that acknowledge or cancel
    AlertIds,
    Tiers,        \* the chain: a sequence of [wait, maxRetries]
    Lease,        \* escalationLease, in the clock's unit
    ListLimit,    \* the LIMIT of ListAlerts (100 in processAlerts)
    MaxClock,     \* bound: the last moment modelled
    MaxReadings   \* bound: clock readings of triggers and sweeps

VARIABLES
    clock,
    readings,     \* how many clock readings were taken
    rows,         \* the alerts table
    chainThere,   \* the chain exists
    eng,          \* each engine's sweep
    usr,          \* each API request's read copy
    paged         \* the steps <<tier, retry>> each alert's notifier was called for

vars == <<clock, readings, rows, chainThere, eng, usr, paged>>

\* The wait before the next try in a tier: 1 << retries seconds, the shift
\* clamped to 16 and the wait capped by the tier's own.
Backoff(tier, retries) ==
    LET shift   == IF retries > 16 THEN 16 ELSE retries
        backoff == 2 ^ shift
    IN IF backoff > tier.wait THEN tier.wait ELSE backoff

ASSUME IdsAssumption == AlertIds # {}

ASSUME TiersAssumption ==
    /\ Len(Tiers) \in Nat /\ Tiers \in [1..Len(Tiers) -> [wait : Nat, maxRetries : Nat]]
    /\ Lease \in Nat
    /\ ListLimit \in Nat /\ MaxClock \in Nat /\ MaxReadings \in Nat

\* No wait is exactly as long as the lease (120 s): a step's final
\* next_esc_at then never equals the lease it replaces.
ASSUME LeaseAssumption ==
    \A i \in DOMAIN Tiers :
        /\ Tiers[i].wait # Lease
        /\ \A r \in 1..Tiers[i].maxRetries : Backoff(Tiers[i], r) \in Nat \ {Lease}

Blank == [a \in AlertIds |-> NoAlert]

Idle == [pc |-> "idle", now |-> 0, reading |-> 0, todo |-> {}, seen |-> Blank]

NoRequest == [pc |-> "idle", id |-> CHOOSE a \in AlertIds : TRUE, row |-> NoAlert]

Init ==
    /\ clock = 0
    /\ readings = 0
    /\ rows = Blank
    /\ chainThere = TRUE
    /\ eng = [e \in Engines |-> Idle]
    /\ usr = [u \in Users |-> NoRequest]
    /\ paged = [a \in AlertIds |-> {}]
-----------------------------------------------------------------------------
\* A clock reading nobody took before.
TakeReading == readings < MaxReadings /\ readings' = readings + 1

Trigger(a) ==
    /\ ~Exists(rows[a])
    /\ TakeReading
    /\ rows' = [rows EXCEPT ![a] = CreateAlert(@, Triggered(clock, readings'))]
    /\ UNCHANGED <<clock, chainThere, eng, usr, paged>>

\* The first step of Acknowledge and of Cancel: the row is read, and an alert
\* already in that state is left alone.
ReadAlert(u, a, to) ==
    /\ usr[u].pc = "idle"
    /\ Exists(rows[a]) /\ rows[a].state # to
    /\ usr' = [usr EXCEPT ![u] = [pc |-> "read", id |-> a, row |-> [rows[a] EXCEPT !.state = to]]]
    /\ UNCHANGED <<clock, readings, rows, chainThere, eng, paged>>

Acknowledge(u, a) == ReadAlert(u, a, "acknowledged")

Cancel(u, a) == ReadAlert(u, a, "cancelled")

\* The second: the copy is written back whole, or the write fails.
WriteAlert(u) ==
    /\ usr[u].pc = "read"
    /\ \E ok \in BOOLEAN :
           rows' = IF ok THEN [rows EXCEPT ![usr[u].id] = UpdateAlert(@, usr[u].row)] ELSE rows
    /\ usr' = [usr EXCEPT ![u] = NoRequest]
    /\ UNCHANGED <<clock, readings, chainThere, eng, paged>>

DeleteChain ==
    /\ chainThere
    /\ chainThere' = FALSE
    /\ UNCHANGED <<clock, readings, rows, eng, usr, paged>>

Tick ==
    /\ clock < MaxClock
    /\ clock' = clock + 1
    /\ UNCHANGED <<readings, rows, chainThere, eng, usr, paged>>
-----------------------------------------------------------------------------
\* ListAlerts: the ListLimit newest open alerts.
Listed ==
    LET open == {a \in AlertIds : IsOpen(rows[a])}
    IN {a \in open : Cardinality({b \in open : rows[b].born > rows[a].born}) < ListLimit}

ListAlerts(e) ==
    /\ eng[e].pc = "idle"
    /\ Listed # {}
    /\ eng' = [eng EXCEPT ![e].pc = "listed",
                          ![e].todo = Listed,
                          ![e].seen = [a \in AlertIds |-> IF a \in Listed THEN rows[a] ELSE NoAlert]]
    /\ UNCHANGED <<clock, readings, rows, chainThere, usr, paged>>

\* The sweep's one reading of the clock, once the list is back.
ReadClock(e) ==
    /\ eng[e].pc = "listed"
    /\ TakeReading
    /\ eng' = [eng EXCEPT ![e].pc = "sweep", ![e].now = clock, ![e].reading = readings']
    /\ UNCHANGED <<clock, rows, chainThere, usr, paged>>

\* The listed alert the sweep is at: newest first.
At(e, a) ==
    /\ a \in eng[e].todo
    /\ \A b \in eng[e].todo : eng[e].seen[b].born <= eng[e].seen[a].born

Due(e, a) == eng[e].pc = "sweep" /\ At(e, a) /\ eng[e].seen[a].next.at <= eng[e].now

\* Done with a: on to the next listed alert, or to the next tick.
Pop(e, a) ==
    eng' = [eng EXCEPT ![e] =
                IF eng[e].todo = {a} THEN Idle
                ELSE [eng[e] EXCEPT !.pc = "sweep", !.todo = eng[e].todo \ {a}, !.seen[a] = NoAlert]]

NotDue(e, a) ==
    /\ eng[e].pc = "sweep" /\ At(e, a)
    /\ eng[e].seen[a].next.at > eng[e].now
    /\ Pop(e, a)
    /\ UNCHANGED <<clock, readings, rows, chainThere, usr, paged>>

LeaseOf(e) == [at |-> eng[e].now + Lease, by |-> eng[e].reading]

\* The chain could not be read (gone, or the read failed), or has no tier left:
\* the alert is closed undelivered.
Exhaust(e, a) ==
    /\ Due(e, a)
    /\ \E readFails \in BOOLEAN :
           readFails \/ ~chainThere \/ eng[e].seen[a].tier >= Len(Tiers)
    /\ rows' = [rows EXCEPT ![a] =
                   AdvanceAlert(@, [eng[e].seen[a] EXCEPT !.state = "exhausted"], eng[e].seen[a].next)]
    /\ Pop(e, a)
    /\ UNCHANGED <<clock, readings, chainThere, usr, paged>>

\* The lease is taken and the engine knows it, or it lost the alert, or the
\* write took effect but its answer was an error (or a retry of it found
\* next_esc_at moved) and the engine moves on.
TakeLease(e, a) ==
    /\ Due(e, a)
    /\ chainThere
    /\ eng[e].seen[a].tier < Len(Tiers)
    /\ rows' = [rows EXCEPT ![a] =
                   AdvanceAlert(@, [eng[e].seen[a] EXCEPT !.state = "escalating", !.next = LeaseOf(e)],
                                eng[e].seen[a].next)]
    /\ \E answered \in BOOLEAN :
           IF answered /\ CanAdvance(rows[a], eng[e].seen[a].next)
           THEN eng' = [eng EXCEPT ![e].pc = "leased"]
           ELSE Pop(e, a)
    /\ UNCHANGED <<clock, readings, chainThere, usr, paged>>

\* The notifier is called; its error is only logged.
Notify(e, a) ==
    /\ eng[e].pc = "leased" /\ At(e, a)
    /\ paged' = [paged EXCEPT ![a] = @ \cup {<<eng[e].seen[a].tier, eng[e].seen[a].retries>>}]
    /\ eng' = [eng EXCEPT ![e].pc = "notified"]
    /\ UNCHANGED <<clock, readings, rows, chainThere, usr>>

\* A row's step, state and next_esc_at written anew.
Moved(row, state, tier, retries, next) ==
    [state |-> state, tier |-> tier, retries |-> retries, next |-> next, born |-> row.born]

\* The row after a notified step: the next retry, the next tier, or the end.
Advanced(row, now, reading) ==
    LET tier == Tiers[row.tier + 1]
        next(wait) == [at |-> now + wait, by |-> reading]
    IN IF row.retries + 1 < tier.maxRetries
       THEN Moved(row, "escalating", row.tier, row.retries + 1, next(Backoff(tier, row.retries + 1)))
       ELSE IF row.tier + 1 < Len(Tiers)
            THEN Moved(row, "escalating", row.tier + 1, 0, next(Tiers[row.tier + 2].wait))
            ELSE Moved(row, "exhausted", row.tier + 1, 0, next(0))

Complete_BeforeNotify(e, a) ==
    /\ eng[e].pc \in {"leased", "notified"} /\ At(e, a)
    /\ rows' = [rows EXCEPT ![a] =
                   AdvanceAlert(@, Advanced(eng[e].seen[a], eng[e].now, eng[e].reading), LeaseOf(e))]
    /\ Pop(e, a)
    /\ UNCHANGED <<clock, readings, chainThere, usr, paged>>

Complete(e, a) ==
    /\ eng[e].pc = "notified" /\ At(e, a)
    /\ rows' = [rows EXCEPT ![a] =
                   AdvanceAlert(@, Advanced(eng[e].seen[a], eng[e].now, eng[e].reading), LeaseOf(e))]
    /\ Pop(e, a)
    /\ UNCHANGED <<clock, readings, chainThere, usr, paged>>

\* A write of the step that did not take effect: the alert is left as it is.
WriteFails(e, a) ==
    /\ Due(e, a) \/ (eng[e].pc = "notified" /\ At(e, a))
    /\ Pop(e, a)
    /\ UNCHANGED <<clock, readings, rows, chainThere, usr, paged>>

\* The replica stops, or loses the lead: its sweep is gone.
Stop(e) ==
    /\ eng[e].pc # "idle"
    /\ eng' = [eng EXCEPT ![e] = Idle]
    /\ UNCHANGED <<clock, readings, rows, chainThere, usr, paged>>
-----------------------------------------------------------------------------
Next ==
    \/ \E a \in AlertIds : Trigger(a)
    \/ \E u \in Users, a \in AlertIds : Acknowledge(u, a) \/ Cancel(u, a)
    \/ \E u \in Users : WriteAlert(u)
    \/ DeleteChain
    \/ Tick
    \/ \E e \in Engines : ListAlerts(e) \/ ReadClock(e) \/ Stop(e)
    \/ \E e \in Engines, a \in AlertIds :
           \/ NotDue(e, a) \/ Exhaust(e, a) \/ TakeLease(e, a)
           \/ Notify(e, a) \/ Complete(e, a) \/ WriteFails(e, a)

Spec == Init /\ [][Next]_vars
-----------------------------------------------------------------------------
\* How often a tier is notified: a tier of maxRetries 0 still once.
Attempts(tier) == IF tier.maxRetries = 0 THEN 1 ELSE tier.maxRetries

Engine == [pc : {"idle", "listed", "sweep", "leased", "notified"},
           now : Nat, reading : Nat, todo : SUBSET AlertIds, seen : [AlertIds -> AlertRow]]

\* Every variable has its type, and a row's tier and retry are places in the
\* chain: processAlert indexes chain.Tiers by them.
InChain(row) ==
    /\ row.tier \in 0..Len(Tiers)
    /\ row.retries < IF row.tier < Len(Tiers) THEN Attempts(Tiers[row.tier + 1]) ELSE 1

TypeOK ==
    /\ clock \in Nat /\ readings \in Nat /\ chainThere \in BOOLEAN
    /\ rows \in [AlertIds -> AlertRow]
    /\ eng \in [Engines -> Engine]
    /\ usr \in [Users -> [pc : {"idle", "read"}, id : AlertIds, row : AlertRow]]
    /\ paged \in [AlertIds -> SUBSET (Nat \X Nat)]
    /\ \A a \in AlertIds : InChain(rows[a])

\* No tier and no retry is skipped: the notifier was called for every step
\* before the one an alert is at, through overlapping sweeps, lost leases,
\* failed writes and replicas that stop between the lease and the call
\* (processAlert writes a step's outcome only after notifying, and only
\* against its own lease).
NoStepSkipped ==
    \A a \in AlertIds : \A t \in 0..rows[a].tier :
        \A r \in 0..(IF t < rows[a].tier THEN Attempts(Tiers[t + 1]) ELSE rows[a].retries) - 1 :
            <<t, r>> \in paged[a]

\* Two replicas are in the middle of a step of the same alert only after a
\* lease ran out: the compare-and-set on next_esc_at keeps the others off
\* until then.
Working(e, a) == eng[e].pc \in {"leased", "notified"} /\ At(e, a)

OverlapMeansExpired ==
    \A a \in AlertIds : \A e, f \in Engines :
        (e # f /\ Working(e, a) /\ Working(f, a))
            => (clock >= LeaseOf(e).at \/ clock >= LeaseOf(f).at)

\* While an alert is open its place in the chain never moves back: a sweep
\* that works from a stale copy of the row loses its compare-and-set.
NotBefore(r, s) == r.tier > s.tier \/ (r.tier = s.tier /\ r.retries >= s.retries)

ProgressKept ==
    [][\A a \in AlertIds : IsOpen(rows[a]) /\ IsOpen(rows'[a]) => NotBefore(rows'[a], rows[a])]_vars

\* An alert is raised once and, once closed (acknowledged, cancelled or
\* exhausted), never open again, whatever sweeps and requests were under way.
Lifecycle == INSTANCE AlertLifecycle WITH Ids <- AlertIds, phase <- [a \in AlertIds |-> Phase(rows[a])]

ImplementsLifecycle == Lifecycle!Spec
=============================================================================
