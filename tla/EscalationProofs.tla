-------------------------- MODULE EscalationProofs --------------------------
(***************************************************************************)
(* The inductive invariant of Escalation, for any number of engines,       *)
(* requests and alerts, any chain, any lease, and the theorems that follow *)
(* from it.  The heart is that a value of next_esc_at never comes back     *)
(* with another content (Fresh, CopyAgrees): a stale copy of a row either  *)
(* still agrees with the row or loses its compare-and-set.                 *)
(***************************************************************************)
EXTENDS Escalation, Integers, TLAPS

SameStep(r, s) == r.tier = s.tier /\ r.retries = s.retries

Sweeping(e) == eng[e].pc \in {"sweep", "leased", "notified"}

\* Copies of rows, in sweeps and in requests, are places in the chain, and
\* belong to the row they were read from.
Copies ==
    /\ \A e \in Engines : \A a \in AlertIds : InChain(eng[e].seen[a])
    /\ \A u \in Users : InChain(usr[u].row)
    /\ \A u \in Users : usr[u].pc = "read" =>
           IsClosed(usr[u].row) /\ usr[u].row.born = rows[usr[u].id].born /\ Exists(rows[usr[u].id])
    /\ \A e \in Engines : \A a \in eng[e].todo :
           eng[e].seen[a].born = rows[a].born /\ Exists(rows[a]) /\ IsOpen(eng[e].seen[a])
    /\ \A e \in Engines : \A a \in AlertIds : Working(e, a) => eng[e].seen[a].tier < Len(Tiers)

\* created_at tells alerts apart, so a sweep is at one alert at a time.
Births ==
    /\ \A a, b \in AlertIds : Exists(rows[a]) /\ Exists(rows[b]) /\ a # b => rows[a].born # rows[b].born
    /\ \A a \in AlertIds : rows[a].born <= readings

\* Every timestamp comes from a reading that was taken, and each running sweep
\* has a reading of its own.
Stamps ==
    /\ \A a \in AlertIds : IsOpen(rows[a]) => rows[a].next.by <= readings
    /\ \A e \in Engines : \A a \in AlertIds : eng[e].seen[a].next.by <= readings
    /\ \A e \in Engines : eng[e].reading <= readings /\ eng[e].now <= clock
    /\ \A e \in Engines : Sweeping(e) => eng[e].reading > 0
    /\ \A e, f \in Engines : Sweeping(e) /\ Sweeping(f) /\ e # f => eng[e].reading # eng[f].reading

\* What a sweep has yet to do, nobody has seen done: no row or copy of an alert
\* still on its list carries its reading, but for the lease it holds.
Mine(e, a, row) ==
    row.next.by = eng[e].reading => Working(e, a) /\ row.next = LeaseOf(e) /\ SameStep(row, eng[e].seen[a])

Fresh ==
    \A e \in Engines : Sweeping(e) => \A a \in eng[e].todo :
        /\ IsOpen(rows[a]) => Mine(e, a, rows[a])
        /\ \A f \in Engines : Mine(e, a, eng[f].seen[a])

CopyAgrees ==
    \A e \in Engines : \A a \in eng[e].todo :
        IsOpen(rows[a]) /\ rows[a].next = eng[e].seen[a].next => SameStep(rows[a], eng[e].seen[a])

\* A step under way holds its lease until the lease ran out or the alert closed.
LeaseHeld ==
    \A e \in Engines : \A a \in AlertIds : Working(e, a) =>
        ~IsOpen(rows[a]) \/ rows[a].next = LeaseOf(e) \/ clock >= LeaseOf(e).at

\* The notifier was called for every step before a row's.
Covered(row, done) ==
    /\ \A t \in 0..(row.tier - 1) : \A r \in 0..(Attempts(Tiers[t + 1]) - 1) : <<t, r>> \in done
    /\ \A r \in 0..(row.retries - 1) : <<row.tier, r>> \in done

AllCovered ==
    /\ \A a \in AlertIds : Covered(rows[a], paged[a])
    /\ \A e \in Engines : \A a \in AlertIds : Covered(eng[e].seen[a], paged[a])
    /\ \A u \in Users : Covered(usr[u].row, paged[usr[u].id])
    /\ \A e \in Engines : \A a \in AlertIds :
           eng[e].pc = "notified" /\ At(e, a) => <<eng[e].seen[a].tier, eng[e].seen[a].retries>> \in paged[a]

IInv == TypeOK /\ Copies /\ Births /\ Stamps /\ Fresh /\ CopyAgrees /\ LeaseHeld
        /\ OverlapMeansExpired /\ AllCovered
-----------------------------------------------------------------------------
\* What the leaves need of the chain: a tier is a record of two naturals.
LEMMA TierType ==
    ASSUME NEW t \in Nat, t < Len(Tiers)
    PROVE  /\ Tiers[t + 1] \in [wait : Nat, maxRetries : Nat]
           /\ t + 1 \in DOMAIN Tiers
           /\ Attempts(Tiers[t + 1]) \in Nat \ {0}
<1>1. Len(Tiers) \in Nat /\ DOMAIN Tiers = 1..Len(Tiers)
  BY TiersAssumption
<1>2. t + 1 \in DOMAIN Tiers
  BY <1>1
<1>3. Tiers[t + 1] \in [wait : Nat, maxRetries : Nat]
  BY Zenon, <1>1, <1>2, TiersAssumption
<1>4. Attempts(Tiers[t + 1]) \in Nat \ {0}
  BY <1>3 DEF Attempts
<1>5. QED BY <1>2, <1>3, <1>4

LEMMA BlankType == NoAlert \in AlertRow /\ InChain(NoAlert) /\ Blank \in [AlertIds -> AlertRow]
<1>1. NoAlert \in AlertRow
  BY DEF NoAlert, AlertRow, Never, Timestamp
<1>2. InChain(NoAlert)
  <2>1. CASE 0 < Len(Tiers)
    BY <2>1, TierType DEF InChain, NoAlert
  <2>2. CASE ~(0 < Len(Tiers))
    BY <2>2, TiersAssumption DEF InChain, NoAlert
  <2>3. QED BY <2>1, <2>2
<1>3. QED BY <1>1, <1>2 DEF Blank

\* The timestamps a step writes.
LEMMA StampType ==
    ASSUME NEW now \in Nat, NEW reading \in Nat, NEW w \in Nat
    PROVE  /\ [at |-> now + w, by |-> reading] \in Timestamp
           /\ [at |-> now + w, by |-> reading].by = reading
           /\ w # Lease => [at |-> now + w, by |-> reading] # [at |-> now + Lease, by |-> reading]
BY TiersAssumption DEF Timestamp

\* The row after a notified step is again a place in the chain, later than the
\* one before, and stamped unlike the lease.
LEMMA AdvancedRow ==
    ASSUME NEW row \in AlertRow, InChain(row), row.tier < Len(Tiers),
           NEW now \in Nat, NEW reading \in Nat
    PROVE  LET new == Advanced(row, now, reading)
           IN /\ new \in AlertRow
              /\ InChain(new)
              /\ NotBefore(new, row)
              /\ new.state \in {"escalating", "exhausted"}
              /\ new.born = row.born
              /\ new.next.by = reading
              /\ IsOpen(new) => new.next # [at |-> now + Lease, by |-> reading]
<1> DEFINE tier == Tiers[row.tier + 1]
           next(wait) == [at |-> now + wait, by |-> reading]
<1>1. /\ row.tier \in Nat /\ row.retries \in Nat /\ row.retries + 1 \in Nat /\ row.tier + 1 \in Nat
      /\ tier \in [wait : Nat, maxRetries : Nat] /\ row.tier + 1 \in DOMAIN Tiers
      /\ Lease \in Nat /\ Len(Tiers) \in Nat
  BY TierType, TiersAssumption DEF AlertRow
<1>2. CASE row.retries + 1 < tier.maxRetries
  <2> DEFINE w == Backoff(tier, row.retries + 1)
             new == Moved(row, "escalating", row.tier, row.retries + 1, next(w))
  <2>1. Advanced(row, now, reading) = new
    BY <1>2 DEF Advanced
  <2>2. w \in Nat \ {Lease}
    BY SMTT(40), <1>1, <1>2, LeaseAssumption
  <2>w. next(w) \in Timestamp /\ next(w).by = reading /\ next(w) # next(Lease)
    BY <2>2, StampType
  <2> HIDE DEF w, next
  <2>o. "escalating" \in OpenStates \cup ClosedStates
    BY DEF OpenStates
  <2>3. new \in AlertRow /\ new.tier = row.tier /\ new.retries = row.retries + 1 /\ new.next = next(w)
        /\ new.born = row.born /\ new.state = "escalating"
    <3> HIDE DEF tier
    <3>1. PICK t \in Nat, k \in Nat : t = row.tier /\ k = row.retries + 1
      BY <1>1
    <3>2. new = Moved(row, "escalating", t, k, next(w))
      BY <3>1
    <3> HIDE DEF new
    <3>3. new \in AlertRow /\ new.tier = t /\ new.retries = k /\ new.next = next(w)
          /\ new.born = row.born /\ new.state = "escalating"
      BY <3>2, <2>w, <2>o DEF Moved, AlertRow
    <3>4. QED BY <3>1, <3>3
  <2> HIDE DEF new
  <2>4. InChain(new)
    BY SMTT(40), <1>1, <1>2, <2>3 DEF InChain, Attempts
  <2>5. NotBefore(new, row)
    BY <1>1, <2>3 DEF NotBefore
  <2>6. new.next.by = reading /\ new.next # next(Lease)
    BY <2>w, <2>3
  <2>7. QED BY <2>1, <2>3, <2>4, <2>5, <2>6 DEF next
<1>3. CASE ~(row.retries + 1 < tier.maxRetries) /\ row.tier + 1 < Len(Tiers)
  <2> DEFINE w == Tiers[row.tier + 2].wait
             new == Moved(row, "escalating", row.tier + 1, 0, next(w))
  <2>1. Advanced(row, now, reading) = new
    BY <1>3 DEF Advanced
  <2>2. row.tier + 2 = (row.tier + 1) + 1
    <3>1. row.tier \in Nat
      BY <1>1, Zenon
    <3> HIDE DEF tier, w, new, next
    <3>2. QED BY <3>1, SMT
  <2>3. w \in Nat \ {Lease} /\ Attempts(Tiers[(row.tier + 1) + 1]) \in Nat \ {0}
    BY Zenon, <1>1, <1>3, <2>2, LeaseAssumption, TierType
  <2>w. next(w) \in Timestamp /\ next(w).by = reading /\ next(w) # next(Lease)
    BY Zenon, <2>3, StampType
  <2> HIDE DEF w, next
  <2>o. "escalating" \in OpenStates \cup ClosedStates
    BY DEF OpenStates
  <2>4. new \in AlertRow /\ new.tier = row.tier + 1 /\ new.retries = 0 /\ new.next = next(w)
        /\ new.born = row.born /\ new.state = "escalating"
    <3> HIDE DEF tier
    <3>1. row.tier + 1 \in Nat /\ 0 \in Nat
      BY <1>1
    <3>2. QED BY <3>1, <2>w, <2>o DEF Moved, AlertRow
  <2> HIDE DEF new
  <2>5. InChain(new)
    <3>1. row.tier + 1 \in 0..Len(Tiers)
      BY <1>1, <1>3
    <3>2. 0 < Attempts(Tiers[(row.tier + 1) + 1])
      BY <2>3
    <3>3. QED BY Zenon, <1>3, <2>4, <3>1, <3>2 DEF InChain
  <2>6. NotBefore(new, row)
    BY <1>1, <2>4 DEF NotBefore
  <2>7. new.next.by = reading /\ new.next # next(Lease)
    BY <2>w, <2>4
  <2>8. QED BY <2>1, <2>4, <2>5, <2>6, <2>7 DEF next
<1>4. CASE ~(row.retries + 1 < tier.maxRetries) /\ ~(row.tier + 1 < Len(Tiers))
  <2> DEFINE new == Moved(row, "exhausted", row.tier + 1, 0, next(0))
  <2>1. Advanced(row, now, reading) = new
    BY <1>4 DEF Advanced
  <2>w. next(0) \in Timestamp /\ next(0).by = reading
    BY Zenon, StampType
  <2> HIDE DEF next
  <2>2. new \in AlertRow /\ new.tier = row.tier + 1 /\ new.retries = 0 /\ new.next.by = reading
        /\ new.born = row.born /\ new.state = "exhausted"
    BY <1>1, <2>w DEF ClosedStates, Moved, AlertRow
  <2> HIDE DEF new
  <2>3. InChain(new)
    BY <1>1, <1>4, <2>2 DEF InChain
  <2>4. NotBefore(new, row) /\ ~IsOpen(new)
    BY <1>1, <2>2 DEF NotBefore, IsOpen, OpenStates
  <2>5. QED BY <2>1, <2>2, <2>3, <2>4
<1>5. QED BY <1>2, <1>3, <1>4

LEMMA InitIInv == Init => IInv
<1> SUFFICES ASSUME Init PROVE IInv
  OBVIOUS
<1>1. NoAlert.state = "absent" /\ NoAlert.tier = 0 /\ NoAlert.retries = 0 /\ NoAlert.next.by = 0 /\ NoAlert.born = 0
  BY DEF NoAlert, Never
<1>2. NoRequest \in [pc : {"idle", "read"}, id : AlertIds, row : AlertRow] /\ NoRequest.pc = "idle"
      /\ NoRequest.row = NoAlert
  BY BlankType, IdsAssumption DEF NoRequest
<1>3. Idle \in Engine /\ Idle.pc = "idle" /\ Idle.todo = {} /\ Idle.reading = 0 /\ Idle.now = 0
      /\ \A a \in AlertIds : Idle.seen[a] = NoAlert
  BY BlankType DEF Idle, Engine, Blank
<1> HIDE DEF NoAlert
<1>4. Covered(NoAlert, {})
  BY <1>1 DEF Covered
<1>5. TypeOK
  BY <1>2, <1>3, BlankType DEF Init, TypeOK, Blank
<1>6. Copies /\ Births /\ Stamps
  BY <1>1, <1>2, <1>3, BlankType DEF Init, Copies, Births, Stamps, Sweeping, Working, Exists, Blank
<1>7. Fresh /\ CopyAgrees /\ LeaseHeld /\ OverlapMeansExpired
  BY <1>3 DEF Init, Fresh, CopyAgrees, LeaseHeld, OverlapMeansExpired, Working, Sweeping
<1>8. AllCovered
  BY <1>2, <1>3, <1>4 DEF Init, AllCovered, Blank
<1>9. QED BY <1>5, <1>6, <1>7, <1>8 DEF IInv

\* What the steps of a sweep do to the engines.
Untouched(e) == \A f \in Engines \ {e} : eng'[f] = eng[f]

LEMMA IdleType ==
    /\ Idle \in Engine /\ Idle.pc = "idle" /\ Idle.todo = {} /\ Idle.reading = 0 /\ Idle.now = 0
    /\ \A a \in AlertIds : Idle.seen[a] = NoAlert
BY BlankType DEF Idle, Engine, Blank

LEMMA NoAlertFields ==
    NoAlert.state = "absent" /\ NoAlert.tier = 0 /\ NoAlert.retries = 0 /\ NoAlert.next.by = 0 /\ NoAlert.born = 0
BY DEF NoAlert, Never

LEMMA PopStep ==
    ASSUME TypeOK, NEW e \in Engines, NEW a \in eng[e].todo, Pop(e, a)
    PROVE  /\ eng' \in [Engines -> Engine]
           /\ Untouched(e)
           /\ eng'[e].todo = eng[e].todo \ {a}
           /\ \A b \in AlertIds : eng'[e].seen[b] \in {eng[e].seen[b], NoAlert}
           /\ \A b \in eng'[e].todo : eng'[e].seen[b] = eng[e].seen[b]
           /\ eng'[e].pc \in {"idle", "sweep"}
           /\ eng'[e].pc = "sweep" => eng'[e].now = eng[e].now /\ eng'[e].reading = eng[e].reading
           /\ eng'[e].pc = "idle" => eng'[e].todo = {} /\ eng'[e].now = 0 /\ eng'[e].reading = 0
<1>1. eng \in [Engines -> Engine] /\ eng[e] \in Engine /\ a \in AlertIds
  BY DEF TypeOK, Engine
<1>2. CASE eng[e].todo = {a}
  <2>1. eng' = [eng EXCEPT ![e] = Idle]
    BY <1>2 DEF Pop
  <2> HIDE DEF Idle
  <2>2. QED BY <1>1, <1>2, <2>1, IdleType DEF Untouched
<1>3. CASE eng[e].todo # {a}
  <2> DEFINE new == [eng[e] EXCEPT !.pc = "sweep", !.todo = @ \ {a}, !.seen[a] = NoAlert]
  <2>1. eng' = [eng EXCEPT ![e] = new]
    BY <1>3 DEF Pop
  <2>2. new \in Engine /\ new.pc = "sweep" /\ new.todo = eng[e].todo \ {a} /\ new.now = eng[e].now
        /\ new.reading = eng[e].reading
    BY Zenon, <1>1, BlankType DEF Engine
  <2>3. \A b \in AlertIds : new.seen[b] = IF b = a THEN NoAlert ELSE eng[e].seen[b]
    BY <1>1 DEF Engine
  <2> HIDE DEF new
  <2>4. eng'[e] = new /\ eng' \in [Engines -> Engine]
    BY <1>1, <2>1, <2>2
  <2>5. Untouched(e)
    BY <1>1, <2>1 DEF Untouched
  <2>6. \A b \in eng[e].todo : b \in AlertIds
    BY ZenonT(40), <1>1 DEF Engine
  <2>7. QED BY <2>2, <2>3, <2>4, <2>5, <2>6
<1>4. QED BY <1>2, <1>3

\* What a sweep may write over an open row: its end, a lease, or the outcome
\* of the step whose lease it still holds.
Written(e, a, r) ==
    /\ IsOpen(rows[a]) /\ r \in AlertRow /\ InChain(r) /\ Exists(r) /\ r.born = rows[a].born
    /\ NotBefore(r, rows[a]) /\ Covered(r, paged[a]) /\ r.next.by <= readings
    /\ \/ IsClosed(r)
       \/ /\ eng[e].pc = "sweep" /\ rows[a].next = eng[e].seen[a].next /\ rows[a].next.at <= eng[e].now
          /\ r.next = LeaseOf(e) /\ SameStep(r, eng[e].seen[a])
       \/ /\ eng[e].pc = "notified" /\ rows[a].next = LeaseOf(e)
          /\ r.next.by = eng[e].reading /\ r.next # LeaseOf(e)

\* Every step of a sweep but the notification.
SweepStep(e, a) ==
    /\ Sweeping(e) /\ At(e, a)
    /\ UNCHANGED <<clock, readings, usr, paged>>
    /\ chainThere' \in BOOLEAN
    /\ \/ rows' = rows /\ Pop(e, a)
       \/ \E r \in AlertRow :
              /\ Written(e, a, r)
              /\ rows' = [rows EXCEPT ![a] = r]
              /\ \/ Pop(e, a)
                 \/ /\ eng[e].pc = "sweep" /\ r.next = LeaseOf(e) /\ IsOpen(r) /\ eng[e].seen[a].tier < Len(Tiers)
                    /\ eng' = [eng EXCEPT ![e].pc = "leased"]

LEMMA RowFacts ==
    ASSUME IInv, NEW e \in Engines, NEW a \in eng[e].todo
    PROVE  /\ a \in AlertIds /\ rows[a] \in AlertRow /\ eng[e].seen[a] \in AlertRow
           /\ InChain(rows[a]) /\ InChain(eng[e].seen[a])
           /\ Exists(rows[a]) /\ eng[e].seen[a].born = rows[a].born
           /\ Covered(rows[a], paged[a]) /\ Covered(eng[e].seen[a], paged[a])
           /\ eng[e].seen[a].next.by <= readings
           /\ rows \in [AlertIds -> AlertRow]
<1>1. eng[e] \in Engine /\ rows \in [AlertIds -> AlertRow]
  BY DEF IInv, TypeOK
<1>2. a \in AlertIds /\ eng[e].seen[a] \in AlertRow
  BY <1>1 DEF Engine
<1>3. QED BY <1>1, <1>2 DEF IInv, TypeOK, Copies, AllCovered, Stamps

LEMMA WonCopy ==
    ASSUME IInv, NEW e \in Engines, NEW a \in eng[e].todo, CanAdvance(rows[a], eng[e].seen[a].next)
    PROVE  IsOpen(rows[a]) /\ SameStep(rows[a], eng[e].seen[a])
BY DEF IInv, CopyAgrees, CanAdvance

LEMMA ExhaustStep ==
    ASSUME IInv, NEW e \in Engines, NEW a \in AlertIds, Exhaust(e, a)
    PROVE  SweepStep(e, a)
<1> DEFINE seen == eng[e].seen[a]
           r == [seen EXCEPT !.state = "exhausted"]
<1>1. a \in eng[e].todo /\ Sweeping(e) /\ At(e, a) /\ Pop(e, a) /\ UNCHANGED <<clock, readings, chainThere, usr, paged>>
  BY DEF Exhaust, Due, At, Sweeping
<1>2. rows' = [rows EXCEPT ![a] = IF CanAdvance(rows[a], seen.next) THEN r ELSE rows[a]]
  BY DEF Exhaust, AdvanceAlert
<1>3. chainThere' \in BOOLEAN
  BY <1>1 DEF IInv, TypeOK
<1>4. seen \in AlertRow
  BY <1>1, RowFacts
<1>5. r \in AlertRow /\ r.state = "exhausted" /\ r.tier = seen.tier /\ r.retries = seen.retries /\ r.next = seen.next
      /\ r.born = seen.born
  BY <1>4 DEF AlertRow, ClosedStates
<1> HIDE DEF r, seen
<1>6. CASE CanAdvance(rows[a], seen.next)
  <2>1. IsOpen(rows[a]) /\ SameStep(rows[a], seen)
    BY <1>1, <1>6, WonCopy DEF seen
  <2>2. seen.tier \in Nat /\ seen.retries \in Nat
    BY <1>4 DEF AlertRow
  <2>3. IsClosed(r) /\ Exists(r)
    BY <1>5 DEF IsClosed, ClosedStates, Exists
  <2>4. InChain(r) /\ Covered(r, paged[a]) /\ r.next.by <= readings /\ r.born = rows[a].born
    BY ZenonT(40), <1>1, <1>5, RowFacts DEF InChain, Covered, seen
  <2>5. NotBefore(r, rows[a])
    BY <1>5, <2>1, <2>2 DEF NotBefore, SameStep
  <2>6. Written(e, a, r)
    BY <1>5, <2>1, <2>3, <2>4, <2>5 DEF Written
  <2>7. rows' = [rows EXCEPT ![a] = r]
    BY <1>2, <1>6
  <2>8. QED BY Zenon, <1>1, <1>3, <1>5, <2>6, <2>7 DEF SweepStep
<1>7. CASE ~CanAdvance(rows[a], seen.next)
  <2>1. rows' = rows
    BY <1>1, <1>2, <1>7, RowFacts
  <2>2. QED BY <1>1, <1>3, <2>1 DEF SweepStep
<1>8. QED BY <1>6, <1>7

LEMMA LeaseType ==
    ASSUME IInv, NEW e \in Engines
    PROVE  /\ LeaseOf(e) \in Timestamp /\ LeaseOf(e).by = eng[e].reading /\ LeaseOf(e).at = eng[e].now + Lease
           /\ eng[e].reading <= readings /\ eng[e].reading \in Nat /\ eng[e].now \in Nat /\ eng[e].now <= clock
<1>1. eng[e] \in Engine
  BY DEF IInv, TypeOK
<1>2. eng[e].now \in Nat /\ eng[e].reading \in Nat /\ Lease \in Nat /\ eng[e].now + Lease \in Nat
  BY <1>1, TiersAssumption DEF Engine
<1>3. QED BY <1>2 DEF LeaseOf, Timestamp, IInv, Stamps

LEMMA TakeLeaseStep ==
    ASSUME IInv, NEW e \in Engines, NEW a \in AlertIds, TakeLease(e, a)
    PROVE  SweepStep(e, a)
<1> DEFINE seen == eng[e].seen[a]
           r == [seen EXCEPT !.state = "escalating", !.next = LeaseOf(e)]
<1>1. a \in eng[e].todo /\ Sweeping(e) /\ At(e, a) /\ eng[e].pc = "sweep" /\ seen.next.at <= eng[e].now
      /\ UNCHANGED <<clock, readings, chainThere, usr, paged>>
  BY DEF TakeLease, Due, At, Sweeping
<1>2. rows' = [rows EXCEPT ![a] = IF CanAdvance(rows[a], seen.next) THEN r ELSE rows[a]]
  BY DEF TakeLease, AdvanceAlert
<1>3. chainThere' \in BOOLEAN
  BY <1>1 DEF IInv, TypeOK
<1>4. seen \in AlertRow
  BY <1>1, RowFacts
<1>5. r \in AlertRow /\ r.state = "escalating" /\ r.tier = seen.tier /\ r.retries = seen.retries /\ r.next = LeaseOf(e)
      /\ r.born = seen.born
  BY Zenon, <1>4, LeaseType DEF AlertRow, OpenStates
<1> HIDE DEF r, seen
<1>6. CASE CanAdvance(rows[a], seen.next)
  <2>1. IsOpen(rows[a]) /\ SameStep(rows[a], seen) /\ rows[a].next = seen.next
    BY <1>1, <1>6, WonCopy DEF seen, CanAdvance
  <2>2. seen.tier \in Nat /\ seen.retries \in Nat
    BY <1>4 DEF AlertRow
  <2>3. Exists(r) /\ IsOpen(r)
    BY <1>5 DEF Exists, IsOpen, OpenStates
  <2>4. InChain(r) /\ Covered(r, paged[a]) /\ r.born = rows[a].born
    BY Zenon, <1>1, <1>5, RowFacts DEF InChain, Covered, seen
  <2>n. r.next.by <= readings
    BY <1>5, LeaseType
  <2>5. NotBefore(r, rows[a])
    BY <1>5, <2>1, <2>2 DEF NotBefore, SameStep
  <2>s. SameStep(r, eng[e].seen[a])
    BY <1>5 DEF SameStep, seen
  <2>6. Written(e, a, r)
    BY Zenon, <1>1, <1>5, <2>1, <2>3, <2>4, <2>5, <2>n, <2>s DEF Written, seen
  <2>7. rows' = [rows EXCEPT ![a] = r]
    BY <1>2, <1>6
  <2>8. Pop(e, a) \/ (eng[e].seen[a].tier < Len(Tiers) /\ eng' = [eng EXCEPT ![e].pc = "leased"])
    BY DEF TakeLease
  <2>9. QED BY Zenon, <1>1, <1>3, <1>5, <2>3, <2>6, <2>7, <2>8 DEF SweepStep
<1>7. CASE ~CanAdvance(rows[a], seen.next)
  <2>1. rows' = rows
    BY <1>1, <1>2, <1>7, RowFacts
  <2>2. Pop(e, a)
    BY <1>7 DEF TakeLease, seen
  <2>3. QED BY <1>1, <1>3, <2>1, <2>2 DEF SweepStep
<1>8. QED BY <1>6, <1>7

\* One more call of the notifier covers the step it was made for.
LEMMA CoveredNext ==
    ASSUME NEW row \in AlertRow, InChain(row), row.tier < Len(Tiers), NEW done,
           Covered(row, done), <<row.tier, row.retries>> \in done,
           NEW now \in Nat, NEW reading \in Nat
    PROVE  Covered(Advanced(row, now, reading), done)
<1> DEFINE tier == Tiers[row.tier + 1]
           new == Advanced(row, now, reading)
<1>1. /\ row.tier \in Nat /\ row.retries \in Nat /\ tier \in [wait : Nat, maxRetries : Nat]
      /\ Attempts(tier) \in Nat \ {0} /\ row.retries < Attempts(tier)
  BY TierType DEF AlertRow, InChain
<1>2. \/ row.retries + 1 < tier.maxRetries /\ new.tier = row.tier /\ new.retries = row.retries + 1
      \/ ~(row.retries + 1 < tier.maxRetries) /\ new.tier = row.tier + 1 /\ new.retries = 0
  BY DEF Advanced, Moved
<1>3. ~(row.retries + 1 < tier.maxRetries) => Attempts(tier) = row.retries + 1
  BY SMTT(40), <1>1 DEF Attempts
<1> SUFFICES Covered(new, done)
  OBVIOUS
<1> HIDE DEF new
<1>4. \A t \in 0..(row.tier - 1) : \A r \in 0..(Attempts(Tiers[t + 1]) - 1) : <<t, r>> \in done
  BY Zenon DEF Covered
<1>5. \A r \in 0..row.retries : <<row.tier, r>> \in done
  <2>1. TAKE r \in 0..row.retries
  <2>2. r \in 0..(row.retries - 1) \/ r = row.retries
    BY <1>1
  <2>3. QED BY <2>2 DEF Covered
<1>6. CASE row.retries + 1 < tier.maxRetries
  <2>1. new.retries - 1 = row.retries /\ new.tier = row.tier
    <3>1. new.retries = row.retries + 1 /\ new.tier = row.tier
      BY <1>2, <1>6, Zenon
    <3>2. row.retries \in Nat
      BY <1>1, Zenon
    <3> HIDE DEF tier
    <3>3. (row.retries + 1) - 1 = row.retries
      BY <3>2, SMT
    <3>4. QED BY <3>1, <3>3, Zenon
  <2>2. QED BY <1>4, <1>5, <2>1 DEF Covered
<1>7. CASE ~(row.retries + 1 < tier.maxRetries)
  <2>1. Attempts(tier) - 1 = row.retries /\ new.tier - 1 = row.tier /\ new.retries - 1 = -1 /\ 0..-1 = {}
    <3>1. Attempts(tier) = row.retries + 1 /\ new.tier = row.tier + 1 /\ new.retries = 0
      BY Zenon, <1>2, <1>3, <1>7
    <3>2. 0 - 1 = -1 /\ 0..-1 = {}
      BY SMT
    <3>3. (row.retries + 1) - 1 = row.retries /\ (row.tier + 1) - 1 = row.tier
      <4>1. row.tier \in Nat /\ row.retries \in Nat
        BY <1>1
      <4> HIDE DEF tier
      <4>2. QED BY <4>1
    <3>4. QED BY <3>1, <3>2, <3>3, Zenon
  <2>2. \A t \in 0..row.tier : \A r \in 0..(Attempts(Tiers[t + 1]) - 1) : <<t, r>> \in done
    <3>1. SUFFICES ASSUME NEW t \in 0..row.tier
                   PROVE  \A r \in 0..(Attempts(Tiers[t + 1]) - 1) : <<t, r>> \in done
      BY Zenon
    <3>2. t \in 0..(row.tier - 1) \/ t = row.tier
      <4>1. row.tier \in Nat
        BY <1>1, Zenon
      <4> HIDE DEF tier
      <4>2. QED BY <4>1, SMT
    <3>3. QED BY <1>4, <1>5, <2>1, <3>2
  <2>3. QED BY <2>1, <2>2 DEF Covered
<1>8. QED BY <1>6, <1>7

LEMMA CompleteStep ==
    ASSUME IInv, NEW e \in Engines, NEW a \in AlertIds, Complete(e, a)
    PROVE  SweepStep(e, a)
<1> DEFINE seen == eng[e].seen[a]
           r == Advanced(seen, eng[e].now, eng[e].reading)
<1>1. a \in eng[e].todo /\ Sweeping(e) /\ At(e, a) /\ eng[e].pc = "notified" /\ Working(e, a) /\ Pop(e, a)
      /\ UNCHANGED <<clock, readings, chainThere, usr, paged>>
  BY Zenon DEF Complete, At, Sweeping, Working
<1>2. rows' = [rows EXCEPT ![a] = IF CanAdvance(rows[a], LeaseOf(e)) THEN r ELSE rows[a]]
  BY DEF Complete, AdvanceAlert
<1>3. chainThere' \in BOOLEAN
  BY <1>1 DEF IInv, TypeOK
<1>4. seen \in AlertRow /\ InChain(seen) /\ seen.tier < Len(Tiers) /\ Covered(seen, paged[a])
      /\ <<seen.tier, seen.retries>> \in paged[a]
  BY Zenon, <1>1, RowFacts DEF IInv, Copies, AllCovered
<1>5. eng[e].now \in Nat /\ eng[e].reading \in Nat
  BY Zenon, LeaseType
<1> HIDE DEF seen
<1>6. /\ r \in AlertRow /\ InChain(r) /\ NotBefore(r, seen) /\ r.state \in {"escalating", "exhausted"}
      /\ r.born = seen.born /\ r.next.by = eng[e].reading /\ (IsOpen(r) => r.next # LeaseOf(e))
  BY <1>4, <1>5, AdvancedRow DEF LeaseOf
<1>7. Covered(r, paged[a])
  BY <1>4, <1>5, CoveredNext
<1> HIDE DEF r
<1>8. CASE CanAdvance(rows[a], LeaseOf(e))
  <2>1. IsOpen(rows[a]) /\ rows[a].next = LeaseOf(e) /\ rows[a].next.by = eng[e].reading
    BY Zenon, <1>8, LeaseType DEF CanAdvance
  <2>2. SameStep(rows[a], seen)
    BY <1>1, <2>1 DEF IInv, Fresh, Mine, seen
  <2>3. NotBefore(r, rows[a])
    BY <1>6, <2>2 DEF NotBefore, SameStep
  <2>4. Exists(r) /\ (IsClosed(r) \/ IsOpen(r))
    BY <1>6 DEF IsClosed, ClosedStates, IsOpen, OpenStates, Exists
  <2>5. r.next.by <= readings /\ r.born = rows[a].born
    BY Zenon, <1>1, <1>6, LeaseType, RowFacts DEF seen
  <2>6. Written(e, a, r)
    BY Zenon, <1>1, <1>6, <1>7, <2>1, <2>3, <2>4, <2>5 DEF Written
  <2>7. rows' = [rows EXCEPT ![a] = r]
    BY <1>2, <1>8
  <2>8. QED BY Zenon, <1>1, <1>3, <1>6, <2>6, <2>7 DEF SweepStep
<1>9. CASE ~CanAdvance(rows[a], LeaseOf(e))
  <2>1. rows' = rows
    BY <1>1, <1>2, <1>9, RowFacts
  <2>2. QED BY ZenonT(40), <1>1, <1>3, <2>1 DEF SweepStep
<1>10. QED BY <1>8, <1>9

LEMMA SkipStep ==
    ASSUME IInv, NEW e \in Engines, NEW a \in AlertIds, NotDue(e, a) \/ WriteFails(e, a)
    PROVE  SweepStep(e, a)
BY DEF IInv, TypeOK, NotDue, WriteFails, Due, SweepStep, Sweeping

\* A sweep is at one alert at a time.
LEMMA AtUnique ==
    ASSUME IInv, NEW e \in Engines, NEW a, NEW b, At(e, a), At(e, b)
    PROVE  a = b
<1>1. eng[e] \in Engine /\ a \in eng[e].todo /\ b \in eng[e].todo
  BY DEF At, IInv, TypeOK
<1>2. a \in AlertIds /\ b \in AlertIds
  BY <1>1 DEF Engine
<1>3. eng[e].seen[a].born <= eng[e].seen[b].born /\ eng[e].seen[b].born <= eng[e].seen[a].born
  BY <1>1 DEF At
<1>4. rows[a].born <= rows[b].born /\ rows[b].born <= rows[a].born /\ Exists(rows[a]) /\ Exists(rows[b])
  BY <1>1, <1>3 DEF IInv, Copies
<1>5. rows[a].born \in Nat /\ rows[b].born \in Nat
  BY <1>2 DEF IInv, TypeOK, AlertRow
<1>6. rows[a].born = rows[b].born
  BY <1>4, <1>5
<1>7. QED BY <1>2, <1>4, <1>6 DEF IInv, Births

\* A sweep step in terms of what rows and engines hold after it.
Popped(e, a) ==
    /\ eng'[e].todo = eng[e].todo \ {a} /\ eng'[e].pc \in {"idle", "sweep"}
    /\ eng'[e].pc = "idle" => eng'[e].todo = {} /\ eng'[e].now = 0 /\ eng'[e].reading = 0

Leased(e, a) ==
    /\ eng[e].pc = "sweep" /\ eng'[e].pc = "leased" /\ eng'[e].todo = eng[e].todo
    /\ Written(e, a, rows'[a]) /\ rows'[a].next = LeaseOf(e) /\ IsOpen(rows'[a]) /\ eng[e].seen[a].tier < Len(Tiers)

SweepFacts(e, a) ==
    /\ a \in AlertIds /\ a \in eng[e].todo
    /\ rows' \in [AlertIds -> AlertRow] /\ eng' \in [Engines -> Engine]
    /\ \A b \in AlertIds \ {a} : rows'[b] = rows[b]
    /\ rows'[a] = rows[a] \/ Written(e, a, rows'[a])
    /\ Untouched(e)
    /\ \A b \in AlertIds : eng'[e].seen[b] \in {eng[e].seen[b], NoAlert}
    /\ \A b \in eng'[e].todo : eng'[e].seen[b] = eng[e].seen[b]
    /\ eng'[e].pc # "idle" => eng'[e].now = eng[e].now /\ eng'[e].reading = eng[e].reading
    /\ Popped(e, a) \/ Leased(e, a)

LEMMA SweepStepFacts ==
    ASSUME IInv, NEW e \in Engines, NEW a \in AlertIds, SweepStep(e, a)
    PROVE  SweepFacts(e, a)
<1>1. a \in eng[e].todo
  BY DEF SweepStep, At
<1>2. rows \in [AlertIds -> AlertRow] /\ eng \in [Engines -> Engine] /\ TypeOK
  BY DEF IInv, TypeOK
<1>3. /\ rows' \in [AlertIds -> AlertRow]
      /\ \A b \in AlertIds \ {a} : rows'[b] = rows[b]
      /\ rows'[a] = rows[a] \/ Written(e, a, rows'[a])
  BY <1>2 DEF SweepStep
<1>4. CASE Pop(e, a)
  BY ZenonT(40), <1>1, <1>2, <1>3, <1>4, PopStep DEF SweepFacts, Popped
<1>5. CASE ~Pop(e, a)
  <2>1. PICK r \in AlertRow : /\ Written(e, a, r) /\ rows' = [rows EXCEPT ![a] = r]
                              /\ eng[e].pc = "sweep" /\ r.next = LeaseOf(e) /\ IsOpen(r) /\ eng[e].seen[a].tier < Len(Tiers)
                              /\ eng' = [eng EXCEPT ![e].pc = "leased"]
    BY <1>5 DEF SweepStep
  <2>2. rows'[a] = r
    BY <1>2, <2>1
  <2>3. /\ eng' \in [Engines -> Engine] /\ Untouched(e) /\ eng'[e].pc = "leased"
        /\ eng'[e].todo = eng[e].todo /\ eng'[e].seen = eng[e].seen /\ eng'[e].now = eng[e].now
        /\ eng'[e].reading = eng[e].reading
    BY Zenon, <1>2, <2>1 DEF Engine, Untouched
  <2>4. Leased(e, a)
    BY <2>1, <2>2, <2>3 DEF Leased
  <2>5. QED BY <1>1, <1>3, <2>3, <2>4 DEF SweepFacts
<1>6. QED BY <1>4, <1>5

LEMMA SweepRows ==
    ASSUME IInv, NEW e \in Engines, NEW a \in AlertIds, SweepFacts(e, a), NEW b \in AlertIds, UNCHANGED <<readings, paged>>
    PROVE  /\ rows'[b].born = rows[b].born /\ (Exists(rows'[b]) <=> Exists(rows[b])) /\ InChain(rows'[b])
           /\ (IsOpen(rows'[b]) => rows'[b].next.by <= readings) /\ Covered(rows'[b], paged[b])
           /\ IsOpen(rows'[b]) => IsOpen(rows[b])
           /\ (IsOpen(rows'[b]) /\ rows'[b] # rows[b]) => b = a /\ rows'[b].next.by = eng[e].reading
<1>1. CASE rows'[b] = rows[b]
  BY Zenon, <1>1 DEF IInv, TypeOK, AllCovered, Stamps
<1>2. CASE rows'[b] # rows[b]
  <2>1. b = a /\ Written(e, a, rows'[b])
    BY <1>2 DEF SweepFacts
  <2>2. IsOpen(rows[b]) => Exists(rows[b])
    BY DEF IsOpen, Exists, OpenStates
  <2>3. IsClosed(rows'[b]) => ~IsOpen(rows'[b])
    BY DEF IsOpen, IsClosed, OpenStates, ClosedStates
  <2>4. QED BY ZenonT(40), <2>1, <2>2, <2>3, LeaseType DEF Written
<1>3. QED BY Zenon, <1>1, <1>2

LEMMA SweepTypeOK ==
    ASSUME IInv, NEW e \in Engines, NEW a \in AlertIds, SweepStep(e, a)
    PROVE  TypeOK'
<1>1. SweepFacts(e, a) /\ UNCHANGED <<clock, readings, usr, paged>> /\ chainThere' \in BOOLEAN
  BY SweepStepFacts DEF SweepStep
<1>2. \A b \in AlertIds : InChain(rows'[b])
  BY Zenon, <1>1, SweepRows
<1>3. QED BY Zenon, <1>1, <1>2 DEF IInv, TypeOK, SweepFacts, InChain

LEMMA SweepWorking ==
    ASSUME IInv, NEW e \in Engines, NEW a \in AlertIds, SweepStep(e, a), NEW g \in Engines, NEW b \in AlertIds
    PROVE  /\ Working(g, b)' => (g # e /\ Working(g, b)) \/ (g = e /\ b = a /\ Leased(e, a))
           /\ g # e => (Working(g, b)' <=> Working(g, b)) /\ (At(g, b)' <=> At(g, b))
           /\ Leased(e, a) => Working(e, a)'
           /\ Sweeping(g)' => Sweeping(g) /\ LeaseOf(g)' = LeaseOf(g) /\ eng'[g].reading = eng[g].reading
<1>1. SweepFacts(e, a) /\ At(e, a) /\ Sweeping(e)
  BY SweepStepFacts DEF SweepStep
<1>2. CASE g # e
  <2>1. eng'[g] = eng[g]
    BY <1>1, <1>2 DEF SweepFacts, Untouched
  <2>2. (Working(g, b)' <=> Working(g, b)) /\ (At(g, b)' <=> At(g, b)) /\ (Sweeping(g)' <=> Sweeping(g))
        /\ LeaseOf(g)' = LeaseOf(g)
    BY <2>1 DEF Working, At, Sweeping, LeaseOf
  <2>3. Leased(e, a) => Working(e, a)'
    BY Zenon, <1>1 DEF Leased, SweepFacts, Working, At
  <2>4. QED BY Zenon, <1>2, <2>1, <2>2, <2>3
<1>3. CASE g = e
  <2>1. eng'[e].pc # "idle" => eng'[e].now = eng[e].now /\ eng'[e].reading = eng[e].reading
    BY Zenon, <1>1 DEF SweepFacts
  <2>2. Sweeping(e)' => LeaseOf(e)' = LeaseOf(e) /\ eng'[e].reading = eng[e].reading
    BY Zenon, <2>1 DEF Sweeping, LeaseOf
  <2>3. Leased(e, a) => Working(e, a)'
    BY Zenon, <1>1 DEF Leased, SweepFacts, Working, At
  <2>4. CASE Popped(e, a)
    <3>1. ~Working(e, b)'
      BY Zenon, <2>4 DEF Popped, Working
    <3>2. QED BY Zenon, <1>1, <1>3, <2>2, <2>3, <3>1
  <2>5. CASE Leased(e, a)
    <3>1. At(e, b)' => At(e, b)
      BY Zenon, <1>1, <2>5 DEF At, Leased, SweepFacts
    <3>2. At(e, b)' => b = a
      BY <1>1, <3>1, AtUnique
    <3>3. QED BY Zenon, <1>1, <1>3, <2>2, <2>3, <2>5, <3>2 DEF Working
  <2>6. QED BY Zenon, <1>1, <2>4, <2>5 DEF SweepFacts
<1>4. QED BY Zenon, <1>2, <1>3

LEMMA SweepCopies ==
    ASSUME IInv, NEW e \in Engines, NEW a \in AlertIds, SweepStep(e, a)
    PROVE  Copies' /\ Births' /\ Stamps'
<1>1. SweepFacts(e, a) /\ UNCHANGED <<clock, readings, usr, paged>> /\ Sweeping(e)
  BY SweepStepFacts DEF SweepStep
<1>2. \A b \in AlertIds : /\ rows'[b].born = rows[b].born /\ (Exists(rows'[b]) <=> Exists(rows[b]))
                          /\ (IsOpen(rows'[b]) => rows'[b].next.by <= readings)
  BY Zenon, <1>1, SweepRows
<1>3. \A g \in Engines, b \in AlertIds : eng'[g].seen[b] = eng[g].seen[b] \/ eng'[g].seen[b] = NoAlert
  BY Zenon, <1>1 DEF SweepFacts, Untouched
<1>4. \A g \in Engines : eng'[g].todo \subseteq eng[g].todo /\ \A b \in eng'[g].todo : eng'[g].seen[b] = eng[g].seen[b]
  BY Zenon, <1>1 DEF SweepFacts, Untouched, Popped, Leased
<1>5. \A g \in Engines : \A b \in eng[g].todo : b \in AlertIds
  BY DEF IInv, TypeOK, Engine
<1>6. \A u \in Users : usr[u].id \in AlertIds
  BY DEF IInv, TypeOK
<1>7. Births'
  BY Zenon, <1>1, <1>2 DEF IInv, Births
<1>8. Copies'
  <2>1. \A g \in Engines : \A b \in AlertIds : InChain(eng'[g].seen[b])
    BY Zenon, <1>3, BlankType DEF IInv, Copies
  <2>2. \A u \in Users : InChain(usr'[u].row)
    BY Zenon, <1>1 DEF IInv, Copies
  <2>3. \A u \in Users : usr'[u].pc = "read" =>
           IsClosed(usr'[u].row) /\ usr'[u].row.born = rows'[usr'[u].id].born /\ Exists(rows'[usr'[u].id])
    BY Zenon, <1>1, <1>2, <1>6 DEF IInv, Copies
  <2>4. \A g \in Engines : \A b \in eng'[g].todo :
           eng'[g].seen[b].born = rows'[b].born /\ Exists(rows'[b]) /\ IsOpen(eng'[g].seen[b])
    BY <1>2, <1>4, <1>5 DEF IInv, Copies
  <2>5. \A g \in Engines : \A b \in AlertIds : Working(g, b)' => eng'[g].seen[b].tier < Len(Tiers)
    <3>1. TAKE g \in Engines
    <3>2. TAKE b \in AlertIds
    <3>3. HAVE Working(g, b)'
    <3>4. eng'[g].seen[b] = eng[g].seen[b]
      BY Zenon, <1>4, <3>3 DEF Working, At
    <3>5. CASE g # e
      BY Zenon, <3>3, <3>4, <3>5, SweepWorking DEF IInv, Copies
    <3>6. CASE g = e
      <4>1. b = a /\ Leased(e, a)
        BY Zenon, <3>3, <3>6, SweepWorking
      <4>2. QED BY Zenon, <3>4, <3>6, <4>1 DEF Leased
    <3>7. QED BY <3>5, <3>6
  <2>6. QED BY Zenon, <2>1, <2>2, <2>3, <2>4, <2>5 DEF Copies, InChain, IsClosed, IsOpen, Exists
<1>9. Stamps'
  <2>1. \A g \in Engines : \A b \in AlertIds : eng'[g].seen[b].next.by <= readings
    <3>1. NoAlert.next.by <= readings
      BY NoAlertFields DEF IInv, TypeOK
    <3>2. QED BY Zenon, <1>3, <3>1 DEF IInv, Stamps
  <2>2. \A g \in Engines : eng'[g].reading <= readings /\ eng'[g].now <= clock
    <3>1. \A g \in Engines : \/ eng'[g].reading = eng[g].reading /\ eng'[g].now = eng[g].now
                             \/ eng'[g].reading = 0 /\ eng'[g].now = 0
      BY Zenon, <1>1 DEF SweepFacts, Untouched, Popped, Leased
    <3>2. 0 <= readings /\ 0 <= clock
      BY SMTT(40) DEF IInv, TypeOK
    <3>3. QED BY Zenon, <3>1, <3>2 DEF IInv, Stamps
  <2>3. \A g \in Engines : Sweeping(g)' => Sweeping(g) /\ eng'[g].reading = eng[g].reading
    BY SweepWorking, IdsAssumption
  <2>4. QED BY ZenonT(40), <1>1, <1>2, <2>1, <2>2, <2>3 DEF IInv, Stamps
<1>10. QED BY <1>7, <1>8, <1>9

LEMMA SweepFresh ==
    ASSUME IInv, NEW e \in Engines, NEW a \in AlertIds, SweepStep(e, a)
    PROVE  Fresh' /\ CopyAgrees'
<1>1. SweepFacts(e, a) /\ UNCHANGED <<clock, readings, usr, paged>> /\ Sweeping(e) /\ At(e, a) /\ a \in eng[e].todo
  BY Zenon, SweepStepFacts DEF SweepStep, SweepFacts
<1>2. \A g \in Engines : eng'[g].todo \subseteq eng[g].todo /\ \A b \in eng'[g].todo : eng'[g].seen[b] = eng[g].seen[b]
  BY ZenonT(40), <1>1 DEF SweepFacts, Untouched, Popped, Leased
<1>3. \A g \in Engines, b \in AlertIds : eng'[g].seen[b] = eng[g].seen[b] \/ eng'[g].seen[b] = NoAlert
  BY <1>1 DEF SweepFacts, Untouched
<1>4. \A g \in Engines : \A b \in eng[g].todo : b \in AlertIds
  BY DEF IInv, TypeOK, Engine
<1>5. ASSUME NEW g \in Engines, Sweeping(g)', NEW b \in eng'[g].todo
      PROVE  /\ IsOpen(rows'[b]) => Mine(g, b, rows[b])'
             /\ \A f \in Engines : Mine(g, b, eng[f].seen[b])'
  <2>1. b \in AlertIds /\ b \in eng[g].todo /\ Sweeping(g) /\ LeaseOf(g)' = LeaseOf(g)
        /\ eng'[g].reading = eng[g].reading /\ eng'[g].seen[b] = eng[g].seen[b] /\ eng[g].reading > 0
    BY ZenonT(40), <1>2, <1>4, <1>5, SweepWorking DEF IInv, Stamps
  <2>2. /\ IsOpen(rows[b]) => Mine(g, b, rows[b])
        /\ \A f \in Engines : Mine(g, b, eng[f].seen[b])
    BY <2>1 DEF IInv, Fresh
  <2>3. Working(g, b) => Working(g, b)'
    <3>1. CASE g # e
      BY <2>1, <3>1, SweepWorking
    <3>2. CASE g = e /\ b # a
      BY Zenon, <1>1, <3>2, AtUnique DEF Working
    <3>3. CASE g = e /\ b = a
      <4>1. Popped(e, a) \/ Leased(e, a)
        BY ZenonT(40), <1>1 DEF SweepFacts
      <4>2. ~Popped(e, a)
        BY ZenonT(40), <1>5, <3>3 DEF Popped
      <4>3. Leased(e, a) => Working(e, a)'
        BY ZenonT(40), SweepWorking
      <4>4. QED BY <3>3, <4>1, <4>2, <4>3
    <3>4. QED BY ZenonT(40), <3>1, <3>2, <3>3
  <2>4. ASSUME NEW r, Mine(g, b, r) PROVE (r.next.by = eng'[g].reading =>
              Working(g, b)' /\ r.next = LeaseOf(g)' /\ SameStep(r, eng'[g].seen[b]))
    BY Zenon, <2>1, <2>3, <2>4 DEF Mine
  <2>5. IsOpen(rows'[b]) => Mine(g, b, rows[b])'
    <3>1. HAVE IsOpen(rows'[b])
    <3>2. CASE rows'[b] = rows[b]
      BY <2>2, <2>4, <3>1, <3>2 DEF Mine
    <3>3. CASE rows'[b] # rows[b]
      <4>0. b = a /\ Written(e, a, rows'[a])
        BY Zenon, <1>1, <2>1, <3>3 DEF SweepFacts
      <4>r. rows'[b].next.by = eng[e].reading
        BY Zenon, <1>1, <3>1, <3>3, <4>0, SweepRows
      <4>1. b = a /\ rows'[b].next.by = eng[e].reading /\ Written(e, a, rows'[a])
        BY ZenonT(40), <4>0, <4>r
      <4>2. CASE g # e
        <5>1. eng[g].reading # eng[e].reading
          BY ZenonT(40), <1>1, <2>1, <4>2 DEF IInv, Stamps
        <5>2. QED BY <2>1, <4>1, <5>1 DEF Mine
      <4>3. CASE g = e
        <5>1. Leased(e, a)
          BY ZenonT(40), <1>1, <1>5, <4>1, <4>3 DEF SweepFacts, Popped
        <5>2. ~IsClosed(rows'[a])
          BY <3>1, <4>1 DEF IsOpen, IsClosed, OpenStates, ClosedStates
        <5>3. rows'[a].next = LeaseOf(e) /\ SameStep(rows'[a], eng[e].seen[a])
          BY Zenon, <4>1, <5>1, <5>2 DEF Leased, Written
        <5>4. QED BY <2>1, <4>1, <4>3, <5>1, <5>3, SweepWorking DEF Mine, SameStep
      <4>4. QED BY <4>2, <4>3
    <3>4. QED BY Zenon, <3>2, <3>3
  <2>6. ASSUME NEW f \in Engines PROVE Mine(g, b, eng[f].seen[b])'
    <3>1. CASE eng'[f].seen[b] = eng[f].seen[b]
      BY Zenon, <2>2, <2>4, <3>1 DEF Mine
    <3>2. CASE eng'[f].seen[b] = NoAlert
      BY SMTT(40), <2>1, <3>2, NoAlertFields DEF Mine
    <3>3. QED BY <1>3, <2>1, <3>1, <3>2
  <2>7. QED BY Zenon, <2>5, <2>6
<1>6. Fresh'
  BY <1>5 DEF Fresh, IsOpen
<1>7. ASSUME NEW g \in Engines, NEW b \in eng'[g].todo, IsOpen(rows'[b]), rows'[b].next = eng'[g].seen[b].next
      PROVE  SameStep(rows'[b], eng'[g].seen[b])
  <2>1. b \in AlertIds /\ b \in eng[g].todo /\ eng'[g].seen[b] = eng[g].seen[b]
    BY <1>2, <1>4, <1>7
  <2>2. CASE rows'[b] = rows[b]
    BY <1>7, <2>1, <2>2 DEF IInv, CopyAgrees
  <2>3. CASE rows'[b] # rows[b]
    <3>0. b = a /\ Written(e, a, rows'[a])
      BY Zenon, <1>1, <2>1, <2>3 DEF SweepFacts
    <3>1. rows'[a].next.by = eng[e].reading
      BY Zenon, <1>1, <1>7, <2>3, <3>0, SweepRows
    <3>2. Working(e, a) /\ eng[g].seen[a].next = LeaseOf(e)
      BY ZenonT(40), <1>1, <1>7, <2>1, <3>0, <3>1 DEF IInv, Fresh, Mine
    <3>3. rows'[a].next # LeaseOf(e)
      <4>1. ~IsClosed(rows'[a])
        BY <1>7, <3>0 DEF IsOpen, IsClosed, OpenStates, ClosedStates
      <4>2. QED BY Zenon, <3>0, <3>2, <4>1 DEF Written, Working
    <3>4. QED BY Zenon, <1>7, <2>1, <3>0, <3>2, <3>3
  <2>4. QED BY <2>2, <2>3
<1>8. CopyAgrees'
  BY <1>7 DEF CopyAgrees, IsOpen, SameStep
<1>9. QED BY <1>6, <1>8

LEMMA SweepLeases ==
    ASSUME IInv, NEW e \in Engines, NEW a \in AlertIds, SweepStep(e, a)
    PROVE  LeaseHeld' /\ OverlapMeansExpired'
<1>1. SweepFacts(e, a) /\ UNCHANGED <<clock, readings, usr, paged>> /\ Sweeping(e)
  BY SweepStepFacts DEF SweepStep
<1>2. \A g \in Engines, b \in AlertIds : Working(g, b)' => LeaseOf(g)' = LeaseOf(g)
  BY Zenon, SweepWorking DEF Working, Sweeping
<1>3. ASSUME NEW g \in Engines, g # e, Working(g, a), IsOpen(rows'[a]), rows'[a] # rows[a]
      PROVE  clock >= LeaseOf(g).at
  <2>1. ~IsOpen(rows[a]) \/ rows[a].next = LeaseOf(g) \/ clock >= LeaseOf(g).at
    BY Zenon, <1>3 DEF IInv, LeaseHeld
  <2>2. Written(e, a, rows'[a]) /\ ~IsClosed(rows'[a])
    BY ZenonT(40), <1>1, <1>3 DEF SweepFacts, IsOpen, IsClosed, OpenStates, ClosedStates
  <2>3. CASE rows[a].next.at <= eng[e].now
    <3>1. eng[e].now \in Nat /\ eng[e].now <= clock /\ clock \in Nat
      BY LeaseType DEF IInv, TypeOK
    <3>2. rows[a].next.at \in Nat
      BY DEF IInv, TypeOK, AlertRow, Timestamp
    <3>3. rows[a].next.at <= clock
      BY <2>3, <3>1, <3>2
    <3>4. QED BY <2>1, <2>2, <3>3 DEF Written
  <2>4. CASE rows[a].next = LeaseOf(e)
    <3>1. Sweeping(g)
      BY ZenonT(40), <1>3 DEF Working, Sweeping
    <3>2. eng[e].reading # eng[g].reading
      BY Zenon, <1>1, <1>3, <3>1 DEF IInv, Stamps
    <3>3. LeaseOf(e) # LeaseOf(g)
      BY Zenon, <1>3, <3>2, LeaseType
    <3>4. QED BY ZenonT(40), <2>1, <2>2, <2>4, <3>3 DEF Written
  <2>5. QED BY <2>2, <2>3, <2>4 DEF Written
<1>4. ASSUME NEW g \in Engines, NEW b \in AlertIds, Working(g, b)'
      PROVE  ~IsOpen(rows'[b]) \/ rows'[b].next = LeaseOf(g) \/ clock >= LeaseOf(g).at
  <2>1. CASE g = e
    BY ZenonT(40), <1>4, <2>1, SweepWorking DEF Leased
  <2>2. CASE g # e
    <3>1. Working(g, b)
      BY <1>4, <2>2, SweepWorking
    <3>2. CASE rows'[b] = rows[b]
      BY <3>1, <3>2 DEF IInv, LeaseHeld
    <3>3. CASE rows'[b] # rows[b]
      <4>1. b = a
        BY ZenonT(40), <1>1, <3>3 DEF SweepFacts
      <4>2. QED BY ZenonT(40), <1>3, <2>2, <3>1, <3>3, <4>1
    <3>4. QED BY <3>2, <3>3
  <2>3. QED BY <2>1, <2>2
<1>5. LeaseHeld'
  BY <1>1, <1>2, <1>4 DEF LeaseHeld, IsOpen
<1>6. ASSUME NEW b \in AlertIds, NEW f \in Engines, NEW g \in Engines, f # g, Working(f, b)', Working(g, b)'
      PROVE  clock >= LeaseOf(f).at \/ clock >= LeaseOf(g).at
  <2>1. CASE f # e /\ g # e
    BY ZenonT(40), <1>6, <2>1, SweepWorking DEF IInv, OverlapMeansExpired
  <2>2. ASSUME NEW h \in Engines, h # e, Working(h, b)', Working(e, b)'
        PROVE  clock >= LeaseOf(h).at
    <3>1. b = a /\ Leased(e, a) /\ Working(h, a)
      BY <2>2, SweepWorking
    <3>2. rows[a].next # LeaseOf(e)
      <4>1. ~Working(e, a) /\ a \in eng[e].todo /\ IsOpen(rows[a])
        BY Zenon, <1>1, <3>1 DEF Working, Leased, SweepFacts, Written
      <4>2. rows[a].next.by # eng[e].reading
        BY Zenon, <1>1, <4>1 DEF IInv, Fresh, Mine
      <4>3. QED BY <4>2, LeaseType
    <3>3. QED BY Zenon, <1>3, <2>2, <3>1, <3>2 DEF Leased
  <2>3. QED BY Zenon, <1>6, <2>1, <2>2
<1>7. OverlapMeansExpired'
  BY <1>1, <1>2, <1>6 DEF OverlapMeansExpired
<1>8. QED BY <1>5, <1>7

LEMMA SweepCovered ==
    ASSUME IInv, NEW e \in Engines, NEW a \in AlertIds, SweepStep(e, a)
    PROVE  AllCovered'
<1>1. SweepFacts(e, a) /\ UNCHANGED <<clock, readings, usr, paged>> /\ Sweeping(e)
  BY SweepStepFacts DEF SweepStep
<1>2. \A b \in AlertIds : Covered(rows'[b], paged[b])
  BY Zenon, <1>1, SweepRows
<1>3. Covered(NoAlert, {}) /\ \A done : Covered(NoAlert, done)
  BY NoAlertFields DEF Covered
<1>4. \A g \in Engines : \A b \in AlertIds : Covered(eng'[g].seen[b], paged[b])
  <2> SUFFICES ASSUME NEW g \in Engines, NEW b \in AlertIds
                PROVE  Covered(eng'[g].seen[b], paged[b])
    OBVIOUS
  <2>1. Covered(eng[g].seen[b], paged[b])
    BY Zenon DEF IInv, AllCovered
  <2>2. CASE g = e
    <3>1. eng'[e].seen[b] \in {eng[e].seen[b], NoAlert}
      BY Zenon, <1>1 DEF SweepFacts
    <3>2. QED BY Zenon, <1>3, <2>1, <2>2, <3>1
  <2>3. CASE g # e
    <3>1. eng'[g] = eng[g]
      BY Zenon, <1>1, <2>3 DEF SweepFacts, Untouched
    <3>2. QED BY Zenon, <2>1, <3>1
  <2>4. QED BY Zenon, <2>2, <2>3
<1>5. ASSUME NEW g \in Engines, NEW b \in AlertIds, eng'[g].pc = "notified", At(g, b)'
      PROVE  <<eng'[g].seen[b].tier, eng'[g].seen[b].retries>> \in paged[b]
  <2>1. g # e
    BY Zenon, <1>1, <1>5 DEF SweepFacts, Popped, Leased
  <2>2. eng'[g] = eng[g] /\ At(g, b)
    BY Zenon, <1>1, <1>5, <2>1, SweepWorking DEF SweepFacts, Untouched
  <2>3. QED BY Zenon, <1>5, <2>2 DEF IInv, AllCovered
<1>6. QED BY Zenon, <1>1, <1>2, <1>4, <1>5 DEF IInv, AllCovered, Covered

LEMMA SweepIInv ==
    ASSUME IInv, NEW e \in Engines, NEW a \in AlertIds, SweepStep(e, a)
    PROVE  IInv'
BY SweepTypeOK, SweepCopies, SweepFresh, SweepLeases, SweepCovered DEF IInv
-----------------------------------------------------------------------------
(* The steps of no sweep. *)

\* Steps of no sweep: requests, triggers, the clock.
LEMMA SweepsSame ==
    ASSUME eng' = eng
    PROVE  \A e \in Engines : /\ Sweeping(e)' <=> Sweeping(e)
                              /\ LeaseOf(e)' = LeaseOf(e)
                              /\ \A b : (At(e, b)' <=> At(e, b)) /\ (Working(e, b)' <=> Working(e, b))
<1>1. \A e \in Engines : \A b : At(e, b)' <=> At(e, b)
  BY DEF At
<1>2. \A e \in Engines : LeaseOf(e)' = LeaseOf(e)
  BY DEF LeaseOf
<1>3. \A e \in Engines : Sweeping(e)' <=> Sweeping(e)
  BY DEF Sweeping
<1>4. \A e \in Engines : \A b : Working(e, b)' <=> Working(e, b)
  BY <1>1 DEF Working
<1>5. QED BY Zenon, <1>1, <1>2, <1>3, <1>4

LEMMA FreshSame ==
    ASSUME IInv, eng' = eng,
           \A e \in Engines : \A b \in eng[e].todo : IsOpen(rows'[b]) => rows'[b] = rows[b]
    PROVE  Fresh' /\ CopyAgrees'
<1>1. ASSUME NEW e \in Engines, NEW b, NEW r, Mine(e, b, r)
      PROVE  r.next.by = eng'[e].reading =>
                 Working(e, b)' /\ r.next = LeaseOf(e)' /\ SameStep(r, eng'[e].seen[b])
  BY Zenon, <1>1, SweepsSame DEF Mine
<1>2. ASSUME NEW e \in Engines, Sweeping(e), NEW b \in eng[e].todo
      PROVE  (IsOpen(rows'[b]) => Mine(e, b, rows[b])) /\ \A f \in Engines : Mine(e, b, eng[f].seen[b])
  BY Zenon, <1>2 DEF IInv, Fresh
<1>3. ASSUME NEW e \in Engines, Sweeping(e)', NEW b \in eng'[e].todo
      PROVE  (IsOpen(rows'[b]) => Mine(e, b, rows[b])') /\ \A f \in Engines : Mine(e, b, eng[f].seen[b])'
  <2>1. Sweeping(e) /\ b \in eng[e].todo
    BY Zenon, <1>3, SweepsSame
  <2>2. IsOpen(rows'[b]) => Mine(e, b, rows[b])'
    BY Zenon, <1>1, <1>2, <2>1 DEF Mine
  <2>3. \A f \in Engines : Mine(e, b, eng[f].seen[b])'
    BY ZenonT(40), <1>1, <1>2, <2>1 DEF Mine
  <2>4. QED BY <2>2, <2>3
<1>4. Fresh'
  BY Zenon, <1>3 DEF Fresh, IsOpen
<1>5. CopyAgrees'
  BY Zenon DEF IInv, CopyAgrees, IsOpen
<1>6. QED BY <1>4, <1>5

LEMMA TriggerIInv ==
    ASSUME IInv, NEW a \in AlertIds, Trigger(a)
    PROVE  IInv'
<1> DEFINE new == Triggered(clock, readings + 1)
<1>1. /\ ~Exists(rows[a]) /\ readings' = readings + 1 /\ rows' = [rows EXCEPT ![a] = new]
      /\ UNCHANGED <<clock, chainThere, eng, usr, paged>> /\ readings \in Nat /\ clock \in Nat
  BY DEF Trigger, TakeReading, CreateAlert, IInv, TypeOK
<1>2. /\ new \in AlertRow /\ new.tier = 0 /\ new.retries = 0 /\ new.born = readings + 1
      /\ new.next.by = readings + 1 /\ Exists(new) /\ IsOpen(new)
  BY SMTT(40), <1>1 DEF Triggered, AlertRow, Timestamp, OpenStates, Exists, IsOpen
<1>3. InChain(new)
  BY ZenonT(40), <1>2, BlankType, NoAlertFields DEF InChain
<1>4. Covered(new, paged[a])
  BY <1>2 DEF Covered
<1> HIDE DEF new
<1>5. rows'[a] = new /\ \A b \in AlertIds \ {a} : rows'[b] = rows[b]
  BY ZenonT(40), <1>1 DEF IInv, TypeOK
<1>6. \A e \in Engines : a \notin eng[e].todo
  BY <1>1 DEF IInv, Copies
<1>7. \A e \in Engines : \A b \in eng[e].todo : b \in AlertIds \ {a}
  BY <1>6 DEF IInv, TypeOK, Engine
<1>8. \A e \in Engines, b \in AlertIds : (At(e, b)' <=> At(e, b)) /\ (Working(e, b)' <=> Working(e, b))
                                         /\ (Sweeping(e)' <=> Sweeping(e)) /\ LeaseOf(e)' = LeaseOf(e)
  BY Zenon, <1>1, SweepsSame
<1>9. \A b \in AlertIds : rows[b].born \in Nat /\ rows[b].next.by \in Nat
  BY DEF IInv, TypeOK, AlertRow, Timestamp
<1>10. TypeOK'
  <2>1. \A b \in AlertIds : InChain(rows'[b])
    BY ZenonT(40), <1>3, <1>5 DEF IInv, TypeOK
  <2>2. rows' \in [AlertIds -> AlertRow] /\ readings' \in Nat
    BY <1>1, <1>2 DEF IInv, TypeOK
  <2>3. QED BY <1>1, <2>1, <2>2 DEF IInv, TypeOK, InChain
<1>11. Copies'
  <2>1. \A u \in Users : usr[u].pc = "read" => usr[u].id \in AlertIds \ {a}
    BY Zenon, <1>1 DEF IInv, Copies, TypeOK
  <2>2. eng' = eng /\ usr' = usr
    BY <1>1
  <2>3. \A u \in Users : usr[u].pc = "read" =>
           IsClosed(usr[u].row) /\ usr[u].row.born = rows'[usr[u].id].born /\ Exists(rows'[usr[u].id])
    BY Zenon, <1>5, <2>1 DEF IInv, Copies
  <2>4. \A e \in Engines : \A b \in eng[e].todo :
           eng[e].seen[b].born = rows'[b].born /\ Exists(rows'[b]) /\ IsOpen(eng[e].seen[b])
    BY ZenonT(40), <1>5, <1>7 DEF IInv, Copies
  <2>5. QED BY Zenon, <1>8, <2>2, <2>3, <2>4 DEF IInv, Copies
<1>12. Births'
  <2>1. \A b \in AlertIds \ {a} : rows[b].born # new.born
    BY <1>1, <1>2, <1>9 DEF IInv, Births
  <2>2. \A b \in AlertIds : rows'[b].born <= readings'
    BY <1>1, <1>2, <1>5, <1>9 DEF IInv, Births
  <2>3. QED BY Zenon, <1>5, <2>1, <2>2 DEF IInv, Births
<1>13. Stamps'
  <2>1. \A b \in AlertIds : IsOpen(rows'[b]) => rows'[b].next.by <= readings'
    BY <1>1, <1>2, <1>5, <1>9 DEF IInv, Stamps
  <2>2. \A e \in Engines : eng[e] \in Engine
    BY DEF IInv, TypeOK
  <2>3. \A e \in Engines : \A b \in AlertIds : eng[e].seen[b].next.by \in Nat /\ eng[e].reading \in Nat
    BY ZenonT(40), <2>2 DEF Engine, AlertRow, Timestamp
  <2>4. \A e \in Engines : \A b \in AlertIds : eng[e].seen[b].next.by <= readings'
    <3> SUFFICES ASSUME NEW e \in Engines, NEW b \in AlertIds PROVE eng[e].seen[b].next.by <= readings'
      OBVIOUS
    <3>1. PICK n : n = eng[e].seen[b].next.by
      OBVIOUS
    <3>2. n \in Nat /\ n <= readings /\ readings \in Nat /\ readings' = readings + 1
      BY <1>1, <2>3, <3>1, Zenon DEF IInv, Stamps, TypeOK
    <3>3. n <= readings'
      BY <3>2, SMT
    <3>4. QED BY <3>1, <3>3, Zenon
  <2>5. \A e \in Engines : eng[e].reading <= readings'
    BY <1>1, <2>2 DEF IInv, Stamps, Engine
  <2>6. QED BY Zenon, <1>1, <1>8, <2>1, <2>4, <2>5 DEF IInv, Stamps
<1>14. Fresh' /\ CopyAgrees'
  <2>1. eng' = eng /\ \A e \in Engines : \A b \in eng[e].todo : rows'[b] = rows[b]
    BY Zenon, <1>1, <1>5, <1>7
  <2>2. QED BY Zenon, <2>1, FreshSame
<1>16. LeaseHeld'
  <2>1. \A e \in Engines : ~Working(e, a)
    BY <1>6 DEF Working, At
  <2>2. QED BY Zenon, <1>1, <1>5, <1>8, <2>1 DEF IInv, LeaseHeld
<1>17. OverlapMeansExpired'
  BY Zenon, <1>1, <1>8 DEF IInv, OverlapMeansExpired
<1>18. AllCovered'
  BY Zenon, <1>1, <1>4, <1>5, <1>8 DEF IInv, AllCovered
<1>19. QED BY <1>10, <1>11, <1>12, <1>13, <1>14, <1>16, <1>17, <1>18 DEF IInv

\* What is said of rows and sweeps alone does not change when they do not.
LEMMA Still ==
    ASSUME IInv, UNCHANGED <<clock, readings, rows, eng>>
    PROVE  Births' /\ Stamps' /\ Fresh' /\ CopyAgrees' /\ LeaseHeld' /\ OverlapMeansExpired'
<1>1. clock' = clock /\ readings' = readings /\ rows' = rows /\ eng' = eng
  OBVIOUS
<1>2. Births'
  BY Zenon, <1>1 DEF IInv, Births
<1>3. Stamps'
  BY Zenon, <1>1, SweepsSame DEF IInv, Stamps
<1>4. Fresh' /\ CopyAgrees'
  BY Zenon, <1>1, FreshSame
<1>5. LeaseHeld'
  BY Zenon, <1>1, SweepsSame DEF IInv, LeaseHeld
<1>6. OverlapMeansExpired'
  BY Zenon, <1>1, SweepsSame DEF IInv, OverlapMeansExpired
<1>7. QED BY <1>2, <1>3, <1>4, <1>5, <1>6

LEMMA ReadAlertIInv ==
    ASSUME IInv, NEW u \in Users, NEW a \in AlertIds, Acknowledge(u, a) \/ Cancel(u, a)
    PROVE  IInv'
<1>1. PICK to \in ClosedStates : ReadAlert(u, a, to)
  BY DEF Acknowledge, Cancel, ClosedStates
<1> DEFINE new == [rows[a] EXCEPT !.state = to]
<1>2. /\ Exists(rows[a]) /\ usr' = [usr EXCEPT ![u] = [pc |-> "read", id |-> a, row |-> new]]
      /\ UNCHANGED <<clock, readings, rows, chainThere, eng, paged>>
  BY <1>1 DEF ReadAlert
<1>3. rows[a] \in AlertRow /\ InChain(rows[a]) /\ Covered(rows[a], paged[a])
  BY Zenon DEF IInv, TypeOK, AllCovered
<1>4. new \in AlertRow /\ new.born = rows[a].born /\ new.tier = rows[a].tier /\ new.retries = rows[a].retries
      /\ IsClosed(new)
  BY <1>3 DEF AlertRow, IsClosed
<1>5. InChain(new) /\ Covered(new, paged[a])
  BY ZenonT(40), <1>3, <1>4 DEF InChain, Covered
<1> HIDE DEF new
<1>6. /\ usr'[u].pc = "read" /\ usr'[u].id = a /\ usr'[u].row = new
      /\ \A v \in Users \ {u} : usr'[v] = usr[v]
      /\ usr' \in [Users -> [pc : {"idle", "read"}, id : AlertIds, row : AlertRow]]
  BY ZenonT(40), <1>2, <1>4 DEF IInv, TypeOK
<1>7. TypeOK'
  BY <1>2, <1>6 DEF IInv, TypeOK, InChain
<1>8. Copies'
  BY ZenonT(40), <1>2, <1>4, <1>5, <1>6 DEF IInv, Copies, Working, At
<1>9. AllCovered'
  BY Zenon, <1>2, <1>5, <1>6 DEF IInv, AllCovered, At
<1>10. Births' /\ Stamps' /\ Fresh' /\ CopyAgrees' /\ LeaseHeld' /\ OverlapMeansExpired'
  BY <1>2, Still
<1>11. QED BY <1>7, <1>8, <1>9, <1>10 DEF IInv

LEMMA WriteAlertIInv ==
    ASSUME IInv, NEW u \in Users, WriteAlert(u)
    PROVE  IInv'
<1> DEFINE a == usr[u].id
           new == usr[u].row
<1>1. /\ usr[u].pc = "read" /\ usr' = [usr EXCEPT ![u] = NoRequest]
      /\ UNCHANGED <<clock, readings, chainThere, eng, paged>>
      /\ rows' = rows \/ rows' = [rows EXCEPT ![a] = UpdateAlert(rows[a], new)]
  BY DEF WriteAlert
<1>2. a \in AlertIds /\ new \in AlertRow /\ rows \in [AlertIds -> AlertRow]
  BY DEF IInv, TypeOK
<1>3. Exists(rows[a]) /\ IsClosed(new) /\ new.born = rows[a].born /\ InChain(new) /\ Covered(new, paged[a])
  BY Zenon, <1>1 DEF IInv, Copies, AllCovered
<1> HIDE DEF a, new
<1>4. rows' = rows \/ rows' = [rows EXCEPT ![a] = new]
  BY ZenonT(40), <1>1, <1>3 DEF UpdateAlert
<1>5. ~IsOpen(new) /\ Exists(new)
  BY <1>3 DEF IsOpen, IsClosed, Exists, OpenStates, ClosedStates
<1>6. rows' \in [AlertIds -> AlertRow] /\ \A b \in AlertIds : rows'[b] = rows[b] \/ (b = a /\ rows'[b] = new)
  BY <1>2, <1>4
<1>7. /\ \A v \in Users : usr'[v] = usr[v] \/ usr'[v] = NoRequest
      /\ usr' \in [Users -> [pc : {"idle", "read"}, id : AlertIds, row : AlertRow]]
      /\ NoRequest.pc = "idle" /\ NoRequest.row = NoAlert
  <2>1. NoRequest \in [pc : {"idle", "read"}, id : AlertIds, row : AlertRow]
        /\ NoRequest.pc = "idle" /\ NoRequest.row = NoAlert
    BY ZenonT(40), BlankType, IdsAssumption DEF NoRequest
  <2> HIDE DEF NoRequest
  <2>2. QED BY <1>1, <2>1 DEF IInv, TypeOK
<1>8. \A b \in AlertIds : /\ rows'[b].born = rows[b].born /\ (Exists(rows'[b]) <=> Exists(rows[b]))
                          /\ (IsOpen(rows'[b]) => rows'[b] = rows[b])
  BY <1>3, <1>5, <1>6
<1>9. \A e \in Engines, b \in AlertIds : (At(e, b)' <=> At(e, b)) /\ (Working(e, b)' <=> Working(e, b))
                                         /\ (Sweeping(e)' <=> Sweeping(e)) /\ LeaseOf(e)' = LeaseOf(e)
  BY Zenon, <1>1, SweepsSame
<1>10. \A e \in Engines : \A b \in eng[e].todo : b \in AlertIds
  BY SMTT(40) DEF IInv, TypeOK, Engine
<1>11. TypeOK'
  <2>1. \A b \in AlertIds : InChain(rows'[b])
    BY Zenon, <1>3, <1>6 DEF IInv, TypeOK
  <2>2. QED BY <1>1, <1>6, <1>7, <2>1 DEF IInv, TypeOK, InChain
<1>12. Copies'
  <2>1. \A v \in Users : usr[v].id \in AlertIds
    BY DEF IInv, TypeOK
  <2>2. \A v \in Users : InChain(usr'[v].row)
    BY ZenonT(60), <1>7, BlankType DEF IInv, Copies
  <2>3. \A v \in Users : usr'[v].pc = "read" =>
           IsClosed(usr'[v].row) /\ usr'[v].row.born = rows'[usr'[v].id].born /\ Exists(rows'[usr'[v].id])
    <3>1. SUFFICES ASSUME NEW v \in Users, usr'[v].pc = "read"
                   PROVE  IsClosed(usr'[v].row) /\ usr'[v].row.born = rows'[usr'[v].id].born /\ Exists(rows'[usr'[v].id])
      BY Zenon
    <3>2. NoRequest.pc # "read"
      BY <1>7
    <3>3. usr'[v] = usr[v]
      BY Zenon, <1>7, <3>1, <3>2
    <3>4. IsClosed(usr[v].row) /\ usr[v].row.born = rows[usr[v].id].born /\ Exists(rows[usr[v].id])
      BY Zenon, <3>1, <3>3 DEF IInv, Copies
    <3>5. QED BY Zenon, <1>8, <2>1, <3>3, <3>4
  <2>4. \A e \in Engines : \A b \in eng[e].todo :
           eng[e].seen[b].born = rows'[b].born /\ Exists(rows'[b]) /\ IsOpen(eng[e].seen[b])
    BY Zenon, <1>8, <1>10 DEF IInv, Copies
  <2>5. QED BY Zenon, <1>1, <1>9, <2>2, <2>3, <2>4 DEF IInv, Copies
<1>13. Births'
  BY <1>1, <1>8 DEF IInv, Births
<1>14. Stamps'
  <2>1. \A b \in AlertIds : IsOpen(rows'[b]) => rows'[b].next.by <= readings
    BY <1>8 DEF IInv, Stamps
  <2>2. QED BY Zenon, <1>1, <2>1, SweepsSame DEF IInv, Stamps
<1>15. Fresh' /\ CopyAgrees'
  BY Zenon, <1>1, <1>8, <1>10, FreshSame
<1>16. LeaseHeld' /\ OverlapMeansExpired'
  BY Zenon, <1>1, <1>8, <1>9, <1>10 DEF IInv, LeaseHeld, OverlapMeansExpired
<1>17. AllCovered'
  <2>1. \A b \in AlertIds : Covered(rows'[b], paged[b])
    BY Zenon, <1>3, <1>6 DEF IInv, AllCovered
  <2>2. \A done : Covered(NoAlert, done)
    BY NoAlertFields DEF Covered
  <2>3. QED BY Zenon, <1>1, <1>7, <1>9, <2>1, <2>2 DEF IInv, AllCovered
<1>18. QED BY <1>11, <1>12, <1>13, <1>14, <1>15, <1>16, <1>17 DEF IInv

LEMMA WorldIInv ==
    ASSUME IInv, DeleteChain \/ Tick \/ UNCHANGED vars
    PROVE  IInv'
<1>1. /\ UNCHANGED <<readings, rows, eng, usr, paged>> /\ chainThere' \in BOOLEAN
      /\ clock' \in Nat /\ clock' >= clock /\ clock \in Nat
  <2>1. UNCHANGED <<readings, rows, eng, usr, paged>> /\ (clock' = clock \/ clock' = clock + 1)
    BY DEF DeleteChain, Tick, vars
  <2>2. clock \in Nat
    BY DEF IInv, TypeOK
  <2>3. chainThere' \in BOOLEAN
    BY Zenon DEF DeleteChain, Tick, vars, IInv, TypeOK
  <2>4. QED BY <2>1, <2>2, <2>3
<1>2. TypeOK'
  BY <1>1 DEF IInv, TypeOK, InChain
<1>3. \A e \in Engines, b \in AlertIds : (At(e, b)' <=> At(e, b)) /\ (Working(e, b)' <=> Working(e, b))
  BY Zenon, <1>1, SweepsSame
<1>4. \A e \in Engines : (Sweeping(e)' <=> Sweeping(e)) /\ LeaseOf(e)' = LeaseOf(e) /\ LeaseOf(e).at \in Nat
                         /\ eng[e].now \in Nat
  <2>1. TAKE e \in Engines
  <2>2. LeaseOf(e).at \in Nat /\ eng[e].now \in Nat
    BY LeaseType DEF Timestamp
  <2>3. QED BY ZenonT(60), <1>1, <2>2, SweepsSame
<1>5. Copies' /\ Births' /\ AllCovered'
  <2>1. Copies'
    BY Zenon, <1>1, <1>3 DEF IInv, Copies
  <2>2. Births'
    BY Zenon, <1>1 DEF IInv, Births
  <2>3. AllCovered'
    BY Zenon, <1>1, <1>3 DEF IInv, AllCovered
  <2>4. QED BY <2>1, <2>2, <2>3
<1>6. Stamps'
  <2>1. \A e \in Engines : eng[e].now <= clock'
    BY <1>1, <1>4 DEF IInv, Stamps
  <2>2. QED BY Zenon, <1>1, <1>4, <2>1 DEF IInv, Stamps
<1>7. Fresh' /\ CopyAgrees'
  BY Zenon, <1>1, FreshSame
<1>8. \A e \in Engines : clock >= LeaseOf(e).at => clock' >= LeaseOf(e).at
  BY <1>1, <1>4
<1>9. LeaseHeld' /\ OverlapMeansExpired'
  <2>1. LeaseHeld'
    BY Zenon, <1>1, <1>3, <1>4, <1>8 DEF IInv, LeaseHeld
  <2>2. OverlapMeansExpired'
    BY Zenon, <1>1, <1>3, <1>4, <1>8 DEF IInv, OverlapMeansExpired
  <2>3. QED BY <2>1, <2>2
<1>10. QED BY <1>2, <1>5, <1>6, <1>7, <1>9 DEF IInv

\* A sweep that is not at a step: stopped, listing, or reading the clock.
LEMMA StopIInv ==
    ASSUME IInv, NEW e \in Engines, Stop(e)
    PROVE  IInv'
<1>1. eng' = [eng EXCEPT ![e] = Idle] /\ UNCHANGED <<clock, readings, rows, chainThere, usr, paged>>
      /\ eng \in [Engines -> Engine]
  BY DEF Stop, IInv, TypeOK
<1> HIDE DEF Idle
<1>2. eng' \in [Engines -> Engine] /\ Untouched(e) /\ eng'[e] = Idle
  BY ZenonT(40), <1>1, IdleType DEF Untouched
<1>3. \A g \in Engines, b \in AlertIds : (At(g, b)' => g # e /\ At(g, b)) /\ (Working(g, b)' => g # e /\ Working(g, b))
                                         /\ (g # e /\ Working(g, b) => Working(g, b)')
  BY ZenonT(40), <1>2, IdleType DEF At, Working, Untouched
<1>4. \A g \in Engines : Sweeping(g)' => g # e /\ Sweeping(g) /\ eng'[g] = eng[g] /\ LeaseOf(g)' = LeaseOf(g)
  BY <1>2, IdleType DEF Sweeping, Untouched, LeaseOf
<1>5. \A g \in Engines, b \in AlertIds : eng'[g].seen[b] = eng[g].seen[b] \/ eng'[g].seen[b] = NoAlert
  BY <1>2, IdleType DEF Untouched
<1>6. \A g \in Engines : g = e \/ eng'[g] = eng[g]
  BY <1>2 DEF Untouched
<1>7. \A g \in Engines : \A b \in eng[g].todo : b \in AlertIds
  BY DEF IInv, TypeOK, Engine
<1>8. TypeOK'
  BY <1>1, <1>2 DEF IInv, TypeOK, InChain
<1>9. Copies'
  <2>1. \A g \in Engines : \A b \in AlertIds : InChain(eng'[g].seen[b])
    BY Zenon, <1>5, BlankType DEF IInv, Copies
  <2>2. \A g \in Engines : \A b \in AlertIds : Working(g, b)' => eng'[g].seen[b].tier < Len(Tiers)
    BY Zenon, <1>3, <1>6 DEF IInv, Copies
  <2>3. \A g \in Engines : \A b \in eng'[g].todo :
           eng'[g].seen[b].born = rows[b].born /\ Exists(rows[b]) /\ IsOpen(eng'[g].seen[b])
    BY SMTT(40), <1>2, <1>6, IdleType DEF IInv, Copies
  <2>4. QED BY ZenonT(40), <1>1, <2>1, <2>2, <2>3 DEF IInv, Copies
<1>10. Births'
  BY <1>1 DEF IInv, Births
<1>11. Stamps'
  <2>1. \A g \in Engines : \A b \in AlertIds : eng'[g].seen[b].next.by <= readings
    <3> SUFFICES ASSUME NEW g \in Engines, NEW b \in AlertIds PROVE eng'[g].seen[b].next.by <= readings
      OBVIOUS
    <3>1. CASE eng'[g].seen[b] = eng[g].seen[b]
      BY <3>1, Zenon DEF IInv, Stamps
    <3>2. CASE eng'[g].seen[b] = NoAlert
      <4>1. readings \in Nat
        BY DEF IInv, TypeOK
      <4>2. 0 <= readings
        BY <4>1, SMT
      <4>3. QED BY <3>2, <4>2, NoAlertFields, Zenon
    <3>3. QED BY <1>5, <3>1, <3>2, Zenon
  <2>2. \A g \in Engines : eng'[g].reading <= readings /\ eng'[g].now <= clock
    BY SMTT(40), <1>2, <1>6, IdleType DEF IInv, Stamps, TypeOK
  <2>3. QED BY ZenonT(40), <1>1, <1>4, <2>1, <2>2 DEF IInv, Stamps
<1>12. Fresh'
  <2>1. SUFFICES ASSUME NEW g \in Engines, Sweeping(g)', NEW b \in eng'[g].todo
                 PROVE  /\ IsOpen(rows[b]) => Mine(g, b, rows[b])'
                        /\ \A f \in Engines : Mine(g, b, eng[f].seen[b])'
    BY Zenon, <1>1 DEF Fresh, Mine
  <2>2. g # e /\ Sweeping(g) /\ eng'[g] = eng[g] /\ LeaseOf(g)' = LeaseOf(g) /\ b \in eng[g].todo /\ b \in AlertIds
        /\ eng[g].reading > 0
    BY Zenon, <1>4, <1>7, <2>1 DEF IInv, Stamps
  <2>3. IsOpen(rows[b]) => Mine(g, b, rows[b])'
    BY Zenon, <1>1, <1>3, <2>2 DEF IInv, Fresh, Mine
  <2>4. ASSUME NEW f \in Engines PROVE Mine(g, b, eng[f].seen[b])'
    <3>1. CASE eng'[f].seen[b] = eng[f].seen[b]
      BY ZenonT(40), <1>3, <2>2, <3>1 DEF IInv, Fresh, Mine
    <3>2. CASE eng'[f].seen[b] = NoAlert
      BY <2>2, <3>2, NoAlertFields DEF Mine
    <3>3. QED BY Zenon, <1>5, <2>2, <3>1, <3>2
  <2>5. QED BY <2>3, <2>4
<1>13. CopyAgrees'
  BY Zenon, <1>1, <1>2, <1>6, IdleType DEF IInv, CopyAgrees
<1>14. \A g \in Engines, b \in AlertIds : Working(g, b)' => LeaseOf(g)' = LeaseOf(g)
  BY <1>4 DEF Working, Sweeping
<1>15. LeaseHeld'
  BY Zenon, <1>1, <1>3, <1>14 DEF IInv, LeaseHeld
<1>16. OverlapMeansExpired'
  BY <1>1, <1>3, <1>14 DEF IInv, OverlapMeansExpired
<1>17. AllCovered'
  <2>1. \A done : Covered(NoAlert, done)
    BY NoAlertFields DEF Covered
  <2>2. \A g \in Engines : \A b \in AlertIds : Covered(eng'[g].seen[b], paged[b])
    BY Zenon, <1>5, <2>1 DEF IInv, AllCovered
  <2>3. \A g \in Engines : \A b \in AlertIds :
           eng'[g].pc = "notified" /\ At(g, b)' => <<eng'[g].seen[b].tier, eng'[g].seen[b].retries>> \in paged[b]
    BY Zenon, <1>3, <1>6 DEF IInv, AllCovered
  <2>4. QED BY Zenon, <1>1, <2>2, <2>3 DEF IInv, AllCovered
<1>18. QED BY <1>8, <1>9, <1>10, <1>11, <1>12, <1>13, <1>15, <1>16, <1>17 DEF IInv

LEMMA ListAlertsIInv ==
    ASSUME IInv, NEW e \in Engines, ListAlerts(e)
    PROVE  IInv'
<1> DEFINE seen == [a \in AlertIds |-> IF a \in Listed THEN rows[a] ELSE NoAlert]
<1>1. /\ eng[e].pc = "idle" /\ UNCHANGED <<clock, readings, rows, chainThere, usr, paged>>
      /\ eng' = [eng EXCEPT ![e].pc = "listed", ![e].todo = Listed, ![e].seen = seen]
      /\ eng \in [Engines -> Engine] /\ rows \in [AlertIds -> AlertRow]
  BY DEF ListAlerts, IInv, TypeOK
<1>2. Listed \subseteq AlertIds /\ \A a \in Listed : IsOpen(rows[a])
  BY Zenon DEF Listed
<1>3. seen \in [AlertIds -> AlertRow]
  BY <1>1, BlankType
<1>4. \A a \in AlertIds : (seen[a] = rows[a] /\ a \in Listed) \/ (seen[a] = NoAlert /\ a \notin Listed)
  OBVIOUS
<1> HIDE DEF Listed, seen
<1>5. /\ eng' \in [Engines -> Engine] /\ Untouched(e)
      /\ eng'[e].pc = "listed" /\ eng'[e].todo = Listed /\ eng'[e].seen = seen
      /\ eng'[e].now = eng[e].now /\ eng'[e].reading = eng[e].reading
  BY ZenonT(40), <1>1, <1>2, <1>3 DEF Engine, Untouched
<1>6. \A g \in Engines : g = e \/ eng'[g] = eng[g]
  BY <1>5 DEF Untouched
<1>7. \A g \in Engines, b \in AlertIds : (Working(g, b)' <=> Working(g, b)) /\ (Working(g, b) => g # e)
  BY <1>1, <1>5, <1>6 DEF Working, At
<1>8. \A g \in Engines : (Sweeping(g)' <=> Sweeping(g)) /\ LeaseOf(g)' = LeaseOf(g) /\ (Sweeping(g) => g # e)
                         /\ eng'[g].reading = eng[g].reading /\ eng'[g].now = eng[g].now
  BY <1>1, <1>5, <1>6 DEF Sweeping, LeaseOf
<1>9. \A g \in Engines : \A b \in eng[g].todo : b \in AlertIds
  BY DEF IInv, TypeOK, Engine
<1>10. TypeOK'
  BY ZenonT(40), <1>1, <1>5 DEF IInv, TypeOK, InChain
<1>11. Copies'
  <2>1. \A b \in AlertIds : InChain(seen[b])
    BY <1>4, BlankType DEF IInv, TypeOK
  <2>2. \A g \in Engines : \A b \in AlertIds : InChain(eng'[g].seen[b])
    BY Zenon, <1>5, <1>6, <2>1 DEF IInv, Copies
  <2>3. \A g \in Engines : \A b \in AlertIds : Working(g, b)' => eng'[g].seen[b].tier < Len(Tiers)
    BY Zenon, <1>6, <1>7 DEF IInv, Copies
  <2>4. \A b \in Listed : seen[b].born = rows[b].born /\ Exists(rows[b]) /\ IsOpen(seen[b])
    BY ZenonT(40), <1>2, <1>4 DEF IsOpen, Exists, OpenStates
  <2>5. \A g \in Engines : \A b \in eng'[g].todo :
           eng'[g].seen[b].born = rows[b].born /\ Exists(rows[b]) /\ IsOpen(eng'[g].seen[b])
    BY <1>5, <1>6, <2>4 DEF IInv, Copies
  <2>6. QED BY <1>1, <2>2, <2>3, <2>5 DEF IInv, Copies
<1>12. Births'
  BY Zenon, <1>1 DEF IInv, Births
<1>13. Stamps'
  <2>1. \A b \in AlertIds : seen[b].next.by <= readings
    <3>1. SUFFICES ASSUME NEW b \in AlertIds PROVE seen[b].next.by <= readings
      BY Zenon
    <3>2. CASE seen[b] = rows[b] /\ b \in Listed
      BY Zenon, <1>2, <3>2 DEF IInv, Stamps
    <3>3. CASE seen[b] = NoAlert
      <4>1. readings \in Nat
        BY Zenon DEF IInv, TypeOK
      <4>2. seen[b].next.by = 0
        BY Zenon, <3>3, NoAlertFields
      <4>3. QED BY <4>1, <4>2
    <3>4. QED BY Zenon, <1>4, <3>2, <3>3
  <2>2. QED BY SMTT(40), <1>1, <1>5, <1>6, <1>8, <2>1 DEF IInv, Stamps
<1>14. Fresh'
  <2>1. SUFFICES ASSUME NEW g \in Engines, Sweeping(g)', NEW b \in eng'[g].todo
                 PROVE  /\ IsOpen(rows[b]) => Mine(g, b, rows[b])'
                        /\ \A f \in Engines : Mine(g, b, eng[f].seen[b])'
    BY <1>1 DEF Fresh, Mine
  <2>2. g # e /\ Sweeping(g) /\ eng'[g] = eng[g] /\ LeaseOf(g)' = LeaseOf(g) /\ b \in eng[g].todo /\ b \in AlertIds
        /\ eng[g].reading > 0
    BY Zenon, <1>6, <1>8, <1>9, <2>1 DEF IInv, Stamps
  <2>3. IsOpen(rows[b]) => Mine(g, b, rows[b]) /\ Mine(g, b, rows[b])'
    BY <1>1, <1>7, <2>2 DEF IInv, Fresh, Mine
  <2>4. ASSUME NEW f \in Engines PROVE Mine(g, b, eng[f].seen[b])'
    <3>1. CASE f # e
      <4>1. eng'[f] = eng[f] /\ (Working(g, b)' <=> Working(g, b))
        BY Zenon, <1>6, <1>7, <2>2, <3>1
      <4>2. Mine(g, b, eng[f].seen[b])
        BY Zenon, <2>2 DEF IInv, Fresh
      <4>3. QED BY Zenon, <2>2, <4>1, <4>2 DEF Mine
    <3>2. CASE f = e /\ b \in Listed
      BY ZenonT(40), <1>1, <1>2, <1>4, <1>5, <2>2, <2>3, <3>2 DEF Mine
    <3>3. CASE f = e /\ b \notin Listed
      <4>1. eng'[f].seen[b] = NoAlert
        BY Zenon, <1>4, <1>5, <2>2, <3>3
      <4>2. eng'[f].seen[b].next.by = 0
        BY Zenon, <4>1, NoAlertFields
      <4>3. eng'[g].reading > 0
        BY Zenon, <2>2
      <4>4. eng'[f].seen[b].next.by # eng'[g].reading
        BY <4>2, <4>3
      <4>5. QED BY Zenon, <4>4 DEF Mine
    <3>4. QED BY ZenonT(60), <3>1, <3>2, <3>3
  <2>5. QED BY ZenonT(40), <2>3, <2>4
<1>15. CopyAgrees'
  <2>1. \A b \in Listed : SameStep(rows[b], seen[b])
    BY <1>2, <1>4 DEF SameStep
  <2>2. QED BY <1>1, <1>5, <1>6, <2>1 DEF IInv, CopyAgrees
<1>16. LeaseHeld' /\ OverlapMeansExpired'
  BY ZenonT(40), <1>1, <1>7, <1>8 DEF IInv, LeaseHeld, OverlapMeansExpired
<1>17. AllCovered'
  <2>1. \A b \in AlertIds : Covered(NoAlert, paged[b])
    BY NoAlertFields DEF Covered
  <2>2. \A g \in Engines : \A b \in AlertIds : Covered(eng'[g].seen[b], paged[b])
    BY ZenonT(40), <1>4, <1>5, <1>6, <2>1 DEF IInv, AllCovered
  <2>3. \A g \in Engines : \A b \in AlertIds :
           eng'[g].pc = "notified" /\ At(g, b)' => <<eng'[g].seen[b].tier, eng'[g].seen[b].retries>> \in paged[b]
    BY Zenon, <1>5, <1>6 DEF IInv, AllCovered, At
  <2>4. QED BY <1>1, <2>2, <2>3 DEF IInv, AllCovered
<1>18. QED BY <1>10, <1>11, <1>12, <1>13, <1>14, <1>15, <1>16, <1>17 DEF IInv

LEMMA ReadClockIInv ==
    ASSUME IInv, NEW e \in Engines, ReadClock(e)
    PROVE  IInv'
<1>1. /\ eng[e].pc = "listed" /\ UNCHANGED <<clock, rows, chainThere, usr, paged>>
      /\ eng' = [eng EXCEPT ![e].pc = "sweep", ![e].now = clock, ![e].reading = readings']
      /\ eng \in [Engines -> Engine] /\ rows \in [AlertIds -> AlertRow]
      /\ readings' = readings + 1 /\ readings \in Nat /\ readings' \in Nat /\ clock \in Nat
  BY DEF ReadClock, TakeReading, IInv, TypeOK
<1>2. /\ eng' \in [Engines -> Engine] /\ Untouched(e)
      /\ eng'[e].pc = "sweep" /\ eng'[e].todo = eng[e].todo /\ eng'[e].seen = eng[e].seen
      /\ eng'[e].now = clock /\ eng'[e].reading = readings'
  BY ZenonT(40), <1>1 DEF Engine, Untouched
<1>3. \A g \in Engines : eng'[g].todo = eng[g].todo /\ eng'[g].seen = eng[g].seen /\ (g = e \/ eng'[g] = eng[g])
  BY <1>2 DEF Untouched
<1>4. \A g \in Engines, b \in AlertIds : (Working(g, b)' <=> Working(g, b)) /\ (Working(g, b) => g # e)
                                         /\ (At(g, b)' <=> At(g, b))
  BY ZenonT(40), <1>1, <1>2, <1>3 DEF Working, At
<1>5. \A g \in Engines : g # e => LeaseOf(g)' = LeaseOf(g) /\ (Sweeping(g)' <=> Sweeping(g))
  BY <1>3 DEF LeaseOf, Sweeping
<1>6. \A g \in Engines : \A b \in eng[g].todo : b \in AlertIds
  BY DEF IInv, TypeOK, Engine
<1>7. \A g \in Engines : eng[g].reading \in Nat /\ \A b \in AlertIds : eng[g].seen[b].next.by \in Nat
  <2>1. TAKE g \in Engines
  <2>2. eng[g] \in Engine
    BY <1>1
  <2>3. QED BY <2>2 DEF Engine, AlertRow, Timestamp
<1>8. \A b \in AlertIds : rows[b].next.by \in Nat /\ rows[b].born \in Nat
  BY <1>1 DEF AlertRow, Timestamp
<1>9. TypeOK'
  BY ZenonT(40), <1>1, <1>2 DEF IInv, TypeOK, InChain
<1>10. Copies'
  BY <1>1, <1>3, <1>4 DEF IInv, Copies
<1>11. Births'
  <2>1. \A b \in AlertIds : rows[b].born <= readings'
    BY SMTT(40), <1>1, <1>8 DEF IInv, Births
  <2>2. QED BY <1>1, <2>1 DEF IInv, Births
<1>12. Stamps'
  <2>1. \A b \in AlertIds : IsOpen(rows[b]) => rows[b].next.by <= readings'
    BY SMTT(40), <1>1, <1>8 DEF IInv, Stamps
  <2>2. \A g \in Engines : \A b \in AlertIds : eng'[g].seen[b].next.by <= readings'
    BY SMTT(40), <1>1, <1>3, <1>7 DEF IInv, Stamps
  <2>3. \A g \in Engines : eng'[g].reading <= readings' /\ eng'[g].now <= clock
    BY SMTT(40), <1>1, <1>2, <1>3, <1>7 DEF IInv, Stamps
  <2>4. \A g \in Engines : Sweeping(g)' => eng'[g].reading > 0
    BY SMTT(40), <1>1, <1>2, <1>3, <1>5 DEF IInv, Stamps
  <2>5. \A g \in Engines : g # e => eng'[g].reading # eng'[e].reading
    BY SMTT(40), <1>1, <1>2, <1>3, <1>7 DEF IInv, Stamps
  <2>6. \A g, h \in Engines : Sweeping(g)' /\ Sweeping(h)' /\ g # h => eng'[g].reading # eng'[h].reading
    <3>1. SUFFICES ASSUME NEW g \in Engines, NEW h \in Engines, Sweeping(g)', Sweeping(h)', g # h
                   PROVE  eng'[g].reading # eng'[h].reading
      BY Zenon
    <3>2. CASE g = e \/ h = e
      BY Zenon, <2>5, <3>1, <3>2
    <3>3. CASE g # e /\ h # e
      BY SMTT(40), <1>3, <1>5, <3>1, <3>3 DEF IInv, Stamps
    <3>4. QED BY Zenon, <3>2, <3>3
  <2>7. QED BY <1>1, <2>1, <2>2, <2>3, <2>4, <2>6 DEF Stamps
<1>13. Fresh'
  <2>1. SUFFICES ASSUME NEW g \in Engines, Sweeping(g)', NEW b \in eng'[g].todo
                 PROVE  /\ IsOpen(rows[b]) => Mine(g, b, rows[b])'
                        /\ \A f \in Engines : Mine(g, b, eng[f].seen[b])'
    BY SMTT(40), <1>1 DEF Fresh, Mine
  <2>2. b \in AlertIds /\ b \in eng[g].todo
    BY ZenonT(40), <1>3, <1>6, <2>1
  <2>3. CASE g = e
    <3>1. IsOpen(rows[b]) => rows[b].next.by # readings'
      BY SMTT(40), <1>1, <1>8, <2>2 DEF IInv, Stamps
    <3>2. \A f \in Engines : eng'[f].seen[b].next.by # readings'
      BY SMTT(40), <1>1, <1>3, <1>7, <2>2 DEF IInv, Stamps
    <3>3. QED BY <1>1, <1>2, <2>3, <3>1, <3>2 DEF Mine
  <2>4. CASE g # e
    <3>1. Sweeping(g) /\ LeaseOf(g)' = LeaseOf(g) /\ eng'[g] = eng[g] /\ (Working(g, b)' <=> Working(g, b))
      BY Zenon, <1>3, <1>4, <1>5, <2>1, <2>2, <2>4
    <3>2. /\ IsOpen(rows[b]) => Mine(g, b, rows[b])
          /\ \A f \in Engines : Mine(g, b, eng[f].seen[b])
      BY Zenon, <2>2, <3>1 DEF IInv, Fresh
    <3>3. \A f \in Engines : Mine(g, b, eng[f].seen[b])'
      BY Zenon, <1>3, <3>1, <3>2 DEF Mine
    <3>4. IsOpen(rows[b]) => Mine(g, b, rows[b])'
      BY <1>1, <3>1, <3>2 DEF Mine
    <3>5. QED BY <3>3, <3>4
  <2>5. QED BY ZenonT(40), <2>3, <2>4
<1>14. CopyAgrees'
  BY <1>1, <1>3 DEF IInv, CopyAgrees
<1>15. LeaseHeld' /\ OverlapMeansExpired'
  BY Zenon, <1>1, <1>4, <1>5 DEF IInv, LeaseHeld, OverlapMeansExpired
<1>16. AllCovered'
  BY <1>1, <1>2, <1>3, <1>4 DEF IInv, AllCovered
<1>17. QED BY <1>9, <1>10, <1>11, <1>12, <1>13, <1>14, <1>15, <1>16 DEF IInv

LEMMA CoveredMore ==
    ASSUME NEW row, NEW done, NEW more, Covered(row, done), done \subseteq more
    PROVE  Covered(row, more)
BY DEF Covered

LEMMA NotifyIInv ==
    ASSUME IInv, NEW e \in Engines, NEW a \in AlertIds, Notify(e, a)
    PROVE  IInv'
<1> DEFINE step == <<eng[e].seen[a].tier, eng[e].seen[a].retries>>
<1>1. /\ eng[e].pc = "leased" /\ At(e, a) /\ UNCHANGED <<clock, readings, rows, chainThere, usr>>
      /\ eng' = [eng EXCEPT ![e].pc = "notified"]
      /\ paged' = [paged EXCEPT ![a] = paged[a] \cup {step}]
      /\ eng \in [Engines -> Engine] /\ eng[e] \in Engine /\ paged \in [AlertIds -> SUBSET (Nat \X Nat)]
  BY DEF Notify, IInv, TypeOK
<1>2. /\ eng' \in [Engines -> Engine] /\ Untouched(e)
      /\ eng'[e].pc = "notified" /\ eng'[e].todo = eng[e].todo /\ eng'[e].seen = eng[e].seen
      /\ eng'[e].now = eng[e].now /\ eng'[e].reading = eng[e].reading
  BY <1>1 DEF Engine, Untouched
<1>3. step \in Nat \X Nat
  BY <1>1 DEF Engine, AlertRow
<1> HIDE DEF step
<1>4. /\ paged' \in [AlertIds -> SUBSET (Nat \X Nat)] /\ step \in paged'[a]
      /\ \A b \in AlertIds : paged[b] \subseteq paged'[b]
  BY ZenonT(40), <1>1, <1>3
<1>5. \A g \in Engines : /\ eng'[g].todo = eng[g].todo /\ eng'[g].seen = eng[g].seen
                         /\ eng'[g].reading = eng[g].reading /\ eng'[g].now = eng[g].now
                         /\ (g = e \/ eng'[g] = eng[g])
  BY <1>2 DEF Untouched
<1>6. \A g \in Engines : LeaseOf(g)' = LeaseOf(g) /\ (Sweeping(g)' <=> Sweeping(g))
  BY <1>1, <1>2, <1>5 DEF LeaseOf, Sweeping
<1>7. \A g \in Engines, b \in AlertIds : (At(g, b)' <=> At(g, b)) /\ (Working(g, b)' <=> Working(g, b))
  BY <1>1, <1>2, <1>5 DEF At, Working
<1>8. \A g \in Engines : \A b \in eng[g].todo : b \in AlertIds
  BY DEF IInv, TypeOK, Engine
<1>9. TypeOK'
  BY <1>1, <1>2, <1>4 DEF IInv, TypeOK, InChain
<1>10. Copies'
  BY <1>1, <1>5, <1>7 DEF IInv, Copies
<1>11. Births' /\ Stamps'
  BY <1>1, <1>5, <1>6 DEF IInv, Births, Stamps
<1>12. Fresh'
  BY <1>1, <1>5, <1>6, <1>7, <1>8 DEF IInv, Fresh, Mine
<1>13. CopyAgrees'
  BY <1>1, <1>5 DEF IInv, CopyAgrees
<1>14. LeaseHeld' /\ OverlapMeansExpired'
  BY <1>1, <1>6, <1>7 DEF IInv, LeaseHeld, OverlapMeansExpired
<1>15. AllCovered'
  <2>1. \A b \in AlertIds : Covered(rows[b], paged'[b])
    BY ZenonT(40), <1>4, CoveredMore DEF IInv, AllCovered
  <2>2. \A g \in Engines : \A b \in AlertIds : Covered(eng'[g].seen[b], paged'[b])
    <3> SUFFICES ASSUME NEW g \in Engines, NEW b \in AlertIds PROVE Covered(eng'[g].seen[b], paged'[b])
      OBVIOUS
    <3>1. eng'[g].seen[b] = eng[g].seen[b] /\ Covered(eng[g].seen[b], paged[b])
      BY <1>5, Zenon DEF IInv, AllCovered
    <3>2. QED BY ZenonT(40), <1>4, <3>1, CoveredMore
  <2>3. \A u \in Users : Covered(usr[u].row, paged'[usr[u].id])
    <3>1. \A u \in Users : usr[u].id \in AlertIds
      BY SMTT(40) DEF IInv, TypeOK
    <3>2. QED BY <1>4, <3>1, CoveredMore DEF IInv, AllCovered
  <2>4. ASSUME NEW g \in Engines, NEW b \in AlertIds, eng'[g].pc = "notified", At(g, b)'
        PROVE  <<eng'[g].seen[b].tier, eng'[g].seen[b].retries>> \in paged'[b]
    <3>1. CASE g = e
      BY <1>1, <1>4, <1>5, <1>7, <2>4, <3>1, AtUnique DEF step
    <3>2. CASE g # e
      BY ZenonT(40), <1>4, <1>5, <1>7, <2>4, <3>2 DEF IInv, AllCovered
    <3>3. QED BY <3>1, <3>2
  <2>5. QED BY Zenon, <1>1, <2>1, <2>2, <2>3, <2>4 DEF AllCovered
<1>16. QED BY <1>9, <1>10, <1>11, <1>12, <1>13, <1>14, <1>15 DEF IInv
-----------------------------------------------------------------------------
LEMMA NextIInv == IInv /\ [Next]_vars => IInv'
<1> SUFFICES ASSUME IInv, [Next]_vars PROVE IInv'
  OBVIOUS
<1>1. ASSUME NEW a \in AlertIds, Trigger(a) PROVE IInv'
  BY <1>1, TriggerIInv
<1>2. ASSUME NEW u \in Users, NEW a \in AlertIds, Acknowledge(u, a) \/ Cancel(u, a) PROVE IInv'
  BY <1>2, ReadAlertIInv
<1>3. ASSUME NEW u \in Users, WriteAlert(u) PROVE IInv'
  BY <1>3, WriteAlertIInv
<1>4. CASE DeleteChain \/ Tick \/ UNCHANGED vars
  BY <1>4, WorldIInv
<1>5. ASSUME NEW e \in Engines, ListAlerts(e) \/ ReadClock(e) \/ Stop(e) PROVE IInv'
  BY <1>5, ListAlertsIInv, ReadClockIInv, StopIInv
<1>6. ASSUME NEW e \in Engines, NEW a \in AlertIds,
             NotDue(e, a) \/ Exhaust(e, a) \/ TakeLease(e, a) \/ Complete(e, a) \/ WriteFails(e, a)
      PROVE  IInv'
  BY <1>6, ExhaustStep, TakeLeaseStep, CompleteStep, SkipStep, SweepIInv
<1>7. ASSUME NEW e \in Engines, NEW a \in AlertIds, Notify(e, a) PROVE IInv'
  BY <1>7, NotifyIInv
<1>8. QED BY <1>1, <1>2, <1>3, <1>4, <1>5, <1>6, <1>7 DEF Next

\* Every value has its type, and every row's tier and retry index the chain:
\* processAlert's chain.Tiers[alert.CurrentTier] is in range.
THEOREM TypeCorrect == Spec => []TypeOK
<1>1. IInv => TypeOK
  BY ZenonT(40) DEF IInv
<1>2. QED BY <1>1, InitIInv, NextIInv, PTL DEF Spec

\* No step of the chain is skipped, however sweeps of any number of replicas
\* overlap, stop or lose their writes (processAlert).
THEOREM NothingSkipped == Spec => []NoStepSkipped
<1>1. IInv => NoStepSkipped
  <2> SUFFICES ASSUME IInv, NEW a \in AlertIds, NEW t \in 0..rows[a].tier,
                      NEW r \in 0..(IF t < rows[a].tier THEN Attempts(Tiers[t + 1]) ELSE rows[a].retries) - 1
               PROVE  <<t, r>> \in paged[a]
    BY Zenon DEF NoStepSkipped
  <2>1. Covered(rows[a], paged[a])
    BY DEF IInv, AllCovered
  <2>2. rows[a].tier \in Nat
    BY ZenonT(40) DEF IInv, TypeOK, AlertRow
  <2>3. CASE t < rows[a].tier
    <3>1. t \in 0..(rows[a].tier - 1) /\ r \in 0..(Attempts(Tiers[t + 1]) - 1)
      BY SMTT(40), <2>2, <2>3
    <3>2. QED BY <2>1, <3>1 DEF Covered
  <2>4. CASE t = rows[a].tier
    <3>1. r \in 0..(rows[a].retries - 1)
      BY <2>2, <2>4
    <3>2. QED BY <2>1, <2>4, <3>1 DEF Covered
  <2>5. QED BY <2>2, <2>3, <2>4
<1>2. QED BY <1>1, InitIInv, NextIInv, PTL DEF Spec

\* Two replicas are in the middle of a step of one alert only after a lease
\* ran out (the compare-and-set of AdvanceAlert).
THEOREM OneHolder == Spec => []OverlapMeansExpired
<1>1. IInv => OverlapMeansExpired
  BY ZenonT(40) DEF IInv
<1>2. QED BY <1>1, InitIInv, NextIInv, PTL DEF Spec

\* What a step may do to the table: nothing, or to one row one of three things.
RowStep(a) ==
    /\ \A b \in AlertIds \ {a} : rows'[b] = rows[b]
    /\ \/ rows[a].state = "absent" /\ IsOpen(rows'[a])
       \/ Exists(rows[a]) /\ IsClosed(rows'[a])
       \/ IsOpen(rows[a]) /\ IsOpen(rows'[a]) /\ NotBefore(rows'[a], rows[a])

LEMMA NextRows ==
    ASSUME IInv, [Next]_vars
    PROVE  rows' = rows \/ \E a \in AlertIds : RowStep(a)
<1>1. ASSUME NEW a \in AlertIds, Trigger(a) PROVE RowStep(a)
  <2>1. rows' = [rows EXCEPT ![a] = Triggered(clock, readings')] /\ rows[a].state = "absent"
    BY <1>1 DEF Trigger, CreateAlert, Exists
  <2>2. rows \in [AlertIds -> AlertRow]
    BY ZenonT(40) DEF IInv, TypeOK
  <2>3. QED BY <2>1, <2>2 DEF RowStep, Triggered, IsOpen, OpenStates
<1>2. ASSUME NEW u \in Users, WriteAlert(u) PROVE rows' = rows \/ RowStep(usr[u].id)
  <2>1. rows \in [AlertIds -> AlertRow] /\ usr[u].id \in AlertIds
    BY DEF IInv, TypeOK
  <2>2. usr[u].pc = "read" /\ (rows' = rows \/ rows' = [rows EXCEPT ![usr[u].id] = UpdateAlert(rows[usr[u].id], usr[u].row)])
    BY <1>2 DEF WriteAlert
  <2>3. IsClosed(usr[u].row) /\ Exists(rows[usr[u].id])
    BY Zenon, <2>2 DEF IInv, Copies
  <2>4. QED BY ZenonT(40), <2>1, <2>2, <2>3 DEF RowStep, UpdateAlert
<1>3. ASSUME NEW e \in Engines, NEW a \in AlertIds, SweepStep(e, a) PROVE rows' = rows \/ RowStep(a)
  <2>1. SweepFacts(e, a) /\ rows \in [AlertIds -> AlertRow] /\ rows' \in [AlertIds -> AlertRow]
    BY ZenonT(40), <1>3, SweepStepFacts DEF SweepFacts, IInv, TypeOK
  <2>2. CASE rows'[a] = rows[a]
    BY <2>1, <2>2 DEF SweepFacts
  <2>3. CASE rows'[a] # rows[a]
    <3>1. Written(e, a, rows'[a]) /\ rows'[a] \in AlertRow
      BY Zenon, <2>1, <2>3 DEF SweepFacts
    <3>2. IsOpen(rows'[a]) \/ IsClosed(rows'[a])
      BY Zenon, <3>1 DEF Written, Exists, AlertRow, IsOpen, IsClosed
    <3>3. IsOpen(rows[a]) /\ Exists(rows[a])
      BY Zenon, <3>1 DEF Written, IsOpen, OpenStates, Exists
    <3>4. QED BY Zenon, <2>1, <3>1, <3>2, <3>3 DEF RowStep, SweepFacts, Written
  <2>4. QED BY <2>2, <2>3
<1>4. ASSUME NEW e \in Engines, NEW a \in AlertIds,
             NotDue(e, a) \/ Exhaust(e, a) \/ TakeLease(e, a) \/ Complete(e, a) \/ WriteFails(e, a)
      PROVE  rows' = rows \/ RowStep(a)
  BY <1>3, <1>4, ExhaustStep, TakeLeaseStep, CompleteStep, SkipStep
<1>5. ASSUME NEW e \in Engines, NEW a \in AlertIds, Notify(e, a) PROVE rows' = rows
  BY <1>5 DEF Notify
<1>6. ASSUME NEW e \in Engines, ListAlerts(e) \/ ReadClock(e) \/ Stop(e) PROVE rows' = rows
  BY <1>6 DEF ListAlerts, ReadClock, Stop
<1>7. ASSUME NEW u \in Users, NEW a \in AlertIds, Acknowledge(u, a) \/ Cancel(u, a) PROVE rows' = rows
  BY <1>7 DEF Acknowledge, Cancel, ReadAlert
<1>8. CASE DeleteChain \/ Tick \/ UNCHANGED vars
  BY <1>8 DEF DeleteChain, Tick, vars
<1>9. \A u \in Users : usr[u].id \in AlertIds
  BY DEF IInv, TypeOK
<1>10. QED BY ZenonT(40), <1>1, <1>2, <1>4, <1>5, <1>6, <1>7, <1>8, <1>9 DEF Next

\* While an alert is open its place in the chain never moves back, whatever
\* stale copies sweeps work from (the compare-and-set of AdvanceAlert).
THEOREM NeverBack == Spec => ProgressKept
<1>1. IInv /\ [Next]_vars => [\A a \in AlertIds : IsOpen(rows[a]) /\ IsOpen(rows'[a]) => NotBefore(rows'[a], rows[a])]_vars
  <2> SUFFICES ASSUME IInv, [Next]_vars, NEW a \in AlertIds, IsOpen(rows[a]), IsOpen(rows'[a])
               PROVE  NotBefore(rows'[a], rows[a])
    OBVIOUS
  <2>1. CASE rows'[a] = rows[a]
    <3>1. rows[a].tier \in Nat /\ rows[a].retries \in Nat
      BY DEF IInv, TypeOK, AlertRow
    <3>2. PICK r : r = rows[a]
      OBVIOUS
    <3>3. r.retries >= r.retries
      BY <3>1, <3>2, SMT
    <3>4. QED BY <2>1, <3>2, <3>3, Zenon DEF NotBefore
  <2>2. CASE rows'[a] # rows[a]
    <3>1. RowStep(a)
      BY <2>2, NextRows DEF RowStep
    <3>2. rows[a].state # "absent" /\ ~IsClosed(rows'[a])
      BY DEF IsOpen, IsClosed, OpenStates, ClosedStates
    <3>3. QED BY Zenon, <3>1, <3>2 DEF RowStep
  <2>3. QED BY <2>1, <2>2
<1>2. QED BY <1>1, InitIInv, NextIInv, PTL DEF Spec, ProgressKept

\* The engine, its operators and its failures implement the life of an alert:
\* raised once, and never open again once acknowledged, cancelled or exhausted.
THEOREM LifecycleImplemented == Spec => ImplementsLifecycle
<1> DEFINE phase == [a \in AlertIds |-> Phase(rows[a])]
<1>1. Init => Lifecycle!Init
  BY DEF Init, Lifecycle!Init, Blank, NoAlert, Phase
<1>2. IInv /\ [Next]_vars => [Lifecycle!Next]_phase
  <2> SUFFICES ASSUME IInv, [Next]_vars PROVE Lifecycle!Next \/ phase' = phase
    OBVIOUS
  <2>1. CASE rows' = rows
    BY <2>1
  <2>2. ASSUME NEW a \in AlertIds, RowStep(a) PROVE Lifecycle!Next \/ phase' = phase
    <3>1. phase' = [phase EXCEPT ![a] = Phase(rows'[a])] /\ phase[a] = Phase(rows[a])
      BY Zenon, <2>2 DEF RowStep
    <3>2. IsOpen(rows'[a]) => Phase(rows'[a]) = "open"
      BY Zenon DEF IsOpen, OpenStates, Phase
    <3>3. IsClosed(rows'[a]) => Phase(rows'[a]) = "closed"
      BY DEF IsClosed, OpenStates, ClosedStates, Phase
    <3>4. CASE rows[a].state = "absent" /\ IsOpen(rows'[a])
      <4>1. Lifecycle!Raise(a)
        BY Zenon, <3>1, <3>2, <3>4 DEF Lifecycle!Raise, Phase
      <4>2. QED BY <4>1 DEF Lifecycle!Next
    <3>5. CASE Exists(rows[a]) /\ IsClosed(rows'[a])
      <4>1. CASE Phase(rows[a]) = "closed"
        BY Zenon, <3>1, <3>3, <3>5, <4>1
      <4>2. CASE Phase(rows[a]) # "closed"
        <5>1. Lifecycle!Close(a)
          BY Zenon, <3>1, <3>3, <3>5, <4>2 DEF Lifecycle!Close
        <5>2. QED BY <5>1 DEF Lifecycle!Next
      <4>3. QED BY <4>1, <4>2
    <3>6. CASE IsOpen(rows[a]) /\ IsOpen(rows'[a])
      <4>1. Phase(rows[a]) = "open"
        BY <3>6 DEF IsOpen, OpenStates, Phase
      <4>2. QED BY Zenon, <3>1, <3>2, <3>6, <4>1
    <3>7. QED BY Zenon, <2>2, <3>4, <3>5, <3>6 DEF RowStep
  <2>3. QED BY ZenonT(40), <2>1, <2>2, NextRows
<1>3. QED BY <1>1, <1>2, InitIInv, NextIInv, PTL DEF Spec, ImplementsLifecycle, Lifecycle!Spec
=============================================================================
