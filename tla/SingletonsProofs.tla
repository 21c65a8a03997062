-------------------------- MODULE SingletonsProofs --------------------------
(***************************************************************************)
(* For every set of replicas: at most one leads, and a service with a live *)
(* context runs only where the lease is held or onLost is running.         *)
(***************************************************************************)
EXTENDS Singletons, TLAPS

Leads(r) == el[r] = "leading" /\ ~cancelled[r]

\* What holds of one replica: a leader holds a lease it renewed in time; a
\* running service can be stopped; a callback that did not begin was made at
\* the age of the lease it has, so its replica leads still.
Sound(r) ==
    /\ Leads(r) => holder = r /\ age <= RenewDeadline
    /\ svc[r] = "running" => cancel[r] /\ ~cancelled[r] /\ el[r] \in {"leading", "lost"}
    /\ cb[r] = "start" => age = 0 /\ (cancelled[r] \/ el[r] = "leading")

IInv == TypeOK /\ \A r \in Replicas : Sound(r)

LEMMA InitIInv == Init => IInv
BY SMTT(40), SingletonsAssumption DEF Init, IInv, TypeOK, Sound, Leads, LeaseDuration, RenewDeadline

LEMMA NextIInv == IInv /\ [Next]_vars => IInv'
<1> SUFFICES ASSUME IInv, [Next]_vars PROVE IInv'
  OBVIOUS
<1> USE SingletonsAssumption DEF IInv, TypeOK, Sound, Leads, LeaseDuration, RenewDeadline, lease, budget
<1>1. CASE Tick
  BY <1>1 DEF Tick
<1>2. ASSUME NEW q \in Replicas, Acquire(q) PROVE IInv'
  BY <1>2 DEF Acquire
<1>3. ASSUME NEW q \in Replicas, RenewEnds(q) PROVE IInv'
  BY <1>3 DEF RenewEnds
<1>4. ASSUME NEW q \in Replicas, AcquireEnds(q) PROVE IInv'
  BY <1>4 DEF AcquireEnds
<1>5. ASSUME NEW q \in Replicas, Start(q) PROVE IInv'
  <2>1. UNCHANGED <<holder, age, el, cancelled, losses, stops>> /\ cb' = [cb EXCEPT ![q] = "done"] /\ cb[q] = "start"
    BY <1>5 DEF Start
  <2>2. CASE cancel[q] /\ UNCHANGED <<cancel, svc>>
    BY <2>1, <2>2
  <2>3. CASE cancel' = [cancel EXCEPT ![q] = TRUE] /\ svc' = [svc EXCEPT ![q] = Launched(q)]
    <3>1. Launched(q) \in {"running", "cancelled"} /\ (Launched(q) = "running" => ~cancelled[q])
      BY DEF Launched
    <3>2. TypeOK'
      BY <2>1, <2>3, <3>1
    <3>3. ASSUME NEW r \in Replicas PROVE Sound(r)'
      <4>1. CASE r = q
        BY <2>1, <2>3, <3>1, <4>1
      <4>2. CASE r # q
        BY <2>1, <2>3, <4>2
      <4> QED
        BY <4>1, <4>2
    <3> QED
      BY <3>2, <3>3
  <2> QED
    BY <1>5, <2>2, <2>3 DEF Start
<1>6. ASSUME NEW q \in Replicas, Stop(q) PROVE IInv'
  <2>1. UNCHANGED <<holder, age, cb, cancelled, losses, stops>> /\ el[q] = "lost"
    BY <1>6 DEF Stop
  <2>2. CASE ~cancel[q]
    BY <1>6, <2>2 DEF Stop
  <2>3. CASE cancel[q]
    <3>1. /\ cancel' = [cancel EXCEPT ![q] = FALSE]
          /\ svc' = [svc EXCEPT ![q] = IF svc[q] = "running" THEN "cancelled" ELSE svc[q]]
          /\ el' = [el EXCEPT ![q] = "stop"]
      BY <1>6, <2>3 DEF Stop
    <3>2. TypeOK'
      BY <2>1, <3>1
    <3>3. ASSUME NEW r \in Replicas PROVE Sound(r)'
      BY <2>1, <3>1
    <3> QED
      BY <3>2, <3>3
  <2> QED
    BY <2>2, <2>3
<1>7. ASSUME NEW q \in Replicas, StopReturns(q) PROVE IInv'
  BY <1>7 DEF StopReturns
<1>8. ASSUME NEW q \in Replicas, Return(q) PROVE IInv'
  BY <1>8 DEF Return
<1>9. ASSUME NEW q \in Replicas, Renew(q) PROVE IInv'
  BY <1>9 DEF Renew
<1>10. ASSUME NEW q \in Replicas, Terminate(q) PROVE IInv'
  BY <1>10 DEF Terminate
<1>11. ASSUME NEW q \in Replicas, Restart(q) PROVE IInv'
  BY <1>11 DEF Restart
<1>12. CASE UNCHANGED vars
  BY <1>12 DEF vars
<1> QED
  BY <1>1, <1>2, <1>3, <1>4, <1>5, <1>6, <1>7, <1>8, <1>9, <1>10, <1>11, <1>12 DEF Next, ElectorStep

(* The inductive invariant holds in every state of the election.            *)
THEOREM Invariant == Spec => []IInv
BY InitIInv, NextIInv, PTL DEF Spec

(* The state of every replica keeps its type.                               *)
THEOREM TypeCorrect == Spec => []TypeOK
<1>1. IInv => TypeOK
  BY DEF IInv
<1> QED
  BY <1>1, Invariant, PTL

(* At most one replica leads, however many there are: KubeLease.Run's       *)
(* renewal deadline is shorter than the lease.                              *)
THEOREM AtMostOneLeads == Spec => []OneLeads
<1>1. IInv => OneLeads
  BY DEF IInv, Sound, Leads, OneLeads, Leading
<1> QED
  BY <1>1, Invariant, PTL

(* Start and Stop, called by two goroutines, never leave a service with a   *)
(* live context on a replica past its Stop.                                 *)
THEOREM NoneLeftBehind == Spec => []RunsWhereLed
<1>1. IInv => RunsWhereLed
  BY DEF IInv, Sound, RunsWhereLed
<1> QED
  BY <1>1, Invariant, PTL
=============================================================================
