----------------------------- MODULE Singletons -----------------------------
(***************************************************************************)
(* The services that run on one replica only (src/internal/leader): each   *)
(* replica campaigns for a Kubernetes Lease (KubeLease.Run), starts the    *)
(* singleton services when it holds it and stops them when it has lost it  *)
(* (RunWith).  The elector itself is client-go's; it gives the lease up    *)
(* before it calls OnStoppedLeading, calls OnStartedLeading on a goroutine *)
(* of its own, and returns once leadership is lost.  Time is the age of    *)
(* the lease record, in units of 5 s.                                      *)
(***************************************************************************)
EXTENDS Naturals

CONSTANTS
    Replicas,
    MaxLosses,     \* how often a renewal deadline passes
    MaxStops       \* how often a pod is stopped or dies

ASSUME SingletonsAssumption == MaxLosses \in Nat /\ MaxStops \in Nat /\ "none" \notin Replicas

VARIABLES
    holder, age,   \* the Lease: who holds it, and since when it was not renewed
    el,            \* the elector of each replica
    cb,            \* its OnStartedLeading goroutine
    cancelled,     \* the process's ctx is cancelled
    cancel,        \* Singletons.cancel is set
    svc,           \* the services
    losses, stops

vars == <<holder, age, el, cb, cancelled, cancel, svc, losses, stops>>
lease == <<holder, age>>
budget == <<losses, stops>>

LeaseDuration == 3

RenewDeadline_Lease == LeaseDuration

\* The leader gives up before another may take its lease.
RenewDeadline == 2

Init ==
    /\ holder = "none" /\ age = 0
    /\ el = [r \in Replicas |-> "campaign"]
    /\ cb = [r \in Replicas |-> "none"]
    /\ cancelled = [r \in Replicas |-> FALSE]
    /\ cancel = [r \in Replicas |-> FALSE]
    /\ svc = [r \in Replicas |-> "off"]
    /\ losses = 0 /\ stops = 0

\* The elector's deadline and the first step of its callback take no time.
Tick ==
    /\ age < LeaseDuration /\ age' = age + 1
    /\ ~\E r \in Replicas : holder = r /\ el[r] = "leading" /\ age >= RenewDeadline
    /\ \A r \in Replicas : cb[r] # "start"
    /\ UNCHANGED <<holder, el, cb, cancelled, cancel, svc, budget>>
-----------------------------------------------------------------------------
(* The elector: acquire, renew and release. *)

Acquire(r) ==
    /\ el[r] = "campaign" /\ ~cancelled[r]
    /\ holder \in {"none", r} \/ age >= LeaseDuration
    /\ holder' = r /\ age' = 0
    /\ el' = [el EXCEPT ![r] = "leading"]
    /\ cb' = [cb EXCEPT ![r] = "start"]
    /\ UNCHANGED <<cancelled, cancel, svc, budget>>

Renew(r) ==
    /\ el[r] = "leading" /\ ~cancelled[r] /\ age > 0
    /\ holder = r /\ age' = 0
    /\ UNCHANGED <<holder, el, cb, cancelled, cancel, svc, budget>>

\* Renewing failed until the deadline, or the process is stopping: the lease is
\* released, if the API server can be reached, and then onLost is called.
RenewEnds(r) ==
    /\ el[r] = "leading"
    /\ \/ cancelled[r] /\ UNCHANGED losses
       \/ ~cancelled[r] /\ age >= RenewDeadline /\ losses < MaxLosses /\ losses' = losses + 1
    /\ holder' \in {holder, IF holder = r THEN "none" ELSE holder}
    /\ el' = [el EXCEPT ![r] = "lost"]
    /\ UNCHANGED <<age, cb, cancelled, cancel, svc, stops>>

AcquireEnds(r) ==
    /\ el[r] = "campaign" /\ cancelled[r]
    /\ el' = [el EXCEPT ![r] = "lost"]
    /\ UNCHANGED <<lease, cb, cancelled, cancel, svc, budget>>
-----------------------------------------------------------------------------
(* The callbacks of RunWith, Start and Stop. *)

Launched_Background(r) == "running"

Launched_EndedCtx(r) == "cancelled"

\* The state of a service whose context derives from the process's ctx.
Launched(r) == IF cancelled[r] THEN "cancelled" ELSE "running"

Start(r) ==
    /\ cb[r] = "start" /\ cb' = [cb EXCEPT ![r] = "done"]
    /\ \/ cancel[r] /\ UNCHANGED <<cancel, svc>>
       \/ /\ ~cancel[r] /\ cancel' = [cancel EXCEPT ![r] = TRUE]
          /\ svc' = [svc EXCEPT ![r] = Launched(r)]
    /\ UNCHANGED <<lease, el, cancelled, budget>>

Stop_NoCancel(r) ==
    /\ el[r] = "lost"
    /\ cancel' = [cancel EXCEPT ![r] = FALSE]
    /\ el' = [el EXCEPT ![r] = "stop"]
    /\ UNCHANGED <<lease, cb, cancelled, svc, budget>>

\* onLost ended; Stop cancels the services, if they were started, and waits.
Stop(r) ==
    /\ el[r] = "lost"
    /\ IF cancel[r]
       THEN /\ cancel' = [cancel EXCEPT ![r] = FALSE]
            /\ svc' = [svc EXCEPT ![r] = IF @ = "running" THEN "cancelled" ELSE @]
            /\ el' = [el EXCEPT ![r] = "stop"]
       ELSE el' = [el EXCEPT ![r] = "over"] /\ UNCHANGED <<cancel, svc>>
    /\ UNCHANGED <<lease, cb, cancelled, budget>>

\* The services are waited for no longer than stopWait; Run returns.
StopReturns(r) ==
    /\ el[r] = "stop" /\ el' = [el EXCEPT ![r] = "over"]
    /\ UNCHANGED <<lease, cb, cancelled, cancel, svc, budget>>

\* A cancelled service gets out of the call it was in.
Return(r) ==
    /\ svc[r] = "cancelled" /\ svc' = [svc EXCEPT ![r] = "off"]
    /\ UNCHANGED <<lease, el, cb, cancelled, cancel, budget>>
-----------------------------------------------------------------------------
(* The process: it is told to stop, and it ends and is started again. *)

Terminate(r) ==
    /\ ~cancelled[r] /\ stops < MaxStops /\ stops' = stops + 1
    /\ cancelled' = [cancelled EXCEPT ![r] = TRUE]
    /\ svc' = [svc EXCEPT ![r] = IF @ = "running" THEN "cancelled" ELSE @]
    /\ UNCHANGED <<lease, el, cb, cancel, losses>>

\* The process is gone, after Terminate or without it, and a new one campaigns.
Restart(r) ==
    /\ \/ cancelled[r] /\ UNCHANGED stops
       \/ ~cancelled[r] /\ stops < MaxStops /\ stops' = stops + 1
    /\ el' = [el EXCEPT ![r] = "campaign"]
    /\ cb' = [cb EXCEPT ![r] = "none"]
    /\ cancelled' = [cancelled EXCEPT ![r] = FALSE]
    /\ cancel' = [cancel EXCEPT ![r] = FALSE]
    /\ svc' = [svc EXCEPT ![r] = "off"]
    /\ UNCHANGED <<lease, losses>>

ElectorStep(r) ==
    \/ Acquire(r) \/ RenewEnds(r) \/ AcquireEnds(r)
    \/ Start(r) \/ Stop(r) \/ StopReturns(r) \/ Return(r)

Next ==
    \/ Tick
    \/ \E r \in Replicas : ElectorStep(r) \/ Renew(r) \/ Terminate(r) \/ Restart(r)

Spec == Init /\ [][Next]_vars

(* Every replica's elector and callbacks make progress, services return     *)
(* once cancelled, a stopping process ends, time passes.                    *)
FairSpec ==
    /\ Spec
    /\ WF_vars(Tick)
    /\ \A r \in Replicas :
        WF_vars(Acquire(r)) /\ WF_vars(RenewEnds(r) \/ AcquireEnds(r)) /\ WF_vars(Start(r))
        /\ WF_vars(Stop(r) \/ StopReturns(r)) /\ WF_vars(Return(r))
        /\ WF_vars(cancelled[r] /\ Restart(r))
-----------------------------------------------------------------------------
TypeOK ==
    /\ holder \in Replicas \cup {"none"} /\ age \in 0 .. LeaseDuration
    /\ el \in [Replicas -> {"campaign", "leading", "lost", "stop", "over"}]
    /\ cb \in [Replicas -> {"none", "start", "done"}]
    /\ cancelled \in [Replicas -> BOOLEAN] /\ cancel \in [Replicas -> BOOLEAN]
    /\ svc \in [Replicas -> {"off", "running", "cancelled"}]
    /\ losses \in 0 .. MaxLosses /\ stops \in 0 .. MaxStops

Leading == {r \in Replicas : el[r] = "leading" /\ ~cancelled[r]}

(* The election lets at most one replica lead at a time: a leader that      *)
(* cannot renew has given up before its lease runs out for the others.      *)
OneLeads == \A r, q \in Leading : r = q

(* A service with a live context runs on the leader, or on a replica whose  *)
(* onLost callback has not reached Stop: Start and Stop, called from two    *)
(* goroutines, leave none behind.                                           *)
RunsWhereLed == \A r \in Replicas : svc[r] = "running" => el[r] \in {"leading", "lost"}

(* The services come back on some replica after every stop, death or loss   *)
(* of the lease, as long as a replica is left that has not lost it.         *)
RunsAgain == []<>(\E r \in Replicas : svc[r] = "running")

(* A replica that lost the lease ends up running no service.                *)
LoserStops == \A r \in Replicas : (el[r] = "over") ~> (svc[r] = "off")
-----------------------------------------------------------------------------
(* leader.go:15 "Blocks until ctx is cancelled": an elector's Run returns   *)
(* only in a process that is stopping, so a replica that lost the lease     *)
(* campaigns again.                                                         *)
BlocksUntilCancelled == \A r \in Replicas : el[r] = "over" => cancelled[r]
=============================================================================
