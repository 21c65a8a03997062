------------------------------- MODULE SosRuns -------------------------------
(***************************************************************************)
(* One SOS run on the Hub (src/internal/sos/runs.go): replicas take copies *)
(* of its start and cancel from several bearers at once, store each in the *)
(* run's row, do the alert work the row owes, tell the consumers and       *)
(* acknowledge the bridge; a reconciler redoes what was left owed.  Every  *)
(* store call is a step of its own, any of them may fail (with or without  *)
(* having taken effect), and a handler may stop between any two.           *)
(*                                                                         *)
(* The run's alert is seen by its phase: none, open or closed.  That the   *)
(* escalation engine and the operators, who work on the alert meanwhile,   *)
(* only ever close it is what Escalation shows (ImplementsLifecycle).      *)
(***************************************************************************)
EXTENDS Naturals, FiniteSets

CONSTANTS
    Handlers,     \* goroutines that handle one event each
    Reconcilers,  \* replicas that run the reconciler
    Attempts,     \* attempts of dbwrap.RetryShort
    CloseRounds,  \* closeRounds of escalation.Close
    MaxCopies,    \* bound: copies of events beyond the MQTT retries
    MaxFaults     \* bound: failed calls, lost acks and stopped handlers

ASSUME BoundsAssumption ==
    Attempts \in Nat /\ CloseRounds \in Nat /\ MaxCopies \in Nat /\ MaxFaults \in Nat

VARIABLES
    run,      \* the row of sos_runs
    alert,    \* the phase of the alert under the run's id
    chained,  \* the tenant has an escalation chain
    proc,     \* the handlers and reconcilers
    sent,     \* the events the bridge has sent
    acked,    \* the acks it has got: <<kind, state>>
    told,     \* how often each state was told to the Hub's consumers
    oldWay,   \* a start was paged the old way
    copies, faults

vars == <<run, alert, chained, proc, sent, acked, told, oldWay, copies, faults>>

Procs == Handlers \cup Reconcilers

NoRun == [state |-> "none", rev |-> 0, pending |-> FALSE, started |-> FALSE, recorded |-> FALSE]

NewSOSRun_CancelOwesNothing(kind) ==
    [state |-> IF kind = "cancel" THEN "cancelled" ELSE "active", rev |-> 1, pending |-> kind = "start",
     started |-> kind = "start", recorded |-> FALSE]

NewSOSRun(kind) ==
    [state |-> IF kind = "cancel" THEN "cancelled" ELSE "active", rev |-> 1, pending |-> TRUE,
     started |-> kind = "start", recorded |-> FALSE]

\* A cancel ends an active run; a start never makes a cancelled one active.
Ends(r, kind) == kind = "cancel" /\ r.state = "active"

ApplySOSEvent_Reopens(r, kind) ==
    [state |-> IF kind = "cancel" THEN "cancelled" ELSE "active", rev |-> r.rev + 1,
     pending |-> r.pending \/ Ends(r, kind), started |-> r.started \/ kind = "start", recorded |-> r.recorded]

ApplySOSEvent(r, kind) ==
    [state |-> IF Ends(r, kind) THEN "cancelled" ELSE r.state, rev |-> r.rev + 1,
     pending |-> r.pending \/ Ends(r, kind), started |-> r.started \/ kind = "start", recorded |-> r.recorded]

\* One transaction: the row is inserted, or locked, changed and written back.
ApplySOSRunEvent(kind) == IF run.state = "none" THEN NewSOSRun(kind) ELSE ApplySOSEvent(run, kind)

News_AnyCancel(kind) == (run.state = "none" /\ kind = "start") \/ kind = "cancel"

\* The event created an active run or ended one: the consumers are told.
News(kind) == (run.state = "none" /\ kind = "start") \/ Ends(run, kind)

Idle == [pc |-> "idle", kind |-> "start", via |-> "mqtt", snap |-> [state |-> "none", rev |-> 0],
         round |-> 0, news |-> FALSE, unstored |-> FALSE]

Init ==
    /\ run = NoRun
    /\ alert = "none"
    /\ chained = TRUE
    /\ proc = [p \in Procs |-> Idle]
    /\ sent = {}
    /\ acked = {}
    /\ told = [s \in {"active", "cancelled"} |-> 0]
    /\ oldWay = FALSE
    /\ copies = 0 /\ faults = 0
-----------------------------------------------------------------------------
\* The world around the Hub: the bridge and the people who are paged.
BridgeSends(kind) ==
    /\ kind \notin sent
    /\ kind = "cancel" => "start" \in sent
    /\ sent' = sent \cup {kind}
    /\ UNCHANGED <<run, alert, chained, proc, acked, told, oldWay, copies, faults>>

\* Acknowledged by an operator or exhausted by the engine (Escalation).
AlertHandled ==
    /\ alert = "open"
    /\ alert' = "closed"
    /\ UNCHANGED <<run, chained, proc, sent, acked, told, oldWay, copies, faults>>

RemoveChain ==
    /\ chained
    /\ chained' = FALSE
    /\ UNCHANGED <<run, alert, proc, sent, acked, told, oldWay, copies, faults>>
-----------------------------------------------------------------------------
At(p, pc) == proc[p].pc = pc

Goto(p, pc) == proc' = [proc EXCEPT ![p].pc = pc]

Finish(p) == proc' = [proc EXCEPT ![p] = Idle]

Fault == faults < MaxFaults /\ faults' = faults + 1

Acked(kind) == \E s \in {"active", "cancelled"} : <<kind, s>> \in acked

\* An event arrives: an MQTT sos/event, which the bridge repeats until it has
\* the ack, a satellite or SMS frame, or an operator's cancel of a known run.
\* Frames, the other replica's copies and operators are counted as copies.
Begin(p, kind, via) == proc' = [proc EXCEPT ![p] = [Idle EXCEPT !.pc = "apply", !.kind = kind, !.via = via]]

Retry(p, kind) ==
    /\ At(p, "idle") /\ kind \in sent /\ ~Acked(kind)
    /\ \A q \in Handlers : ~(proc[q].pc # "idle" /\ proc[q].kind = kind /\ proc[q].via = "mqtt")
    /\ Begin(p, kind, "mqtt")
    /\ UNCHANGED <<run, alert, chained, sent, acked, told, oldWay, copies, faults>>

Copy(p, kind, via) ==
    /\ At(p, "idle") /\ copies < MaxCopies
    /\ IF via = "hub" THEN kind = "cancel" /\ run.state # "none" ELSE kind \in sent
    /\ Begin(p, kind, via)
    /\ copies' = copies + 1
    /\ UNCHANGED <<run, alert, chained, sent, acked, told, oldWay, faults>>

\* settle: with the row as this process last saw it.
SyncAlert(r) == IF r.state = "cancelled" THEN "closeGet" ELSE "trigGet"

Snap(r) == [state |-> r.state, rev |-> r.rev]

Apply(p) ==
    /\ At(p, "apply")
    /\ run' = ApplySOSRunEvent(proc[p].kind)
    /\ proc' = [proc EXCEPT ![p].snap = Snap(run'), ![p].round = 0, ![p].news = News(proc[p].kind),
                            ![p].pc = IF run'.pending THEN SyncAlert(run') ELSE "tell"]
    /\ UNCHANGED <<alert, chained, sent, acked, told, oldWay, copies, faults>>

\* The transaction failed, or its commit was not answered: it is tried again,
\* or given up.  A frame that brought a start then pages under the run's id
\* (PageUnstored); the bridge repeats an MQTT event.
ApplyFails(p) ==
    /\ At(p, "apply")
    /\ Fault
    /\ run' \in {run, ApplySOSRunEvent(proc[p].kind)}
    /\ \/ proc[p].round + 1 < Attempts /\ proc' = [proc EXCEPT ![p].round = proc[p].round + 1]
       \/ /\ proc[p].via = "frame" /\ proc[p].kind = "start"
          /\ proc' = [proc EXCEPT ![p].pc = "trigGet", ![p].unstored = TRUE]
       \/ ~(proc[p].via = "frame" /\ proc[p].kind = "start") /\ Finish(p)
    /\ UNCHANGED <<alert, chained, sent, acked, told, oldWay, copies>>

Reconcile_OnlyActive(p) ==
    /\ At(p, "idle") /\ run.pending /\ run.state = "active"
    /\ proc' = [proc EXCEPT ![p] = [Idle EXCEPT !.pc = SyncAlert(run), !.via = "reconcile", !.snap = Snap(run)]]
    /\ UNCHANGED <<run, alert, chained, sent, acked, told, oldWay, copies, faults>>

Reconcile_OnlyCancelled(p) ==
    /\ At(p, "idle") /\ run.pending /\ run.state = "cancelled"
    /\ proc' = [proc EXCEPT ![p] = [Idle EXCEPT !.pc = SyncAlert(run), !.via = "reconcile", !.snap = Snap(run)]]
    /\ UNCHANGED <<run, alert, chained, sent, acked, told, oldWay, copies, faults>>

\* One run of Reconcile: the owed rows are listed and settled.
Reconcile(p) ==
    /\ At(p, "idle") /\ run.pending
    /\ proc' = [proc EXCEPT ![p] = [Idle EXCEPT !.pc = SyncAlert(run), !.via = "reconcile", !.snap = Snap(run)]]
    /\ UNCHANGED <<run, alert, chained, sent, acked, told, oldWay, copies, faults>>

\* What follows settle, whether it succeeded or not.
Settled(p) == IF proc[p].via = "reconcile" THEN Finish(p) ELSE Goto(p, "tell")
-----------------------------------------------------------------------------
(* escalation.Close: cancel the alert, or write its tombstone. *)

CloseGet(p) ==
    /\ At(p, "closeGet")
    /\ \/ Goto(p, IF alert = "none" THEN "closeTomb" ELSE "closeUpd") /\ UNCHANGED faults
       \/ Fault /\ Settled(p)
    /\ UNCHANGED <<run, alert, chained, sent, acked, told, oldWay, copies>>

CloseUpd(p) ==
    /\ At(p, "closeUpd")
    /\ \/ alert' = "closed" /\ Goto(p, "clear") /\ UNCHANGED faults
       \/ alert' \in {alert, "closed"} /\ Fault /\ Settled(p)
    /\ UNCHANGED <<run, chained, sent, acked, told, oldWay, copies>>

\* Any failure to insert counts as a race lost to a raise.
CloseTomb(p) ==
    /\ At(p, "closeTomb")
    /\ \/ alert = "none" /\ alert' = "closed" /\ Goto(p, "clear") /\ UNCHANGED faults
       \/ /\ \/ alert # "none" /\ UNCHANGED <<alert, faults>>
             \/ alert' \in {alert, IF alert = "none" THEN "closed" ELSE alert} /\ Fault
          /\ IF proc[p].round + 1 < CloseRounds
             THEN proc' = [proc EXCEPT ![p].pc = "closeGet", ![p].round = proc[p].round + 1]
             ELSE Settled(p)
    /\ UNCHANGED <<run, chained, sent, acked, told, oldWay, copies>>
-----------------------------------------------------------------------------
(* raise, and PageUnstored: TriggerOnce under the run's alert id. *)

\* The alert is there, by this call or another's.
Triggered(p) == IF proc[p].unstored THEN Finish(p) ELSE Goto(p, "setAlert")

NotTriggered_Drops(p) ==
    IF proc[p].unstored THEN oldWay' = oldWay /\ Finish(p) ELSE oldWay' = oldWay /\ Settled(p)

NotTriggered(p) ==
    IF proc[p].unstored THEN oldWay' = TRUE /\ Finish(p) ELSE oldWay' = oldWay /\ Settled(p)

\* Without a chain there is nothing to page and nothing owed.  A read that
\* fails is taken for an alert that does not exist.
TrigGet(p) ==
    /\ At(p, "trigGet")
    /\ \/ ~chained /\ UNCHANGED faults /\ IF proc[p].unstored THEN Finish(p) ELSE Goto(p, "clear")
       \/ chained /\ alert # "none" /\ UNCHANGED faults /\ Triggered(p)
       \/ chained /\ alert = "none" /\ UNCHANGED faults /\ Goto(p, "trigIns")
       \/ chained /\ alert # "none" /\ Fault /\ Goto(p, "trigIns")
    /\ UNCHANGED <<run, alert, chained, sent, acked, told, oldWay, copies>>

TrigIns_Replaces(p) ==
    /\ At(p, "trigIns")
    /\ alert' = "open" /\ UNCHANGED faults /\ Triggered(p)
    /\ UNCHANGED <<run, chained, sent, acked, told, oldWay, copies>>

TrigIns(p) ==
    /\ At(p, "trigIns")
    /\ \/ alert = "none" /\ alert' = "open" /\ UNCHANGED faults /\ Triggered(p)
       \/ alert # "none" /\ UNCHANGED <<alert, faults>> /\ Goto(p, "trigAgain")
       \/ alert' \in {alert, IF alert = "none" THEN "open" ELSE alert} /\ Fault /\ Goto(p, "trigAgain")
    /\ UNCHANGED <<run, chained, sent, acked, told, oldWay, copies>>

TrigAgain(p) ==
    /\ At(p, "trigAgain")
    /\ \/ alert # "none" /\ Triggered(p) /\ UNCHANGED <<faults, oldWay>>
       \/ alert = "none" /\ NotTriggered(p) /\ UNCHANGED faults
       \/ alert # "none" /\ Fault /\ NotTriggered(p)
    /\ UNCHANGED <<run, alert, chained, sent, acked, told, copies>>

SetAlert(p) ==
    /\ At(p, "setAlert")
    /\ \/ run' = [run EXCEPT !.recorded = TRUE] /\ Goto(p, "reread") /\ UNCHANGED faults
       \/ run' \in {run, [run EXCEPT !.recorded = TRUE]} /\ Fault /\ Settled(p)
    /\ UNCHANGED <<alert, chained, sent, acked, told, oldWay, copies>>

\* A cancel applied while the alert was being raised found none to close.
Reread(p) ==
    /\ At(p, "reread")
    /\ \/ run.state = "cancelled" /\ proc' = [proc EXCEPT ![p].pc = "closeGet", ![p].round = 0] /\ UNCHANGED faults
       \/ run.state # "cancelled" /\ Goto(p, "clear") /\ UNCHANGED faults
       \/ Fault /\ Settled(p)
    /\ UNCHANGED <<run, alert, chained, sent, acked, told, oldWay, copies>>

Cleared_AnyRev(p) == [run EXCEPT !.pending = FALSE]

\* The debt is dropped for the rev the work was done for.
Cleared(p) == IF run.rev = proc[p].snap.rev THEN [run EXCEPT !.pending = FALSE] ELSE run

Clear(p) ==
    /\ At(p, "clear")
    /\ \/ run' = Cleared(p) /\ UNCHANGED faults
       \/ run' \in {run, Cleared(p)} /\ Fault
    /\ Settled(p)
    /\ UNCHANGED <<alert, chained, sent, acked, told, oldWay, copies>>
-----------------------------------------------------------------------------
Tell(p) ==
    /\ At(p, "tell")
    /\ \/ told' = [told EXCEPT ![proc[p].snap.state] = @ + IF proc[p].news THEN 1 ELSE 0] /\ UNCHANGED faults
       \/ proc[p].news /\ Fault /\ UNCHANGED told
    /\ IF proc[p].via = "hub" THEN Finish(p) ELSE Goto(p, "ack")
    /\ UNCHANGED <<run, alert, chained, sent, acked, oldWay, copies>>

Ack(p) ==
    /\ At(p, "ack")
    /\ \/ acked' = acked \cup {<<proc[p].kind, proc[p].snap.state>>} /\ UNCHANGED faults
       \/ Fault /\ UNCHANGED acked
    /\ Finish(p)
    /\ UNCHANGED <<run, alert, chained, sent, told, oldWay, copies>>

\* The replica stops, or the handler's context ends.
Stop(p) ==
    /\ ~At(p, "idle")
    /\ Fault /\ Finish(p)
    /\ UNCHANGED <<run, alert, chained, sent, acked, told, oldWay, copies>>

Step(p) ==
    \/ Apply(p) \/ ApplyFails(p)
    \/ CloseGet(p) \/ CloseUpd(p) \/ CloseTomb(p)
    \/ TrigGet(p) \/ TrigIns(p) \/ TrigAgain(p) \/ SetAlert(p) \/ Reread(p)
    \/ Clear(p) \/ Tell(p) \/ Ack(p)

Next ==
    \/ \E kind \in {"start", "cancel"} : BridgeSends(kind)
    \/ AlertHandled \/ RemoveChain
    \/ \E p \in Handlers, kind \in {"start", "cancel"} :
           Retry(p, kind) \/ \E via \in {"mqtt", "frame", "hub"} : Copy(p, kind, via)
    \/ \E p \in Reconcilers : Reconcile(p)
    \/ \E p \in Procs : Step(p) \/ Stop(p)

Spec == Init /\ [][Next]_vars

\* Scheduling: Go runs every goroutine that can run, the reconciler's ticker
\* comes back, and the bridge repeats an event until it has the ack.
Fairness ==
    /\ \A p \in Procs : WF_vars(Step(p))
    /\ \A p \in Reconcilers : WF_vars(Reconcile(p))
    /\ \A kind \in {"start", "cancel"} : WF_vars(\E p \in Handlers : Retry(p, kind))

FairSpec == Spec /\ Fairness
-----------------------------------------------------------------------------
Kinds == {"start", "cancel"}

RunStates == {"active", "cancelled"}

Pcs == {"idle", "apply", "closeGet", "closeUpd", "closeTomb", "trigGet", "trigIns", "trigAgain", "setAlert",
        "reread", "clear", "tell", "ack"}

\* The row, the alert's phase and each handler's place have their shapes, and
\* the bounds hold.
TypeOK ==
    /\ run \in [state : {"none"} \cup RunStates, rev : Nat, pending : BOOLEAN, started : BOOLEAN, recorded : BOOLEAN]
    /\ alert \in {"none", "open", "closed"}
    /\ chained \in BOOLEAN /\ oldWay \in BOOLEAN
    /\ proc \in [Procs -> [pc : Pcs, kind : Kinds, via : {"mqtt", "frame", "hub", "reconcile"},
                           snap : [state : {"none"} \cup RunStates, rev : Nat],
                           round : Nat, news : BOOLEAN, unstored : BOOLEAN]]
    /\ sent \subseteq Kinds /\ acked \subseteq (Kinds \X RunStates)
    /\ told \in [RunStates -> Nat]
    /\ copies \in 0..MaxCopies /\ faults \in 0..MaxFaults

\* An ack stands for durable work (runs.go:118, bridge-hub-protocol.md "Run
\* state"): once a start is acked its run is stored and, while it is active,
\* its alert exists, is owed, or cannot be (no chain); once a cancel is acked
\* the run is cancelled and its alert closed or owed.  No ack says cancelled
\* of a run that is not.
AckStands ==
    /\ \A s \in RunStates : <<"start", s>> \in acked =>
           /\ run.started
           /\ run.state = "active" => (run.pending \/ alert # "none" \/ ~chained)
    /\ \A s \in RunStates : <<"cancel", s>> \in acked =>
           run.state = "cancelled" /\ (run.pending \/ alert = "closed")
    /\ \A k \in Kinds : <<k, "cancelled">> \in acked => run.state = "cancelled"

\* The Hub's consumers are told of a run's start, and of its end, at most
\* once each, however many copies of the event arrive (tell, runs.go:123).
ToldOnce == \A s \in RunStates : told[s] <= 1

\* An SOS is never dropped (uplink.go, SatMsgSOSStart): a start that came by a
\* frame, which is sent once, has stored its run, found or raised the alert, or
\* paged the old way by the time its handler returns, unless the replica stops.
NeverDropped ==
    [][\A p \in Handlers :
          ( /\ ~At(p, "idle") /\ proc[p].kind = "start" /\ proc[p].via = "frame"
            /\ proc'[p].pc = "idle" /\ ~Stop(p) )
          => (run'.started \/ alert' # "none" \/ oldWay' \/ ~chained')]_vars

\* The run keeps its contract: cancelled is terminal, one alert is raised at
\* most once, and the debt committed with a state change is dropped only when
\* the alert matches the run (settle, ClearSOSRunAlertPending).
Contract == INSTANCE SosContract WITH state <- run.state, owed <- run.pending

ImplementsContract == Contract!Spec

\* The alert id keeps the promise that Escalation shows for the engine's part.
Lifecycle == INSTANCE AlertLifecycle WITH Ids <- {"run"}, phase <- [a \in {"run"} |-> alert]

ImplementsLifecycle == Lifecycle!Spec

\* Alert work that is owed gets done, whatever failed (Reconcile).
DebtSettled == run.pending ~> ~run.pending

\* Once a run is cancelled its alert is closed in the end, however the cancel
\* raced the raise.
CancelStops == (run.state = "cancelled") ~> (alert = "closed")

\* A start the bridge sends over MQTT pages in the end, or meets its cancel's
\* tombstone, or there is nobody to page.
StartPages == ("start" \in sent) ~> (alert # "none" \/ ~chained)
=============================================================================
