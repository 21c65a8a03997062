---------------------------- MODULE SosRunsProofs ----------------------------
(***************************************************************************)
(* Theorems of SosRuns for any number of handlers and reconcilers, any     *)
(* number of copies and failures.  What a process relies on (ProcOk) is    *)
(* stated of its record, the row, the alert and the chain, and is kept by  *)
(* whatever the others do, since those three only grow (Grows).            *)
(***************************************************************************)
EXTENDS SosRuns, TLAPS

RunRec == [state : {"none"} \cup RunStates, rev : Nat, pending : BOOLEAN, started : BOOLEAN, recorded : BOOLEAN]

SnapRec == [state : {"none"} \cup RunStates, rev : Nat]

Vias == {"mqtt", "frame", "hub", "reconcile"}

ProcRec == [pc : Pcs, kind : Kinds, via : Vias, snap : SnapRec, round : Nat, news : BOOLEAN, unstored : BOOLEAN]

AlertPhases == {"none", "open", "closed"}

\* A process's copy of the row is the row, or older than it.
Seen(x, r) ==
    /\ x.snap.rev <= r.rev
    /\ x.snap.rev = r.rev => x.snap.state = r.state
    /\ x.snap.state # "none" => r.state # "none"
    /\ x.snap.state = "cancelled" => r.state = "cancelled"

Closing == {"closeGet", "closeUpd", "closeTomb"}

Raising == {"trigGet", "trigIns", "trigAgain"}

\* Only a cancelled run's alert is closed, only an active one's is raised, and
\* the debt is about to be dropped only if the alert matches the copy.
Placed(x, r, a, c) ==
    /\ x.pc \in Closing => r.state = "cancelled"
    /\ x.pc \in {"closeUpd", "setAlert", "reread"} => a # "none"
    /\ x.pc \in Raising \cup {"setAlert", "reread"} => (x.unstored \/ x.snap.state = "active")
    /\ x.unstored => x.pc \in Raising
    /\ x.pc = "clear" /\ x.snap.state = "cancelled" => a = "closed"
    /\ x.pc = "clear" /\ x.snap.state = "active" /\ c => a # "none"

\* A handler past its transaction has its event in the row.
Handled(x, r) ==
    /\ x.pc \in {"apply", "tell", "ack"} => x.via # "reconcile"
    /\ (x.via # "reconcile" /\ x.pc \notin {"idle", "apply"} /\ ~x.unstored) =>
           /\ x.snap.state # "none"
           /\ x.kind = "start" => r.started
           /\ x.kind = "cancel" => r.state = "cancelled"

ProcOk(x, r, a, c) == Seen(x, r) /\ Placed(x, r, a, c) /\ Handled(x, r)

\* A row without debt has the alert it calls for.
RunOk(r, a, c) ==
    /\ r.rev = 0 <=> r.state = "none"
    /\ r.pending \/ r.started => r.state # "none"
    /\ r.state = "active" /\ ~r.pending /\ c => a # "none"
    /\ r.state = "cancelled" /\ ~r.pending => a = "closed"

\* What an ack says is in the row.
AckOk(k, s, r) ==
    /\ k = "start" => r.started
    /\ k = "cancel" \/ s = "cancelled" => r.state = "cancelled"

Owes(x, s) == x.news /\ x.snap.state = s /\ x.pc \notin {"idle", "ack"}

\* One process, at most, has news of a state to tell, and only while it was
\* not told.
TellOk(s) ==
    /\ told[s] <= 1
    /\ told[s] = 1 => run.state \in {s, "cancelled"}
    /\ \A p \in Procs : Owes(proc[p], s) => told[s] = 0 /\ run.state \in {s, "cancelled"}
    /\ \A p, q \in Procs : Owes(proc[p], s) /\ Owes(proc[q], s) => p = q

IInv ==
    /\ TypeOK
    /\ RunOk(run, alert, chained)
    /\ \A p \in Procs : ProcOk(proc[p], run, alert, chained)
    /\ \A k \in Kinds, s \in RunStates : <<k, s>> \in acked => AckOk(k, s, run)

TInv == \A s \in RunStates : TellOk(s)
-----------------------------------------------------------------------------
(* Records. *)

LEMMA Types ==
    ASSUME TypeOK
    PROVE  /\ run \in RunRec /\ alert \in AlertPhases /\ chained \in BOOLEAN
           /\ proc \in [Procs -> ProcRec]
BY Zenon DEF TypeOK, RunRec, AlertPhases, ProcRec, SnapRec, Vias

LEMMA RunFields ==
    ASSUME NEW r \in RunRec
    PROVE  /\ r.state \in {"none"} \cup RunStates /\ r.rev \in Nat
           /\ r.pending \in BOOLEAN /\ r.started \in BOOLEAN /\ r.recorded \in BOOLEAN
BY Zenon DEF RunRec

LEMMA ProcFields ==
    ASSUME NEW x \in ProcRec
    PROVE  /\ x.pc \in Pcs /\ x.kind \in Kinds /\ x.via \in Vias /\ x.round \in Nat
           /\ x.news \in BOOLEAN /\ x.unstored \in BOOLEAN
           /\ x.snap \in SnapRec /\ x.snap.state \in {"none"} \cup RunStates /\ x.snap.rev \in Nat
BY Zenon DEF ProcRec, SnapRec

LEMMA IdleRec ==
    /\ Idle \in ProcRec /\ Idle.pc = "idle" /\ Idle.news = FALSE /\ Idle.unstored = FALSE
    /\ Idle.snap = [state |-> "none", rev |-> 0] /\ Idle.kind = "start" /\ Idle.via = "mqtt"
<1>1. "idle" \in Pcs /\ "start" \in Kinds /\ "mqtt" \in Vias /\ 0 \in Nat
  BY DEF Pcs, Kinds, Vias
<1>2. QED BY Zenon, <1>1 DEF Idle, ProcRec, SnapRec

\* A process that moves to another place.
Moves(x, pc, y) == y = [x EXCEPT !.pc = pc] \/ \E n \in Nat : y = [x EXCEPT !.pc = pc, !.round = n]

LEMMA MovesRec ==
    ASSUME NEW x \in ProcRec, NEW pc \in Pcs, NEW y, Moves(x, pc, y)
    PROVE  /\ y \in ProcRec /\ y.pc = pc /\ y.kind = x.kind /\ y.via = x.via /\ y.snap = x.snap
           /\ y.news = x.news /\ y.unstored = x.unstored
BY Zenon DEF ProcRec, Moves
-----------------------------------------------------------------------------
(* What the others do. *)

Grows(r, a, c, r2, a2, c2) ==
    /\ r.rev <= r2.rev /\ (r.rev = r2.rev => r.state = r2.state)
    /\ r.state # "none" => r2.state # "none"
    /\ r.state = "cancelled" => r2.state = "cancelled"
    /\ r.started => r2.started
    /\ a # "none" => a2 # "none"
    /\ a = "closed" => a2 = "closed"
    /\ c2 => c

LEMMA GrowsKeeps ==
    ASSUME NEW x \in ProcRec, NEW r \in RunRec, NEW r2 \in RunRec, NEW a, NEW a2, NEW c, NEW c2,
           ProcOk(x, r, a, c), Grows(r, a, c, r2, a2, c2)
    PROVE  ProcOk(x, r2, a2, c2)
<1>1. Seen(x, r2)
  <2>1. x.snap.rev \in Nat /\ r.rev \in Nat /\ r2.rev \in Nat
    BY Zenon, ProcFields, RunFields
  <2>2. x.snap.rev <= r.rev /\ r.rev <= r2.rev
    BY Zenon DEF ProcOk, Seen, Grows
  <2>3. x.snap.rev <= r2.rev /\ (x.snap.rev = r2.rev => x.snap.rev = r.rev /\ r.rev = r2.rev)
    BY <2>1, <2>2
  <2>4. QED BY Zenon, <2>3 DEF ProcOk, Seen, Grows
<1>2. Placed(x, r2, a2, c2)
  BY Zenon DEF ProcOk, Placed, Grows
<1>3. Handled(x, r2)
  BY Zenon DEF ProcOk, Handled, Grows
<1>4. QED BY <1>1, <1>2, <1>3 DEF ProcOk

LEMMA GrowsSame ==
    ASSUME NEW r \in RunRec, NEW a, NEW c PROVE Grows(r, a, c, r, a, c)
<1>1. r.rev \in Nat BY Zenon, RunFields
<1>2. r.rev <= r.rev BY <1>1
<1>3. QED BY Zenon, <1>2 DEF Grows

\* A process at rest relies on nothing.
LEMMA IdleOk ==
    ASSUME NEW r \in RunRec, NEW a, NEW c, RunOk(r, a, c)
    PROVE  ProcOk(Idle, r, a, c)
<1>1. r.rev \in Nat BY Zenon, RunFields
<1>2. 0 <= r.rev BY <1>1
<1>3. Idle.snap.state = "none" /\ Idle.snap.rev = 0
  BY DEF Idle
<1>4. Seen(Idle, r)
  BY Zenon, <1>2, <1>3 DEF Seen, RunOk
<1>5. Placed(Idle, r, a, c)
  BY IdleRec DEF Placed, Closing, Raising
<1>6. Handled(Idle, r)
  BY IdleRec DEF Handled
<1>7. QED BY <1>4, <1>5, <1>6 DEF ProcOk

\* One that moves on needs what its new place asks.
LEMMA GotoOk ==
    ASSUME NEW x \in ProcRec, NEW y \in ProcRec, NEW r, NEW a, NEW c, ProcOk(x, r, a, c),
           x.pc \notin {"idle", "apply"}, y.pc \notin {"idle", "apply"},
           y.kind = x.kind, y.via = x.via, y.snap = x.snap, y.unstored = x.unstored,
           y.pc \in {"tell", "ack"} => x.via # "reconcile",
           Placed(y, r, a, c)
    PROVE  ProcOk(y, r, a, c)
<1>1. Seen(y, r)
  BY Zenon DEF ProcOk, Seen
<1>2. Handled(y, r)
  BY Zenon DEF ProcOk, Handled
<1>3. QED BY <1>1, <1>2 DEF ProcOk
-----------------------------------------------------------------------------
(* Putting a step together. *)

RestOk ==
    /\ oldWay' \in BOOLEAN /\ sent' \subseteq Kinds /\ told' \in [RunStates -> Nat]
    /\ copies' \in 0..MaxCopies /\ faults' \in 0..MaxFaults

AcksOk ==
    acked' \subseteq (Kinds \X RunStates)
    /\ \A k \in Kinds, s \in RunStates : <<k, s>> \in acked' => <<k, s>> \in acked \/ AckOk(k, s, run')

WorldOk ==
    /\ run' \in RunRec /\ alert' \in AlertPhases /\ chained' \in BOOLEAN
    /\ Grows(run, alert, chained, run', alert', chained')
    /\ RunOk(run', alert', chained')

LEMMA Assemble ==
    ASSUME IInv, WorldOk, RestOk, AcksOk,
           proc' \in [Procs -> ProcRec],
           \A p \in Procs : proc'[p] = proc[p] \/ ProcOk(proc'[p], run', alert', chained')
    PROVE  IInv'
<1>1. TypeOK'
  BY Zenon DEF TypeOK, WorldOk, RestOk, AcksOk, RunRec, AlertPhases, ProcRec, SnapRec, Vias
<1>2. ASSUME NEW p \in Procs PROVE ProcOk(proc'[p], run', alert', chained')
  <2>1. proc[p] \in ProcRec /\ run \in RunRec /\ run' \in RunRec
    BY Zenon, Types DEF IInv, WorldOk
  <2>2. ProcOk(proc[p], run', alert', chained')
    BY Zenon, <2>1, GrowsKeeps DEF IInv, WorldOk
  <2>3. QED BY Zenon, <2>2
<1>3. ASSUME NEW k \in Kinds, NEW s \in RunStates, <<k, s>> \in acked' PROVE AckOk(k, s, run')
  BY Zenon, <1>3 DEF AcksOk, IInv, AckOk, WorldOk, Grows
<1>4. QED BY Zenon, <1>1, <1>2, <1>3 DEF IInv, WorldOk

\* One process changes.
LEMMA AssembleOne ==
    ASSUME IInv, WorldOk, RestOk, AcksOk, NEW p \in Procs, NEW y \in ProcRec,
           proc' = [proc EXCEPT ![p] = y], ProcOk(y, run', alert', chained')
    PROVE  IInv'
<1>1. proc \in [Procs -> ProcRec]
  BY Zenon, Types DEF IInv
<1>2. proc' \in [Procs -> ProcRec] /\ \A q \in Procs : proc'[q] = IF q = p THEN y ELSE proc[q]
  BY Zenon, <1>1
<1>3. QED BY Zenon, <1>2, Assemble

LEMMA FaultType ==
    ASSUME IInv, Fault \/ UNCHANGED faults PROVE faults' \in 0..MaxFaults
<1>1. faults \in 0..MaxFaults BY DEF IInv, TypeOK
<1>2. QED BY <1>1, BoundsAssumption DEF Fault

LEMMA WorldSame ==
    ASSUME IInv, UNCHANGED <<run, alert, chained>> PROVE WorldOk
<1>1. run \in RunRec /\ alert \in AlertPhases /\ chained \in BOOLEAN
  BY Zenon, Types DEF IInv
<1>2. QED BY Zenon, <1>1, GrowsSame DEF WorldOk, IInv

LEMMA AcksSame == ASSUME IInv, acked' = acked PROVE AcksOk
BY Zenon DEF IInv, TypeOK, AcksOk

LEMMA RestSame ==
    ASSUME IInv, UNCHANGED <<sent, told, copies>>, oldWay' \in BOOLEAN, Fault \/ UNCHANGED faults
    PROVE  RestOk
BY Zenon, FaultType DEF IInv, TypeOK, RestOk

LEMMA Around ==
    ASSUME IInv, UNCHANGED <<sent, acked, told, copies>>, oldWay' \in BOOLEAN, Fault \/ UNCHANGED faults
    PROVE  RestOk /\ AcksOk
BY Zenon, RestSame, AcksSame

LEMMA ProcAt ==
    ASSUME IInv, NEW p \in Procs
    PROVE  /\ proc \in [Procs -> ProcRec] /\ proc[p] \in ProcRec /\ run \in RunRec
           /\ ProcOk(proc[p], run, alert, chained) /\ oldWay \in BOOLEAN
BY Zenon, Types DEF IInv, TypeOK

\* The alert may be raised once and closed, whatever the row says.
LEMMA AlertWorld ==
    ASSUME IInv, UNCHANGED <<run, chained>>, alert' \in AlertPhases,
           alert # "none" => alert' # "none", alert = "closed" => alert' = "closed"
    PROVE  WorldOk
<1>1. run \in RunRec /\ chained \in BOOLEAN
  BY Zenon, Types DEF IInv
<1>2. Grows(run, alert, chained, run, alert', chained)
  BY Zenon, <1>1, GrowsSame DEF Grows
<1>3. RunOk(run, alert', chained)
  BY Zenon DEF IInv, RunOk
<1>4. QED BY Zenon, <1>1, <1>2, <1>3 DEF WorldOk

LEMMA FinishKeeps ==
    ASSUME IInv, WorldOk, RestOk, AcksOk, NEW p \in Procs, Finish(p) PROVE IInv'
<1>1. ProcOk(Idle, run', alert', chained')
  BY Zenon, IdleOk DEF WorldOk
<1>2. QED BY Zenon, <1>1, IdleRec, AssembleOne DEF Finish

\* A step of p that only moves it.
MovesTo(p, pc) == \E y : Moves(proc[p], pc, y) /\ proc' = [proc EXCEPT ![p] = y]

LEMMA GotoMoves ==
    ASSUME IInv, NEW p \in Procs, NEW pc \in Pcs, Goto(p, pc) PROVE MovesTo(p, pc)
<1>1. proc \in [Procs -> ProcRec] BY Zenon, Types DEF IInv
<1>2. PICK y : y = [proc[p] EXCEPT !.pc = pc] BY Zenon
<1>3. proc' = [proc EXCEPT ![p] = y] BY <1>1, <1>2 DEF Goto
<1>4. QED BY Zenon, <1>2, <1>3 DEF MovesTo, Moves

LEMMA RoundMoves ==
    ASSUME IInv, NEW p \in Procs, NEW pc \in Pcs, NEW n \in Nat,
           proc' = [proc EXCEPT ![p].pc = pc, ![p].round = n]
    PROVE  MovesTo(p, pc)
<1>1. proc \in [Procs -> ProcRec] BY Zenon, Types DEF IInv
<1>2. PICK y : y = [proc[p] EXCEPT !.pc = pc, !.round = n] OBVIOUS
<1>3. proc' = [proc EXCEPT ![p] = y] BY <1>1, <1>2, Zenon
<1>4. QED BY Zenon, <1>2, <1>3 DEF MovesTo, Moves

LEMMA MovesKeep ==
    ASSUME IInv, WorldOk, RestOk, AcksOk, NEW p \in Procs, NEW pc \in Pcs, MovesTo(p, pc),
           proc[p].pc \notin {"idle", "apply"}, pc \notin {"idle", "apply"},
           pc \in {"tell", "ack"} => proc[p].via # "reconcile",
           \A y \in ProcRec : y.pc = pc /\ y.snap = proc[p].snap /\ y.unstored = proc[p].unstored
               => Placed(y, run', alert', chained')
    PROVE  IInv'
<1>1. proc \in [Procs -> ProcRec] /\ proc[p] \in ProcRec /\ run \in RunRec /\ run' \in RunRec
  BY Zenon, Types DEF IInv, WorldOk
<1>2. ProcOk(proc[p], run', alert', chained')
  BY Zenon, <1>1, GrowsKeeps DEF IInv, WorldOk
<1>3. PICK y : Moves(proc[p], pc, y) /\ proc' = [proc EXCEPT ![p] = y]
  BY Zenon DEF MovesTo
<1>4. y \in ProcRec /\ y.pc = pc /\ y.kind = proc[p].kind /\ y.via = proc[p].via /\ y.snap = proc[p].snap
      /\ y.unstored = proc[p].unstored
  BY <1>1, <1>3, MovesRec
<1>5. ProcOk(y, run', alert', chained')
  BY Zenon, <1>1, <1>2, <1>4, GotoOk
<1>6. QED BY Zenon, <1>3, <1>4, <1>5, AssembleOne

LEMMA SettledKeeps ==
    ASSUME IInv, WorldOk, RestOk, AcksOk, NEW p \in Procs, Settled(p),
           proc[p].pc \notin {"idle", "apply"}, ~proc[p].unstored
    PROVE  IInv'
<1>1. CASE Finish(p)
  BY Zenon, <1>1, FinishKeeps
<1>2. CASE proc[p].via # "reconcile" /\ Goto(p, "tell")
  <2>1. "tell" \in Pcs
    BY DEF Pcs
  <2>2. \A y \in ProcRec : y.pc = "tell" /\ y.unstored = proc[p].unstored => Placed(y, run', alert', chained')
    BY DEF Placed, Closing, Raising
  <2>3. MovesTo(p, "tell")
    BY Zenon, <1>2, <2>1, GotoMoves
  <2>4. QED BY Zenon, <1>2, <2>1, <2>2, <2>3, MovesKeep
<1>3. QED BY Zenon, <1>1, <1>2 DEF Settled
-----------------------------------------------------------------------------
(* The row. *)

\* What a transaction makes of the row.
LEMMA ApplyRow ==
    ASSUME NEW r \in RunRec, NEW a, NEW c, RunOk(r, a, c), NEW k \in Kinds, NEW r2,
           r2 = IF r.state = "none" THEN NewSOSRun(k) ELSE ApplySOSEvent(r, k)
    PROVE  /\ r2 \in RunRec /\ Grows(r, a, c, r2, a, c) /\ RunOk(r2, a, c)
           /\ r2.state \in RunStates
           /\ k = "start" => r2.started
           /\ k = "cancel" => r2.state = "cancelled"
           /\ r.rev < r2.rev
<1>1. r.state \in {"none", "active", "cancelled"} /\ r.rev \in Nat /\ k \in {"start", "cancel"}
      /\ r.pending \in BOOLEAN /\ r.started \in BOOLEAN /\ r.recorded \in BOOLEAN
  BY Zenon, RunFields DEF RunStates, Kinds
<1>2. r.rev + 1 \in Nat /\ r.rev + 1 # 0 /\ r.rev < r.rev + 1 /\ r.rev <= r.rev + 1 /\ r.rev # r.rev + 1
      /\ 1 \in Nat /\ 1 # 0
  BY <1>1
<1>3. CASE r.state = "none"
  <2>1. r2 \in RunRec
    BY Zenon, <1>1, <1>2, <1>3 DEF RunRec, NewSOSRun, RunStates
  <2>2. /\ r2.state = (IF k = "cancel" THEN "cancelled" ELSE "active") /\ r2.rev = 1 /\ r2.pending
        /\ (k = "start" => r2.started)
    BY Zenon, <1>1, <1>3 DEF NewSOSRun
  <2>3. r.rev = 0
    BY Zenon, <1>3 DEF RunOk
  <2>4. r.rev <= r2.rev /\ r.rev # r2.rev /\ r.rev < r2.rev
    BY <2>2, <2>3
  <2>5. Grows(r, a, c, r2, a, c)
    BY Zenon, <1>1, <1>3, <2>2, <2>4 DEF Grows, RunOk
  <2>6. RunOk(r2, a, c)
    BY Zenon, <1>2, <2>2 DEF RunOk
  <2>7. QED BY Zenon, <1>1, <2>1, <2>2, <2>4, <2>5, <2>6 DEF RunStates
<1>4. CASE r.state # "none"
  <2>1. r2 \in RunRec
    BY Zenon, <1>1, <1>2, <1>4 DEF RunRec, ApplySOSEvent, RunStates
  <2>2. /\ r2.state = (IF k = "cancel" /\ r.state = "active" THEN "cancelled" ELSE r.state) /\ r2.rev = r.rev + 1
        /\ r2.pending <=> (r.pending \/ (k = "cancel" /\ r.state = "active"))
        /\ r2.started <=> (r.started \/ k = "start")
    BY Zenon, <1>4 DEF ApplySOSEvent, Ends
  <2>3. r.rev <= r2.rev /\ r.rev # r2.rev /\ r.rev < r2.rev /\ r2.rev # 0
    BY <1>2, <2>2
  <2>4. Grows(r, a, c, r2, a, c)
    BY Zenon, <1>1, <1>4, <2>2, <2>3 DEF Grows
  <2>5. RunOk(r2, a, c)
    BY Zenon, <1>1, <1>4, <2>2, <2>3 DEF RunOk
  <2>6. QED BY Zenon, <1>1, <1>4, <2>1, <2>2, <2>3, <2>4, <2>5 DEF RunStates
<1>5. QED BY Zenon, <1>3, <1>4

\* A row in which only the debt, or the alert's name, changed.
LEMMA SameRow ==
    ASSUME IInv, UNCHANGED <<alert, chained>>, run' \in RunRec, run'.state = run.state, run'.rev = run.rev,
           run'.started <=> run.started, run'.pending => run.pending,
           \/ run'.pending <=> run.pending
           \/ /\ run.state = "active" /\ chained => alert # "none"
              /\ run.state = "cancelled" => alert = "closed"
    PROVE  WorldOk
<1>1. run \in RunRec /\ alert \in AlertPhases /\ chained \in BOOLEAN
  BY Zenon, Types DEF IInv
<1>2. Grows(run, alert, chained, run', alert, chained)
  BY Zenon, <1>1, GrowsSame DEF Grows
<1>3. RunOk(run', alert, chained)
  BY Zenon DEF IInv, RunOk
<1>4. QED BY Zenon, <1>1, <1>2, <1>3 DEF WorldOk

LEMMA ApplyWorld ==
    ASSUME IInv, UNCHANGED <<alert, chained>>, NEW k \in Kinds, run' = ApplySOSRunEvent(k)
    PROVE  /\ WorldOk /\ run'.state \in RunStates /\ run.rev < run'.rev
           /\ k = "start" => run'.started
           /\ k = "cancel" => run'.state = "cancelled"
<1>1. run \in RunRec /\ alert \in AlertPhases /\ chained \in BOOLEAN /\ RunOk(run, alert, chained)
  BY Zenon, Types DEF IInv
<1>2. run' = IF run.state = "none" THEN NewSOSRun(k) ELSE ApplySOSEvent(run, k)
  BY Zenon DEF ApplySOSRunEvent
<1>3. QED BY Zenon, <1>1, <1>2, ApplyRow DEF WorldOk
-----------------------------------------------------------------------------
(* The steps of the world around the Hub. *)

LEMMA BridgeSendsKeeps == ASSUME IInv, NEW k \in Kinds, BridgeSends(k) PROVE IInv'
<1>1. WorldOk /\ AcksOk
  BY Zenon, WorldSame, AcksSame DEF BridgeSends
<1>2. RestOk
  BY Zenon DEF BridgeSends, RestOk, IInv, TypeOK
<1>3. proc' \in [Procs -> ProcRec] /\ proc' = proc
  BY Zenon, Types DEF BridgeSends, IInv
<1>4. QED BY Zenon, <1>1, <1>2, <1>3, Assemble

LEMMA AlertHandledKeeps == ASSUME IInv, AlertHandled PROVE IInv'
<1>1. WorldOk
  BY Zenon, AlertWorld DEF AlertHandled, AlertPhases
<1>2. RestOk /\ AcksOk
  BY Zenon, Around DEF AlertHandled, IInv, TypeOK
<1>3. proc' \in [Procs -> ProcRec] /\ proc' = proc
  BY Zenon, Types DEF AlertHandled, IInv
<1>4. QED BY Zenon, <1>1, <1>2, <1>3, Assemble

LEMMA RemoveChainKeeps == ASSUME IInv, RemoveChain PROVE IInv'
<1>1. WorldOk
  <2>1. run \in RunRec /\ alert \in AlertPhases
    BY Zenon, Types DEF IInv
  <2>2. Grows(run, alert, chained, run, alert, FALSE)
    BY Zenon, <2>1, GrowsSame DEF Grows
  <2>3. RunOk(run, alert, FALSE)
    BY Zenon DEF IInv, RunOk
  <2>4. QED BY Zenon, <2>1, <2>2, <2>3 DEF WorldOk, RemoveChain
<1>2. RestOk /\ AcksOk
  BY Zenon, Around DEF RemoveChain, IInv, TypeOK
<1>3. proc' \in [Procs -> ProcRec] /\ proc' = proc
  BY Zenon, Types DEF RemoveChain, IInv
<1>4. QED BY Zenon, <1>1, <1>2, <1>3, Assemble
-----------------------------------------------------------------------------
(* Events. *)

LEMMA BeginKeeps ==
    ASSUME IInv, WorldOk, RestOk, AcksOk, NEW p \in Procs, NEW k \in Kinds, NEW v \in {"mqtt", "frame", "hub"},
           Begin(p, k, v)
    PROVE  IInv'
<1>1. PICK y : y = [Idle EXCEPT !.pc = "apply", !.kind = k, !.via = v]
  OBVIOUS
<1>2. "apply" \in Pcs /\ v \in Vias /\ v # "reconcile"
  BY DEF Pcs, Vias
<1>3. y \in ProcRec /\ y.pc = "apply" /\ y.via = v /\ y.snap = Idle.snap /\ y.unstored = Idle.unstored
  BY Zenon, <1>1, <1>2, IdleRec DEF ProcRec
<1>4. ~y.unstored
  BY Zenon, <1>3, IdleRec
<1>5. Seen(y, run')
  BY Zenon, <1>3, IdleOk DEF WorldOk, ProcOk, Seen
<1>6. Placed(y, run', alert', chained')
  BY Zenon, <1>3, <1>4 DEF Placed, Closing, Raising
<1>7. Handled(y, run')
  BY Zenon, <1>2, <1>3 DEF Handled
<1>8. proc' = [proc EXCEPT ![p] = y]
  BY <1>1 DEF Begin
<1>9. QED BY Zenon, <1>3, <1>5, <1>6, <1>7, <1>8, AssembleOne DEF ProcOk

LEMMA RetryKeeps == ASSUME IInv, NEW p \in Procs, NEW k \in Kinds, Retry(p, k) PROVE IInv'
<1>1. WorldOk
  BY Zenon, WorldSame DEF Retry
<1>2. RestOk /\ AcksOk
  BY Zenon, Around DEF Retry, IInv, TypeOK
<1>3. QED BY Zenon, <1>1, <1>2, BeginKeeps DEF Retry

LEMMA CopyKeeps ==
    ASSUME IInv, NEW p \in Procs, NEW k \in Kinds, NEW v \in {"mqtt", "frame", "hub"}, Copy(p, k, v) PROVE IInv'
<1>1. WorldOk /\ AcksOk
  BY Zenon, WorldSame, AcksSame DEF Copy
<1>2. copies' \in 0..MaxCopies
  BY BoundsAssumption DEF Copy, IInv, TypeOK
<1>3. RestOk
  BY Zenon, <1>2 DEF Copy, RestOk, IInv, TypeOK
<1>4. QED BY Zenon, <1>1, <1>3, BeginKeeps DEF Copy

LEMMA ReconcileKeeps == ASSUME IInv, NEW p \in Procs, Reconcile(p) PROVE IInv'
<1>1. WorldOk
  BY Zenon, WorldSame DEF Reconcile
<1>2. RestOk /\ AcksOk
  BY Zenon, Around DEF Reconcile, IInv, TypeOK
<1>3. PICK y : y = [Idle EXCEPT !.pc = SyncAlert(run), !.via = "reconcile", !.snap = Snap(run)]
  OBVIOUS
<1>4. run \in RunRec /\ run.state \in {"none"} \cup RunStates /\ run.rev \in Nat
  BY Zenon, Types, RunFields DEF IInv
<1>5. Snap(run) \in SnapRec /\ Snap(run).state = run.state /\ Snap(run).rev = run.rev
  BY Zenon, <1>4 DEF Snap, SnapRec
<1>6. SyncAlert(run) \in {"closeGet", "trigGet"} /\ SyncAlert(run) \in Pcs /\ "reconcile" \in Vias
      /\ (SyncAlert(run) = "closeGet" => run.state = "cancelled")
      /\ (SyncAlert(run) = "trigGet" => run.state # "cancelled")
  BY DEF SyncAlert, Pcs, Vias
<1>7. y \in ProcRec /\ y.pc = SyncAlert(run) /\ y.via = "reconcile" /\ y.snap = Snap(run) /\ y.unstored = Idle.unstored
  BY Zenon, <1>3, <1>5, <1>6, IdleRec DEF ProcRec
<1>8. ~y.unstored
  BY Zenon, <1>7, IdleRec
<1>9. y.snap.state = run.state /\ y.snap.rev = run.rev
  BY Zenon, <1>5, <1>7
<1>10. Seen(y, run)
  BY <1>4, <1>9 DEF Seen
<1>11. run.state = "cancelled" \/ run.state = "active"
  BY Zenon, <1>4 DEF Reconcile, IInv, RunOk, RunStates
<1>12. Placed(y, run, alert, chained)
  BY Zenon, <1>6, <1>7, <1>8, <1>9, <1>11 DEF Placed, Closing, Raising
<1>13. Handled(y, run)
  BY Zenon, <1>6, <1>7 DEF Handled
<1>14. ProcOk(y, run', alert', chained')
  BY Zenon, <1>10, <1>12, <1>13 DEF ProcOk, Reconcile
<1>15. proc' = [proc EXCEPT ![p] = y]
  BY <1>3 DEF Reconcile
<1>16. QED BY Zenon, <1>1, <1>2, <1>7, <1>14, <1>15, AssembleOne

LEMMA ApplyKeeps == ASSUME IInv, NEW p \in Procs, Apply(p) PROVE IInv'
<1>1. proc \in [Procs -> ProcRec] /\ proc[p] \in ProcRec /\ proc[p].kind \in Kinds /\ proc[p].pc = "apply"
      /\ ProcOk(proc[p], run, alert, chained)
  BY Zenon, ProcAt, ProcFields DEF Apply, At
<1>2. /\ WorldOk /\ run'.state \in RunStates /\ run.rev < run'.rev
      /\ proc[p].kind = "start" => run'.started
      /\ proc[p].kind = "cancel" => run'.state = "cancelled"
  BY Zenon, <1>1, ApplyWorld DEF Apply
<1>3. RestOk /\ AcksOk
  BY Zenon, Around DEF Apply, IInv, TypeOK
<1>4. PICK pc : pc = IF run'.pending THEN SyncAlert(run') ELSE "tell"
  OBVIOUS
<1>5. pc \in {"closeGet", "trigGet", "tell"} /\ pc \in Pcs /\ (pc = "closeGet" => run'.state = "cancelled")
      /\ (pc = "trigGet" => run'.state # "cancelled")
  BY <1>4 DEF SyncAlert, Pcs
<1>6. PICK n : n = News(proc[p].kind)
  OBVIOUS
<1>7. n \in BOOLEAN
  BY Zenon, <1>6 DEF News, Ends
<1>8. PICK y : y = [proc[p] EXCEPT !.snap = Snap(run'), !.round = 0, !.news = n, !.pc = pc]
  OBVIOUS
<1>9. run'.state \in {"none"} \cup RunStates /\ run'.rev \in Nat
  BY Zenon, RunFields, <1>2 DEF WorldOk
<1>10. Snap(run') \in SnapRec /\ Snap(run').state = run'.state /\ Snap(run').rev = run'.rev
  BY Zenon, <1>9 DEF Snap, SnapRec
<1>11. 0 \in Nat
  OBVIOUS
<1>12. y \in ProcRec /\ y.pc = pc /\ y.kind = proc[p].kind /\ y.via = proc[p].via /\ y.snap = Snap(run')
       /\ y.unstored = proc[p].unstored
  BY Zenon, <1>1, <1>5, <1>7, <1>8, <1>10, <1>11 DEF ProcRec
<1>13. y.snap.state = run'.state /\ y.snap.rev = run'.rev
  BY Zenon, <1>10, <1>12
<1>14. ~y.unstored /\ y.via # "reconcile"
  BY Zenon, <1>1, <1>12 DEF ProcOk, Placed, Raising, Handled
<1>15. Seen(y, run')
  BY <1>9, <1>13 DEF Seen
<1>16. Placed(y, run', alert', chained')
  BY Zenon, <1>2, <1>5, <1>12, <1>13, <1>14 DEF Placed, Closing, Raising, RunStates
<1>17. Handled(y, run')
  <2>1. run'.state # "none"
    BY <1>2 DEF RunStates
  <2>2. QED BY Zenon, <1>2, <1>12, <1>13, <1>14, <2>1 DEF Handled
<1>18. proc' = [proc EXCEPT ![p] = y]
  BY <1>1, <1>4, <1>6, <1>8, Zenon DEF Apply
<1>19. QED BY Zenon, <1>2, <1>3, <1>12, <1>15, <1>16, <1>17, <1>18, AssembleOne DEF ProcOk

LEMMA ApplyFailsKeeps == ASSUME IInv, NEW p \in Procs, ApplyFails(p) PROVE IInv'
<1>1. proc \in [Procs -> ProcRec] /\ proc[p] \in ProcRec /\ proc[p].kind \in Kinds /\ proc[p].pc = "apply"
      /\ ProcOk(proc[p], run, alert, chained) /\ run \in RunRec /\ proc[p].round \in Nat
  BY Zenon, ProcAt, ProcFields DEF ApplyFails, At
<1>2. WorldOk
  <2>1. CASE run' = run BY Zenon, <2>1, WorldSame DEF ApplyFails
  <2>2. CASE run' = ApplySOSRunEvent(proc[p].kind) BY Zenon, <1>1, <2>2, ApplyWorld DEF ApplyFails
  <2>3. QED BY Zenon, <2>1, <2>2 DEF ApplyFails
<1>3. RestOk /\ AcksOk
  BY Zenon, Around DEF ApplyFails, IInv, TypeOK
<1>4. ProcOk(proc[p], run', alert', chained')
  BY Zenon, <1>1, <1>2, GrowsKeeps DEF WorldOk
<1>5. CASE proc' = [proc EXCEPT ![p].round = proc[p].round + 1]
  <2>1. PICK y : y = [proc[p] EXCEPT !.round = proc[p].round + 1]
    BY Zenon
  <2>2. proc' = [proc EXCEPT ![p] = y]
    BY <1>1, <1>5, <2>1
  <2>3. proc[p].round + 1 \in Nat
    BY <1>1
  <2>4. y \in ProcRec /\ y.pc = proc[p].pc /\ y.kind = proc[p].kind /\ y.via = proc[p].via
        /\ y.snap = proc[p].snap /\ y.unstored = proc[p].unstored
    BY Zenon, <1>1, <2>1, <2>3 DEF ProcRec
  <2>5. ProcOk(y, run', alert', chained')
    BY Zenon, <1>4, <2>4 DEF ProcOk, Seen, Placed, Handled
  <2>6. QED BY Zenon, <1>2, <1>3, <2>2, <2>4, <2>5, AssembleOne
<1>6. CASE proc' = [proc EXCEPT ![p].pc = "trigGet", ![p].unstored = TRUE]
  <2>1. PICK y : y = [proc[p] EXCEPT !.pc = "trigGet", !.unstored = TRUE]
    OBVIOUS
  <2>2. proc' = [proc EXCEPT ![p] = y]
    BY <1>1, <1>6, <2>1, Zenon
  <2>3. "trigGet" \in Pcs
    BY DEF Pcs
  <2>4. y \in ProcRec /\ y.pc = "trigGet" /\ y.via = proc[p].via /\ y.snap = proc[p].snap /\ y.unstored
    BY Zenon, <1>1, <2>1, <2>3 DEF ProcRec
  <2>5. Seen(y, run')
    BY Zenon, <1>4, <2>4 DEF ProcOk, Seen
  <2>6. Placed(y, run', alert', chained') /\ Handled(y, run')
    BY Zenon, <2>4 DEF Placed, Closing, Raising, Handled
  <2>7. QED BY Zenon, <1>2, <1>3, <2>2, <2>4, <2>5, <2>6, AssembleOne DEF ProcOk
<1>7. CASE Finish(p)
  BY Zenon, <1>2, <1>3, <1>7, FinishKeeps
<1>8. QED BY Zenon, <1>5, <1>6, <1>7 DEF ApplyFails
-----------------------------------------------------------------------------
(* Closing the alert. *)

LEMMA PcsAre ==
    /\ "closeGet" \in Pcs /\ "closeUpd" \in Pcs /\ "closeTomb" \in Pcs /\ "trigIns" \in Pcs /\ "trigAgain" \in Pcs
    /\ "setAlert" \in Pcs /\ "reread" \in Pcs /\ "clear" \in Pcs /\ "ack" \in Pcs
BY DEF Pcs

\* Where a process may go, by what it knows of the row and the alert.
MayGo(x, pc, r, a, c) ==
    \/ pc = "closeGet" /\ r.state = "cancelled" /\ ~x.unstored
    \/ pc = "closeTomb" /\ r.state = "cancelled" /\ ~x.unstored
    \/ pc = "closeUpd" /\ r.state = "cancelled" /\ ~x.unstored /\ a # "none"
    \/ pc \in {"trigIns", "trigAgain"} /\ (x.unstored \/ x.snap.state = "active")
    \/ pc \in {"setAlert", "reread"} /\ ~x.unstored /\ x.snap.state = "active" /\ a # "none"
    \/ pc = "clear" /\ ~x.unstored /\ a = "closed"
    \/ pc = "clear" /\ ~x.unstored /\ x.snap.state = "active" /\ (a # "none" \/ ~c)
    \/ pc = "ack" /\ ~x.unstored /\ x.via # "reconcile"

LEMMA GoesKeep ==
    ASSUME IInv, WorldOk, RestOk, AcksOk, NEW p \in Procs, NEW pc \in Pcs, MovesTo(p, pc),
           proc[p].pc \notin {"idle", "apply"}, MayGo(proc[p], pc, run', alert', chained')
    PROVE  IInv'
<1>1. ASSUME NEW y \in ProcRec, y.pc = pc, y.snap = proc[p].snap, y.unstored = proc[p].unstored
      PROVE  Placed(y, run', alert', chained')
  BY Zenon, <1>1 DEF Placed, Closing, Raising, MayGo
<1>2. pc \notin {"idle", "apply"} /\ (pc \in {"tell", "ack"} => proc[p].via # "reconcile")
  BY DEF MayGo
<1>3. QED BY Zenon, <1>1, <1>2, MovesKeep

LEMMA CloseGetKeeps == ASSUME IInv, NEW p \in Procs, CloseGet(p) PROVE IInv'
<1>1. /\ WorldOk /\ proc[p].pc = "closeGet" /\ run.state = "cancelled" /\ ~proc[p].unstored
      /\ run' = run /\ alert' = alert /\ chained' = chained
  BY Zenon, ProcAt, WorldSame DEF CloseGet, At, ProcOk, Placed, Closing, Raising
<1>2. RestOk /\ AcksOk
  BY Zenon, Around DEF CloseGet, IInv, TypeOK
<1>3. CASE Settled(p)
  BY Zenon, <1>1, <1>2, <1>3, SettledKeeps
<1>4. CASE Goto(p, "closeTomb")
  <2>1. MovesTo(p, "closeTomb")
    BY Zenon, <1>4, PcsAre, GotoMoves
  <2>2. QED BY Zenon, <1>1, <1>2, <2>1, PcsAre, GoesKeep DEF MayGo
<1>5. CASE alert # "none" /\ Goto(p, "closeUpd")
  <2>1. MovesTo(p, "closeUpd")
    BY Zenon, <1>5, PcsAre, GotoMoves
  <2>2. QED BY Zenon, <1>1, <1>2, <1>5, <2>1, PcsAre, GoesKeep DEF MayGo
<1>6. QED BY Zenon, <1>3, <1>4, <1>5 DEF CloseGet

LEMMA CloseUpdKeeps == ASSUME IInv, NEW p \in Procs, CloseUpd(p) PROVE IInv'
<1>1. proc[p].pc = "closeUpd" /\ alert # "none" /\ ~proc[p].unstored /\ alert \in AlertPhases
  BY Zenon, ProcAt, Types DEF CloseUpd, At, ProcOk, Placed, Closing, Raising, IInv
<1>2. WorldOk
  <2>1. alert' = alert \/ alert' = "closed"
    BY Zenon DEF CloseUpd
  <2>2. QED BY Zenon, <1>1, <2>1, AlertWorld DEF CloseUpd, AlertPhases
<1>3. RestOk /\ AcksOk
  BY Zenon, Around DEF CloseUpd, IInv, TypeOK
<1>4. CASE Settled(p)
  BY Zenon, <1>1, <1>2, <1>3, <1>4, SettledKeeps
<1>5. CASE alert' = "closed" /\ Goto(p, "clear")
  <2>1. MovesTo(p, "clear")
    BY Zenon, <1>5, PcsAre, GotoMoves
  <2>2. QED BY Zenon, <1>1, <1>2, <1>3, <1>5, <2>1, PcsAre, GoesKeep DEF MayGo
<1>6. QED BY Zenon, <1>4, <1>5 DEF CloseUpd

LEMMA CloseTombKeeps == ASSUME IInv, NEW p \in Procs, CloseTomb(p) PROVE IInv'
<1>1. /\ proc[p].pc = "closeTomb" /\ run.state = "cancelled" /\ ~proc[p].unstored /\ alert \in AlertPhases
      /\ run' = run /\ proc[p].round \in Nat
  BY Zenon, ProcAt, ProcFields, Types DEF CloseTomb, At, ProcOk, Placed, Closing, Raising, IInv
<1>2. WorldOk
  <2>1. alert' = alert \/ (alert = "none" /\ alert' = "closed")
    BY Zenon DEF CloseTomb
  <2>2. QED BY Zenon, <1>1, <2>1, AlertWorld DEF CloseTomb, AlertPhases
<1>3. RestOk /\ AcksOk
  BY Zenon, Around DEF CloseTomb, IInv, TypeOK
<1>4. CASE Settled(p)
  BY Zenon, <1>1, <1>2, <1>3, <1>4, SettledKeeps
<1>5. CASE alert' = "closed" /\ Goto(p, "clear")
  <2>1. MovesTo(p, "clear")
    BY Zenon, <1>5, PcsAre, GotoMoves
  <2>2. QED BY Zenon, <1>1, <1>2, <1>3, <1>5, <2>1, PcsAre, GoesKeep DEF MayGo
<1>6. CASE proc' = [proc EXCEPT ![p].pc = "closeGet", ![p].round = proc[p].round + 1]
  <2>1. proc[p].round + 1 \in Nat
    BY <1>1
  <2>2. MovesTo(p, "closeGet")
    BY <1>6, <2>1, PcsAre, RoundMoves, Zenon
  <2>3. QED BY Zenon, <1>1, <1>2, <1>3, <2>2, PcsAre, GoesKeep DEF MayGo
<1>7. QED BY Zenon, <1>4, <1>5, <1>6 DEF CloseTomb
-----------------------------------------------------------------------------
(* Raising it. *)

LEMMA TriggeredKeeps ==
    ASSUME IInv, WorldOk, RestOk, AcksOk, NEW p \in Procs, Triggered(p), proc[p].pc \notin {"idle", "apply"},
           proc[p].unstored \/ proc[p].snap.state = "active", alert' # "none"
    PROVE  IInv'
<1>1. CASE Finish(p)
  BY Zenon, <1>1, FinishKeeps
<1>2. CASE ~proc[p].unstored /\ Goto(p, "setAlert")
  <2>1. MovesTo(p, "setAlert")
    BY Zenon, <1>2, PcsAre, GotoMoves
  <2>2. QED BY Zenon, <1>2, <2>1, PcsAre, GoesKeep DEF MayGo
<1>3. QED BY Zenon, <1>1, <1>2 DEF Triggered

LEMMA TrigGetKeeps == ASSUME IInv, NEW p \in Procs, TrigGet(p) PROVE IInv'
<1>1. /\ WorldOk /\ proc[p].pc = "trigGet" /\ (proc[p].unstored \/ proc[p].snap.state = "active")
      /\ run' = run /\ alert' = alert /\ chained' = chained
  BY Zenon, ProcAt, WorldSame DEF TrigGet, At, ProcOk, Placed, Raising
<1>2. RestOk /\ AcksOk
  BY Zenon, Around DEF TrigGet, IInv, TypeOK
<1>3. CASE Finish(p)
  BY Zenon, <1>1, <1>2, <1>3, FinishKeeps
<1>4. CASE ~chained /\ ~proc[p].unstored /\ Goto(p, "clear")
  <2>1. MovesTo(p, "clear")
    BY Zenon, <1>4, PcsAre, GotoMoves
  <2>2. QED BY Zenon, <1>1, <1>2, <1>4, <2>1, PcsAre, GoesKeep DEF MayGo
<1>5. CASE alert # "none" /\ Triggered(p)
  BY Zenon, <1>1, <1>2, <1>5, TriggeredKeeps
<1>6. CASE Goto(p, "trigIns")
  <2>1. MovesTo(p, "trigIns")
    BY Zenon, <1>6, PcsAre, GotoMoves
  <2>2. QED BY Zenon, <1>1, <1>2, <2>1, PcsAre, GoesKeep DEF MayGo
<1>7. QED BY Zenon, <1>3, <1>4, <1>5, <1>6 DEF TrigGet

LEMMA TrigInsKeeps == ASSUME IInv, NEW p \in Procs, TrigIns(p) PROVE IInv'
<1>1. proc[p].pc = "trigIns" /\ (proc[p].unstored \/ proc[p].snap.state = "active") /\ alert \in AlertPhases
  BY Zenon, ProcAt, Types DEF TrigIns, At, ProcOk, Placed, Raising, IInv
<1>2. WorldOk
  <2>1. alert' = alert \/ (alert = "none" /\ alert' = "open")
    BY Zenon DEF TrigIns
  <2>2. QED BY Zenon, <1>1, <2>1, AlertWorld DEF TrigIns, AlertPhases
<1>3. RestOk /\ AcksOk
  BY Zenon, Around DEF TrigIns, IInv, TypeOK
<1>4. CASE alert' = "open" /\ Triggered(p)
  BY Zenon, <1>1, <1>2, <1>3, <1>4, TriggeredKeeps
<1>5. CASE Goto(p, "trigAgain")
  <2>1. MovesTo(p, "trigAgain")
    BY Zenon, <1>5, PcsAre, GotoMoves
  <2>2. QED BY Zenon, <1>1, <1>2, <1>3, <2>1, PcsAre, GoesKeep DEF MayGo
<1>6. QED BY Zenon, <1>4, <1>5 DEF TrigIns

LEMMA TrigAgainKeeps == ASSUME IInv, NEW p \in Procs, TrigAgain(p) PROVE IInv'
<1>1. /\ WorldOk /\ proc[p].pc = "trigAgain" /\ (proc[p].unstored \/ proc[p].snap.state = "active")
      /\ alert' = alert
  BY Zenon, ProcAt, WorldSame DEF TrigAgain, At, ProcOk, Placed, Raising
<1>2. oldWay' \in BOOLEAN
  BY Zenon DEF TrigAgain, NotTriggered, IInv, TypeOK
<1>3. RestOk /\ AcksOk
  BY Zenon, <1>2, Around DEF TrigAgain
<1>4. CASE alert # "none" /\ Triggered(p)
  BY Zenon, <1>1, <1>3, <1>4, TriggeredKeeps
<1>5. CASE Finish(p)
  BY Zenon, <1>1, <1>3, <1>5, FinishKeeps
<1>6. CASE ~proc[p].unstored /\ Settled(p)
  BY Zenon, <1>1, <1>3, <1>6, SettledKeeps
<1>7. QED BY Zenon, <1>4, <1>5, <1>6 DEF TrigAgain, NotTriggered

LEMMA SetAlertKeeps == ASSUME IInv, NEW p \in Procs, SetAlert(p) PROVE IInv'
<1>1. /\ proc[p].pc = "setAlert" /\ proc[p].snap.state = "active" /\ ~proc[p].unstored /\ alert # "none"
      /\ run \in RunRec /\ alert' = alert /\ chained' = chained
  BY Zenon, ProcAt DEF SetAlert, At, ProcOk, Placed, Raising
<1>2. WorldOk
  <2>1. CASE run' = run
    BY Zenon, <1>1, <2>1, WorldSame
  <2>2. CASE run' = [run EXCEPT !.recorded = TRUE]
    <3>1. run' \in RunRec /\ run'.state = run.state /\ run'.rev = run.rev /\ (run'.started <=> run.started)
          /\ (run'.pending <=> run.pending)
      BY Zenon, <1>1, <2>2 DEF RunRec
    <3>2. QED BY Zenon, <1>1, <3>1, SameRow
  <2>3. QED BY Zenon, <2>1, <2>2 DEF SetAlert
<1>3. RestOk /\ AcksOk
  BY Zenon, Around DEF SetAlert, IInv, TypeOK
<1>4. CASE Settled(p)
  BY Zenon, <1>1, <1>2, <1>3, <1>4, SettledKeeps
<1>5. CASE Goto(p, "reread")
  <2>1. MovesTo(p, "reread")
    BY Zenon, <1>5, PcsAre, GotoMoves
  <2>2. QED BY Zenon, <1>1, <1>2, <1>3, <2>1, PcsAre, GoesKeep DEF MayGo
<1>6. QED BY Zenon, <1>4, <1>5 DEF SetAlert

LEMMA RereadKeeps == ASSUME IInv, NEW p \in Procs, Reread(p) PROVE IInv'
<1>1. /\ WorldOk /\ proc[p].pc = "reread" /\ proc[p].snap.state = "active" /\ ~proc[p].unstored /\ alert # "none"
      /\ run' = run /\ alert' = alert
  BY Zenon, ProcAt, WorldSame DEF Reread, At, ProcOk, Placed, Raising
<1>2. RestOk /\ AcksOk
  BY Zenon, Around DEF Reread, IInv, TypeOK
<1>3. CASE Settled(p)
  BY Zenon, <1>1, <1>2, <1>3, SettledKeeps
<1>4. CASE Goto(p, "clear")
  <2>1. MovesTo(p, "clear")
    BY Zenon, <1>4, PcsAre, GotoMoves
  <2>2. QED BY Zenon, <1>1, <1>2, <2>1, PcsAre, GoesKeep DEF MayGo
<1>5. CASE run.state = "cancelled" /\ proc' = [proc EXCEPT ![p].pc = "closeGet", ![p].round = 0]
  <2>1. MovesTo(p, "closeGet")
    BY <1>5, PcsAre, RoundMoves, Zenon
  <2>2. QED BY Zenon, <1>1, <1>2, <1>5, <2>1, PcsAre, GoesKeep DEF MayGo
<1>6. QED BY Zenon, <1>3, <1>4, <1>5 DEF Reread

\* The rev a process settles tells it that the row is the one it read.
LEMMA ClearWorld ==
    ASSUME IInv, NEW p \in Procs, proc[p].pc = "clear", UNCHANGED <<alert, chained>>, run' \in {run, Cleared(p)}
    PROVE  WorldOk
<1>1. run \in RunRec /\ ProcOk(proc[p], run, alert, chained)
  BY Zenon, ProcAt
<1>2. CASE run' = run
  BY Zenon, <1>2, WorldSame
<1>3. CASE run.rev = proc[p].snap.rev /\ run' = [run EXCEPT !.pending = FALSE]
  <2>1. run' \in RunRec /\ run'.state = run.state /\ run'.rev = run.rev /\ (run'.started <=> run.started)
        /\ ~run'.pending
    BY Zenon, <1>1, <1>3 DEF RunRec
  <2>2. (run.state = "active" /\ chained => alert # "none") /\ (run.state = "cancelled" => alert = "closed")
    BY Zenon, <1>1, <1>3 DEF ProcOk, Seen, Placed
  <2>3. QED BY Zenon, <2>1, <2>2, SameRow
<1>4. QED BY Zenon, <1>2, <1>3 DEF Cleared

LEMMA ClearKeeps == ASSUME IInv, NEW p \in Procs, Clear(p) PROVE IInv'
<1>1. proc[p].pc = "clear" /\ ~proc[p].unstored
  BY Zenon, ProcAt DEF Clear, At, ProcOk, Placed, Raising
<1>2. WorldOk
  BY Zenon, <1>1, ClearWorld DEF Clear
<1>3. RestOk /\ AcksOk
  BY Zenon, Around DEF Clear, IInv, TypeOK
<1>4. QED BY Zenon, <1>1, <1>2, <1>3, SettledKeeps DEF Clear
-----------------------------------------------------------------------------
(* Telling and acknowledging. *)

\* At "tell" and "ack" the event is stored.
LEMMA ToldOf ==
    ASSUME IInv, NEW p \in Procs, proc[p].pc \in {"tell", "ack"}
    PROVE  /\ proc[p].via # "reconcile" /\ ~proc[p].unstored /\ proc[p].snap.state \in RunStates
           /\ proc[p].kind \in Kinds /\ AckOk(proc[p].kind, proc[p].snap.state, run)
<1>1. proc[p] \in ProcRec /\ ProcOk(proc[p], run, alert, chained)
  BY Zenon, ProcAt
<1>2. proc[p].via # "reconcile" /\ ~proc[p].unstored
  BY Zenon, <1>1 DEF ProcOk, Handled, Placed, Raising
<1>3. proc[p].snap.state # "none" /\ AckOk(proc[p].kind, proc[p].snap.state, run)
  BY Zenon, <1>1, <1>2 DEF ProcOk, Handled, Seen, AckOk
<1>4. QED BY Zenon, <1>1, <1>2, <1>3, ProcFields

LEMMA TellKeeps == ASSUME IInv, NEW p \in Procs, Tell(p) PROVE IInv'
<1>1. proc[p].pc = "tell" /\ WorldOk /\ AcksOk
  BY Zenon, WorldSame, AcksSame DEF Tell, At
<1>2. proc[p].via # "reconcile" /\ ~proc[p].unstored /\ proc[p].snap.state \in RunStates
  BY Zenon, <1>1, ToldOf
<1>3. told' \in [RunStates -> Nat]
  <2>1. told \in [RunStates -> Nat]
    BY DEF IInv, TypeOK
  <2>2. QED BY <1>2, <2>1 DEF Tell
<1>4. RestOk
  BY Zenon, <1>3, FaultType DEF Tell, RestOk, IInv, TypeOK
<1>5. CASE Finish(p)
  BY Zenon, <1>1, <1>4, <1>5, FinishKeeps
<1>6. CASE Goto(p, "ack")
  <2>1. MovesTo(p, "ack")
    BY Zenon, <1>6, PcsAre, GotoMoves
  <2>2. QED BY Zenon, <1>1, <1>2, <1>4, <2>1, PcsAre, GoesKeep DEF MayGo
<1>7. QED BY Zenon, <1>5, <1>6 DEF Tell

LEMMA AckKeeps == ASSUME IInv, NEW p \in Procs, Ack(p) PROVE IInv'
<1>1. proc[p].pc = "ack" /\ WorldOk /\ run' = run
  BY Zenon, WorldSame DEF Ack, At
<1>2. RestOk
  BY Zenon, RestSame DEF Ack, IInv, TypeOK
<1>3. AcksOk
  <2>1. CASE acked' = acked
    BY Zenon, <2>1, AcksSame
  <2>2. CASE acked' = acked \cup {<<proc[p].kind, proc[p].snap.state>>}
    <3>1. acked \subseteq (Kinds \X RunStates)
      BY DEF IInv, TypeOK
    <3>2. proc[p].snap.state \in RunStates /\ proc[p].kind \in Kinds /\ AckOk(proc[p].kind, proc[p].snap.state, run)
      BY Zenon, <1>1, ToldOf
    <3>3. acked' \subseteq (Kinds \X RunStates)
      BY <2>2, <3>1, <3>2
    <3>4. ASSUME NEW k \in Kinds, NEW s \in RunStates, <<k, s>> \in acked', <<k, s>> \notin acked
          PROVE  AckOk(k, s, run')
      <4>1. k = proc[p].kind /\ s = proc[p].snap.state
        BY <2>2, <3>4
      <4>2. QED BY Zenon, <1>1, <3>2, <4>1
    <3>5. QED BY Zenon, <3>3, <3>4 DEF AcksOk
  <2>3. QED BY Zenon, <2>1, <2>2 DEF Ack
<1>4. QED BY Zenon, <1>1, <1>2, <1>3, FinishKeeps DEF Ack

LEMMA StopKeeps == ASSUME IInv, NEW p \in Procs, Stop(p) PROVE IInv'
<1>1. WorldOk /\ RestOk /\ AcksOk
  BY Zenon, WorldSame, Around DEF Stop, IInv, TypeOK
<1>2. QED BY Zenon, <1>1, FinishKeeps DEF Stop
-----------------------------------------------------------------------------
LEMMA InitIInv == ASSUME Init PROVE IInv
<1>1. NoRun \in RunRec /\ NoRun.state = "none" /\ NoRun.rev = 0 /\ ~NoRun.pending /\ ~NoRun.started
  <2>1. 0 \in Nat OBVIOUS
  <2>2. QED BY Zenon, <2>1 DEF NoRun, RunRec
<1>2. run \in RunRec /\ RunOk(run, alert, chained)
  BY Zenon, <1>1 DEF Init, RunOk
<1>3. proc \in [Procs -> ProcRec] /\ \A p \in Procs : proc[p] = Idle
  BY Zenon, IdleRec DEF Init
<1>4. told \in [RunStates -> Nat] /\ copies \in 0..MaxCopies /\ faults \in 0..MaxFaults
  BY BoundsAssumption DEF Init, RunStates
<1>5. TypeOK
  BY Zenon, <1>2, <1>3, <1>4 DEF Init, TypeOK, RunRec, ProcRec, SnapRec, Vias
<1>6. \A p \in Procs : ProcOk(proc[p], run, alert, chained)
  BY Zenon, <1>2, <1>3, IdleOk
<1>7. QED BY Zenon, <1>2, <1>5, <1>6 DEF IInv, Init

LEMMA StepIInv == ASSUME IInv, NEW p \in Procs, Step(p) PROVE IInv'
BY ZenonT(40), ApplyKeeps, ApplyFailsKeeps, CloseGetKeeps, CloseUpdKeeps, CloseTombKeeps, TrigGetKeeps, TrigInsKeeps,
   TrigAgainKeeps, SetAlertKeeps, RereadKeeps, ClearKeeps, TellKeeps, AckKeeps DEF Step

LEMMA StutterIInv == ASSUME IInv, UNCHANGED vars PROVE IInv'
BY DEF vars, IInv, TypeOK, RunOk, ProcOk, Seen, Placed, Handled, AckOk, At

LEMMA NextIInv == ASSUME IInv, [Next]_vars PROVE IInv'
<1>1. ASSUME NEW k \in Kinds, BridgeSends(k) PROVE IInv'
  BY Zenon, <1>1, BridgeSendsKeeps
<1>2. CASE AlertHandled \/ RemoveChain
  BY Zenon, <1>2, AlertHandledKeeps, RemoveChainKeeps
<1>3. ASSUME NEW p \in Handlers, NEW k \in Kinds,
             Retry(p, k) \/ \E via \in {"mqtt", "frame", "hub"} : Copy(p, k, via)
      PROVE  IInv'
  <2>1. p \in Procs BY Zenon DEF Procs
  <2>2. QED BY Zenon, <1>3, <2>1, RetryKeeps, CopyKeeps
<1>4. ASSUME NEW p \in Reconcilers, Reconcile(p) PROVE IInv'
  <2>1. p \in Procs BY Zenon DEF Procs
  <2>2. QED BY Zenon, <1>4, <2>1, ReconcileKeeps
<1>5. ASSUME NEW p \in Procs, Step(p) \/ Stop(p) PROVE IInv'
  BY Zenon, <1>5, StepIInv, StopKeeps
<1>6. CASE UNCHANGED vars
  BY Zenon, <1>6, StutterIInv
<1>7. QED BY Zenon, <1>1, <1>2, <1>3, <1>4, <1>5, <1>6 DEF Next, Kinds

LEMMA Invariance == Spec => []IInv
<1>1. Init => IInv BY InitIInv
<1>2. IInv /\ [Next]_vars => IInv' BY NextIInv
<1>3. QED BY <1>1, <1>2, PTL DEF Spec

\* The row, the alert, the chain and every process keep their shapes, for any
\* number of processes and any bounds.
THEOREM TypeCorrect == Spec => []TypeOK
<1>1. IInv => TypeOK BY DEF IInv
<1>2. QED BY <1>1, Invariance, PTL

\* An ack stands for durable work: what was acknowledged is in the row, and
\* the alert that goes with it exists or is owed (Runs.apply, runs.go).
THEOREM AcksStand == Spec => []AckStands
<1>1. ASSUME IInv PROVE AckStands
  <2>1. "start" \in Kinds /\ "cancel" \in Kinds /\ "cancelled" \in RunStates
    BY DEF Kinds, RunStates
  <2>2. QED BY Zenon, <1>1, <2>1 DEF IInv, AckStands, AckOk, RunOk
<1>2. QED BY <1>1, Invariance, PTL
-----------------------------------------------------------------------------
(* What a step does to the row and the alert. *)

\* The row is left, an event is applied, or a debt is dropped.
LEMMA StepRow ==
    ASSUME IInv, [Next]_vars
    PROVE  \/ run' = run \/ run' = [run EXCEPT !.recorded = TRUE]
           \/ (\E k \in Kinds : run' = ApplySOSRunEvent(k)) /\ UNCHANGED <<alert, chained>>
           \/ (\E p \in Procs : At(p, "clear") /\ run' = Cleared(p)) /\ UNCHANGED <<alert, chained>>
<1>1. ASSUME NEW p \in Procs, Apply(p) \/ ApplyFails(p)
      PROVE  run' = run \/ ((\E k \in Kinds : run' = ApplySOSRunEvent(k)) /\ UNCHANGED <<alert, chained>>)
  <2>1. proc[p].kind \in Kinds
    BY Zenon, ProcAt, ProcFields
  <2>2. QED BY Zenon, <1>1, <2>1 DEF Apply, ApplyFails
<1>2. ASSUME NEW p \in Procs, Clear(p)
      PROVE  run' = run \/ ((\E q \in Procs : At(q, "clear") /\ run' = Cleared(q)) /\ UNCHANGED <<alert, chained>>)
  BY Zenon, <1>2 DEF Clear
<1>3. ASSUME NEW p \in Procs, SetAlert(p) PROVE run' = run \/ run' = [run EXCEPT !.recorded = TRUE]
  BY Zenon, <1>3 DEF SetAlert
<1>4. ASSUME NEW p \in Procs,
             \/ CloseGet(p) \/ CloseUpd(p) \/ CloseTomb(p) \/ TrigGet(p) \/ TrigIns(p) \/ TrigAgain(p)
             \/ Reread(p) \/ Tell(p) \/ Ack(p) \/ Stop(p)
      PROVE  run' = run
  BY Zenon, <1>4 DEF CloseGet, CloseUpd, CloseTomb, TrigGet, TrigIns, TrigAgain, Reread, Tell, Ack, Stop
<1>5. QED BY Zenon, <1>1, <1>2, <1>3, <1>4
          DEF Next, Step, vars, BridgeSends, AlertHandled, RemoveChain, Retry, Copy, Reconcile

\* Only these three steps touch the alert.
LEMMA StepAlert ==
    ASSUME IInv, [Next]_vars
    PROVE  \/ alert' = alert
           \/ alert = "none" /\ alert' = "open" /\ UNCHANGED <<run, chained>>
           \/ alert # "closed" /\ alert' = "closed" /\ UNCHANGED <<run, chained>>
              /\ (alert = "none" => run.state = "cancelled")
<1>1. alert \in AlertPhases
  BY Zenon, Types DEF IInv
<1>2. CASE AlertHandled
  BY Zenon, <1>2 DEF AlertHandled
<1>3. ASSUME NEW p \in Procs, CloseUpd(p)
      PROVE  alert' = alert \/ (alert = "open" /\ alert' = "closed" /\ UNCHANGED <<run, chained>>)
  <2>1. alert # "none"
    BY Zenon, <1>3, ProcAt DEF CloseUpd, At, ProcOk, Placed
  <2>2. alert \in {"open", "closed"}
    BY Zenon, <1>1, <2>1 DEF AlertPhases
  <2>3. QED BY Zenon, <1>3, <2>2 DEF CloseUpd
<1>4. ASSUME NEW p \in Procs, CloseTomb(p)
      PROVE  \/ alert' = alert
             \/ alert = "none" /\ alert' = "closed" /\ UNCHANGED <<run, chained>> /\ run.state = "cancelled"
  <2>1. run.state = "cancelled"
    BY Zenon, <1>4, ProcAt DEF CloseTomb, At, ProcOk, Placed, Closing
  <2>2. QED BY Zenon, <1>4, <2>1 DEF CloseTomb
<1>5. ASSUME NEW p \in Procs, TrigIns(p)
      PROVE  alert' = alert \/ (alert = "none" /\ alert' = "open" /\ UNCHANGED <<run, chained>>)
  BY Zenon, <1>5 DEF TrigIns
<1>6. ASSUME NEW p \in Procs,
             \/ Apply(p) \/ ApplyFails(p) \/ CloseGet(p) \/ TrigGet(p) \/ TrigAgain(p) \/ SetAlert(p) \/ Reread(p)
             \/ Clear(p) \/ Tell(p) \/ Ack(p) \/ Stop(p)
      PROVE  alert' = alert
  BY Zenon, <1>6 DEF Apply, ApplyFails, CloseGet, TrigGet, TrigAgain, SetAlert, Reread, Clear, Tell, Ack, Stop
<1>7. ASSUME NEW p \in Procs, Step(p) \/ Stop(p)
      PROVE  \/ alert' = alert
             \/ alert = "none" /\ alert' = "open" /\ UNCHANGED <<run, chained>>
             \/ alert # "closed" /\ alert' = "closed" /\ UNCHANGED <<run, chained>>
                /\ (alert = "none" => run.state = "cancelled")
  BY Zenon, <1>3, <1>4, <1>5, <1>6, <1>7 DEF Step
<1>8. QED BY Zenon, <1>2, <1>7 DEF Next, vars, BridgeSends, RemoveChain, Retry, Copy, Reconcile

\* Only RemoveChain touches the chain.
LEMMA StepChain ==
    ASSUME [Next]_vars PROVE chained' = chained \/ (chained /\ chained' = FALSE /\ UNCHANGED <<run, alert>>)
<1>1. ASSUME NEW p \in Procs, Step(p) \/ Stop(p) PROVE chained' = chained
  BY Zenon, <1>1 DEF Step, Stop, Apply, ApplyFails, CloseGet, CloseUpd, CloseTomb, TrigGet, TrigIns, TrigAgain,
     SetAlert, Reread, Clear, Tell, Ack
<1>2. QED BY Zenon, <1>1 DEF Next, vars, BridgeSends, AlertHandled, RemoveChain, Retry, Copy, Reconcile
-----------------------------------------------------------------------------
(* Refinement. *)

\* An event that reaches the row is a step of the contract, or repeats one.
LEMMA ApplyContract ==
    ASSUME IInv, NEW k \in Kinds, run' = ApplySOSRunEvent(k), UNCHANGED <<alert, chained>>
    PROVE  [Contract!Next]_(Contract!cvars)
<1>1. run \in RunRec /\ run.state \in {"none", "active", "cancelled"} /\ run.pending \in BOOLEAN
      /\ k \in {"start", "cancel"}
  BY Zenon, Types, RunFields DEF IInv, RunStates, Kinds
<1>2. CASE run.state = "none"
  <2>1. run'.state = (IF k = "cancel" THEN "cancelled" ELSE "active") /\ run'.pending = TRUE
    BY Zenon, <1>2 DEF ApplySOSRunEvent, NewSOSRun
  <2>2. Contract!Start \/ Contract!Cancel
    BY Zenon, <1>1, <1>2, <2>1 DEF Contract!Start, Contract!Cancel
  <2>3. QED BY Zenon, <2>2 DEF Contract!Next
<1>3. CASE run.state # "none"
  <2>1. /\ run'.state = (IF k = "cancel" /\ run.state = "active" THEN "cancelled" ELSE run.state)
        /\ run'.pending = (run.pending \/ (k = "cancel" /\ run.state = "active"))
    BY Zenon, <1>3 DEF ApplySOSRunEvent, ApplySOSEvent, Ends
  <2>2. CASE k = "cancel" /\ run.state = "active"
    <3>1. run'.state = "cancelled" /\ run'.pending = TRUE
      BY Zenon, <2>1, <2>2
    <3>2. Contract!Cancel
      BY Zenon, <2>2, <3>1 DEF Contract!Cancel
    <3>3. QED BY Zenon, <3>2 DEF Contract!Next
  <2>3. CASE ~(k = "cancel" /\ run.state = "active")
    <3>1. run'.state = run.state /\ run'.pending = run.pending
      BY Zenon, <1>1, <2>1, <2>3
    <3>2. UNCHANGED Contract!cvars
      BY Zenon, <3>1 DEF Contract!cvars
    <3>3. QED BY Zenon, <3>2
  <2>4. QED BY Zenon, <2>2, <2>3
<1>4. QED BY Zenon, <1>2, <1>3

\* A debt is dropped only when the alert matches the row.
LEMMA ClearContract ==
    ASSUME IInv, NEW p \in Procs, At(p, "clear"), run' = Cleared(p), UNCHANGED <<alert, chained>>
    PROVE  [Contract!Next]_(Contract!cvars)
<1>1. run \in RunRec /\ run.pending \in BOOLEAN /\ ProcOk(proc[p], run, alert, chained)
  BY Zenon, ProcAt, RunFields
<1>2. CASE run' = run
  BY Zenon, <1>2 DEF Contract!cvars
<1>3. CASE run.rev = proc[p].snap.rev /\ run' = [run EXCEPT !.pending = FALSE]
  <2>1. run'.state = run.state /\ run'.pending = FALSE
    BY Zenon, <1>1, <1>3 DEF RunRec
  <2>2. (run.state = "active" /\ chained => alert # "none") /\ (run.state = "cancelled" => alert = "closed")
    BY Zenon, <1>1, <1>3 DEF ProcOk, Seen, Placed, At
  <2>3. CASE run.pending
    BY Zenon, <2>1, <2>2, <2>3 DEF Contract!Settle, Contract!Next
  <2>4. CASE ~run.pending
    <3>1. run'.pending = run.pending
      BY Zenon, <1>1, <2>1, <2>4
    <3>2. QED BY Zenon, <2>1, <3>1 DEF Contract!cvars
  <2>5. QED BY Zenon, <2>3, <2>4
<1>4. QED BY Zenon, <1>2, <1>3 DEF Cleared

\* The replicas, bearers, failures and retries of SosRuns keep the contract of
\* one run: cancelled for good, its alert raised at most once, its debt dropped
\* only when the alert matches.
THEOREM ContractImplemented == Spec => ImplementsContract
<1>1. ASSUME Init PROVE Contract!Init
  <2>1. run.state = "none" /\ run.pending = FALSE
    BY Zenon, <1>1 DEF Init, NoRun
  <2>2. QED BY Zenon, <1>1, <2>1 DEF Init, Contract!Init
<1>2. ASSUME IInv, [Next]_vars PROVE [Contract!Next]_(Contract!cvars)
  <2>1. alert \in AlertPhases /\ run \in RunRec
    BY Zenon, <1>2, Types DEF IInv
  <2>2. CASE alert' # alert
    <3>1. \/ alert = "none" /\ alert' = "open" /\ UNCHANGED <<run, chained>>
          \/ alert # "closed" /\ alert' = "closed" /\ UNCHANGED <<run, chained>>
             /\ (alert = "none" => run.state = "cancelled")
      BY Zenon, <1>2, <2>2, StepAlert
    <3>2. CASE alert = "none" /\ alert' = "open" /\ UNCHANGED <<run, chained>>
      BY Zenon, <3>2 DEF Contract!Raise, Contract!Next
    <3>3. CASE /\ alert # "closed" /\ alert' = "closed" /\ UNCHANGED <<run, chained>>
               /\ alert = "none" => run.state = "cancelled"
      BY Zenon, <2>1, <3>3 DEF Contract!Close, Contract!Next, AlertPhases
    <3>4. QED BY Zenon, <3>1, <3>2, <3>3
  <2>3. CASE alert' = alert /\ chained' # chained
    <3>1. chained /\ chained' = FALSE /\ UNCHANGED <<run, alert>>
      BY Zenon, <1>2, <2>3, StepChain
    <3>2. QED BY Zenon, <3>1 DEF Contract!Unchain, Contract!Next
  <2>4. CASE alert' = alert /\ chained' = chained
    <3>1. CASE run' = run
      BY Zenon, <2>4, <3>1 DEF Contract!cvars
    <3>2. CASE run' = [run EXCEPT !.recorded = TRUE]
      <4>1. run'.state = run.state /\ run'.pending = run.pending
        BY Zenon, <2>1, <3>2 DEF RunRec
      <4>2. QED BY Zenon, <2>4, <4>1 DEF Contract!cvars
    <3>3. CASE \E k \in Kinds : run' = ApplySOSRunEvent(k)
      BY Zenon, <1>2, <2>4, <3>3, ApplyContract
    <3>4. CASE \E p \in Procs : At(p, "clear") /\ run' = Cleared(p)
      BY Zenon, <1>2, <2>4, <3>4, ClearContract
    <3>5. QED BY Zenon, <1>2, <3>1, <3>2, <3>3, <3>4, StepRow
  <2>5. QED BY Zenon, <2>2, <2>3, <2>4
<1>3. QED BY <1>1, <1>2, Invariance, PTL DEF Spec, ImplementsContract, Contract!Spec

\* The run's alert id keeps the promise of AlertLifecycle on the Hub's side:
\* it is raised at most once and never opened again (TriggerOnce, Close).
THEOREM LifecycleImplemented == Spec => ImplementsLifecycle
<1>1. ASSUME Init PROVE Lifecycle!Init
  BY <1>1 DEF Init, Lifecycle!Init
<1>2. ASSUME IInv, [Next]_vars PROVE [Lifecycle!Next]_([a \in {"run"} |-> alert])
  <2>1. CASE alert' = alert
    BY <2>1
  <2>2. CASE alert = "none" /\ alert' = "open"
    <3>1. Lifecycle!Raise("run")
      BY <2>2 DEF Lifecycle!Raise
    <3>2. QED BY <3>1 DEF Lifecycle!Next
  <2>3. CASE alert # "closed" /\ alert' = "closed"
    <3>1. Lifecycle!Close("run")
      BY <2>3 DEF Lifecycle!Close
    <3>2. QED BY <3>1 DEF Lifecycle!Next
  <2>4. QED BY Zenon, <1>2, <2>1, <2>2, <2>3, StepAlert
<1>3. QED BY <1>1, <1>2, Invariance, PTL DEF Spec, ImplementsLifecycle, Lifecycle!Spec
-----------------------------------------------------------------------------
(* Who has news to tell. *)

\* A process gets no news by this step.
Quiet(x, y) == y.news => y.pc \in {"idle", "ack"} \/ (x.news /\ y.snap = x.snap /\ x.pc \notin {"idle", "ack"})

AllQuiet == \A q \in Procs : Quiet(proc[q], proc'[q])

LEMMA OneQuiet ==
    ASSUME IInv, NEW p \in Procs, NEW y \in ProcRec, proc' = [proc EXCEPT ![p] = y], Quiet(proc[p], y) PROVE AllQuiet
<1>1. proc \in [Procs -> ProcRec]
  BY Zenon, Types DEF IInv
<1>2. \A q \in Procs : proc'[q] = IF q = p THEN y ELSE proc[q]
  BY Zenon, <1>1
<1>3. QED BY Zenon, <1>2 DEF AllQuiet, Quiet

LEMMA FinishQuiet == ASSUME IInv, NEW p \in Procs, Finish(p) PROVE AllQuiet
<1>1. Quiet(proc[p], Idle)
  BY Zenon, IdleRec DEF Quiet
<1>2. QED BY Zenon, <1>1, IdleRec, OneQuiet DEF Finish

LEMMA MovesQuiet ==
    ASSUME IInv, NEW p \in Procs, NEW pc \in Pcs, MovesTo(p, pc), proc[p].pc \notin {"idle", "ack"} PROVE AllQuiet
<1>1. proc[p] \in ProcRec
  BY Zenon, ProcAt
<1>2. PICK y : Moves(proc[p], pc, y) /\ proc' = [proc EXCEPT ![p] = y]
  BY Zenon DEF MovesTo
<1>3. y \in ProcRec /\ y.snap = proc[p].snap /\ y.news = proc[p].news
  BY <1>1, <1>2, MovesRec
<1>4. Quiet(proc[p], y)
  BY Zenon, <1>3 DEF Quiet
<1>5. QED BY Zenon, <1>2, <1>3, <1>4, OneQuiet

LEMMA GotoQuiet ==
    ASSUME IInv, NEW p \in Procs, NEW pc \in Pcs, Goto(p, pc), proc[p].pc \notin {"idle", "ack"} PROVE AllQuiet
BY Zenon, GotoMoves, MovesQuiet

LEMMA SettledQuiet ==
    ASSUME IInv, NEW p \in Procs, Settled(p), proc[p].pc \notin {"idle", "ack"} PROVE AllQuiet
<1>1. "tell" \in Pcs BY DEF Pcs
<1>2. QED BY Zenon, <1>1, FinishQuiet, GotoQuiet DEF Settled

LEMMA EventQuiet ==
    ASSUME IInv, NEW p \in Procs, NEW y \in ProcRec, ~y.news, proc' = [proc EXCEPT ![p] = y] PROVE AllQuiet
BY Zenon, OneQuiet DEF Quiet

LEMMA BeginQuiet ==
    ASSUME IInv, NEW p \in Procs, NEW k \in Kinds, NEW v \in {"mqtt", "frame", "hub"}, Begin(p, k, v) PROVE AllQuiet
<1>1. PICK y : y = [Idle EXCEPT !.pc = "apply", !.kind = k, !.via = v]
  OBVIOUS
<1>2. "apply" \in Pcs /\ v \in Vias
  BY DEF Pcs, Vias
<1>3. y \in ProcRec /\ y.news = Idle.news
  BY Zenon, <1>1, <1>2, IdleRec DEF ProcRec
<1>4. ~y.news
  BY Zenon, <1>3, IdleRec
<1>5. proc' = [proc EXCEPT ![p] = y]
  BY <1>1 DEF Begin
<1>6. QED BY Zenon, <1>3, <1>4, <1>5, EventQuiet

LEMMA ReconcileQuiet == ASSUME IInv, NEW p \in Procs, Reconcile(p) PROVE AllQuiet
<1>1. PICK y : y = [Idle EXCEPT !.pc = SyncAlert(run), !.via = "reconcile", !.snap = Snap(run)]
  OBVIOUS
<1>2. run.state \in {"none"} \cup RunStates /\ run.rev \in Nat
  BY Zenon, Types, RunFields DEF IInv
<1>3. Snap(run) \in SnapRec
  BY Zenon, <1>2 DEF Snap, SnapRec
<1>4. SyncAlert(run) \in Pcs /\ "reconcile" \in Vias
  BY DEF SyncAlert, Pcs, Vias
<1>5. y \in ProcRec /\ y.news = Idle.news
  BY Zenon, <1>1, <1>3, <1>4, IdleRec DEF ProcRec
<1>6. ~y.news
  BY Zenon, <1>5, IdleRec
<1>7. proc' = [proc EXCEPT ![p] = y]
  BY <1>1 DEF Reconcile
<1>8. QED BY Zenon, <1>5, <1>6, <1>7, EventQuiet

LEMMA ApplyFailsQuiet == ASSUME IInv, NEW p \in Procs, ApplyFails(p) PROVE AllQuiet
<1>1. proc \in [Procs -> ProcRec] /\ proc[p] \in ProcRec /\ proc[p].round \in Nat /\ proc[p].pc = "apply"
  BY Zenon, ProcAt, ProcFields DEF ApplyFails, At
<1>2. CASE proc' = [proc EXCEPT ![p].round = proc[p].round + 1]
  <2>1. PICK y : y = [proc[p] EXCEPT !.round = proc[p].round + 1]
    BY Zenon
  <2>2. proc' = [proc EXCEPT ![p] = y]
    BY <1>1, <1>2, <2>1
  <2>3. proc[p].round + 1 \in Nat
    BY <1>1
  <2>4. y \in ProcRec /\ y.snap = proc[p].snap /\ (y.news <=> proc[p].news)
    BY Zenon, <1>1, <2>1, <2>3 DEF ProcRec
  <2>5. Quiet(proc[p], y)
    BY Zenon, <1>1, <2>4 DEF Quiet
  <2>6. QED BY Zenon, <2>2, <2>4, <2>5, OneQuiet
<1>3. CASE proc' = [proc EXCEPT ![p].pc = "trigGet", ![p].unstored = TRUE]
  <2>1. PICK y : y = [proc[p] EXCEPT !.pc = "trigGet", !.unstored = TRUE]
    OBVIOUS
  <2>2. proc' = [proc EXCEPT ![p] = y]
    BY <1>1, <1>3, <2>1, Zenon
  <2>3. "trigGet" \in Pcs
    BY DEF Pcs
  <2>4. y \in ProcRec /\ y.snap = proc[p].snap /\ (y.news <=> proc[p].news)
    BY Zenon, <1>1, <2>1, <2>3 DEF ProcRec
  <2>5. Quiet(proc[p], y)
    BY Zenon, <1>1, <2>4 DEF Quiet
  <2>6. QED BY Zenon, <2>2, <2>4, <2>5, OneQuiet
<1>4. QED BY Zenon, <1>2, <1>3, FinishQuiet DEF ApplyFails

\* Only Apply brings news, and only Tell tells it.
LEMMA WorkQuiet ==
    ASSUME IInv, NEW p \in Procs,
           \/ CloseGet(p) \/ CloseUpd(p) \/ CloseTomb(p) \/ TrigGet(p) \/ TrigIns(p) \/ TrigAgain(p)
           \/ SetAlert(p) \/ Reread(p) \/ Clear(p) \/ Ack(p) \/ Stop(p)
    PROVE  AllQuiet
<1>1. CASE CloseGet(p)
  BY Zenon, <1>1, PcsAre, GotoQuiet, SettledQuiet DEF CloseGet, At
<1>2. CASE CloseUpd(p)
  BY Zenon, <1>2, PcsAre, GotoQuiet, SettledQuiet DEF CloseUpd, At
<1>3. CASE CloseTomb(p)
  <2>1. CASE proc' = [proc EXCEPT ![p].pc = "closeGet", ![p].round = proc[p].round + 1]
    <3>1. proc[p].round \in Nat BY Zenon, ProcAt, ProcFields
    <3>2. proc[p].round + 1 \in Nat BY <3>1
    <3>3. MovesTo(p, "closeGet") BY <2>1, <3>2, PcsAre, RoundMoves, Zenon
    <3>4. QED BY Zenon, <1>3, <3>3, PcsAre, MovesQuiet DEF CloseTomb, At
  <2>2. QED BY Zenon, <1>3, <2>1, PcsAre, GotoQuiet, SettledQuiet DEF CloseTomb, At
<1>4. CASE TrigGet(p)
  BY Zenon, <1>4, PcsAre, GotoQuiet, FinishQuiet DEF TrigGet, Triggered, At
<1>5. CASE TrigIns(p)
  BY Zenon, <1>5, PcsAre, GotoQuiet, FinishQuiet DEF TrigIns, Triggered, At
<1>6. CASE TrigAgain(p)
  BY Zenon, <1>6, PcsAre, GotoQuiet, FinishQuiet, SettledQuiet DEF TrigAgain, Triggered, NotTriggered, At
<1>7. CASE SetAlert(p)
  BY Zenon, <1>7, PcsAre, GotoQuiet, SettledQuiet DEF SetAlert, At
<1>8. CASE Reread(p)
  <2>1. CASE proc' = [proc EXCEPT ![p].pc = "closeGet", ![p].round = 0]
    <3>1. MovesTo(p, "closeGet") BY <2>1, PcsAre, RoundMoves, Zenon
    <3>2. QED BY Zenon, <1>8, <3>1, PcsAre, MovesQuiet DEF Reread, At
  <2>2. QED BY Zenon, <1>8, <2>1, PcsAre, GotoQuiet, SettledQuiet DEF Reread, At
<1>9. CASE Clear(p)
  BY Zenon, <1>9, SettledQuiet DEF Clear, At
<1>10. CASE Ack(p) \/ Stop(p)
  BY Zenon, <1>10, FinishQuiet DEF Ack, Stop
<1>11. QED BY Zenon, <1>1, <1>2, <1>3, <1>4, <1>5, <1>6, <1>7, <1>8, <1>9, <1>10

LEMMA StepQuiet ==
    ASSUME IInv, [Next]_vars PROVE (told' = told /\ AllQuiet) \/ \E p \in Procs : Apply(p) \/ Tell(p)
<1>1. ASSUME proc' = proc PROVE AllQuiet
  BY Zenon, <1>1 DEF AllQuiet, Quiet
<1>2. ASSUME NEW p \in Procs, Step(p) \/ Stop(p), ~Apply(p), ~Tell(p) PROVE told' = told /\ AllQuiet
  <2>1. AllQuiet
    BY Zenon, <1>2, WorkQuiet, ApplyFailsQuiet DEF Step
  <2>2. told' = told
    BY Zenon, <1>2 DEF Step, Stop, ApplyFails, CloseGet, CloseUpd, CloseTomb, TrigGet, TrigIns, TrigAgain, SetAlert,
       Reread, Clear, Ack
  <2>3. QED BY <2>1, <2>2
<1>3. ASSUME NEW p \in Handlers, NEW k \in Kinds,
             Retry(p, k) \/ \E via \in {"mqtt", "frame", "hub"} : Copy(p, k, via)
      PROVE  told' = told /\ AllQuiet
  <2>1. p \in Procs BY Zenon DEF Procs
  <2>2. QED BY Zenon, <1>3, <2>1, BeginQuiet DEF Retry, Copy
<1>4. ASSUME NEW p \in Reconcilers, Reconcile(p) PROVE told' = told /\ AllQuiet
  <2>1. p \in Procs BY Zenon DEF Procs
  <2>2. QED BY Zenon, <1>4, <2>1, ReconcileQuiet DEF Reconcile
<1>5. QED BY Zenon, <1>1, <1>2, <1>3, <1>4 DEF Next, Kinds, vars, BridgeSends, AlertHandled, RemoveChain

\* A run that was started, or cancelled, is that or cancelled.
LEMMA StateGrows ==
    ASSUME IInv, [Next]_vars, NEW s \in RunStates, run.state \in {s, "cancelled"}
    PROVE  run'.state \in {s, "cancelled"}
<1>1. run \in RunRec /\ run.state \in {"none", "active", "cancelled"} /\ s \in {"active", "cancelled"}
  BY Zenon, Types, RunFields DEF IInv, RunStates
<1>2. CASE run'.state = run.state
  BY Zenon, <1>2
<1>3. ASSUME NEW k \in Kinds, run' = ApplySOSRunEvent(k) PROVE run'.state \in {run.state, "cancelled"}
  <2>1. run'.state = IF k = "cancel" /\ run.state = "active" THEN "cancelled" ELSE run.state
    BY Zenon, <1>1, <1>3 DEF ApplySOSRunEvent, ApplySOSEvent, Ends
  <2>2. QED BY Zenon, <2>1
<1>4. ASSUME run' = [run EXCEPT !.recorded = TRUE] PROVE run'.state = run.state
  BY Zenon, <1>1, <1>4 DEF RunRec
<1>5. ASSUME NEW p \in Procs, run' = Cleared(p) PROVE run'.state = run.state
  BY Zenon, <1>1, <1>5 DEF RunRec, Cleared
<1>6. QED BY Zenon, <1>1, <1>2, <1>3, <1>4, <1>5, StepRow

LEMMA QuietKeeps == ASSUME IInv, TInv, [Next]_vars, told' = told, AllQuiet PROVE TInv'
<1>1. ASSUME NEW s \in RunStates PROVE TellOk(s)'
  <2>1. ASSUME NEW q \in Procs, Owes(proc'[q], s) PROVE Owes(proc[q], s)
    BY Zenon, <2>1 DEF AllQuiet, Quiet, Owes
  <2>2. TellOk(s)
    BY Zenon DEF TInv
  <2>3. run.state \in {s, "cancelled"} => run'.state \in {s, "cancelled"}
    BY Zenon, StateGrows
  <2>4. QED BY Zenon, <2>1, <2>2, <2>3 DEF TellOk
<1>2. QED BY Zenon, <1>1 DEF TInv

LEMMA ApplyTells == ASSUME IInv, TInv, [Next]_vars, NEW p \in Procs, Apply(p) PROVE TInv'
<1>1. proc \in [Procs -> ProcRec] /\ proc[p] \in ProcRec /\ run \in RunRec /\ proc[p].kind \in {"start", "cancel"}
      /\ run.state \in {"none", "active", "cancelled"}
  BY Zenon, ProcAt, ProcFields, RunFields DEF Kinds, RunStates
<1>2. PICK pc : pc = IF run'.pending THEN SyncAlert(run') ELSE "tell"
  OBVIOUS
<1>3. PICK n : n = News(proc[p].kind)
  OBVIOUS
<1>4. PICK y : y = [proc[p] EXCEPT !.snap = Snap(run'), !.round = 0, !.news = n, !.pc = pc]
  OBVIOUS
<1>5. proc' = [proc EXCEPT ![p] = y]
  BY <1>1, <1>2, <1>3, <1>4, Zenon DEF Apply
<1>6. \A q \in Procs : proc'[q] = IF q = p THEN y ELSE proc[q]
  BY Zenon, <1>1, <1>5
<1>7. y.snap = Snap(run') /\ (y.news <=> n)
  BY Zenon, <1>1, <1>4 DEF ProcRec
<1>8. y.snap.state = run'.state
  BY <1>7 DEF Snap
<1>9. y.news => run.state \notin {run'.state, "cancelled"}
  <2>1. CASE run.state = "none"
    <3>1. run'.state \in {"active", "cancelled"}
      BY Zenon, <2>1 DEF Apply, ApplySOSRunEvent, NewSOSRun
    <3>2. QED BY Zenon, <2>1, <3>1
  <2>2. CASE run.state # "none" /\ y.news
    <3>1. proc[p].kind = "cancel" /\ run.state = "active"
      BY Zenon, <1>3, <1>7, <2>2 DEF News, Ends
    <3>2. run'.state = "cancelled"
      BY Zenon, <3>1 DEF Apply, ApplySOSRunEvent, ApplySOSEvent, Ends
    <3>3. QED BY Zenon, <3>1, <3>2
  <2>3. QED BY Zenon, <2>1, <2>2
<1>10. ASSUME NEW s \in RunStates PROVE TellOk(s)'
  <2>1. TellOk(s) /\ told' = told
    BY Zenon DEF TInv, Apply
  <2>2. told[s] \in Nat
    BY DEF IInv, TypeOK
  <2>3. told[s] # 1 => told[s] = 0
    BY <2>1, <2>2 DEF TellOk
  <2>4. run.state \in {s, "cancelled"} => run'.state \in {s, "cancelled"}
    BY Zenon, StateGrows
  <2>5. CASE Owes(y, s)
    <3>1. s = run'.state /\ run.state \notin {s, "cancelled"}
      BY Zenon, <1>8, <1>9, <2>5 DEF Owes
    <3>2. told[s] = 0
      BY Zenon, <2>1, <2>3, <3>1 DEF TellOk
    <3>3. \A q \in Procs : ~Owes(proc[q], s)
      BY Zenon, <2>1, <3>1 DEF TellOk
    <3>4. \A q \in Procs : Owes(proc'[q], s) => q = p
      BY Zenon, <1>6, <3>3
    <3>5. told'[s] <= 1 /\ told'[s] = 0 /\ told'[s] # 1
      BY <2>1, <3>2
    <3>6. QED BY Zenon, <3>1, <3>4, <3>5 DEF TellOk
  <2>6. CASE ~Owes(y, s)
    <3>1. \A q \in Procs : Owes(proc'[q], s) => Owes(proc[q], s)
      BY Zenon, <1>6, <2>6
    <3>2. QED BY Zenon, <2>1, <2>4, <3>1 DEF TellOk
  <2>7. QED BY Zenon, <2>5, <2>6
<1>11. QED BY Zenon, <1>10 DEF TInv

LEMMA TellTells == ASSUME IInv, TInv, [Next]_vars, NEW p \in Procs, Tell(p) PROVE TInv'
<1>1. proc[p].pc = "tell" /\ proc[p].snap.state \in RunStates /\ run' = run
  BY Zenon, ToldOf DEF Tell, At
<1>2. told \in [RunStates -> Nat]
  BY DEF IInv, TypeOK
<1>3. AllQuiet
  BY Zenon, <1>1, PcsAre, FinishQuiet, GotoQuiet DEF Tell
<1>4. CASE told' = told
  BY Zenon, <1>3, <1>4, QuietKeeps
<1>5. CASE proc[p].news /\ told' = [told EXCEPT ![proc[p].snap.state] = @ + 1]
  <2>1. ~(Owes(proc'[p], proc[p].snap.state))
    <3>1. proc \in [Procs -> ProcRec] /\ proc[p] \in ProcRec
      BY Zenon, ProcAt
    <3>2. proc'[p].pc \in {"idle", "ack"}
      <4>1. CASE Finish(p) BY Zenon, <3>1, <4>1, IdleRec DEF Finish
      <4>2. CASE Goto(p, "ack") BY <3>1, <4>2 DEF Goto, ProcRec
      <4>3. QED BY Zenon, <4>1, <4>2 DEF Tell
    <3>3. QED BY Zenon, <3>2 DEF Owes
  <2>2. ASSUME NEW s \in RunStates PROVE TellOk(s)'
    <3>1. ASSUME NEW q \in Procs, Owes(proc'[q], s) PROVE Owes(proc[q], s)
      BY Zenon, <1>3, <3>1 DEF AllQuiet, Quiet, Owes
    <3>2. TellOk(s)
      BY Zenon DEF TInv
    <3>3. CASE s = proc[p].snap.state
      <4>1. Owes(proc[p], s)
        BY Zenon, <1>1, <1>5, <3>3 DEF Owes
      <4>2. told[s] = 0 /\ run.state \in {s, "cancelled"}
        BY Zenon, <3>2, <4>1 DEF TellOk
      <4>3. told'[s] = 1 /\ told'[s] <= 1
        BY <1>2, <1>5, <3>3, <4>2
      <4>4. \A q \in Procs : ~Owes(proc'[q], s)
        BY Zenon, <2>1, <3>1, <3>2, <3>3, <4>1 DEF TellOk
      <4>5. QED BY Zenon, <1>1, <4>2, <4>3, <4>4 DEF TellOk
    <3>4. CASE s # proc[p].snap.state
      <4>1. told'[s] = told[s]
        BY <1>2, <1>5, <3>4
      <4>2. QED BY Zenon, <1>1, <3>1, <3>2, <4>1 DEF TellOk
    <3>5. QED BY <3>3, <3>4
  <2>3. QED BY Zenon, <2>2 DEF TInv
<1>6. told' = told \/ (proc[p].news /\ told' = [told EXCEPT ![proc[p].snap.state] = @ + 1])
  BY <1>1, <1>2 DEF Tell
<1>7. QED BY Zenon, <1>4, <1>5, <1>6

\* However many copies of an event arrive, by whatever bearer, the consumers
\* are told at most once of the run's start and at most once of its end: only
\* the transaction that changed the state has news (ApplySOSEvent, tell).
THEOREM ToldAtMostOnce == Spec => []ToldOnce
<1>1. ASSUME Init PROVE TInv
  <2>1. ASSUME NEW s \in RunStates PROVE told[s] = 0
    BY <1>1 DEF Init, RunStates
  <2>2. \A p \in Procs, s \in RunStates : ~Owes(proc[p], s)
    BY Zenon, <1>1, IdleRec DEF Init, Owes
  <2>3. ASSUME NEW s \in RunStates PROVE told[s] <= 1 /\ told[s] # 1
    BY <2>1
  <2>4. QED BY Zenon, <2>2, <2>3 DEF TInv, TellOk
<1>2. ASSUME IInv, TInv, [Next]_vars PROVE TInv'
  BY Zenon, <1>2, StepQuiet, QuietKeeps, ApplyTells, TellTells
<1>3. ASSUME TInv PROVE ToldOnce
  BY Zenon, <1>3 DEF TInv, TellOk, ToldOnce
<1>4. QED BY <1>1, <1>2, <1>3, Invariance, PTL DEF Spec
-----------------------------------------------------------------------------
(* A start that came by a frame. *)

\* A step of another process leaves this one where it is.
LEMMA OthersStay ==
    ASSUME IInv, NEW p \in Procs, NEW q \in Procs, q # p,
           \/ Step(q) \/ Stop(q) \/ Reconcile(q)
           \/ \E k \in Kinds : Retry(q, k) \/ \E via \in {"mqtt", "frame", "hub"} : Copy(q, k, via)
    PROVE  proc'[p] = proc[p]
<1>1. proc \in [Procs -> ProcRec]
  BY Zenon, Types DEF IInv
<1>2. ASSUME NEW y, proc' = [proc EXCEPT ![q] = y] PROVE proc'[p] = proc[p]
  BY <1>1, <1>2
<1>3. ASSUME NEW pc, Goto(q, pc) PROVE proc'[p] = proc[p]
  BY <1>1, <1>3 DEF Goto
<1>4. ASSUME NEW pc, NEW n, proc' = [proc EXCEPT ![q].pc = pc, ![q].round = n] PROVE proc'[p] = proc[p]
  BY <1>1, <1>4
<1>5. ASSUME Settled(q) \/ Triggered(q) \/ NotTriggered(q) \/ Finish(q) PROVE proc'[p] = proc[p]
  <2>1. ASSUME Finish(q) PROVE proc'[p] = proc[p]
    BY <1>1, <2>1 DEF Finish
  <2>2. QED BY Zenon, <1>3, <1>5, <2>1 DEF Settled, Triggered, NotTriggered
<1>6. CASE Apply(q) \/ ApplyFails(q)
  <2>1. CASE Apply(q) BY <1>1, <2>1 DEF Apply
  <2>2. CASE proc' = [proc EXCEPT ![q].round = proc[q].round + 1] BY <1>1, <2>2
  <2>3. CASE proc' = [proc EXCEPT ![q].pc = "trigGet", ![q].unstored = TRUE] BY <1>1, <2>3
  <2>4. QED BY Zenon, <1>5, <1>6, <2>1, <2>2, <2>3 DEF ApplyFails
<1>7. CASE CloseGet(q) \/ CloseUpd(q) \/ CloseTomb(q)
  BY Zenon, <1>3, <1>4, <1>5, <1>7 DEF CloseGet, CloseUpd, CloseTomb
<1>8. CASE TrigGet(q) \/ TrigIns(q) \/ TrigAgain(q)
  BY Zenon, <1>3, <1>5, <1>8 DEF TrigGet, TrigIns, TrigAgain
<1>9. CASE SetAlert(q) \/ Reread(q) \/ Clear(q)
  BY Zenon, <1>3, <1>4, <1>5, <1>9 DEF SetAlert, Reread, Clear
<1>10. CASE Tell(q) \/ Ack(q) \/ Stop(q)
  BY Zenon, <1>3, <1>5, <1>10 DEF Tell, Ack, Stop
<1>11. CASE Reconcile(q) \/ \E k \in Kinds : Retry(q, k) \/ \E via \in {"mqtt", "frame", "hub"} : Copy(q, k, via)
  BY Zenon, <1>2, <1>11 DEF Reconcile, Retry, Copy, Begin
<1>12. QED BY Zenon, <1>6, <1>7, <1>8, <1>9, <1>10, <1>11 DEF Step

\* A started run stays started.
LEMMA StartedStays == ASSUME IInv, [Next]_vars, run.started PROVE run'.started
<1>1. run \in RunRec
  BY Zenon, Types DEF IInv
<1>2. run.state # "none"
  BY Zenon DEF IInv, RunOk
<1>3. ASSUME NEW k \in Kinds, run' = ApplySOSRunEvent(k) PROVE run'.started
  BY Zenon, <1>2, <1>3 DEF ApplySOSRunEvent, ApplySOSEvent
<1>4. ASSUME run' = [run EXCEPT !.recorded = TRUE] PROVE run'.started
  BY Zenon, <1>1, <1>4 DEF RunRec
<1>5. ASSUME NEW p \in Procs, run' = Cleared(p) PROVE run'.started
  BY Zenon, <1>1, <1>5 DEF RunRec, Cleared
<1>6. QED BY Zenon, <1>3, <1>4, <1>5, StepRow

\* What p's own last step leaves behind.
LEMMA FrameEnds ==
    ASSUME IInv, [Next]_vars, NEW p \in Procs, Step(p), proc[p].kind = "start", proc[p].via = "frame",
           proc[p].pc # "idle", proc'[p].pc = "idle"
    PROVE  run'.started \/ alert' # "none" \/ oldWay' \/ ~chained'
<1>1. proc \in [Procs -> ProcRec] /\ proc[p] \in ProcRec /\ ProcOk(proc[p], run, alert, chained)
  BY Zenon, ProcAt
<1>2. CASE proc[p].pc # "apply" /\ ~proc[p].unstored
  BY Zenon, <1>1, <1>2, StartedStays DEF ProcOk, Handled
<1>3. ASSUME NEW pc, pc # "idle", Goto(p, pc) PROVE FALSE
  BY <1>1, <1>3 DEF Goto, ProcRec
<1>4. CASE proc[p].pc = "apply"
  <2>1. Apply(p) \/ ApplyFails(p)
    BY Zenon, <1>4 DEF Step, At, CloseGet, CloseUpd, CloseTomb, TrigGet, TrigIns, TrigAgain, SetAlert, Reread, Clear,
       Tell, Ack
  <2>2. ASSUME Apply(p) PROVE FALSE
    <3>1. proc'[p].pc = IF run'.pending THEN SyncAlert(run') ELSE "tell"
      BY <1>1, <2>2 DEF Apply, ProcRec
    <3>2. QED BY <3>1 DEF SyncAlert
  <2>3. ASSUME ApplyFails(p) PROVE FALSE
    <3>1. CASE proc' = [proc EXCEPT ![p].round = proc[p].round + 1]
      BY <1>1, <3>1 DEF ProcRec
    <3>2. CASE proc' = [proc EXCEPT ![p].pc = "trigGet", ![p].unstored = TRUE]
      BY <1>1, <3>2 DEF ProcRec
    <3>3. QED BY Zenon, <2>3, <3>1, <3>2 DEF ApplyFails
  <2>4. QED BY <2>1, <2>2, <2>3
<1>5. CASE proc[p].unstored
  <2>1. proc[p].pc \in {"trigGet", "trigIns", "trigAgain"}
    BY Zenon, <1>1, <1>5 DEF ProcOk, Placed, Raising
  <2>2. TrigGet(p) \/ TrigIns(p) \/ TrigAgain(p)
    BY Zenon, <2>1 DEF Step, At, Apply, ApplyFails, CloseGet, CloseUpd, CloseTomb, SetAlert, Reread, Clear, Tell, Ack
  <2>3. CASE TrigGet(p)
    BY Zenon, <1>3, <2>3 DEF TrigGet
  <2>4. CASE TrigIns(p)
    BY Zenon, <1>3, <2>4 DEF TrigIns
  <2>5. CASE TrigAgain(p)
    BY Zenon, <1>5, <2>5 DEF TrigAgain, NotTriggered
  <2>6. QED BY Zenon, <2>2, <2>3, <2>4, <2>5
<1>6. QED BY Zenon, <1>2, <1>4, <1>5

\* An SOS that came by a frame, which nobody repeats, is never dropped: when
\* its handler returns the run is stored, its alert exists, or it was paged the
\* old way, whatever failed, unless the replica stopped or nobody is to be paged.
THEOREM FrameNeverDropped == Spec => NeverDropped
<1>1. ASSUME IInv, [Next]_vars
      PROVE  [\A p \in Handlers :
                 ( /\ ~At(p, "idle") /\ proc[p].kind = "start" /\ proc[p].via = "frame"
                   /\ proc'[p].pc = "idle" /\ ~Stop(p) )
                 => (run'.started \/ alert' # "none" \/ oldWay' \/ ~chained')]_vars
  <2> SUFFICES ASSUME NEW p \in Handlers, ~At(p, "idle"), proc[p].kind = "start", proc[p].via = "frame",
                      proc'[p].pc = "idle", ~Stop(p)
               PROVE  run'.started \/ alert' # "none" \/ oldWay' \/ ~chained'
    BY Zenon
  <2>1. p \in Procs /\ proc'[p] # proc[p] /\ proc[p].pc # "idle"
    BY Zenon DEF Procs, At
  <2>2. CASE Step(p)
    BY Zenon, <1>1, <2>1, <2>2, FrameEnds
  <2>3. CASE \E q \in Procs : q # p /\ (Step(q) \/ Stop(q))
    BY Zenon, <1>1, <2>1, <2>3, OthersStay
  <2>4. ASSUME NEW q \in Handlers, NEW k \in Kinds,
               Retry(q, k) \/ \E via \in {"mqtt", "frame", "hub"} : Copy(q, k, via)
        PROVE  FALSE
    <3>1. q \in Procs /\ q # p
      BY Zenon, <2>1, <2>4 DEF Procs, Retry, Copy, At
    <3>2. QED BY Zenon, <1>1, <2>1, <2>4, <3>1, OthersStay
  <2>5. ASSUME NEW q \in Reconcilers, Reconcile(q) PROVE FALSE
    <3>1. q \in Procs /\ q # p
      BY Zenon, <2>1, <2>5 DEF Procs, Reconcile, At
    <3>2. QED BY Zenon, <1>1, <2>1, <2>5, <3>1, OthersStay
  <2>6. QED BY Zenon, <1>1, <2>1, <2>2, <2>3, <2>4, <2>5
            DEF Next, Kinds, vars, BridgeSends, AlertHandled, RemoveChain
<1>2. QED BY <1>1, Invariance, PTL DEF Spec, NeverDropped
=============================================================================
