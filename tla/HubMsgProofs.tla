---------------------------- MODULE HubMsgProofs ----------------------------
(***************************************************************************)
(* Theorems of HubMsgOutbox for any number of drainers and handlers, any   *)
(* deadline, lease and bounds, and of HubMsgAdmission, at the end, for any *)
(* number of handlers and any submissions.                                 *)
(***************************************************************************)
EXTENDS HubMsgOutbox, HubMsgAdmission, TLAPS

-----------------------------------------------------------------------------
(* The reducer. *)

\* Every kind of evidence has a class, and "pending" is none of them.
LEMMA ClassType == \A k \in Kinds : Class(k) \in Classes
  BY DEF Kinds, Class, Classes

\* The classes are ordered strictly, the final ones on top.
LEMMA StrengthType ==
    /\ \A c \in Classes : Strength(c) \in 0 .. 5
    /\ \A c \in Classes : c \in Final <=> Strength(c) >= 3
    /\ \A c, d \in Classes : Strength(c) = Strength(d) => c = d
<1>1. /\ Strength("completed") = 5 /\ Strength("failed") = 4 /\ Strength("expired") = 3
      /\ Strength("forwarded") = 2 /\ Strength("unknown") = 1 /\ Strength("pending") = 0
  BY DEF Strength
<1>2. \A c \in Classes : Strength(c) \in 0 .. 5
  BY <1>1 DEF Classes
<1>3. \A c \in Classes : c \in Final <=> Strength(c) >= 3
  BY <1>1 DEF Classes, Final
<1>4. \A c, d \in Classes : Strength(c) = Strength(d) => c = d
  BY <1>1 DEF Classes
<1>5. QED BY <1>2, <1>3, <1>4

\* A set of classes that has one has a strongest one.
LEMMA Strongest ==
    ASSUME NEW held \in SUBSET Classes, "pending" \in held
    PROVE  \E c \in held : \A d \in held : Strength(d) <= Strength(c)
<1>1. /\ Strength("completed") = 5 /\ Strength("failed") = 4 /\ Strength("expired") = 3
      /\ Strength("forwarded") = 2 /\ Strength("unknown") = 1 /\ Strength("pending") = 0
  BY DEF Strength
<1>2. CASE "completed" \in held
  BY <1>1, <1>2 DEF Classes
<1>3. CASE "completed" \notin held /\ "failed" \in held
  BY <1>1, <1>3 DEF Classes
<1>4. CASE "completed" \notin held /\ "failed" \notin held /\ "expired" \in held
  BY <1>1, <1>4 DEF Classes
<1>5. CASE held \cap Final = {} /\ "forwarded" \in held
  BY <1>1, <1>5 DEF Classes, Final
<1>6. CASE held \cap Final = {} /\ "forwarded" \notin held /\ "unknown" \in held
  BY <1>1, <1>6 DEF Classes, Final
<1>7. CASE held \cap Final = {} /\ "forwarded" \notin held /\ "unknown" \notin held
  BY <1>1, <1>7 DEF Classes, Final
<1>8. QED BY <1>2, <1>3, <1>4, <1>5, <1>6, <1>7 DEF Final

Held(kinds) == {Class(k) : k \in kinds} \cup {"pending"}

\* Reduce returns the class of one of the events, or pending, and none of them
\* is stronger.
LEMMA ReduceStrongest ==
    ASSUME NEW kinds \in SUBSET Kinds
    PROVE  /\ Reduce(kinds) \in Held(kinds) /\ Reduce(kinds) \in Classes
           /\ \A c \in Held(kinds) : Strength(c) <= Strength(Reduce(kinds))
<1>1. Held(kinds) \in SUBSET Classes /\ "pending" \in Held(kinds)
  BY ClassType DEF Held, Classes
<1>2. \E c \in Held(kinds) : \A d \in Held(kinds) : Strength(d) <= Strength(c)
  BY <1>1, Strongest
<1>3. Reduce(kinds) = CHOOSE c \in Held(kinds) : \A d \in Held(kinds) : Strength(d) <= Strength(c)
  BY DEF Reduce, Held
<1>4. QED BY Zenon, <1>1, <1>2, <1>3

\* More evidence never makes the state weaker.
LEMMA ReduceGrows ==
    ASSUME NEW kinds \in SUBSET Kinds, NEW more \in SUBSET Kinds, kinds \subseteq more
    PROVE  Strength(Reduce(kinds)) <= Strength(Reduce(more))
<1>1. Reduce(kinds) \in Held(kinds) /\ \A c \in Held(more) : Strength(c) <= Strength(Reduce(more))
  BY Zenon, ReduceStrongest
<1>2. Held(kinds) \subseteq Held(more)
  BY DEF Held
<1>3. QED BY Zenon, <1>1, <1>2

\* Evidence of a final class makes the state final.
LEMMA ReduceFinal ==
    ASSUME NEW kinds \in SUBSET Kinds, NEW k \in kinds, Class(k) \in Final
    PROVE  Reduce(kinds) \in Final
<1>1. Class(k) \in Held(kinds) /\ Class(k) \in Classes /\ Reduce(kinds) \in Classes
  BY Zenon, ClassType, ReduceStrongest DEF Held
<1>2. Strength(Class(k)) <= Strength(Reduce(kinds))
  BY Zenon, <1>1, ReduceStrongest
<1>3. QED BY <1>1, <1>2, StrengthType
-----------------------------------------------------------------------------
(* The inductive invariant. *)

\* A handler that is about to keep an answer has recorded its evidence, an
\* answer that is kept rests on final evidence, and what a drainer will mark
\* published went out.
HandsRecorded ==
    \A h \in Handlers : hand[h].pc = "set" /\ op.there => rev[hand[h].kind] > 0 /\ Class(hand[h].kind) \in Final

AnswerRests == op.there /\ op.answer # "" => \E k \in Events : Class(k) \in Final

DoneWasSent == \A d \in Drainers : drain[d].done \subseteq got

IInv ==
    /\ TypeOK /\ StateIsReduction
    /\ HandsRecorded /\ AnswerRests
    /\ PublishedWasSent /\ DoneWasSent

\* The invariant implies that the outbox stops only on final evidence.
LEMMA IInvStops == IInv => StoppedOnEvidence
<1>1. SUFFICES ASSUME IInv, op.there, op.answer # "" PROVE op.state \in Final
  BY Zenon DEF StoppedOnEvidence
<1>2. PICK k \in Events : Class(k) \in Final
  BY <1>1, Zenon DEF IInv, AnswerRests
<1>3. Reduce(Events) \in Final
  <2>1. Events \in SUBSET Kinds BY DEF Events
  <2>2. QED BY Zenon, <1>2, <2>1, ReduceFinal
<1>4. QED BY Zenon, <1>1, <1>3 DEF IInv, StateIsReduction

LEMMA InitIInv == Init => IInv
<1>1. SUFFICES ASSUME Init PROVE IInv OBVIOUS
<1>2. Events = {}
  <2>1. rev = [k \in Kinds |-> 0] BY Zenon, <1>1 DEF Init
  <2>2. QED BY <2>1 DEF Events
<1>3. Reduce({}) = "pending" /\ ~Conflict({})
  <2>1. Reduce({}) \in Held({}) BY Zenon, ReduceStrongest
  <2>2. QED BY <2>1 DEF Held, Conflict
<1>4. TypeOK
  <2>1. op \in [there : BOOLEAN, state : Classes, conflict : BOOLEAN, rev : Nat, attempts : Nat,
                next : Int, leased : Nat, answer : {"", "stored", "refused"}]
    <3>1. 0 \in Nat /\ 1 \in Int BY SMT
    <3>2. QED BY Zenon, <1>1, <3>1 DEF Init, Classes
  <2>2. drain \in [Drainers -> [pc : DrainPcs, attempts : Nat, wait : Int,
                                todo : SUBSET Kinds, done : SUBSET Kinds, read : BOOLEAN]]
    <3>1. 0 \in Nat /\ 0 \in Int BY SMT
    <3>2. QED BY Zenon, <1>1, <3>1 DEF Init, Idle, DrainPcs
  <2>3. hand \in [Handlers -> [pc : {"idle", "add", "set"}, kind : RecipientKinds]]
    BY <1>1, Zenon DEF Init, NoAnswer, RecipientKinds
  <2>4. QED BY <1>1, <2>1, <2>2, <2>3, Zenon DEF Init, TypeOK
<1>5. StateIsReduction
  <2>1. op.state = "pending" /\ op.conflict = FALSE
    BY <1>1, Zenon DEF Init
  <2>2. QED BY Zenon, <1>2, <1>3, <2>1 DEF StateIsReduction
<1>6. HandsRecorded /\ AnswerRests /\ PublishedWasSent /\ DoneWasSent
  BY <1>1, Zenon DEF Init, HandsRecorded, AnswerRests, PublishedWasSent, DoneWasSent, NoAnswer, Idle
<1>7. QED BY <1>4, <1>5, <1>6 DEF IInv
-----------------------------------------------------------------------------
(* The row and its events. *)

OpType == [there : BOOLEAN, state : Classes, conflict : BOOLEAN, rev : Nat, attempts : Nat,
           next : Int, leased : Nat, answer : {"", "stored", "refused"}]

\* What holds of every step but the prune's commit: the operation stays or
\* goes nowhere, its events only grow, the projection is theirs.
RowKept ==
    /\ op' \in OpType /\ rev' \in [Kinds -> Nat]
    /\ op'.there = op.there /\ Events \subseteq Events'
    /\ StateIsReduction'

\* Recording an event keeps the projection (AddMsgOpEvent).
LEMMA AddKeeps ==
    ASSUME IInv, NEW k \in Kinds, AddMsgOpEvent(k)
    PROVE  RowKept /\ op'.answer = op.answer /\ (op.there => k \in Events')
<1>1. op \in OpType /\ rev \in [Kinds -> Nat]
  BY Zenon DEF IInv, TypeOK, OpType
<1>2. CASE op.there /\ rev[k] = 0
  <2>1. rev' = [rev EXCEPT ![k] = op.rev + 1] /\ op.rev \in Nat
    BY <1>1, <1>2, Zenon DEF AddMsgOpEvent, OpType
  <2>2. rev' \in [Kinds -> Nat] /\ Events' = Events \cup {k}
    BY <1>1, <2>1 DEF Events
  <2>3. op' = [op EXCEPT !.rev = op.rev + 1, !.state = Reduce(Events \cup {k}),
                         !.conflict = Conflict(Events \cup {k})]
    BY Zenon, <1>2 DEF AddMsgOpEvent
  <2>4. Reduce(Events \cup {k}) \in Classes
    <3>1. Events \cup {k} \in SUBSET Kinds BY DEF Events
    <3>2. QED BY Zenon, <3>1, ReduceStrongest
  <2>5. Conflict(Events \cup {k}) \in BOOLEAN
    BY DEF Conflict
  <2>6. op' \in OpType /\ op'.there = op.there /\ op'.answer = op.answer
        /\ op'.state = Reduce(Events \cup {k}) /\ op'.conflict = Conflict(Events \cup {k})
    <3>1. op.rev + 1 \in Nat
      BY <2>1
    <3>2. QED BY Zenon, <1>1, <2>3, <2>4, <2>5, <3>1 DEF OpType
  <2>7. StateIsReduction'
    BY Zenon, <2>2, <2>6 DEF StateIsReduction
  <2>8. QED BY <2>2, <2>6, <2>7 DEF RowKept
<1>3. CASE ~(op.there /\ rev[k] = 0)
  <2>1. op' = op /\ rev' = rev
    BY Zenon, <1>3 DEF AddMsgOpEvent
  <2>2. Events' = Events /\ StateIsReduction'
    BY Zenon, <2>1 DEF Events, IInv, StateIsReduction
  <2>3. op.there => k \in Events
    BY <1>1, <1>3 DEF Events
  <2>4. QED BY <1>1, <2>1, <2>2, <2>3 DEF RowKept
<1>4. QED BY <1>2, <1>3

\* A step that leaves the events and the projection alone keeps the row.
LEMMA OtherKeeps ==
    ASSUME IInv, op' \in OpType, rev' = rev, op'.there = op.there, op'.state = op.state, op'.conflict = op.conflict
    PROVE  RowKept
<1>1. rev \in [Kinds -> Nat]
  BY Zenon DEF IInv, TypeOK
<1>2. Events' = Events
  BY DEF Events
<1>3. StateIsReduction'
  BY Zenon, <1>2 DEF IInv, StateIsReduction
<1>4. QED BY <1>1, <1>2, <1>3 DEF RowKept

LEMMA RecordKeeps ==
    ASSUME IInv, NEW k \in Kinds, Record(k)
    PROVE  RowKept /\ op'.answer = op.answer /\ faults' \in Nat
<1>1. faults \in Nat /\ op \in OpType
  BY Zenon DEF IInv, TypeOK, OpType
<1>2. faults' \in Nat
  BY <1>1 DEF Record, Fault
<1>3. CASE AddMsgOpEvent(k)
  BY Zenon, <1>2, <1>3, AddKeeps
<1>4. CASE UNCHANGED <<op, rev>>
  BY <1>1, <1>2, <1>4, OtherKeeps
<1>5. QED BY Zenon, <1>3, <1>4 DEF Record
-----------------------------------------------------------------------------
(* The drainers. *)

DrainType == [pc : DrainPcs, attempts : Nat, wait : Int,
              todo : SUBSET Kinds, done : SUBSET Kinds, read : BOOLEAN]

DrainOk == drain' \in [Drainers -> DrainType] /\ \A d \in Drainers : drain'[d].done \subseteq got'

\* One drainer's record changes, to one whose events marked done were sent.
LEMMA DrainChange ==
    ASSUME IInv, NEW d \in Drainers, NEW r \in DrainType, drain' = [drain EXCEPT ![d] = r],
           r.done \subseteq got', got \subseteq got'
    PROVE  DrainOk
<1>1. drain \in [Drainers -> DrainType] /\ \A e \in Drainers : drain[e].done \subseteq got
  BY Zenon DEF IInv, TypeOK, DoneWasSent, DrainType
<1>2. drain' \in [Drainers -> DrainType] /\ \A e \in Drainers : drain'[e] = IF e = d THEN r ELSE drain[e]
  BY Zenon, <1>1
<1>3. \A e \in Drainers : drain'[e].done \subseteq got'
  BY Zenon, <1>1, <1>2
<1>4. QED BY <1>2, <1>3 DEF DrainOk

LEMMA DrainSame == ASSUME IInv, drain' = drain, got' = got PROVE DrainOk
  BY Zenon DEF IInv, TypeOK, DoneWasSent, DrainType, DrainOk

LEMMA GotoOk ==
    ASSUME IInv, NEW d \in Drainers, NEW pc \in DrainPcs, Goto(d, pc), got \subseteq got'
    PROVE  DrainOk
<1>1. drain[d] \in DrainType /\ drain[d].done \subseteq got /\ drain \in [Drainers -> DrainType]
  BY Zenon DEF IInv, TypeOK, DoneWasSent, DrainType
<1>2. drain' = [drain EXCEPT ![d] = [drain[d] EXCEPT !.pc = pc]]
  BY <1>1 DEF Goto
<1>3. [drain[d] EXCEPT !.pc = pc] \in DrainType /\ [drain[d] EXCEPT !.pc = pc].done = drain[d].done
  BY Zenon, <1>1 DEF DrainType
<1>4. QED BY Zenon, <1>1, <1>2, <1>3, DrainChange

LEMMA PassOk ==
    ASSUME IInv, NEW d \in Drainers, NEW pc \in DrainPcs, Pass(d, pc) \/ Finish(d), got \subseteq got'
    PROVE  DrainOk
<1>1. Idle \in DrainType /\ Idle.done = {} /\ [Idle EXCEPT !.pc = pc] \in DrainType /\ [Idle EXCEPT !.pc = pc].done = {}
  <2>1. "idle" \in DrainPcs /\ 0 \in Nat /\ 0 \in Int BY DEF DrainPcs
  <2>2. Idle \in DrainType /\ Idle.done = {} BY Zenon, <2>1 DEF Idle, DrainType
  <2>3. QED BY Zenon, <2>2 DEF DrainType
<1>2. CASE Pass(d, pc)
  BY Zenon, <1>1, <1>2, DrainChange DEF Pass
<1>3. CASE Finish(d)
  BY Zenon, <1>1, <1>3, DrainChange DEF Finish
<1>4. QED BY <1>2, <1>3

LEMMA MarkAfterOk ==
    ASSUME IInv, NEW d \in Drainers, NEW w \in Int, MarkAfter(d, w), got \subseteq got'
    PROVE  DrainOk
<1>1. drain[d] \in DrainType /\ drain[d].done \subseteq got /\ drain \in [Drainers -> DrainType]
  BY Zenon DEF IInv, TypeOK, DoneWasSent, DrainType
<1>2. drain' = [drain EXCEPT ![d] = [drain[d] EXCEPT !.pc = "mark", !.wait = w]]
  BY <1>1, Zenon DEF MarkAfter
<1>3. "mark" \in DrainPcs BY DEF DrainPcs
<1>4. [drain[d] EXCEPT !.pc = "mark", !.wait = w] \in DrainType
      /\ [drain[d] EXCEPT !.pc = "mark", !.wait = w].done = drain[d].done
  BY Zenon, <1>1, <1>3 DEF DrainType
<1>5. QED BY Zenon, <1>1, <1>2, <1>4, DrainChange

\* The waits are whole numbers.
LEMMA BackoffType == \A n \in Nat : Backoff(n) \in Int
<1>1. ASSUME NEW n \in Nat PROVE Backoff(n) \in Int
  <2>1. Cap \in Nat BY BoundsAssumption
  <2>2. 2 ^ (n - 1) \in Int BY <1>1
  <2>3. QED BY <2>1, <2>2 DEF Backoff
<1>2. QED BY <1>1
-----------------------------------------------------------------------------
(* Putting a step together. *)

Frame ==
    /\ clock' \in Nat /\ faults' \in Nat /\ repeats' \in Nat
    /\ known' \in BOOLEAN /\ delivered' \in BOOLEAN
    /\ got \subseteq got' /\ got' \subseteq Kinds

LEMMA Assemble ==
    ASSUME IInv, RowKept, op'.answer = op.answer, hand' = hand, Frame, DrainOk, published' \subseteq got'
    PROVE  IInv'
<1>1. TypeOK'
  <2>1. op' \in OpType /\ rev' \in [Kinds -> Nat] BY DEF RowKept
  <2>2. drain' \in [Drainers -> DrainType] BY DEF DrainOk
  <2>3. hand' \in [Handlers -> [pc : {"idle", "add", "set"}, kind : RecipientKinds]]
    BY Zenon DEF IInv, TypeOK
  <2>4. published' \in SUBSET Kinds /\ got' \in SUBSET Kinds
    BY DEF Frame
  <2>5. QED BY Zenon, <2>1, <2>2, <2>3, <2>4 DEF TypeOK, OpType, DrainType, Frame
<1>2. HandsRecorded'
  <2>1. \A k \in Kinds : rev[k] > 0 => rev'[k] > 0
    BY Zenon DEF RowKept, Events
  <2>2. \A h \in Handlers : hand[h].kind \in Kinds
    BY Zenon DEF IInv, TypeOK, Kinds, RecipientKinds
  <2>3. QED BY Zenon, <2>1, <2>2 DEF IInv, HandsRecorded, RowKept
<1>3. AnswerRests'
  BY Zenon DEF IInv, AnswerRests, RowKept
<1>4. StateIsReduction' /\ PublishedWasSent' /\ DoneWasSent'
  BY Zenon DEF RowKept, PublishedWasSent, DoneWasSent, DrainOk
<1>5. QED BY <1>1, <1>2, <1>3, <1>4 DEF IInv
-----------------------------------------------------------------------------
(* One lemma per group of actions. *)

\* What most steps leave alone.
LEMMA RowSame == ASSUME IInv, op' = op, rev' = rev PROVE RowKept /\ op'.answer = op.answer
<1>1. op \in OpType BY Zenon DEF IInv, TypeOK, OpType
<1>2. QED BY Zenon, <1>1, OtherKeeps

LEMMA Counters ==
    ASSUME IInv
    PROVE  /\ clock \in Nat /\ faults \in Nat /\ repeats \in Nat /\ known \in BOOLEAN /\ delivered \in BOOLEAN
           /\ got \subseteq Kinds /\ published \subseteq got
           /\ (Fault => faults' \in Nat)
<1>1. clock \in Nat /\ faults \in Nat /\ repeats \in Nat /\ known \in BOOLEAN /\ delivered \in BOOLEAN
  BY Zenon DEF IInv, TypeOK
<1>2. got \subseteq Kinds /\ published \subseteq got
  BY Zenon DEF IInv, TypeOK, PublishedWasSent
<1>3. Fault => faults' \in Nat
  BY <1>1 DEF Fault
<1>4. QED BY <1>1, <1>2, <1>3

\* Steps of the world.
LEMMA WorldKeeps == ASSUME IInv, Tick \/ RemoveRecipient \/ ReplayMsgOpEvents PROVE IInv'
<1>1. op' = op /\ rev' = rev /\ drain' = drain /\ hand' = hand /\ got' = got /\ published' \subseteq published
  BY Zenon DEF Tick, RemoveRecipient, ReplayMsgOpEvents
<1>2. clock' \in Nat /\ repeats' \in Nat
  BY Counters DEF Tick, RemoveRecipient, ReplayMsgOpEvents
<1>3. faults' \in Nat /\ known' \in BOOLEAN /\ delivered' \in BOOLEAN
  BY Zenon, Counters DEF Tick, RemoveRecipient, ReplayMsgOpEvents
<1>4. Frame
  BY Zenon, <1>1, <1>2, <1>3, Counters DEF Frame
<1>5. QED BY Zenon, <1>1, <1>4, RowSame, DrainSame, Counters, Assemble

\* A drainer's step that moves it along and changes nothing else.
LEMMA MoveKeeps ==
    ASSUME IInv, DrainOk, UNCHANGED <<clock, op, rev, published, known, hand, delivered, got, repeats>>,
           Fault \/ UNCHANGED faults
    PROVE  IInv'
<1>1. faults' \in Nat BY Zenon, Counters
<1>2. Frame
  BY Zenon, <1>1, Counters DEF Frame
<1>3. QED BY Zenon, <1>2, RowSame, Counters, Assemble

LEMMA ListsKeep ==
    ASSUME IInv, NEW d \in Drainers, ListExpiredMsgOps(d) \/ ListDueMsgOps(d) \/ BridgeExists(d) \/ Stop(d)
    PROVE  IInv'
<1>1. got' = got /\ (Fault \/ UNCHANGED faults)
      /\ UNCHANGED <<clock, op, rev, published, known, hand, delivered, got, repeats>>
  BY Zenon DEF ListExpiredMsgOps, ListDueMsgOps, BridgeExists, Stop
<1>2. {"expire", "deliver", "claim", "status", "publish", "refuse", "idle"} \subseteq DrainPcs
  BY DEF DrainPcs
<1>3. CASE ListExpiredMsgOps(d)
  <2>1. Goto(d, "expire") \/ Goto(d, "deliver")
    BY Zenon, <1>3 DEF ListExpiredMsgOps
  <2>2. QED BY Zenon, <1>1, <1>2, <2>1, GotoOk, MoveKeeps
<1>4. CASE ListDueMsgOps(d)
  <2>1. drain[d] \in DrainType /\ drain[d].done \subseteq got /\ op.attempts \in Nat
    BY Zenon DEF IInv, TypeOK, DoneWasSent, DrainType
  <2>2. CASE drain' = [drain EXCEPT ![d].pc = "claim", ![d].attempts = op.attempts]
    <3>1. drain' = [drain EXCEPT ![d] = [drain[d] EXCEPT !.pc = "claim", !.attempts = op.attempts]]
      BY <2>2, Zenon DEF IInv, TypeOK
    <3>2. [drain[d] EXCEPT !.pc = "claim", !.attempts = op.attempts] \in DrainType
          /\ [drain[d] EXCEPT !.pc = "claim", !.attempts = op.attempts].done = drain[d].done
      BY Zenon, <1>2, <2>1 DEF DrainType
    <3>3. DrainOk
      BY Zenon, <1>1, <2>1, <3>1, <3>2, DrainChange
    <3>4. QED BY Zenon, <1>1, <3>3, MoveKeeps
  <2>3. CASE Pass(d, "status")
    BY Zenon, <1>1, <1>2, <2>3, PassOk, MoveKeeps
  <2>4. QED BY Zenon, <1>4, <2>2, <2>3 DEF ListDueMsgOps
<1>5. CASE BridgeExists(d)
  <2>1. Backoff(1) \in Int BY BackoffType
  <2>2. Goto(d, "publish") \/ Goto(d, "refuse") \/ MarkAfter(d, Backoff(1))
    BY Zenon, <1>5 DEF BridgeExists
  <2>3. DrainOk
    BY Zenon, <1>1, <1>2, <2>1, <2>2, GotoOk, MarkAfterOk
  <2>4. QED BY Zenon, <1>1, <2>3, MoveKeeps
<1>6. CASE Stop(d)
  BY Zenon, <1>1, <1>2, <1>6, PassOk, MoveKeeps DEF Stop
<1>7. QED BY <1>3, <1>4, <1>5, <1>6

\* The steps that record the Hub's own evidence.
LEMMA RecordsKeep ==
    ASSUME IInv, NEW d \in Drainers, Expire(d) \/ Refuse(d) \/ Forward(d)
    PROVE  IInv'
<1>1. UNCHANGED <<clock, published, known, hand, delivered, got, repeats>>
  BY Zenon DEF Expire, Refuse, Forward
<1>2. {"hub_expired", "hub_refused", "hub_forwarded"} \subseteq Kinds /\ "deliver" \in DrainPcs
  BY DEF Kinds, DrainPcs
<1>3. RowKept /\ op'.answer = op.answer /\ faults' \in Nat
  BY Zenon, <1>2, RecordKeeps DEF Expire, Refuse, Forward
<1>4. DrainOk
  <2>1. Hour \in Int BY BoundsAssumption
  <2>2. drain[d].attempts + 1 \in Nat
    <3>1. drain[d].attempts \in Nat BY Zenon DEF IInv, TypeOK
    <3>2. QED BY <3>1
  <2>3. Backoff(drain[d].attempts + 1) \in Int BY Zenon, <2>2, BackoffType
  <2>4. QED BY Zenon, <1>1, <1>2, <2>1, <2>3, GotoOk, MarkAfterOk DEF Expire, Refuse, Forward
<1>5. Frame
  BY Zenon, <1>1, <1>3, Counters DEF Frame
<1>6. QED BY Zenon, <1>1, <1>3, <1>4, <1>5, Counters, Assemble

LEMMA PublishKeeps == ASSUME IInv, NEW d \in Drainers, Publish(d) PROVE IInv'
<1>1. UNCHANGED <<clock, op, rev, published, known, hand, got, repeats>> /\ (Fault \/ UNCHANGED faults)
  BY Zenon DEF Publish
<1>2. delivered' \in BOOLEAN
  BY Zenon, Counters DEF Publish
<1>3. DrainOk
  <2>1. Backoff(1) \in Int /\ "forward" \in DrainPcs BY BackoffType DEF DrainPcs
  <2>2. QED BY Zenon, <1>1, <2>1, GotoOk, MarkAfterOk DEF Publish
<1>4. Frame
  BY Zenon, <1>1, <1>2, Counters DEF Frame
<1>5. QED BY Zenon, <1>1, <1>3, <1>4, RowSame, Counters, Assemble

\* The lease and the attempt change neither events nor projection.
LEMMA LeaseKeeps == ASSUME IInv, NEW d \in Drainers, ClaimMsgOp(d) \/ MarkMsgOpAttempt(d) PROVE IInv'
<1>1. UNCHANGED <<clock, rev, published, known, hand, delivered, got, repeats>> /\ (Fault \/ UNCHANGED faults)
  BY Zenon DEF ClaimMsgOp, MarkMsgOpAttempt
<1>2. op \in OpType /\ drain[d] \in DrainType /\ drain[d].done \subseteq got /\ drain \in [Drainers -> DrainType]
  BY Zenon DEF IInv, TypeOK, OpType, DrainType, DoneWasSent
<1>3. clock + Lease \in Nat /\ op.attempts + 1 \in Nat /\ clock + drain[d].wait \in Int /\ 0 \in Nat
  <2>1. clock \in Nat /\ Lease \in Nat /\ op.attempts \in Nat /\ drain[d].wait \in Int
    BY Zenon, <1>2, Counters, BoundsAssumption DEF OpType, DrainType
  <2>2. QED BY <2>1
<1>4. {"lookup", "status"} \subseteq DrainPcs BY DEF DrainPcs
<1>5. /\ op' \in OpType /\ op'.there = op.there /\ op'.state = op.state /\ op'.conflict = op.conflict
      /\ op'.answer = op.answer
  <2>1. CASE ClaimMsgOp(d)
    <3>1. op' = op \/ op' = [op EXCEPT !.leased = clock + Lease]
      BY Zenon, <2>1 DEF ClaimMsgOp
    <3>2. QED BY Zenon, <1>2, <1>3, <3>1 DEF OpType
  <2>2. CASE MarkMsgOpAttempt(d)
    <3>1. op' = op \/ op' = [op EXCEPT !.attempts = op.attempts + 1, !.next = clock + drain[d].wait, !.leased = 0]
      BY Zenon, <2>2 DEF MarkMsgOpAttempt, Attempted
    <3>2. QED BY Zenon, <1>2, <1>3, <3>1 DEF OpType
  <2>3. QED BY <2>1, <2>2
<1>6. RowKept
  BY Zenon, <1>1, <1>5, OtherKeeps
<1>7. DrainOk
  <2>1. CASE Goto(d, "lookup")
    <3>1. "lookup" \in DrainPcs BY DEF DrainPcs
    <3>2. QED BY Zenon, <1>1, <2>1, <3>1, GotoOk
  <2>2. CASE Pass(d, "status")
    BY Zenon, <1>1, <1>4, <2>2, PassOk
  <2>3. QED BY Zenon, <2>1, <2>2 DEF ClaimMsgOp, MarkMsgOpAttempt
<1>8. Frame
  BY Zenon, <1>1, Counters DEF Frame
<1>9. QED BY Zenon, <1>1, <1>5, <1>6, <1>7, <1>8, Counters, Assemble

\* Publishing events: what is marked went out before.
LEMMA StatusKeeps ==
    ASSUME IInv, NEW d \in Drainers, ListUnpublished(d) \/ MarkMsgOpEventsPublished(d) \/ PruneEvents(d)
    PROVE  IInv'
<1>1. UNCHANGED <<clock, op, rev, known, hand, delivered, got, repeats>> /\ (Fault \/ UNCHANGED faults)
  BY Zenon DEF ListUnpublished, MarkMsgOpEventsPublished, PruneEvents
<1>2. drain[d] \in DrainType /\ drain[d].done \subseteq got /\ drain \in [Drainers -> DrainType] /\ Events \subseteq Kinds
  BY Zenon DEF IInv, TypeOK, DrainType, DoneWasSent, Events
<1>3. {"idle", "send", "prune"} \subseteq DrainPcs BY DEF DrainPcs
<1>4. published' \subseteq got'
  BY Zenon, <1>1, <1>2, Counters DEF ListUnpublished, MarkMsgOpEventsPublished, PruneEvents, MarkPublished
<1>5. DrainOk
  <2>1. CASE drain' = [drain EXCEPT ![d].pc = "send", ![d].todo = Events \ published, ![d].done = {}]
    <3>1. drain' = [drain EXCEPT ![d] = [drain[d] EXCEPT !.pc = "send", !.todo = Events \ published, !.done = {}]]
      BY <1>2, <2>1, Zenon
    <3>2. Events \ published \in SUBSET Kinds /\ {} \in SUBSET Kinds BY <1>2
    <3>3. [drain[d] EXCEPT !.pc = "send", !.todo = Events \ published, !.done = {}] \in DrainType
          /\ [drain[d] EXCEPT !.pc = "send", !.todo = Events \ published, !.done = {}].done = {}
      BY Zenon, <1>2, <1>3, <3>2 DEF DrainType
    <3>4. QED BY Zenon, <1>1, <3>1, <3>3, DrainChange
  <2>2. CASE Finish(d)
    BY Zenon, <1>1, <1>3, <2>2, PassOk
  <2>3. CASE drain' = [drain EXCEPT ![d].pc = "prune", ![d].todo = Events]
    <3>1. drain' = [drain EXCEPT ![d] = [drain[d] EXCEPT !.pc = "prune", !.todo = Events]]
      BY <1>2, <2>3, Zenon
    <3>2. [drain[d] EXCEPT !.pc = "prune", !.todo = Events] \in DrainType
          /\ [drain[d] EXCEPT !.pc = "prune", !.todo = Events].done = drain[d].done
      BY Zenon, <1>2, <1>3 DEF DrainType
    <3>3. QED BY Zenon, <1>1, <1>2, <3>1, <3>2, DrainChange
  <2>4. QED BY Zenon, <2>1, <2>2, <2>3 DEF ListUnpublished, MarkMsgOpEventsPublished, PruneEvents
<1>6. Frame
  BY Zenon, <1>1, Counters DEF Frame
<1>7. QED BY Zenon, <1>1, <1>4, <1>5, <1>6, RowSame, Assemble

LEMMA SendKeeps == ASSUME IInv, NEW d \in Drainers, NEW k \in drain[d].todo, Send(d, k) PROVE IInv'
<1>1. UNCHANGED <<clock, op, rev, published, known, hand, delivered, repeats>> /\ (Fault \/ UNCHANGED faults)
  BY Zenon DEF Send
<1>2. drain[d] \in DrainType /\ drain[d].done \subseteq got /\ drain \in [Drainers -> DrainType] /\ k \in Kinds
  BY Zenon DEF IInv, TypeOK, DrainType, DoneWasSent
<1>3. got \subseteq got' /\ got' \subseteq Kinds
  BY Zenon, <1>2, Counters DEF Send
<1>4. DrainOk
  <2>1. drain[d].todo \ {k} \in SUBSET Kinds /\ drain[d].done \cup {k} \in SUBSET Kinds
    BY Zenon, <1>2 DEF DrainType
  <2>2. CASE Goto(d, "sent")
    <3>1. "sent" \in DrainPcs BY DEF DrainPcs
    <3>2. QED BY Zenon, <1>3, <2>2, <3>1, GotoOk
  <2>3. CASE drain' = [drain EXCEPT ![d].todo = drain[d].todo \ {k}]
    <3>1. drain' = [drain EXCEPT ![d] = [drain[d] EXCEPT !.todo = drain[d].todo \ {k}]]
      BY <1>2, <2>3
    <3>2. [drain[d] EXCEPT !.todo = drain[d].todo \ {k}] \in DrainType
          /\ [drain[d] EXCEPT !.todo = drain[d].todo \ {k}].done = drain[d].done
      BY Zenon, <1>2, <2>1 DEF DrainType
    <3>3. QED BY Zenon, <1>2, <1>3, <3>1, <3>2, DrainChange
  <2>4. CASE /\ got' = got \cup {k}
             /\ drain' = [[drain EXCEPT ![d].todo = drain[d].todo \ {k}] EXCEPT
                             ![d].done = drain[d].done \cup {k}, ![d].read = TRUE]
    <3>1. drain' = [drain EXCEPT ![d] = [drain[d] EXCEPT !.todo = drain[d].todo \ {k},
                                                         !.done = drain[d].done \cup {k}, !.read = TRUE]]
      BY <1>2, <2>4, Zenon
    <3>2. [drain[d] EXCEPT !.todo = drain[d].todo \ {k}, !.done = drain[d].done \cup {k}, !.read = TRUE] \in DrainType
          /\ [drain[d] EXCEPT !.todo = drain[d].todo \ {k}, !.done = drain[d].done \cup {k}, !.read = TRUE].done
               = drain[d].done \cup {k}
      BY Zenon, <1>2, <2>1 DEF DrainType
    <3>3. drain[d].done \cup {k} \subseteq got' BY Zenon, <1>2, <2>4
    <3>4. QED BY Zenon, <1>3, <3>1, <3>2, <3>3, DrainChange
  <2>5. QED BY Zenon, <2>2, <2>3, <2>4 DEF Send
<1>5. Frame
  BY Zenon, <1>1, <1>3, Counters DEF Frame
<1>6. published' \subseteq got'
  BY Zenon, <1>1, <1>3, Counters
<1>7. QED BY Zenon, <1>1, <1>4, <1>5, <1>6, RowSame, Assemble

\* The prune's commit: nothing is claimed of an operation that is gone.
LEMMA PruneKeeps == ASSUME IInv, NEW d \in Drainers, PruneOps(d) PROVE IInv'
<1>1. UNCHANGED <<clock, known, hand, delivered, got, faults, repeats>> /\ published' \subseteq published
  BY Zenon DEF PruneOps
<1>2. op' \in OpType /\ ~op'.there
  <2>1. op \in OpType BY Zenon DEF IInv, TypeOK, OpType
  <2>2. op' = [op EXCEPT !.there = FALSE] BY Zenon DEF PruneOps
  <2>3. QED BY Zenon, <2>1, <2>2 DEF OpType
<1>3. rev' \in [Kinds -> Nat]
  <2>1. rev \in [Kinds -> Nat] /\ rev' = [k \in Kinds |-> IF k \in drain[d].todo THEN 0 ELSE rev[k]]
    BY Zenon DEF IInv, TypeOK, PruneOps
  <2>2. QED BY <2>1
<1>4. DrainOk
  <2>1. Finish(d) /\ "idle" \in DrainPcs /\ got \subseteq got' BY Zenon, <1>1 DEF PruneOps, DrainPcs
  <2>2. QED BY Zenon, <2>1, PassOk
<1>5. TypeOK'
  <2>1. hand' \in [Handlers -> [pc : {"idle", "add", "set"}, kind : RecipientKinds]]
    BY Zenon, <1>1 DEF IInv, TypeOK
  <2>2. published' \in SUBSET Kinds /\ got' \in SUBSET Kinds
    BY Zenon, <1>1, Counters
  <2>3. QED BY Zenon, <1>1, <1>2, <1>3, <1>4, <2>1, <2>2, Counters DEF TypeOK, OpType, DrainType, DrainOk
<1>6. StateIsReduction' /\ HandsRecorded' /\ AnswerRests'
  BY Zenon, <1>2 DEF StateIsReduction, HandsRecorded, AnswerRests
<1>7. PublishedWasSent' /\ DoneWasSent'
  BY Zenon, <1>1, <1>4, Counters DEF PublishedWasSent, DoneWasSent, DrainOk
<1>8. QED BY <1>5, <1>6, <1>7 DEF IInv

HandType == [pc : {"idle", "add", "set"}, kind : RecipientKinds]

\* A handler's step: the row is kept and the answer, if it changed, rests on
\* final evidence.
LEMMA AssembleHand ==
    ASSUME IInv, RowKept, NEW h \in Handlers, NEW r \in HandType, hand' = [hand EXCEPT ![h] = r],
           op'.there /\ op'.answer # "" => \E k \in Events' : Class(k) \in Final,
           r.pc = "set" /\ op'.there => r.kind \in Events' /\ Class(r.kind) \in Final,
           UNCHANGED <<clock, published, known, drain, delivered, got, repeats>>, Fault \/ UNCHANGED faults
    PROVE  IInv'
<1>1. hand \in [Handlers -> HandType] /\ RecipientKinds \subseteq Kinds
  BY Zenon DEF IInv, TypeOK, HandType, RecipientKinds, Kinds
<1>2. hand' \in [Handlers -> HandType] /\ \A g \in Handlers : hand'[g] = IF g = h THEN r ELSE hand[g]
  BY Zenon, <1>1
<1>3. DrainOk BY Zenon, DrainSame
<1>4. TypeOK'
  <2>1. published' \in SUBSET Kinds /\ got' \in SUBSET Kinds
    BY Zenon, Counters
  <2>2. QED BY Zenon, <1>2, <1>3, <2>1, Counters DEF TypeOK, OpType, DrainType, HandType, DrainOk, RowKept
<1>5. HandsRecorded'
  <2>1. \A k \in Kinds : rev[k] > 0 => rev'[k] > 0
    BY Zenon DEF RowKept, Events
  <2>2. \A g \in Handlers : hand[g].kind \in Kinds
    BY Zenon, <1>1 DEF HandType
  <2>3. \A k \in Events' : rev'[k] > 0 BY Zenon DEF Events
  <2>4. \A g \in Handlers : g # h => (hand'[g].pc = "set" /\ op'.there => rev'[hand'[g].kind] > 0 /\ Class(hand'[g].kind) \in Final)
    BY Zenon, <1>2, <2>1, <2>2 DEF IInv, HandsRecorded, RowKept
  <2>5. hand'[h].pc = "set" /\ op'.there => rev'[hand'[h].kind] > 0 /\ Class(hand'[h].kind) \in Final
    BY Zenon, <1>2, <2>3
  <2>6. QED BY Zenon, <2>4, <2>5 DEF HandsRecorded
<1>6. AnswerRests' BY Zenon DEF AnswerRests
<1>7. StateIsReduction' /\ PublishedWasSent' /\ DoneWasSent'
  BY Zenon, <1>3, Counters DEF RowKept, PublishedWasSent, DoneWasSent, DrainOk
<1>8. QED BY <1>4, <1>5, <1>6, <1>7, Zenon DEF IInv

\* An answer the outbox keeps is evidence of a final class.
LEMMA AnswerFinal ==
    /\ \A k \in RecipientKinds : Answer(k) # "" => Class(k) \in Final
    /\ \A k \in RecipientKinds : Answer(k) \in {"", "stored", "refused"}
  BY DEF RecipientKinds, Answer, Class, Final

LEMMA HandsKeep ==
    ASSUME IInv, NEW h \in Handlers,
           AddAnswer(h) \/ SetMsgOpRecipientAnswer(h) \/ \E k \in Answers : HandleAck(h, k)
    PROVE  IInv'
<1>1. hand[h] \in HandType /\ NoAnswer \in HandType /\ RecipientKinds \subseteq Kinds /\ Answers \subseteq RecipientKinds
      /\ NoAnswer.pc # "set" /\ hand[h].kind \in RecipientKinds /\ op \in OpType
  BY Zenon, BoundsAssumption DEF IInv, TypeOK, HandType, RecipientKinds, Kinds, NoAnswer, OpType
<1>2. op.there /\ op.answer # "" => \E k \in Events : Class(k) \in Final
  BY Zenon DEF IInv, AnswerRests
<1>3. CASE \E k \in Answers : HandleAck(h, k)
  <2>1. PICK k \in Answers : HandleAck(h, k) BY <1>3
  <2>2. [pc |-> "add", kind |-> k] \in HandType /\ [pc |-> "add", kind |-> k].pc # "set"
    BY Zenon, <1>1 DEF HandType
  <2>3. op' = op /\ rev' = rev /\ Events' = Events
    BY Zenon, <2>1 DEF HandleAck, Events
  <2>4. QED BY Zenon, <1>2, <2>1, <2>2, <2>3, RowSame, AssembleHand DEF HandleAck
<1>4. CASE AddAnswer(h)
  <2>1. CASE AddMsgOpEvent(hand[h].kind)
    <3>1. RowKept /\ op'.answer = op.answer /\ (op.there => hand[h].kind \in Events') /\ op'.there = op.there
          /\ Events \subseteq Events'
      BY Zenon, <1>1, <2>1, AddKeeps DEF RowKept
    <3>2. op'.there /\ op'.answer # "" => \E k \in Events' : Class(k) \in Final
      BY Zenon, <1>2, <3>1
    <3>3. CASE hand' = [hand EXCEPT ![h] = NoAnswer]
      BY Zenon, <1>1, <1>4, <3>1, <3>2, <3>3, AssembleHand DEF AddAnswer
    <3>4. CASE /\ hand' = [hand EXCEPT ![h] = [hand[h] EXCEPT !.pc = "set"]]
               /\ Answer(hand[h].kind) # ""
      <4>1. [hand[h] EXCEPT !.pc = "set"] \in HandType /\ [hand[h] EXCEPT !.pc = "set"].kind = hand[h].kind
        BY Zenon, <1>1 DEF HandType
      <4>2. Class(hand[h].kind) \in Final
        BY Zenon, <1>1, <3>4, AnswerFinal
      <4>3. QED BY Zenon, <1>4, <3>1, <3>2, <3>4, <4>1, <4>2, AssembleHand DEF AddAnswer
    <3>5. QED BY Zenon, <1>4, <3>3, <3>4 DEF AddAnswer
  <2>2. CASE UNCHANGED <<op, rev>> /\ hand' = [hand EXCEPT ![h] = NoAnswer]
    <3>1. op' = op /\ rev' = rev /\ Events' = Events BY Zenon, <2>2 DEF Events
    <3>2. QED BY Zenon, <1>1, <1>2, <1>4, <2>2, <3>1, RowSame, AssembleHand DEF AddAnswer
  <2>3. QED BY Zenon, <1>4, <2>1, <2>2 DEF AddAnswer
<1>5. CASE SetMsgOpRecipientAnswer(h)
  <2>1. hand[h].pc = "set" /\ hand' = [hand EXCEPT ![h] = NoAnswer] /\ rev' = rev /\ Events' = Events
    BY Zenon, <1>5 DEF SetMsgOpRecipientAnswer, Events
  <2>2. CASE op' = op
    BY Zenon, <1>1, <1>2, <1>5, <2>1, <2>2, RowSame, AssembleHand DEF SetMsgOpRecipientAnswer
  <2>3. CASE op' = [op EXCEPT !.answer = IF op.there THEN Answer(hand[h].kind) ELSE ""]
    <3>1. (IF op.there THEN Answer(hand[h].kind) ELSE "") \in {"", "stored", "refused"}
      BY Zenon, <1>1, AnswerFinal
    <3>2. op' \in OpType /\ op'.there = op.there /\ op'.state = op.state /\ op'.conflict = op.conflict
      BY Zenon, <1>1, <2>3, <3>1 DEF OpType
    <3>3. RowKept BY Zenon, <2>1, <3>2, OtherKeeps
    <3>4. op'.there => \E k \in Events' : Class(k) \in Final
      <4>1. op'.there => rev[hand[h].kind] > 0 /\ Class(hand[h].kind) \in Final
        BY Zenon, <2>1, <3>2 DEF IInv, HandsRecorded
      <4>2. hand[h].kind \in Kinds BY Zenon, <1>1
      <4>3. QED BY Zenon, <2>1, <4>1, <4>2 DEF Events
    <3>5. QED BY Zenon, <1>1, <1>5, <2>1, <3>3, <3>4, AssembleHand DEF SetMsgOpRecipientAnswer
  <2>4. QED BY Zenon, <1>5, <2>2, <2>3 DEF SetMsgOpRecipientAnswer
<1>6. QED BY <1>3, <1>4, <1>5
-----------------------------------------------------------------------------
(* The theorems. *)

LEMMA NextKeeps == ASSUME IInv, [Next]_vars PROVE IInv'
<1>1. CASE Tick \/ RemoveRecipient \/ ReplayMsgOpEvents
  BY <1>1, WorldKeeps
<1>2. ASSUME NEW h \in Handlers, AddAnswer(h) \/ SetMsgOpRecipientAnswer(h) \/ \E k \in Answers : HandleAck(h, k)
      PROVE  IInv'
  BY <1>2, HandsKeep
<1>3. ASSUME NEW d \in Drainers, DrainStep(d) \/ PruneEvents(d) \/ Stop(d) PROVE IInv'
  <2>1. CASE ListExpiredMsgOps(d) \/ ListDueMsgOps(d) \/ BridgeExists(d) \/ Stop(d)
    BY <2>1, ListsKeep
  <2>2. CASE Expire(d) \/ Refuse(d) \/ Forward(d)
    BY <2>2, RecordsKeep
  <2>3. CASE Publish(d)
    BY <2>3, PublishKeeps
  <2>4. CASE ClaimMsgOp(d) \/ MarkMsgOpAttempt(d)
    BY <2>4, LeaseKeeps
  <2>5. CASE ListUnpublished(d) \/ MarkMsgOpEventsPublished(d) \/ PruneEvents(d)
    BY <2>5, StatusKeeps
  <2>6. CASE \E k \in drain[d].todo : Send(d, k)
    BY <2>6, SendKeeps
  <2>7. CASE PruneOps(d)
    BY <2>7, PruneKeeps
  <2>8. QED BY Zenon, <1>3, <2>1, <2>2, <2>3, <2>4, <2>5, <2>6, <2>7 DEF DrainStep
<1>4. CASE UNCHANGED vars
  <2>1. Fault \/ UNCHANGED faults BY <1>4 DEF vars
  <2>2. DrainOk BY Zenon, <1>4, DrainSame DEF vars
  <2>3. QED BY Zenon, <1>4, <2>1, <2>2, MoveKeeps DEF vars
<1>5. QED BY Zenon, <1>1, <1>2, <1>3, <1>4 DEF Next

\* IInv is an invariant of the outbox, its acknowledgements, repeats and prunes.
THEOREM Invariant == Spec => []IInv
<1>1. QED BY InitIInv, NextKeeps, PTL DEF Spec

\* The state variables keep their types.
THEOREM TypeCorrect == Spec => []TypeOK
<1>1. IInv => TypeOK BY DEF IInv
<1>2. QED BY <1>1, Invariant, PTL

\* The stored state and conflict mark are always the reduction of all stored
\* events (AddMsgOpEvent under the row's lock), for any number of replicas.
THEOREM Projection == Spec => []StateIsReduction
<1>1. IInv => StateIsReduction BY DEF IInv
<1>2. QED BY <1>1, Invariant, PTL

\* The outbox stops for an answer only once the deciding evidence is stored
\* (HandleAck records the event before it keeps the answer).
THEOREM StopsOnEvidence == Spec => []StoppedOnEvidence
<1>1. QED BY IInvStops, Invariant, PTL

\* No event is marked published that never went out (publishStatus marks what
\* it published, not what it listed).
THEOREM MarksOnlySent == Spec => []PublishedWasSent
<1>1. IInv => PublishedWasSent BY DEF IInv
<1>2. QED BY <1>1, Invariant, PTL

\* While an operation is stored no event of it is lost.
LEMMA EventsGrow == ASSUME IInv, [Next]_vars, op'.there PROVE Events \subseteq Events'
<1>1. CASE rev' = rev
  BY Zenon, <1>1 DEF Events
<1>2. CASE \E k \in Kinds : AddMsgOpEvent(k)
  BY Zenon, <1>2, AddKeeps DEF RowKept
<1>3. CASE \E d \in Drainers : PruneOps(d)
  <2>1. op' = [op EXCEPT !.there = FALSE] BY Zenon, <1>3 DEF PruneOps
  <2>2. op \in OpType BY Zenon DEF IInv, TypeOK, OpType
  <2>3. QED BY Zenon, <2>1, <2>2 DEF OpType
<1>4. (rev' = rev) \/ (\E k \in Kinds : AddMsgOpEvent(k)) \/ (\E d \in Drainers : PruneOps(d))
  <2>1. {"hub_expired", "hub_refused", "hub_forwarded"} \subseteq Kinds BY DEF Kinds
  <2>2. \A h \in Handlers : hand[h].kind \in Kinds
    BY Zenon DEF IInv, TypeOK, Kinds, RecipientKinds
  <2>3. CASE Tick \/ RemoveRecipient \/ ReplayMsgOpEvents \/ UNCHANGED vars
    BY Zenon, <2>3 DEF Tick, RemoveRecipient, ReplayMsgOpEvents, vars
  <2>4. CASE \E h \in Handlers : AddAnswer(h) \/ SetMsgOpRecipientAnswer(h) \/ \E k \in Answers : HandleAck(h, k)
    BY Zenon, <2>2, <2>4 DEF AddAnswer, SetMsgOpRecipientAnswer, HandleAck
  <2>5. ASSUME NEW d \in Drainers, DrainStep(d) \/ PruneEvents(d) \/ Stop(d)
        PROVE  (rev' = rev) \/ (\E k \in Kinds : AddMsgOpEvent(k)) \/ (\E e \in Drainers : PruneOps(e))
    <3>1. CASE Expire(d) \/ Refuse(d) \/ Forward(d)
      BY Zenon, <2>1, <3>1 DEF Expire, Refuse, Forward, Record
    <3>2. CASE ~(Expire(d) \/ Refuse(d) \/ Forward(d))
      BY Zenon, <2>5, <3>2 DEF DrainStep, ListExpiredMsgOps, ListDueMsgOps, ClaimMsgOp, BridgeExists, Publish,
         MarkMsgOpAttempt, ListUnpublished, Send, MarkMsgOpEventsPublished, PruneEvents, Stop
    <3>3. QED BY <3>1, <3>2
  <2>6. QED BY Zenon, <2>3, <2>4, <2>5 DEF Next
<1>5. QED BY <1>1, <1>2, <1>3, <1>4

\* No step weakens a stored operation's state: an expiry or a refusal after
\* the recipient stored the message does not undo the completion.
THEOREM NeverWeakens == Spec => StateNeverWeakens
<1>1. ASSUME IInv, IInv', [Next]_vars
      PROVE  [op.there /\ op'.there => Strength(op.state) <= Strength(op'.state)]_vars
  <2>1. SUFFICES ASSUME op.there, op'.there PROVE Strength(op.state) <= Strength(op'.state)
    OBVIOUS
  <2>2. op.state = Reduce(Events) /\ op'.state = Reduce(Events')
    BY Zenon, <1>1, <2>1 DEF IInv, StateIsReduction
  <2>3. Events \subseteq Events'
    BY Zenon, <1>1, <2>1, EventsGrow
  <2>4. Events \in SUBSET Kinds /\ Events' \in SUBSET Kinds
    BY Zenon DEF Events
  <2>5. Strength(Reduce(Events)) <= Strength(Reduce(Events'))
    BY Zenon, <2>3, <2>4, ReduceGrows
  <2>6. QED BY Zenon, <2>2, <2>5
<1>2. QED BY <1>1, Invariant, PTL DEF Spec, StateNeverWeakens
-----------------------------------------------------------------------------
(* The ingress (HubMsgAdmission), a specification of its own: for any      *)
(* number of handlers and any submissions, whichever keys, mids and        *)
(* digests they share.                                                     *)

\* What a handler works on, and that it alone inserts its mid.
IntakeOk ==
    /\ \A h \in Intake :
          /\ work[h].pc # "idle" => work[h].sub \in Submissions
          /\ work[h].pc \in {"key", "mid", "digest", "op"} => ~work[h].late
          /\ (work[h].pc # "idle" /\ work[h].sub \in gone) => work[h].late
          /\ work[h].mine => work[h].pc \in {"digest", "op"} /\ mids[work[h].sub.mid] = None
    /\ \A g, h \in Intake : work[g].mine /\ work[h].mine /\ work[g].sub.mid = work[h].sub.mid => g = h

\* Until a prune, the row of a mid has the digest of every operation of the
\* mid, and of every one that is about to be inserted.
DigestsOk ==
    gone = {} =>
        /\ \A o \in Ops : ops[o] # None => mids[ops[o].mid] = ops[o].digest
        /\ \A h \in Intake : work[h].pc = "op" /\ ~work[h].mine => mids[work[h].sub.mid] = work[h].sub.digest

IngressInv == IngressTypeOK /\ IntakeOk /\ AdmittedIsStored /\ DigestsOk

WorkType == [pc : {"idle", "get", "check", "key", "mid", "digest", "op"},
             sub : Submissions \cup {None}, late : BOOLEAN, mine : BOOLEAN]

\* A step of one handler.
LEMMA WorkChange ==
  ASSUME IngressTypeOK, NEW h \in Intake, NEW w \in WorkType, work' = [work EXCEPT ![h] = w]
  PROVE  /\ work' \in [Intake -> WorkType] /\ work'[h] = w
         /\ \A g \in Intake : g # h => work'[g] = work[g]
BY Zenon DEF IngressTypeOK, WorkType

LEMMA FreeIs ==
  /\ Free \in WorkType
  /\ Free.pc = "idle" /\ ~Free.mine
BY DEF Free, WorkType

LEMMA GotoIs ==
  ASSUME IngressTypeOK, NEW h \in Intake, NEW pc \in {"check", "key", "mid", "op"}, Proceed(h, pc)
  PROVE  \E w \in WorkType : /\ work' = [work EXCEPT ![h] = w]
                             /\ w.pc = pc /\ w.sub = work[h].sub /\ w.late = work[h].late /\ w.mine = work[h].mine
<1>1. PICK w : w = [work[h] EXCEPT !.pc = pc]
  BY Zenon
<1>2. work[h] \in WorkType
  BY Zenon DEF IngressTypeOK, WorkType
<1>3. w \in WorkType /\ w.pc = pc /\ w.sub = work[h].sub /\ w.late = work[h].late /\ w.mine = work[h].mine
  BY <1>1, <1>2 DEF WorkType
<1>4. work' = [work EXCEPT ![h] = w]
  BY <1>1, Zenon DEF Proceed
<1> QED BY <1>3, <1>4, Zenon

Tables == <<ops, mids, past, gone, aged, admitted>>

\* A handler goes on, and the tables stay.
LEMMA HandlerMoves ==
  ASSUME IngressInv, UNCHANGED Tables, recipient' = recipient, NEW h \in Intake, NEW w \in WorkType,
         work' = [work EXCEPT ![h] = w],
         w.pc # "idle" => w.sub \in Submissions,
         w.pc \in {"key", "mid", "digest", "op"} => ~w.late,
         (w.pc # "idle" /\ w.sub \in gone) => w.late,
         w.mine => /\ w.pc \in {"digest", "op"} /\ mids[w.sub.mid] = None
                   /\ \A g \in Intake : g # h /\ work[g].mine => work[g].sub.mid # w.sub.mid,
         (gone = {} /\ w.pc = "op" /\ ~w.mine) => mids[w.sub.mid] = w.sub.digest
  PROVE  IngressInv'
<1>1. /\ work' \in [Intake -> WorkType] /\ work'[h] = w
      /\ \A g \in Intake : g # h => work'[g] = work[g]
  BY WorkChange, Zenon DEF IngressInv
<1>2. UNCHANGED <<ops, mids, past, gone, aged, admitted>>
  BY Zenon DEF Tables
<1>3. IngressTypeOK'
  BY <1>1, <1>2, Zenon DEF IngressInv, IngressTypeOK, WorkType, Ops, Mids
<1>4. ASSUME NEW g \in Intake
      PROVE  /\ work'[g].pc # "idle" => work'[g].sub \in Submissions
             /\ work'[g].pc \in {"key", "mid", "digest", "op"} => ~work'[g].late
             /\ (work'[g].pc # "idle" /\ work'[g].sub \in gone') => work'[g].late
             /\ work'[g].mine => work'[g].pc \in {"digest", "op"} /\ mids'[work'[g].sub.mid] = None
  <2>1. CASE g = h
    BY <1>1, <1>2, <2>1, Zenon
  <2>2. CASE g # h
    BY <1>1, <1>2, <2>2, Zenon DEF IngressInv, IntakeOk
  <2> QED BY <2>1, <2>2
<1>5. ASSUME NEW f \in Intake, NEW g \in Intake, work'[f].mine, work'[g].mine, work'[f].sub.mid = work'[g].sub.mid
      PROVE  f = g
  <2>1. CASE f = h \/ g = h
    BY <1>1, <1>5, <2>1, Zenon
  <2>2. CASE f # h /\ g # h
    BY <1>1, <1>5, <2>2, Zenon DEF IngressInv, IntakeOk
  <2> QED BY <2>1, <2>2
<1>6. IntakeOk'
  BY <1>4, <1>5, Zenon DEF IntakeOk
<1>7. AdmittedIsStored'
  BY <1>2, Zenon DEF IngressInv, AdmittedIsStored
<1>8. DigestsOk'
  <2>1. ASSUME gone = {}, NEW g \in Intake, work'[g].pc = "op", ~work'[g].mine
        PROVE  mids[work'[g].sub.mid] = work'[g].sub.digest
    <3>1. CASE g = h
      BY <1>1, <2>1, <3>1, Zenon
    <3>2. CASE g # h
      BY <1>1, <2>1, <3>2, Zenon DEF IngressInv, DigestsOk
    <3> QED BY <3>1, <3>2
  <2> QED BY <1>2, <2>1, Zenon DEF IngressInv, DigestsOk, Ops
<1> QED BY <1>3, <1>6, <1>7, <1>8, Zenon DEF IngressInv

LEMMA AnswerKeeps ==
  ASSUME IngressInv, UNCHANGED Tables, recipient' = recipient, NEW h \in Intake, Reply(h)
  PROVE  IngressInv'
<1>1. PICK w : w = Free
  BY Zenon
<1>2. w \in WorkType /\ w.pc = "idle" /\ ~w.mine
  BY <1>1, FreeIs, Zenon
<1>3. work' = [work EXCEPT ![h] = w]
  BY <1>1, Zenon DEF Reply
<1> QED BY <1>2, <1>3, HandlerMoves, Zenon

LEMMA GotoKeeps ==
  ASSUME IngressInv, UNCHANGED Tables, recipient' = recipient, NEW h \in Intake, work[h].pc # "idle",
         NEW pc \in {"check", "key", "mid", "op"}, Proceed(h, pc),
         pc = "check" \/ ~work[h].late, work[h].mine => pc = "op",
         (pc = "op" /\ ~work[h].mine) => mids[work[h].sub.mid] = work[h].sub.digest
  PROVE  IngressInv'
<1>1. PICK w \in WorkType : /\ work' = [work EXCEPT ![h] = w]
                            /\ w.pc = pc /\ w.sub = work[h].sub /\ w.late = work[h].late /\ w.mine = work[h].mine
  BY GotoIs, Zenon DEF IngressInv
<1>2. /\ w.sub \in Submissions /\ (w.sub \in gone => w.late)
      /\ w.pc \in {"key", "mid", "digest", "op"} => ~w.late
  BY <1>1, Zenon DEF IngressInv, IntakeOk
<1>3. w.mine => /\ w.pc \in {"digest", "op"} /\ mids[w.sub.mid] = None
                /\ \A g \in Intake : g # h /\ work[g].mine => work[g].sub.mid # w.sub.mid
  BY <1>1, Zenon DEF IngressInv, IntakeOk
<1>4. (gone = {} /\ w.pc = "op" /\ ~w.mine) => mids[w.sub.mid] = w.sub.digest
  BY <1>1, Zenon
<1> QED BY <1>1, <1>2, <1>3, <1>4, HandlerMoves, Zenon

\* The steps before the commit.
LEMMA HandlerKeeps ==
  ASSUME IngressInv, NEW h \in Intake,
         \/ GetMsgOp(h) \/ Check(h) \/ ReadKey(h) \/ SelectDigest(h)
         \/ Fail(h)
  PROVE  IngressInv'
<1>1. UNCHANGED Tables /\ recipient' = recipient
  BY Zenon DEF GetMsgOp, Check, ReadKey, SelectDigest, Fail, Tables
<1>2. CASE Reply(h)
  BY <1>1, <1>2, AnswerKeeps, Zenon
<1>3. /\ work[h].mine => work[h].pc \in {"digest", "op"}
      /\ work[h].pc \in {"key", "mid", "digest", "op"} => ~work[h].late
  BY Zenon DEF IngressInv, IntakeOk
<1>4. CASE GetMsgOp(h) /\ Proceed(h, "check")
  <2>1. work[h].pc = "get"
    BY <1>4, Zenon DEF GetMsgOp, Reached
  <2>2. work[h].pc # "idle" /\ ~work[h].mine
    BY <1>3, <2>1
  <2> QED BY <1>1, <1>4, <2>2, GotoKeeps, Zenon
<1>5. CASE Check(h) /\ Proceed(h, "key") /\ ~Refused(h)
  <2>1. work[h].pc = "check" /\ ~work[h].late
    BY <1>5, Zenon DEF Check, Reached, Refused
  <2>2. work[h].pc # "idle" /\ ~work[h].mine
    BY <1>3, <2>1
  <2> QED BY <1>1, <1>5, <2>1, <2>2, GotoKeeps, Zenon
<1>6. CASE ReadKey(h) /\ Proceed(h, "mid")
  <2>1. work[h].pc = "key"
    BY <1>6, Zenon DEF ReadKey, Reached
  <2>2. work[h].pc # "idle" /\ ~work[h].mine /\ ~work[h].late
    BY <1>3, <2>1
  <2> QED BY <1>1, <1>6, <2>2, GotoKeeps, Zenon
<1>7. CASE SelectDigest(h) /\ Proceed(h, "op") /\ DigestAgrees(h)
  <2>1. work[h].pc = "digest" /\ (~work[h].mine => mids[work[h].sub.mid] = work[h].sub.digest)
    BY <1>7, Zenon DEF SelectDigest, Reached, DigestAgrees, Sub
  <2>2. work[h].pc # "idle" /\ ~work[h].late
    BY <1>3, <2>1
  <2> QED BY <1>1, <1>7, <2>1, <2>2, GotoKeeps, Zenon
<1> QED BY <1>2, <1>4, <1>5, <1>6, <1>7, Zenon
    DEF GetMsgOp, Check, ReadKey, SelectDigest, Fail

LEMMA HandleOutKeeps ==
  ASSUME IngressInv, NEW h \in Intake, NEW s \in Submissions, HandleOut(h, s)
  PROVE  IngressInv'
<1>1. UNCHANGED Tables /\ recipient' = recipient
  BY Zenon DEF HandleOut, Tables
<1>0. PICK l \in BOOLEAN : l = (s \in past)
  <2>1. (s \in past) \in BOOLEAN
    OBVIOUS
  <2> QED BY <2>1, Zenon
<1>2. PICK w : w = [pc |-> "get", sub |-> s, late |-> l, mine |-> FALSE]
  BY Zenon
<1>3. work' = [work EXCEPT ![h] = w]
  BY <1>2, <1>0, Zenon DEF HandleOut
<1>4. w.pc = "get" /\ w.sub = s /\ (w.late <=> s \in past) /\ ~w.mine /\ w \in WorkType
  <2>1. w.pc = "get" /\ w.sub = s /\ w.late = l /\ w.mine = FALSE /\ w \in WorkType
    BY <1>2 DEF WorkType
  <2> QED BY <1>0, <2>1, Zenon
<1>5. w.sub \in gone => w.late
  BY <1>4, Zenon DEF IngressInv, IngressTypeOK
<1>6. w.pc \notin {"key", "mid", "digest", "op"} /\ w.pc # "op"
  BY <1>4
<1> QED BY <1>1, <1>3, <1>4, <1>5, <1>6, HandlerMoves, Zenon

\* One handler at a time inserts a mid.
LEMMA InsertMidKeeps ==
  ASSUME IngressInv, NEW h \in Intake, InsertMid(h)
  PROVE  IngressInv'
<1>1. UNCHANGED Tables /\ recipient' = recipient
  BY Zenon DEF InsertMid, Tables
<1>2. PICK w : w = [work[h] EXCEPT !.pc = "digest", !.mine = mids[work[h].sub.mid] = None]
  BY Zenon
<1>3. work' = [work EXCEPT ![h] = w]
  BY <1>2, Zenon DEF InsertMid, Sub
<1>4. work[h] \in WorkType
  BY Zenon DEF IngressInv, IngressTypeOK, WorkType
<1>5. /\ w \in WorkType /\ w.pc = "digest" /\ w.sub = work[h].sub /\ w.late = work[h].late
      /\ w.mine <=> mids[work[h].sub.mid] = None
  BY <1>2, <1>4, Zenon DEF WorkType
<1>6. work[h].pc = "mid" /\ \A g \in Intake : work[g].mine => work[g].sub.mid # work[h].sub.mid
  BY Zenon DEF InsertMid, Reached, MidLocked, Sub
<1>7. w.sub \in Submissions /\ ~w.late /\ (w.sub \in gone => w.late)
  <2>1. work[h].pc # "idle"
    BY <1>6
  <2> QED BY <1>5, <1>6, <2>1, Zenon DEF IngressInv, IntakeOk
<1>8. w.mine => /\ w.pc \in {"digest", "op"} /\ mids[w.sub.mid] = None
                /\ \A g \in Intake : g # h /\ work[g].mine => work[g].sub.mid # w.sub.mid
  BY <1>5, <1>6, Zenon
<1>9. w.pc # "op"
  BY <1>5
<1> QED BY <1>1, <1>3, <1>5, <1>7, <1>8, <1>9, HandlerMoves, Zenon

\* Time, and the end of a recipient.
LEMMA TimeKeeps ==
  ASSUME IngressInv,
         RecipientGone \/ \E s \in Submissions : Deadline(s) \/ Retention(s)
  PROVE  IngressInv'
<1>1. UNCHANGED <<ops, mids, work, admitted>>
  BY Zenon DEF RecipientGone, Deadline, Retention
<1>2. \/ gone' = gone /\ aged' = aged
      \/ /\ gone' # {} /\ gone \subseteq gone' /\ (\A h \in Intake : work[h].pc = "idle")
         /\ aged' \subseteq Mids
  BY Zenon DEF RecipientGone, Deadline, Retention, Reached
<1>3. past' \subseteq Submissions /\ gone' \subseteq past'
  <2>1. past \subseteq Submissions /\ gone \subseteq past
    BY Zenon DEF IngressInv, IngressTypeOK
  <2>2. ASSUME NEW s \in Submissions, Deadline(s) PROVE past' \subseteq Submissions /\ gone' \subseteq past'
    BY <2>1, <2>2, Zenon DEF Deadline
  <2>3. ASSUME NEW s \in Submissions, Retention(s) PROVE past' \subseteq Submissions /\ gone' \subseteq past'
    BY <2>1, <2>3, Zenon DEF Retention
  <2>4. RecipientGone => UNCHANGED <<past, gone>>
    BY Zenon DEF RecipientGone
  <2> QED BY <2>1, <2>2, <2>3, <2>4, Zenon
<1>4. recipient' \in BOOLEAN
  BY Zenon DEF RecipientGone, Deadline, Retention, IngressInv, IngressTypeOK
<1>5. IngressTypeOK'
  BY <1>1, <1>2, <1>3, <1>4, Zenon DEF IngressInv, IngressTypeOK, Ops, Mids
<1>6. IntakeOk'
  BY <1>1, <1>2, Zenon DEF IngressInv, IntakeOk
<1>7. AdmittedIsStored'
  BY <1>1, <1>2, Zenon DEF IngressInv, AdmittedIsStored
<1>8. DigestsOk'
  BY <1>1, <1>2, Zenon DEF IngressInv, DigestsOk, Ops
<1> QED BY <1>5, <1>6, <1>7, <1>8, Zenon DEF IngressInv

\* What the commit of an admission changes.
LEMMA CommitIs ==
  ASSUME IngressInv, NEW h \in Intake, Commit(h), InsertMsgOp(h)
  PROVE  \E s \in Submissions :
           /\ s = work[h].sub /\ work[h].pc = "op" /\ ~work[h].late /\ s \notin gone
           /\ s.op \in Ops /\ s.mid \in Mids /\ ops[s.op] = None /\ s # None /\ s.digest # None
           /\ s.digest \in {t.digest : t \in Submissions}
           /\ ops' = [ops EXCEPT ![s.op] = s] /\ admitted' = admitted \cup {s}
           /\ work[h].mine => mids' = [mids EXCEPT ![s.mid] = s.digest] /\ aged' = aged \ {s.mid}
           /\ ~work[h].mine => mids' = mids /\ aged' = aged
           /\ work' = [work EXCEPT ![h] = Free]
           /\ UNCHANGED <<recipient, past, gone>>
<1>1. PICK s : s = work[h].sub
  BY Zenon
<1>2. work[h].pc = "op"
  BY Zenon DEF Commit, Reached
<1>3. work[h].pc # "idle"
  BY <1>2
<1>4. s \in Submissions /\ ~work[h].late /\ s \notin gone
  BY <1>1, <1>2, <1>3, Zenon DEF IngressInv, IntakeOk
<1>5. s.op \in Ops /\ s.mid \in Mids /\ s.digest \in {t.digest : t \in Submissions}
  BY <1>4, Zenon DEF Ops, Mids
<1>6. s # None /\ s.digest # None
  BY <1>4, <1>5, SubmissionsAssumption, Zenon
<1>7. ops[s.op] = None
  BY <1>1, Zenon DEF InsertMsgOp, Sub
<1>8. /\ ops' = [ops EXCEPT ![s.op] = s] /\ admitted' = admitted \cup {s}
      /\ mids' = (IF work[h].mine THEN [mids EXCEPT ![s.mid] = s.digest] ELSE mids)
      /\ aged' = (IF work[h].mine THEN aged \ {s.mid} ELSE aged)
      /\ work' = [work EXCEPT ![h] = Free]
      /\ UNCHANGED <<recipient, past, gone>>
  BY <1>1, Zenon DEF Commit, Reply, Stored, Sub
<1> QED BY <1>1, <1>2, <1>4, <1>5, <1>6, <1>7, <1>8, Zenon

\* An admission: the key was free, and so was the mid or its digest agreed.
LEMMA AdmitKeeps ==
  ASSUME IngressInv, NEW h \in Intake, Commit(h), InsertMsgOp(h)
  PROVE  IngressInv'
<1>1. PICK s \in Submissions :
           /\ s = work[h].sub /\ work[h].pc = "op" /\ ~work[h].late /\ s \notin gone
           /\ s.op \in Ops /\ s.mid \in Mids /\ ops[s.op] = None /\ s # None /\ s.digest # None
           /\ s.digest \in {t.digest : t \in Submissions}
           /\ ops' = [ops EXCEPT ![s.op] = s] /\ admitted' = admitted \cup {s}
           /\ work[h].mine => mids' = [mids EXCEPT ![s.mid] = s.digest] /\ aged' = aged \ {s.mid}
           /\ ~work[h].mine => mids' = mids /\ aged' = aged
           /\ work' = [work EXCEPT ![h] = Free]
           /\ UNCHANGED <<recipient, past, gone>>
  BY CommitIs, Zenon
<1>2. /\ ops \in [Ops -> Submissions \cup {None}]
      /\ mids \in [Mids -> {t.digest : t \in Submissions} \cup {None}]
  BY Zenon DEF IngressInv, IngressTypeOK
<1>3. /\ ops' \in [Ops -> Submissions \cup {None}] /\ ops'[s.op] = s
      /\ \A o \in Ops : o # s.op => ops'[o] = ops[o]
  BY <1>1, <1>2, Zenon
<1>4. /\ mids' \in [Mids -> {t.digest : t \in Submissions} \cup {None}]
      /\ \A m \in Mids : m # s.mid => mids'[m] = mids[m]
      /\ work[h].mine => mids'[s.mid] = s.digest /\ mids[s.mid] = None
      /\ ~work[h].mine => mids' = mids
  <2>1. CASE work[h].mine
    <3>1. mids[s.mid] = None
      BY <1>1, <2>1, Zenon DEF IngressInv, IntakeOk
    <3> QED BY <1>1, <1>2, <2>1, <3>1, Zenon
  <2>2. CASE ~work[h].mine
    BY <1>1, <1>2, <2>2, Zenon
  <2> QED BY <2>1, <2>2
<1>5. /\ work' \in [Intake -> WorkType] /\ work'[h] = Free
      /\ \A g \in Intake : g # h => work'[g] = work[g]
  <2>1. PICK w : w = Free
    BY Zenon
  <2> QED BY <1>1, <2>1, FreeIs, WorkChange, Zenon DEF IngressInv
<1>6. work'[h].pc = "idle" /\ ~work'[h].mine
  BY <1>5, FreeIs, Zenon
<1>7. IngressTypeOK'
  <2>1. aged' \subseteq Mids /\ admitted' \subseteq Submissions /\ past' \subseteq Submissions
        /\ gone' \subseteq past' /\ recipient' \in BOOLEAN
    BY <1>1, Zenon DEF IngressInv, IngressTypeOK
  <2> QED BY <1>3, <1>4, <1>5, <2>1, Zenon DEF IngressTypeOK, WorkType, Ops, Mids
<1>8. AdmittedIsStored'
  <2>1. ASSUME NEW t \in admitted' \ gone' PROVE ops'[t.op] = t
    <3>1. CASE t = s
      BY <1>3, <3>1, Zenon
    <3>2. CASE t # s
      <4>1. t \in admitted \ gone /\ t \in Submissions
        BY <1>1, <2>1, <3>2, Zenon DEF IngressInv, IngressTypeOK
      <4>2. ops[t.op] = t /\ t.op \in Ops
        BY <4>1, Zenon DEF IngressInv, AdmittedIsStored, Ops
      <4>3. t # None
        BY <4>1, SubmissionsAssumption, Zenon
      <4>4. t.op # s.op
        BY <1>1, <4>2, <4>3, Zenon
      <4> QED BY <1>3, <4>2, <4>4, Zenon
    <3> QED BY <3>1, <3>2
  <2> QED BY <2>1, Zenon DEF AdmittedIsStored
<1>9. IntakeOk'
  <2>1. ASSUME NEW g \in Intake
        PROVE  /\ work'[g].pc # "idle" => work'[g].sub \in Submissions
               /\ work'[g].pc \in {"key", "mid", "digest", "op"} => ~work'[g].late
               /\ (work'[g].pc # "idle" /\ work'[g].sub \in gone') => work'[g].late
               /\ work'[g].mine => work'[g].pc \in {"digest", "op"} /\ mids'[work'[g].sub.mid] = None
    <3>1. CASE g = h
      <4>1. work'[g].pc \notin {"key", "mid", "digest", "op"}
        BY <1>6, <3>1
      <4> QED BY <1>6, <3>1, <4>1, Zenon
    <3>2. CASE g # h
      <4>1. /\ work[g].pc # "idle" => work[g].sub \in Submissions
            /\ work[g].pc \in {"key", "mid", "digest", "op"} => ~work[g].late
            /\ (work[g].pc # "idle" /\ work[g].sub \in gone) => work[g].late
            /\ work[g].mine => work[g].pc \in {"digest", "op"} /\ mids[work[g].sub.mid] = None
            /\ work[g].mine /\ work[h].mine => work[g].sub.mid # s.mid
        BY <1>1, <3>2, Zenon DEF IngressInv, IntakeOk
      <4>2. ASSUME work[g].mine PROVE mids'[work[g].sub.mid] = None
        <5>1. work[g].pc # "idle"
          BY <4>1, <4>2
        <5>2. work[g].sub.mid \in Mids
          BY <4>1, <5>1, Zenon DEF Mids
        <5> QED BY <1>4, <4>1, <4>2, <5>2, Zenon
      <4> QED BY <1>1, <1>5, <3>2, <4>1, <4>2, Zenon
    <3> QED BY <3>1, <3>2
  <2>2. ASSUME NEW f \in Intake, NEW g \in Intake, work'[f].mine, work'[g].mine, work'[f].sub.mid = work'[g].sub.mid
        PROVE  f = g
    <3>1. f # h /\ g # h
      BY <1>6, <2>2, Zenon
    <3> QED BY <1>5, <2>2, <3>1, Zenon DEF IngressInv, IntakeOk
  <2> QED BY <2>1, <2>2, Zenon DEF IntakeOk
<1>10. DigestsOk'
  <2> SUFFICES ASSUME gone = {}
               PROVE  /\ \A o \in Ops : ops'[o] # None => mids'[ops'[o].mid] = ops'[o].digest
                      /\ \A g \in Intake : work'[g].pc = "op" /\ ~work'[g].mine =>
                            mids'[work'[g].sub.mid] = work'[g].sub.digest
    BY <1>1, Zenon DEF DigestsOk, Ops
  <2>1. mids'[s.mid] = s.digest
    BY <1>1, <1>4, Zenon DEF IngressInv, DigestsOk
  <2>2. ASSUME NEW t \in Submissions, mids[t.mid] = t.digest PROVE mids'[t.mid] = t.digest
    <3>1. t.digest # None /\ t.mid \in Mids
      BY SubmissionsAssumption, Zenon DEF Mids
    <3> QED BY <1>4, <2>2, <3>1, Zenon
  <2>3. ASSUME NEW o \in Ops, ops'[o] # None PROVE mids'[ops'[o].mid] = ops'[o].digest
    <3>1. CASE o = s.op
      BY <1>3, <2>1, <3>1, Zenon
    <3>2. CASE o # s.op
      <4>1. ops'[o] = ops[o] /\ ops[o] \in Submissions
        BY <1>2, <1>3, <2>3, <3>2, Zenon
      <4>2. mids[ops[o].mid] = ops[o].digest
        BY <2>3, <4>1, Zenon DEF IngressInv, DigestsOk
      <4> QED BY <2>2, <4>1, <4>2, Zenon
    <3> QED BY <3>1, <3>2
  <2>4. ASSUME NEW g \in Intake, work'[g].pc = "op", ~work'[g].mine
        PROVE  mids'[work'[g].sub.mid] = work'[g].sub.digest
    <3>1. work'[h].pc # "op"
      BY <1>6
    <3>2. work'[g] = work[g]
      BY <1>5, <2>4, <3>1, Zenon
    <3>3. work[g].pc # "idle"
      BY <2>4, <3>2
    <3>4. work[g].sub \in Submissions /\ mids[work[g].sub.mid] = work[g].sub.digest
      BY <2>4, <3>2, <3>3, Zenon DEF IngressInv, IntakeOk, DigestsOk
    <3> QED BY <2>2, <3>2, <3>4, Zenon
  <2> QED BY <2>3, <2>4, Zenon
<1> QED BY <1>7, <1>8, <1>9, <1>10, Zenon DEF IngressInv

LEMMA CommitKeeps ==
  ASSUME IngressInv, NEW h \in Intake, Commit(h)
  PROVE  IngressInv'
<1>1. CASE InsertMsgOp(h)
  BY <1>1, AdmitKeeps, Zenon
<1>2. CASE ~InsertMsgOp(h)
  <2>1. UNCHANGED Tables /\ recipient' = recipient /\ Reply(h)
    BY <1>2, Zenon DEF Commit, Tables
  <2> QED BY <2>1, AnswerKeeps, Zenon
<1> QED BY <1>1, <1>2

\* A prune takes what is past its retention, and the mids nothing names.
LEMMA IngressPrune ==
  ASSUME IngressInv, PruneMsgOps
  PROVE  IngressInv'
<1>1. /\ gone # {} /\ ops' = [o \in Ops |-> Kept(o)]
      /\ mids' = [m \in Mids |-> IF m \in Orphans THEN None ELSE mids[m]]
      /\ aged' = aged \ Orphans
      /\ UNCHANGED <<work, recipient, past, gone, admitted>>
  BY Zenon DEF PruneMsgOps
<1>2. \A o \in Ops : ops'[o] = (IF ops[o] \in gone THEN None ELSE ops[o])
  BY <1>1, Zenon DEF Kept
<1>3. \A m \in Mids : mids'[m] = None \/ mids'[m] = mids[m]
  BY <1>1, Zenon
<1>4. IngressTypeOK'
  <2>1. ops' \in [Ops -> Submissions \cup {None}]
    BY <1>1, Zenon DEF IngressInv, IngressTypeOK, Kept
  <2>2. mids' \in [Mids -> {s.digest : s \in Submissions} \cup {None}]
    BY <1>1, Zenon DEF IngressInv, IngressTypeOK
  <2>3. aged' \subseteq Mids
    BY <1>1, Zenon DEF IngressInv, IngressTypeOK
  <2> QED BY <1>1, <2>1, <2>2, <2>3, Zenon DEF IngressInv, IngressTypeOK, Ops, Mids
<1>5. IntakeOk'
  <2>1. ASSUME NEW h \in Intake, work[h].mine PROVE mids'[work[h].sub.mid] = None
    <3>1. work[h].pc \in {"digest", "op"} /\ mids[work[h].sub.mid] = None
      BY <2>1, Zenon DEF IngressInv, IntakeOk
    <3>2. work[h].pc # "idle"
      BY <3>1
    <3>3. work[h].sub.mid \in Mids
      BY <3>2, Zenon DEF IngressInv, IntakeOk, Mids
    <3> QED BY <1>3, <3>1, <3>3, Zenon
  <2> QED BY <1>1, <2>1, Zenon DEF IngressInv, IntakeOk
<1>6. AdmittedIsStored'
  <2>1. ASSUME NEW s \in admitted \ gone PROVE ops'[s.op] = s
    <3>1. ops[s.op] = s /\ s.op \in Ops
      BY <2>1, Zenon DEF IngressInv, AdmittedIsStored, IngressTypeOK, Ops
    <3> QED BY <1>2, <2>1, <3>1, Zenon
  <2> QED BY <1>1, <2>1, Zenon DEF AdmittedIsStored
<1>7. DigestsOk'
  BY <1>1, Zenon DEF DigestsOk
<1> QED BY <1>4, <1>5, <1>6, <1>7, Zenon DEF IngressInv

LEMMA IngressStarts ==
  ASSUME IngressInit
  PROVE  IngressInv
<1>1. \A h \in Intake : work[h] = Free
  BY Zenon DEF IngressInit
<1>2. \A h \in Intake : work[h].pc = "idle" /\ ~work[h].mine
  BY <1>1, FreeIs, Zenon
<1>3. \A h \in Intake : work[h].pc \notin {"key", "mid", "digest", "op"}
  BY <1>2
<1>4. work \in [Intake -> WorkType]
  BY FreeIs, Zenon DEF IngressInit
<1>5. IngressTypeOK
  BY <1>4, Zenon DEF IngressInit, IngressTypeOK, WorkType
<1>6. IntakeOk
  BY <1>2, <1>3, Zenon DEF IntakeOk
<1>7. AdmittedIsStored
  BY Zenon DEF IngressInit, AdmittedIsStored
<1>8. DigestsOk
  <2>1. \A h \in Intake : work[h].pc # "op"
    BY <1>2
  <2> QED BY <2>1, Zenon DEF IngressInit, DigestsOk
<1> QED BY <1>5, <1>6, <1>7, <1>8, Zenon DEF IngressInv

LEMMA IngressSteps ==
  ASSUME IngressInv, [IngressNext]_ingress
  PROVE  IngressInv'
<1>1. CASE UNCHANGED ingress
  <2>1. UNCHANGED <<ops, mids, work, recipient, past, gone, aged, admitted>>
    BY <1>1, Zenon DEF ingress
  <2> QED BY <2>1, Zenon
      DEF IngressInv, IngressTypeOK, IntakeOk, AdmittedIsStored, DigestsOk, Ops, Mids
<1>2. CASE RecipientGone \/ \E s \in Submissions : Deadline(s) \/ Retention(s)
  BY <1>2, TimeKeeps, Zenon
<1>3. CASE PruneMsgOps
  BY <1>3, IngressPrune, Zenon
<1>4. ASSUME NEW h \in Intake, HandlerStep(h) \/ Fail(h) PROVE IngressInv'
  BY <1>4, HandlerKeeps, InsertMidKeeps, CommitKeeps, Zenon DEF HandlerStep
<1>5. ASSUME NEW h \in Intake, NEW s \in Submissions, HandleOut(h, s) PROVE IngressInv'
  BY <1>5, HandleOutKeeps, Zenon
<1> QED BY <1>1, <1>2, <1>3, <1>4, <1>5, Zenon DEF IngressNext

LEMMA IngressInvariance == IngressSpec => []IngressInv
<1>1. IngressInit => IngressInv
  BY IngressStarts
<1>2. IngressInv /\ [IngressNext]_ingress => IngressInv'
  BY IngressSteps
<1> QED BY <1>1, <1>2, PTL DEF IngressSpec

(* The tables, the handlers and the clocks of the ingress keep their types:  *)
(* a row is a submission that some copy carried, a mid's row a digest of     *)
(* one, and no retention ends before its deadline.                           *)
THEOREM IngressTyped == IngressSpec => []IngressTypeOK
<1>1. IngressInv => IngressTypeOK
  BY DEF IngressInv
<1> QED BY <1>1, IngressInvariance, PTL

(* Whatever AdmitMsgOp answered "admitted" is the row of its key until its   *)
(* retention has passed: no other submission under the key replaces it, and  *)
(* no prune takes it, for any number of replicas and submissions.            *)
THEOREM AdmittedStays == IngressSpec => []AdmittedIsStored
<1>1. IngressInv => AdmittedIsStored
  BY DEF IngressInv
<1> QED BY <1>1, IngressInvariance, PTL

(* Until a prune, two stored operations of one mid carry one digest, however *)
(* many handlers of AdmitMsgOp insert the mid at the same time.              *)
THEOREM OneDigest == IngressSpec => []OneDigestUntilPrune
<1>1. IngressInv => OneDigestUntilPrune
  <2>1. ASSUME IngressInv, gone = {}, NEW s \in {ops[o] : o \in Ops} \ {None} PROVE mids[s.mid] = s.digest
    <3>1. PICK o \in Ops : s = ops[o] /\ s # None
      BY <2>1, Zenon
    <3> QED BY <2>1, <3>1, Zenon DEF IngressInv, DigestsOk
  <2> QED BY <2>1, Zenon DEF OneDigestUntilPrune
<1> QED BY <1>1, IngressInvariance, PTL

(* A submission is admitted at most once ever, whatever was pruned           *)
(* meanwhile: the commit of AdmitMsgOp inserts no operation of a submission  *)
(* that was admitted before.                                                 *)
THEOREM NeverTwice == IngressSpec => AdmittedOnce
<1>1. ASSUME IngressInv, NEW h \in Intake, Commit(h), InsertMsgOp(h)
      PROVE  Sub(h) \notin admitted
  <2>1. PICK s \in Submissions :
            s = work[h].sub /\ s \notin gone /\ ops[s.op] = None /\ s # None
    BY <1>1, CommitIs, Zenon
  <2>2. s \notin admitted
    BY <1>1, <2>1, Zenon DEF IngressInv, AdmittedIsStored
  <2> QED BY <2>1, <2>2, Zenon DEF Sub
<1>2. IngressInv => \A h \in Intake : Commit(h) /\ InsertMsgOp(h) => Sub(h) \notin admitted
  BY <1>1, Zenon
<1> QED BY <1>2, IngressInvariance, PTL DEF AdmittedOnce
=============================================================================
