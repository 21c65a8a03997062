---------------------------- MODULE HubMsgOutbox ----------------------------
(***************************************************************************)
(* One admitted operation of the app route hub_msg                         *)
(* (src/internal/hubmsg, src/internal/store/postgres/msgops.go): the       *)
(* outbox drainers expire it, deliver it to the recipient and publish its  *)
(* events to the sender; the recipient's answers and the sender's repeats  *)
(* are handled on every replica.  The drainer is a leader singleton whose  *)
(* handovers may overlap.  Every store call and every publish is a step,   *)
(* and any of them may fail.                                               *)
(*                                                                         *)
(* The deterministic event id makes an event its kind of evidence: a kind  *)
(* is stored once.  The recipient, the sender and the broker are external: *)
(* a delivery may be answered late, more than once and in several ways.    *)
(***************************************************************************)
EXTENDS Integers, FiniteSets

CONSTANTS
    Drainers,    \* replicas that run the outbox
    Handlers,    \* goroutines that take recipient answers
    Answers,     \* the kinds of evidence the recipient may answer with
    Expires,     \* the operation's expires_at
    Lease,       \* Service.Lease (30 s), in the clock's unit
    Cap,         \* the longest wait between publications (5 min)
    Hour,        \* the wait after a removed recipient
    Keep,        \* KeepAfter plus SkewAllowance
    MaxClock, MaxFaults, MaxRepeats   \* bounds

VARIABLES
    clock,
    op,          \* the row of msg_operations
    rev,         \* the revision of each stored event, 0 for one not stored
    published,   \* the events whose published_at is set
    known,       \* the recipient is a bridge of the tenant
    drain,       \* the drainers
    hand,        \* the answer handlers
    delivered,   \* the broker took the operation for the recipient
    got,         \* the events the sender holds
    faults, repeats

vars == <<clock, op, rev, published, known, drain, hand, delivered, got, faults, repeats>>
-----------------------------------------------------------------------------
(* Evidence (events.go) and its reduction to a state (reducer.go). *)

Kinds == {"hub_forwarded", "recipient_app_stored", "recipient_busy", "recipient_expired",
          "recipient_refused", "hub_refused", "hub_expired"}

RecipientKinds == {"recipient_app_stored", "recipient_busy", "recipient_expired", "recipient_refused"}

Classes == {"completed", "failed", "expired", "forwarded", "unknown", "pending"}

Class(kind) ==
    CASE kind = "recipient_app_stored" -> "completed"
      [] kind \in {"recipient_refused", "hub_refused"} -> "failed"
      [] kind \in {"recipient_expired", "hub_expired"} -> "expired"
      [] kind = "hub_forwarded" -> "forwarded"
      [] kind = "recipient_busy" -> "unknown"

\* The place in ProjectionOrder, from the weakest.  accepted, the sender's own
\* evidence, never comes from the Hub.
Strength(class) ==
    CASE class = "completed" -> 5
      [] class = "failed" -> 4
      [] class = "expired" -> 3
      [] class = "forwarded" -> 2
      [] class = "unknown" -> 1
      [] class = "pending" -> 0

\* The strongest class among the events, whatever their order.
Reduce(kinds) ==
    LET held == {Class(k) : k \in kinds} \cup {"pending"}
    IN CHOOSE c \in held : \A d \in held : Strength(d) <= Strength(c)

Conflict(kinds) == {"completed", "failed"} \subseteq {Class(k) : k \in kinds}

Final == {"completed", "failed", "expired"}

\* What the outbox records of an answer; a busy recipient is tried again.
Answer(kind) ==
    CASE kind = "recipient_app_stored" -> "stored"
      [] kind \in {"recipient_refused", "recipient_expired"} -> "refused"
      [] kind = "recipient_busy" -> ""

\* The wait after the n-th attempt, in units of 15 s: doubled up to the cap.
Backoff(n) == LET d == IF n < 1 THEN 1 ELSE 2 ^ (n - 1) IN IF d > Cap THEN Cap ELSE d

ASSUME BoundsAssumption ==
    /\ Answers \subseteq RecipientKinds
    /\ Expires \in Nat /\ Lease \in Nat \ {0} /\ Cap \in Nat \ {0} /\ Hour \in Nat /\ Keep \in Nat
    /\ MaxClock \in Nat /\ MaxFaults \in Nat /\ MaxRepeats \in Nat
-----------------------------------------------------------------------------
Events == {k \in Kinds : rev[k] > 0}

Idle == [pc |-> "idle", attempts |-> 0, wait |-> 0, todo |-> {}, done |-> {}, read |-> FALSE]

NoAnswer == [pc |-> "idle", kind |-> "recipient_busy"]

\* Admitted by Submit: due at once, not leased.
Init ==
    /\ clock = 1
    /\ op = [there |-> TRUE, state |-> "pending", conflict |-> FALSE, rev |-> 0, attempts |-> 0,
             next |-> 1, leased |-> 0, answer |-> ""]
    /\ rev = [k \in Kinds |-> 0]
    /\ published = {}
    /\ known = TRUE
    /\ drain = [d \in Drainers |-> Idle]
    /\ hand = [h \in Handlers |-> NoAnswer]
    /\ delivered = FALSE
    /\ got = {}
    /\ faults = 0 /\ repeats = 0

Fault == faults < MaxFaults /\ faults' = faults + 1

AddMsgOpEvent_BeforeInsert(k) ==
    IF op.there /\ rev[k] = 0
    THEN /\ rev' = [rev EXCEPT ![k] = op.rev + 1]
         /\ op' = [op EXCEPT !.rev = op.rev + 1, !.state = Reduce(Events), !.conflict = Conflict(Events)]
    ELSE UNCHANGED <<op, rev>>

AddMsgOpEvent_LastWins(k) ==
    IF op.there /\ rev[k] = 0
    THEN /\ rev' = [rev EXCEPT ![k] = op.rev + 1]
         /\ op' = [op EXCEPT !.rev = op.rev + 1, !.state = Class(k), !.conflict = Conflict(Events \cup {k})]
    ELSE UNCHANGED <<op, rev>>

\* One transaction under the row's lock: the event, unless it is stored, and
\* the projection over all of them.
AddMsgOpEvent(k) ==
    IF op.there /\ rev[k] = 0
    THEN /\ rev' = [rev EXCEPT ![k] = op.rev + 1]
         /\ op' = [op EXCEPT !.rev = op.rev + 1, !.state = Reduce(Events \cup {k}),
                             !.conflict = Conflict(Events \cup {k})]
    ELSE UNCHANGED <<op, rev>>

\* The transaction is answered, or it fails with or without having taken effect.
Record(k) ==
    \/ AddMsgOpEvent(k) /\ UNCHANGED faults
    \/ (AddMsgOpEvent(k) \/ UNCHANGED <<op, rev>>) /\ Fault
-----------------------------------------------------------------------------
(* The world: time, the tenant's bridges, the sender. *)

Tick ==
    /\ clock < MaxClock
    /\ clock' = clock + 1
    /\ UNCHANGED <<op, rev, published, known, drain, hand, delivered, got, faults, repeats>>

RemoveRecipient ==
    /\ known /\ known' = FALSE
    /\ UNCHANGED <<clock, op, rev, published, drain, hand, delivered, got, faults, repeats>>

\* HandleOut on a repeat of the stored submission: every event is marked for
\* publication again.
ReplayMsgOpEvents ==
    /\ op.there /\ repeats < MaxRepeats
    /\ published' = {}
    /\ repeats' = repeats + 1
    /\ UNCHANGED <<clock, op, rev, known, drain, hand, delivered, got, faults>>
-----------------------------------------------------------------------------
(* HandleAck: the row is read, the event recorded, the answer kept. *)

HandleAck(h, k) ==
    /\ hand[h].pc = "idle" /\ delivered /\ op.there
    /\ hand' = [hand EXCEPT ![h] = [pc |-> "add", kind |-> k]]
    /\ UNCHANGED <<clock, op, rev, published, known, drain, delivered, got, faults, repeats>>

AddAnswer_IgnoresError(h) ==
    /\ hand[h].pc = "add"
    /\ \/ AddMsgOpEvent(hand[h].kind) /\ UNCHANGED faults
       \/ (AddMsgOpEvent(hand[h].kind) \/ UNCHANGED <<op, rev>>) /\ Fault
    /\ hand' = [hand EXCEPT ![h] = IF Answer(hand[h].kind) # "" THEN [hand[h] EXCEPT !.pc = "set"] ELSE NoAnswer]
    /\ UNCHANGED <<clock, published, known, drain, delivered, got, repeats>>

AddAnswer(h) ==
    /\ hand[h].pc = "add"
    /\ \/ /\ AddMsgOpEvent(hand[h].kind) /\ UNCHANGED faults
          /\ hand' = [hand EXCEPT ![h] = IF op.there /\ Answer(hand[h].kind) # ""
                                         THEN [hand[h] EXCEPT !.pc = "set"] ELSE NoAnswer]
       \/ /\ AddMsgOpEvent(hand[h].kind) \/ UNCHANGED <<op, rev>>
          /\ Fault
          /\ hand' = [hand EXCEPT ![h] = NoAnswer]
    /\ UNCHANGED <<clock, published, known, drain, delivered, got, repeats>>

SetMsgOpRecipientAnswer(h) ==
    /\ hand[h].pc = "set"
    /\ \/ op' = [op EXCEPT !.answer = IF op.there THEN Answer(hand[h].kind) ELSE ""] /\ UNCHANGED faults
       \/ Fault /\ UNCHANGED op
    /\ hand' = [hand EXCEPT ![h] = NoAnswer]
    /\ UNCHANGED <<clock, rev, published, known, drain, delivered, got, repeats>>
-----------------------------------------------------------------------------
(* Drain: expire, then deliver, then publishStatus. *)

At(d, pc) == drain[d].pc = pc

Goto(d, pc) == drain' = [drain EXCEPT ![d].pc = pc]

\* The next part of the pass, which starts from nothing.
Pass(d, pc) == drain' = [drain EXCEPT ![d] = [Idle EXCEPT !.pc = pc]]

MarkAfter(d, wait) == drain' = [drain EXCEPT ![d].pc = "mark", ![d].wait = wait]

Expired_PendingOnly == op.there /\ op.state = "pending" /\ Expires <= clock

Expired == op.there /\ op.state \notin Final /\ Expires <= clock

ListExpiredMsgOps(d) ==
    /\ At(d, "idle")
    /\ \/ Goto(d, IF Expired THEN "expire" ELSE "deliver")
          /\ UNCHANGED faults
       \/ Fault /\ Goto(d, "deliver")
    /\ UNCHANGED <<clock, op, rev, published, known, hand, delivered, got, repeats>>

Expire(d) ==
    /\ At(d, "expire")
    /\ Record("hub_expired")
    /\ Goto(d, "deliver")
    /\ UNCHANGED <<clock, published, known, hand, delivered, got, repeats>>

Due == /\ op.there /\ op.answer = "" /\ op.state \notin Final
       /\ op.next <= clock /\ op.leased < clock /\ Expires > clock

ListDueMsgOps(d) ==
    /\ At(d, "deliver")
    /\ \/ /\ IF Due THEN drain' = [drain EXCEPT ![d].pc = "claim", ![d].attempts = op.attempts]
             ELSE Pass(d, "status")
          /\ UNCHANGED faults
       \/ Fault /\ Pass(d, "status")
    /\ UNCHANGED <<clock, op, rev, published, known, hand, delivered, got, repeats>>

\* The lease is a compare-and-set on leased_until alone.
ClaimMsgOp(d) ==
    LET won  == op.there /\ op.leased < clock
        held == IF won THEN [op EXCEPT !.leased = clock + Lease] ELSE op
    IN /\ At(d, "claim")
       /\ \/ /\ op' = held /\ UNCHANGED faults
             /\ IF won THEN Goto(d, "lookup") ELSE Pass(d, "status")
          \/ op' \in {op, held} /\ Fault /\ Pass(d, "status")
       /\ UNCHANGED <<clock, rev, published, known, hand, delivered, got, repeats>>

BridgeExists(d) ==
    /\ At(d, "lookup")
    /\ \/ Goto(d, IF known THEN "publish" ELSE "refuse") /\ UNCHANGED faults
       \/ Fault /\ MarkAfter(d, Backoff(1))
    /\ UNCHANGED <<clock, op, rev, published, known, hand, delivered, got, repeats>>

Refuse(d) ==
    /\ At(d, "refuse")
    /\ Record("hub_refused")
    /\ MarkAfter(d, Hour)
    /\ UNCHANGED <<clock, published, known, hand, delivered, got, repeats>>

\* The broker may have taken a publish that is answered with an error.
Publish(d) ==
    /\ At(d, "publish")
    /\ \/ delivered' = TRUE /\ Goto(d, "forward") /\ UNCHANGED faults
       \/ delivered' \in {delivered, TRUE} /\ Fault /\ MarkAfter(d, Backoff(1))
    /\ UNCHANGED <<clock, op, rev, published, known, hand, got, repeats>>

Forward(d) ==
    /\ At(d, "forward")
    /\ Record("hub_forwarded")
    /\ MarkAfter(d, Backoff(drain[d].attempts + 1))
    /\ UNCHANGED <<clock, published, known, hand, delivered, got, repeats>>

Attempted(d) ==
    IF op.there THEN [op EXCEPT !.attempts = op.attempts + 1, !.next = clock + drain[d].wait, !.leased = 0] ELSE op

MarkMsgOpAttempt(d) ==
    /\ At(d, "mark")
    /\ \/ op' = Attempted(d) /\ UNCHANGED faults
       \/ op' \in {op, Attempted(d)} /\ Fault
    /\ Pass(d, "status")
    /\ UNCHANGED <<clock, rev, published, known, hand, delivered, got, repeats>>
-----------------------------------------------------------------------------
(* publishStatus *)

Finish(d) == drain' = [drain EXCEPT ![d] = Idle]

ListUnpublished(d) ==
    /\ At(d, "status")
    /\ \/ /\ Events \ published # {} /\ UNCHANGED faults
          /\ drain' = [drain EXCEPT ![d].pc = "send", ![d].todo = Events \ published, ![d].done = {}]
       \/ Events \ published = {} /\ Finish(d) /\ UNCHANGED faults
       \/ Fault /\ Finish(d)
    /\ UNCHANGED <<clock, op, rev, published, known, hand, delivered, got, repeats>>

\* The listed event k goes out, or it is passed over (its operation, read once
\* per pass, could not be read), or the publish fails and ends the pass.  The
\* list is ordered by the time stamps of replicas' clocks: any order may occur.
Send(d, k) ==
    LET rest == [drain EXCEPT ![d].todo = drain[d].todo \ {k}]
    IN /\ At(d, "send")
       /\ \/ /\ drain[d].read \/ op.there
             /\ got' = got \cup {k}
             /\ drain' = [rest EXCEPT ![d].done = drain[d].done \cup {k}, ![d].read = TRUE]
             /\ UNCHANGED faults
          \/ ~drain[d].read /\ ~op.there /\ drain' = rest /\ UNCHANGED <<got, faults>>
          \/ ~drain[d].read /\ Fault /\ drain' = rest /\ UNCHANGED got
          \/ /\ drain[d].read \/ op.there
             /\ Fault /\ Goto(d, "sent") /\ got' \in {got, got \cup {k}}
       /\ UNCHANGED <<clock, op, rev, published, known, hand, delivered, repeats>>

MarkPublished_All(d) == Events

MarkPublished(d) == published \cup (drain[d].done \cap Events)

MarkMsgOpEventsPublished(d) ==
    /\ At(d, "sent") \/ (At(d, "send") /\ drain[d].todo = {})
    /\ \/ published' = MarkPublished(d) /\ UNCHANGED faults
       \/ published' \in {published, MarkPublished(d)} /\ Fault
    /\ Finish(d)
    /\ UNCHANGED <<clock, op, rev, known, hand, delivered, got, repeats>>

\* PruneMsgOps, once in a while between two passes: one transaction that
\* deletes the events of the operations past their retention, then those
\* operations.  What it deletes stays visible to others until it commits, and
\* another prune waits for it.
PruneEvents(d) ==
    /\ At(d, "idle") /\ op.there /\ Expires < clock - Keep
    /\ \A e \in Drainers : ~At(e, "prune")
    /\ drain' = [drain EXCEPT ![d].pc = "prune", ![d].todo = Events]
    /\ UNCHANGED <<clock, op, rev, published, known, hand, delivered, got, faults, repeats>>

PruneOps(d) ==
    /\ At(d, "prune")
    /\ op' = [op EXCEPT !.there = FALSE]
    /\ rev' = [k \in Kinds |-> IF k \in drain[d].todo THEN 0 ELSE rev[k]]
    /\ published' = published \ drain[d].todo
    /\ Finish(d)
    /\ UNCHANGED <<clock, known, hand, delivered, got, faults, repeats>>

\* The drainer's replica stops, or loses the lead.
Stop(d) ==
    /\ ~At(d, "idle")
    /\ Fault /\ Finish(d)
    /\ UNCHANGED <<clock, op, rev, published, known, hand, delivered, got, repeats>>

DrainStep(d) ==
    \/ ListExpiredMsgOps(d) \/ Expire(d)
    \/ ListDueMsgOps(d) \/ ClaimMsgOp(d) \/ BridgeExists(d) \/ Refuse(d) \/ Publish(d) \/ Forward(d)
    \/ MarkMsgOpAttempt(d)
    \/ ListUnpublished(d) \/ MarkMsgOpEventsPublished(d) \/ \E k \in drain[d].todo : Send(d, k)
    \/ PruneOps(d)

Next ==
    \/ Tick \/ RemoveRecipient \/ ReplayMsgOpEvents
    \/ \E h \in Handlers : AddAnswer(h) \/ SetMsgOpRecipientAnswer(h) \/ \E k \in Answers : HandleAck(h, k)
    \/ \E d \in Drainers : DrainStep(d) \/ PruneEvents(d) \/ Stop(d)

Spec == Init /\ [][Next]_vars

(* The clock runs, the leader's ticker keeps draining, and a handler that   *)
(* began goes on; failures are finite.                                      *)
FairSpec ==
    /\ Spec
    /\ WF_vars(Tick)
    /\ \A d \in Drainers : WF_vars(DrainStep(d))
    /\ \A h \in Handlers : WF_vars(AddAnswer(h) \/ SetMsgOpRecipientAnswer(h))
-----------------------------------------------------------------------------
(* Type invariant. *)
DrainPcs == {"idle", "expire", "deliver", "claim", "lookup", "refuse", "publish", "forward", "mark",
             "status", "send", "sent", "prune"}

TypeOK ==
    /\ clock \in Nat /\ faults \in Nat /\ repeats \in Nat
    /\ op \in [there : BOOLEAN, state : Classes, conflict : BOOLEAN, rev : Nat, attempts : Nat,
               next : Int, leased : Nat, answer : {"", "stored", "refused"}]
    /\ rev \in [Kinds -> Nat]
    /\ published \in SUBSET Kinds /\ got \in SUBSET Kinds
    /\ known \in BOOLEAN /\ delivered \in BOOLEAN
    /\ drain \in [Drainers -> [pc : DrainPcs, attempts : Nat, wait : Int,
                               todo : SUBSET Kinds, done : SUBSET Kinds, read : BOOLEAN]]
    /\ hand \in [Handlers -> [pc : {"idle", "add", "set"}, kind : RecipientKinds]]

(* The row's state and its conflict mark are the reduction of all stored    *)
(* events, however drainers and handlers on several replicas interleave     *)
(* (AddMsgOpEvent: the row is the lock, "each projection sees every event   *)
(* before it").                                                             *)
StateIsReduction ==
    op.there => op.state = Reduce(Events) /\ (op.conflict <=> Conflict(Events))

(* No step weakens a stored operation's state: an expiry or a refusal that  *)
(* comes after the recipient stored the message does not undo the           *)
(* completion, and late forwarding does not reopen a final one.             *)
StateNeverWeakens ==
    [][op.there /\ op'.there => Strength(op.state) <= Strength(op'.state)]_vars

(* The outbox is told to stop (recipient_answer) only once the evidence     *)
(* that decides the operation is stored, also when the handler fails        *)
(* between its two writes.                                                  *)
StoppedOnEvidence ==
    op.there /\ op.answer # "" => op.state \in Final

(* An event counts as published only when the broker took it for the        *)
(* sender: no event is marked that never went out.                          *)
PublishedWasSent ==
    published \subseteq got

(* Every operation is decided: completed, failed or expired, or else past   *)
(* its retention.                                                           *)
Decided == <>(op.state \in Final \/ ~op.there)

(* Every stored event reaches the sender while the operation is kept.       *)
EventsReachSender ==
    \A k \in Kinds : (rev[k] > 0) ~> (k \in got \/ ~op.there)
=============================================================================
