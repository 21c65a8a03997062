--------------------------- MODULE HubMsgAdmission ---------------------------
(***************************************************************************)
(* The ingress of hub_msg: Submit (src/internal/hubmsg/submission.go) and  *)
(* the admission transaction AdmitMsgOp, with the prune that runs beside   *)
(* it (src/internal/store/postgres/msgops.go).  Every replica handles      *)
(* every copy of every submission.  The transactions run at READ           *)
(* COMMITTED: a statement sees what was committed before it, and an insert *)
(* waits for another transaction's uncommitted row of the same key.        *)
(* Names differ from HubMsgOutbox's, so that a module can extend both.     *)
(***************************************************************************)
EXTENDS FiniteSets

CONSTANTS
    Intake,        \* handler goroutines over all replicas
    Submissions,   \* records [op, mid, digest, rest]; rest is the recipient and the deadline
    None           \* no row

Ops == {s.op : s \in Submissions}
Mids == {s.mid : s \in Submissions}

ASSUME SubmissionsAssumption == None \notin Submissions \cup {s.digest : s \in Submissions}

VARIABLES
    ops,        \* msg_operations: the submission stored under each key
    mids,       \* msg_mids: the digest stored for each mid
    work,       \* the handlers
    recipient,  \* the recipients are bridges of the tenant
    past,       \* the submissions whose deadline has passed
    gone,       \* those whose retention has passed as well
    aged,       \* the mids whose row is older than the retention
    admitted    \* the submissions that were answered "admitted"

ingress == <<ops, mids, work, recipient, past, gone, aged, admitted>>

Free == [pc |-> "idle", sub |-> None, late |-> FALSE, mine |-> FALSE]

IngressInit ==
    /\ ops = [o \in Ops |-> None]
    /\ mids = [m \in Mids |-> None]
    /\ work = [h \in Intake |-> Free]
    /\ recipient = TRUE
    /\ past = {} /\ gone = {} /\ aged = {} /\ admitted = {}

Reached(h, pc) == work[h].pc = pc

Sub(h) == work[h].sub

Reply_NoRollback(h) == work' = [work EXCEPT ![h] = [Free EXCEPT !.sub = Sub(h), !.mine = work[h].mine]]

\* The handler ends, and with it its transaction.
Reply(h) == work' = [work EXCEPT ![h] = Free]

Proceed(h, pc) == work' = [work EXCEPT ![h].pc = pc]
-----------------------------------------------------------------------------
(* Time: deadlines pass, and a day later retentions. A handler is bounded  *)
(* by 10 s, so none is under way across the day between the two.           *)

Deadline(s) ==
    /\ s \notin past /\ past' = past \cup {s}
    /\ UNCHANGED <<ops, mids, work, recipient, gone, aged, admitted>>

Retention(s) ==
    /\ s \in past \ gone /\ \A h \in Intake : Reached(h, "idle")
    /\ gone' = gone \cup {s}
    /\ aged' = {m \in Mids : mids[m] # None}
    /\ UNCHANGED <<ops, mids, work, recipient, past, admitted>>

RecipientGone ==
    /\ recipient /\ recipient' = FALSE
    /\ UNCHANGED <<ops, mids, work, past, gone, aged, admitted>>
-----------------------------------------------------------------------------
(* HandleOut and Submit. *)

HandleOut(h, s) ==
    /\ Reached(h, "idle")
    /\ work' = [work EXCEPT ![h] = [pc |-> "get", sub |-> s, late |-> s \in past, mine |-> FALSE]]
    /\ UNCHANGED <<ops, mids, recipient, past, gone, aged, admitted>>

\* The stored row decides a repeat: replay_all_events or op_conflict.
GetMsgOp(h) ==
    /\ Reached(h, "get")
    /\ IF ops[Sub(h).op] # None THEN Reply(h) ELSE Proceed(h, "check")
    /\ UNCHANGED <<ops, mids, recipient, past, gone, aged, admitted>>

Refused_NotLate(h) == ~recipient

\* expired_at_hub, or refused_unknown_recipient.
Refused(h) == work[h].late \/ ~recipient

Check(h) ==
    /\ Reached(h, "check")
    /\ IF Refused(h) THEN Reply(h) ELSE Proceed(h, "key")
    /\ UNCHANGED <<ops, mids, recipient, past, gone, aged, admitted>>
-----------------------------------------------------------------------------
(* AdmitMsgOp. *)

ReadKey(h) ==
    /\ Reached(h, "key")
    /\ IF ops[Sub(h).op] # None THEN Reply(h) ELSE Proceed(h, "mid")
    /\ UNCHANGED <<ops, mids, recipient, past, gone, aged, admitted>>

\* The uncommitted row of a mid, which its transaction alone sees.
MidLocked(m) == \E h \in Intake : work[h].mine /\ Sub(h).mid = m

\* INSERT ... ON CONFLICT DO NOTHING, after the other inserter has ended.
InsertMid(h) ==
    /\ Reached(h, "mid") /\ ~MidLocked(Sub(h).mid)
    /\ work' = [work EXCEPT ![h].pc = "digest", ![h].mine = mids[Sub(h).mid] = None]
    /\ UNCHANGED <<ops, mids, recipient, past, gone, aged, admitted>>

DigestAgrees_Always(h) == TRUE

DigestAgrees(h) == work[h].mine \/ mids[Sub(h).mid] = Sub(h).digest

\* The digest read back: another one is mid_conflict, and a row that is gone
\* by now an error that decides nothing.
SelectDigest(h) ==
    /\ Reached(h, "digest")
    /\ IF DigestAgrees(h) THEN Proceed(h, "op") ELSE Reply(h)
    /\ UNCHANGED <<ops, mids, recipient, past, gone, aged, admitted>>

Stored_Mid(h) == Sub(h).mid

\* The digest the mid's row keeps.
Stored(h) == Sub(h).digest

InsertMsgOp_Upsert(h) == TRUE

InsertMsgOp(h) == ops[Sub(h).op] = None

\* INSERT of the operation and the commit; a key stored meanwhile rolls the
\* transaction back and decides as a repeat.
Commit(h) ==
    /\ Reached(h, "op")
    /\ IF InsertMsgOp(h)
       THEN /\ ops' = [ops EXCEPT ![Sub(h).op] = Sub(h)]
            /\ mids' = IF work[h].mine THEN [mids EXCEPT ![Sub(h).mid] = Stored(h)] ELSE mids
            /\ aged' = IF work[h].mine THEN aged \ {Sub(h).mid} ELSE aged
            /\ admitted' = admitted \cup {Sub(h)}
       ELSE UNCHANGED <<ops, mids, aged, admitted>>
    /\ Reply(h)
    /\ UNCHANGED <<recipient, past, gone>>

\* A store call fails, the deadline of the handler passes or the replica
\* stops: the transaction rolls back and nothing is answered.
Fail(h) ==
    /\ ~Reached(h, "idle") /\ Reply(h)
    /\ UNCHANGED <<ops, mids, recipient, past, gone, aged, admitted>>
-----------------------------------------------------------------------------
(* PruneMsgOps: one transaction that deletes the operations past their     *)
(* retention, then the old mids that no operation it sees names.           *)

Kept(o) == IF ops[o] \in gone THEN None ELSE ops[o]

Orphans == {m \in aged : \A o \in Ops : Kept(o) = None \/ Kept(o).mid # m}

PruneMsgOps ==
    /\ gone # {}
    /\ ops' = [o \in Ops |-> Kept(o)]
    /\ mids' = [m \in Mids |-> IF m \in Orphans THEN None ELSE mids[m]]
    /\ aged' = aged \ Orphans
    /\ UNCHANGED <<work, recipient, past, gone, admitted>>

HandlerStep(h) ==
    \/ GetMsgOp(h) \/ Check(h) \/ ReadKey(h) \/ InsertMid(h) \/ SelectDigest(h) \/ Commit(h)

IngressNext ==
    \/ RecipientGone \/ PruneMsgOps
    \/ \E s \in Submissions : Deadline(s) \/ Retention(s)
    \/ \E h \in Intake : HandlerStep(h) \/ Fail(h) \/ \E s \in Submissions : HandleOut(h, s)

IngressSpec == IngressInit /\ [][IngressNext]_ingress

(* A handler that began goes on, and the database grants a row that several *)
(* transactions wait for in the order they asked.                           *)
IngressFairSpec == IngressSpec /\ \A h \in Intake : WF_ingress(HandlerStep(h)) /\ SF_ingress(InsertMid(h))
-----------------------------------------------------------------------------
IngressTypeOK ==
    /\ ops \in [Ops -> Submissions \cup {None}]
    /\ mids \in [Mids -> {s.digest : s \in Submissions} \cup {None}]
    /\ work \in [Intake -> [pc : {"idle", "get", "check", "key", "mid", "digest", "op"},
                              sub : Submissions \cup {None}, late : BOOLEAN, mine : BOOLEAN]]
    /\ recipient \in BOOLEAN
    /\ past \subseteq Submissions /\ gone \subseteq past /\ aged \subseteq Mids /\ admitted \subseteq Submissions

(* A submission is admitted at most once ever, however many copies of it    *)
(* the replicas handle at the same time and whatever was pruned meanwhile:  *)
(* what was delivered once is not delivered again as a new operation.       *)
AdmittedOnce ==
    [][\A h \in Intake : Commit(h) /\ InsertMsgOp(h) => Sub(h) \notin admitted]_ingress

(* An admitted submission is the stored row of its key until its retention  *)
(* has passed: no other submission under the key replaces it.               *)
AdmittedIsStored ==
    \A s \in admitted \ gone : ops[s.op] = s

(* Until a prune, two stored operations of one mid carry one digest, also   *)
(* when they are admitted at the same time (the mid's insert waits).        *)
OneDigestUntilPrune ==
    gone = {} => \A s, t \in {ops[o] : o \in Ops} \ {None} : s.mid = t.mid => s.digest = t.digest

(* No two admissions wait on each other: every handler ends.                *)
EveryCopyDecided ==
    \A h \in Intake : ~Reached(h, "idle") ~> Reached(h, "idle")
=============================================================================
