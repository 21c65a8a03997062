---------------------------- MODULE BridgeEgress ----------------------------
(***************************************************************************)
(* The births of bridges and what they declare about one satellite modem:  *)
(* the birth subscriber of every replica                                   *)
(* (src/internal/bridge/subscriber.go), the births it holds until they are *)
(* stored (egress_pending.go), the rows                                    *)
(* (src/internal/store/postgres/bridges.go) and the reader that decides    *)
(* whether a payload of the modem may be read as text (egress.go).         *)
(*                                                                         *)
(* Every replica takes every birth, in the order of its bridge, one at a   *)
(* time; a ticker writes what is still held beside it, and a reader looks  *)
(* the modem up beside both.  Every store call is a step that may fail,    *)
(* with or without having taken effect.  A bridge's births are stamped by  *)
(* its own clock, which goes forward: a birth is its place in births[b].   *)
(***************************************************************************)
EXTENDS Integers, Sequences, FiniteSets

CONSTANTS
    Replicas,
    Readers,       \* the replicas that look the modem up
    Tickers,       \* the replicas whose ticker fires
    Bridges,
    Says,          \* the bridges that publish, with what their births say of the modem
    Legacy,        \* the bridge with a record from before declarations were kept, or None
    MaxBirths,     \* bound: births published
    MaxLinks,      \* bound: births and device births the clock counts
    MaxFaults,     \* bound: failed calls, restarts and resubscriptions
    None

\* A birth leaves the modem out, names it without a format, or declares one.
Formats == {"sealed", "plain"}
Kinds == {"absent", "silent"} \cup Formats

ASSUME EgressAssumption ==
    /\ Readers \subseteq Replicas /\ Tickers \subseteq Replicas /\ None \notin Bridges /\ Says \subseteq Bridges \X Kinds
    /\ Legacy \in Bridges \cup {None}
    /\ MaxBirths \in Nat /\ MaxLinks \in Nat /\ MaxFaults \in Nat

VARIABLES
    births,      \* per bridge, what its births say of the modem; the last is retained
    got,         \* per replica and bridge, the births taken so far
    clock,       \* when the last link was received
    row,         \* bridges.birth_stamp
    decl,        \* bridge_egress: format and stamp
    link,        \* devices: the owner and bridge_linked_at
    record,      \* devices: egress_bridge_id and egress_format
    pend,        \* pendingBirths.m, per replica and bridge
    version,     \* pendingBirths.version
    worker,      \* the two goroutines that write held births
    lookup,      \* the reader
    confirmed,   \* EgressDeclarations.confirmed
    took,        \* what the replica has taken of each bridge since it started
    faults

table == <<row, decl, link, record>>
vars == <<births, got, clock, row, decl, link, record, pend, version, worker, lookup, confirmed,
          took, faults>>

Workers == {"handler", "ticker"}

NotHeld == [ver |-> 0, stamp |-> 0, format |-> "", fstamp |-> 0, at |-> 0,
            written |-> FALSE, rec |-> ""]
Resting == [pc |-> "idle", todo |-> {}, key |-> None, first |-> FALSE, snap |-> NotHeld]
NoDeclaration == [format |-> "", stamp |-> 0]
NoLookup == [pc |-> "idle", by |-> None, held |-> NoDeclaration, owner |-> None, floor |-> [b \in Bridges |-> 0],
             behind |-> 0]
NothingTaken == [stamp |-> 0, fstamp |-> 0, at |-> 0]

Init ==
    /\ births = [b \in Bridges |-> <<>>]
    /\ got = [r \in Replicas |-> [b \in Bridges |-> 0]]
    /\ clock = 0
    /\ row = [b \in Bridges |-> 0]
    /\ decl = [b \in Bridges |-> NoDeclaration]
    /\ link = [owner |-> Legacy, at |-> 0]
    /\ record = [by |-> Legacy, format |-> IF Legacy = None THEN "" ELSE "plain"]
    /\ pend = [r \in Replicas |-> [b \in Bridges |-> NotHeld]]
    /\ version = [r \in Replicas |-> 0]
    /\ worker = [r \in Replicas |-> [w \in Workers |-> Resting]]
    /\ lookup = [r \in Replicas |-> NoLookup]
    /\ confirmed = [r \in Replicas |-> [owner |-> None, format |-> ""]]
    /\ took = [r \in Replicas |-> [b \in Bridges |-> NothingTaken]]
    /\ faults = 0

Fault == faults < MaxFaults /\ faults' = faults + 1

Published == {p \in Bridges \X (1 .. MaxBirths) : p[2] <= Len(births[p[1]])}

Publish(b, k) ==
    /\ Cardinality(Published) < MaxBirths
    /\ births' = [births EXCEPT ![b] = Append(births[b], k)]
    /\ UNCHANGED <<got, clock, table, pend, version, worker, lookup, confirmed, took, faults>>
-----------------------------------------------------------------------------
(* pendingBirths *)

Newer(old, new) == IF new >= old THEN new ELSE old

\* hold: the row of the newest birth, the newest declaration, the latest link.
Hold(h, ver, i, k, now) ==
    LET declares == k \in Formats /\ (h.format = "" \/ i >= h.fstamp)
    IN [ver |-> ver, stamp |-> Newer(h.stamp, i),
        format |-> IF declares THEN k ELSE h.format,
        fstamp |-> IF declares THEN i ELSE h.fstamp,
        at |-> IF k = "absent" THEN h.at ELSE Newer(h.at, now),
        written |-> FALSE,
        rec |-> IF declares THEN k ELSE h.rec]

Release(h) == IF h.written /\ h.rec = "" THEN NotHeld ELSE h

Written_AnyVersion(h, ver) == IF h.ver # 0 THEN Release([h EXCEPT !.written = TRUE]) ELSE h

Recorded_NotReleased(h, ver) == IF h.ver = ver THEN [h EXCEPT !.rec = ""] ELSE h

\* written and recorded: a birth merged in since the snapshot stays pending.
Written(h, ver) == IF h.ver = ver THEN Release([h EXCEPT !.written = TRUE]) ELSE h

Recorded(h, ver) == IF h.ver = ver THEN Release([h EXCEPT !.rec = ""]) ELSE h

Dropped(h, ver) == IF h.ver = ver THEN NotHeld ELSE h

Keys(r) == {b \in Bridges : pend[r][b].ver # 0}

\* declaration: the held births that declare the modem, and of them the one
\* that names it latest.
Declaring(r) == {b \in Keys(r) : pend[r][b].format # ""}

Latest(r, b) == b \in Declaring(r) /\ \A c \in Declaring(r) : pend[r][c].at <= pend[r][b].at
-----------------------------------------------------------------------------
(* The subscriber *)

\* writeHeld takes a snapshot of a held birth, h, and goes on with what is to
\* be written of it.
Writing(b, h, todo, first) ==
    [pc |-> IF h.written THEN "record" ELSE "row", todo |-> todo, key |-> b, first |-> first, snap |-> h]

\* handleBridgeBirth up to the first write: the birth is held.
TakeBirth(r, b) ==
    LET i == got[r][b] + 1
        k == births[b][i]
        now == IF k = "absent" THEN clock ELSE clock + 1
        h == Hold(pend[r][b], version[r] + 1, i, k, now)
        t == took[r][b]
    IN /\ worker[r]["handler"].pc = "idle" /\ i <= Len(births[b]) /\ now <= MaxLinks
       /\ got' = [got EXCEPT ![r][b] = i]
       /\ clock' = now
       /\ version' = [version EXCEPT ![r] = version[r] + 1]
       /\ pend' = [pend EXCEPT ![r][b] = h]
       /\ worker' = [worker EXCEPT ![r]["handler"] = Writing(b, h, {}, TRUE)]
       /\ took' = [took EXCEPT ![r][b] =
             [stamp |-> Newer(t.stamp, i), fstamp |-> IF k \in Formats THEN Newer(t.fstamp, i) ELSE t.fstamp,
              at |-> IF k = "absent" THEN t.at ELSE now]]
       /\ UNCHANGED <<births, table, lookup, confirmed, faults>>

\* The ticker: ReconcileEgress, with the first of the held births.
Tick(r) ==
    /\ r \in Tickers /\ worker[r]["ticker"].pc = "idle"
    /\ \E b \in Keys(r) : worker' = [worker EXCEPT ![r]["ticker"] = Writing(b, pend[r][b], Keys(r) \ {b}, FALSE)]
    /\ UNCHANGED <<births, got, clock, table, pend, version, lookup, confirmed, took, faults>>

\* writeHeld returned: the handler goes on to what other births left held when
\* its own was written, and stops when it was not.
Proceed(r, w, ok, held) ==
    LET x == worker[r][w]
        todo == CASE ~x.first -> x.todo
                  [] x.first /\ ok -> {c \in Bridges \ {x.key} : held[c].ver # 0}
                  [] OTHER -> {}
    IN worker' = [worker EXCEPT ![r][w] =
          IF todo = {} THEN Resting ELSE [Resting EXCEPT !.pc = "next", !.todo = todo]]

WriteNext(r, w) ==
    LET x == worker[r][w]
    IN /\ x.pc = "next"
       /\ \E b \in x.todo : worker' = [worker EXCEPT ![r][w] =
             IF pend[r][b].ver # 0 THEN Writing(b, pend[r][b], x.todo \ {b}, FALSE)
             ELSE IF x.todo = {b} THEN Resting ELSE [x EXCEPT !.todo = x.todo \ {b}]]
       /\ UNCHANGED <<births, got, clock, table, pend, version, lookup, confirmed, took, faults>>

CreateOrUpdateBridge_LastWins(b, h) ==
    /\ row' = [row EXCEPT ![b] = h.stamp]
    /\ decl' = IF h.format # "" THEN [decl EXCEPT ![b] = [format |-> h.format, stamp |-> h.fstamp]] ELSE decl
    /\ link' = IF h.at > 0 THEN [owner |-> b, at |-> h.at] ELSE link
    /\ UNCHANGED record

\* CreateOrUpdateBridge, one transaction: each part where it is not older.
CreateOrUpdateBridge(b, h) ==
    /\ row' = [row EXCEPT ![b] = Newer(row[b], h.stamp)]
    /\ decl' = IF h.format # "" /\ h.fstamp >= decl[b].stamp
               THEN [decl EXCEPT ![b] = [format |-> h.format, stamp |-> h.fstamp]] ELSE decl
    /\ link' = IF h.at > 0 /\ link.at <= h.at THEN [owner |-> b, at |-> h.at] ELSE link
    /\ UNCHANGED record

\* The store takes the birth; it refuses it, since the id is another tenant's
\* (ErrOwnedElsewhere), and the birth is let go; or the call fails.
WriteRow(r, w) ==
    LET x == worker[r][w]
        b == x.key
        wrote == [pend EXCEPT ![r][b] = Written(pend[r][b], x.snap.ver)]
    IN /\ x.pc = "row"
       /\ \/ /\ CreateOrUpdateBridge(b, x.snap) /\ pend' = wrote
             /\ IF x.snap.rec # "" THEN worker' = [worker EXCEPT ![r][w] = [x EXCEPT !.pc = "record"]]
                ELSE Proceed(r, w, TRUE, wrote[r])
             /\ UNCHANGED <<took, faults>>
          \/ /\ Fault
             /\ pend' = [pend EXCEPT ![r][b] = Dropped(pend[r][b], x.snap.ver)]
             /\ took' = [took EXCEPT ![r][b] = IF pend[r][b].ver = x.snap.ver THEN NothingTaken ELSE took[r][b]]
             /\ Proceed(r, w, FALSE, pend[r]) /\ UNCHANGED table
          \/ /\ Fault /\ Proceed(r, w, FALSE, pend[r]) /\ UNCHANGED <<pend, took>>
             /\ UNCHANGED table \/ CreateOrUpdateBridge(b, x.snap)
       /\ UNCHANGED <<births, got, clock, version, lookup, confirmed>>

\* SetDeviceEgress: the stored declaration, or the one held.
SetDeviceEgress(b, h) ==
    /\ record' = [by |-> b, format |-> IF decl[b].format # "" THEN decl[b].format ELSE h.rec]
    /\ UNCHANGED <<row, decl, link>>

WriteRecord(r, w) ==
    LET x == worker[r][w]
        b == x.key
        recd == [pend EXCEPT ![r][b] = Recorded(pend[r][b], x.snap.ver)]
    IN /\ x.pc = "record"
       /\ \/ SetDeviceEgress(b, x.snap) /\ pend' = recd /\ Proceed(r, w, TRUE, recd[r]) /\ UNCHANGED faults
          \/ /\ Fault /\ Proceed(r, w, TRUE, pend[r]) /\ UNCHANGED pend
             /\ UNCHANGED table \/ SetDeviceEgress(b, x.snap)
       /\ UNCHANGED <<births, got, clock, version, lookup, confirmed, took>>

\* handleDeviceBirth: the modem is this bridge's from now on.
DeviceBirth(r, b) ==
    /\ worker[r]["handler"].pc = "idle"
    /\ clock < MaxLinks /\ clock' = clock + 1
    /\ link' = [owner |-> b, at |-> clock']
    /\ UNCHANGED <<births, got, row, decl, record, pend, version, worker, lookup, confirmed, took, faults>>

\* The retained birth is read again on subscribe; what was missed is lost.
Retained == [b \in Bridges |-> IF births[b] = <<>> THEN 0 ELSE Len(births[b]) - 1]

Restart(r) ==
    /\ Fault
    /\ got' = [got EXCEPT ![r] = Retained]
    /\ pend' = [pend EXCEPT ![r] = [b \in Bridges |-> NotHeld]]
    /\ version' = [version EXCEPT ![r] = 0]
    /\ worker' = [worker EXCEPT ![r] = [w \in Workers |-> Resting]]
    /\ lookup' = [lookup EXCEPT ![r] = NoLookup]
    /\ confirmed' = [confirmed EXCEPT ![r] = [owner |-> None, format |-> ""]]
    /\ took' = [took EXCEPT ![r] = [b \in Bridges |-> NothingTaken]]
    /\ UNCHANGED <<births, clock, table>>

Resubscribe(r) ==
    /\ Fault /\ got' = [got EXCEPT ![r] = Retained]
    /\ UNCHANGED <<births, clock, table, pend, version, worker, lookup, confirmed, took>>
-----------------------------------------------------------------------------
(* EgressDeclarations.Declaration *)

Look(r, x) == lookup' = [lookup EXCEPT ![r] = x]

\* An answer that lets the payload be read as text ("plain", or "none" for
\* undeclared) on the word of bridge of is behind by the births of that bridge
\* that were known when the lookup began and are newer than that word.
Answer(r, says, of, stamp) ==
    LET x == lookup[r]
    IN Look(r, [NoLookup EXCEPT !.behind =
          IF says \in {"plain", "none"} /\ of # None /\ x.floor[of] > stamp THEN x.floor[of] - stamp ELSE 0])

Confirm(r, owner, format) == confirmed' = [confirmed EXCEPT ![r] = [owner |-> owner, format |-> format]]

\* What is known of each bridge's declaration when the lookup begins.
Floor(r) == [b \in Bridges |-> Newer(decl[b].stamp, pend[r][b].fstamp)]

Ask(r) ==
    /\ lookup[r].pc = "idle"
    /\ \/ /\ Declaring(r) = {}
          /\ Look(r, [NoLookup EXCEPT !.pc = "owner", !.floor = Floor(r)])
       \/ \E b \in Bridges :
             /\ Latest(r, b)
             /\ Look(r, [NoLookup EXCEPT !.pc = "owner", !.floor = Floor(r), !.by = b,
                            !.held = [format |-> pend[r][b].format, stamp |-> pend[r][b].fstamp]])
    /\ UNCHANGED <<births, got, clock, table, pend, version, worker, confirmed, took, faults>>

Unavailable_Any(r, owner) ==
    LET c == confirmed[r]
    IN IF c.format # "" /\ owner \in {None, c.owner} THEN Answer(r, c.format, c.owner, 0)
       ELSE Answer(r, "unavailable", None, 0)

\* A lookup that failed: only a "sealed" confirmed earlier still answers.
Unavailable(r, owner) ==
    LET c == confirmed[r]
    IN IF c.format = "sealed" /\ owner \in {None, c.owner} THEN Answer(r, "sealed", c.owner, 0)
       ELSE Answer(r, "unavailable", None, 0)

\* DeviceBridgeID, and what is decided on the owner alone.
ReadOwner(r) ==
    LET x == lookup[r]
        owner == link.owner
    IN /\ x.pc = "owner"
       /\ \/ /\ CASE x.by # None /\ owner \notin {None, x.by} -> Answer(r, "unavailable", None, 0)
                  [] x.by = None /\ owner = None -> Answer(r, "none", None, 0)
                  [] OTHER -> Look(r, [x EXCEPT !.pc = "entry", !.owner = owner])
             /\ UNCHANGED faults
          \/ /\ Fault
             /\ IF x.held.format = "sealed" THEN Answer(r, "sealed", x.by, x.held.stamp)
                ELSE Unavailable(r, None)
       /\ UNCHANGED <<births, got, clock, table, pend, version, worker, confirmed, took>>

\* BridgeEgressEntry: the stored declaration of the bridge that holds a birth
\* (fromHeld) or of the owner.
ReadEntry(r) ==
    LET x == lookup[r]
        b == IF x.by # None THEN x.by ELSE x.owner
        e == decl[b]
    IN /\ x.pc = "entry"
       /\ \/ /\ IF e.format # "" /\ (x.by = None \/ e.stamp > x.held.stamp)
                THEN Answer(r, e.format, b, e.stamp) /\ Confirm(r, b, e.format)
                ELSE IF x.by # None
                THEN Answer(r, x.held.format, b, x.held.stamp) /\ UNCHANGED confirmed
                ELSE Look(r, [x EXCEPT !.pc = "record"]) /\ UNCHANGED confirmed
             /\ UNCHANGED faults
          \/ /\ Fault /\ UNCHANGED confirmed
             /\ IF x.held.format = "sealed" THEN Answer(r, "sealed", b, x.held.stamp)
                ELSE Unavailable(r, x.owner)
       /\ UNCHANGED <<births, got, clock, table, pend, version, worker, took>>

\* DeviceEgress: a record made before declarations were kept per bridge.
ReadRecord(r) ==
    LET x == lookup[r]
    IN /\ x.pc = "record"
       /\ \/ /\ IF record.by = x.owner /\ record.format # ""
                THEN Answer(r, record.format, x.owner, 0) /\ Confirm(r, x.owner, record.format)
                ELSE Look(r, [x EXCEPT !.pc = "birth"]) /\ UNCHANGED confirmed
             /\ UNCHANGED faults
          \/ Fault /\ UNCHANGED confirmed /\ Unavailable(r, x.owner)
       /\ UNCHANGED <<births, got, clock, table, pend, version, worker, took>>

\* GetBridge: the owner's last birth, then what was confirmed before.
ReadBirth(r) ==
    LET x == lookup[r]
        k == IF row[x.owner] = 0 THEN "absent" ELSE births[x.owner][row[x.owner]]
        c == confirmed[r]
    IN /\ x.pc = "birth"
       /\ \/ /\ IF k \in Formats THEN Answer(r, k, x.owner, row[x.owner]) /\ Confirm(r, x.owner, k)
                ELSE /\ UNCHANGED confirmed
                     /\ Answer(r, IF c.owner = x.owner THEN c.format ELSE "none", x.owner, 0)
             /\ UNCHANGED faults
          \/ Fault /\ UNCHANGED confirmed /\ Unavailable(r, x.owner)
       /\ UNCHANGED <<births, got, clock, table, pend, version, worker, took>>
-----------------------------------------------------------------------------
Work(r, w) == WriteNext(r, w) \/ WriteRow(r, w) \/ WriteRecord(r, w)

Declaration(r) == r \in Readers /\ (Ask(r) \/ ReadOwner(r) \/ ReadEntry(r) \/ ReadRecord(r) \/ ReadBirth(r))

Next ==
    \/ \E s \in Says : Publish(s[1], s[2])
    \/ \E r \in Replicas : \/ \E b \in Bridges : TakeBirth(r, b) \/ DeviceBirth(r, b)
                           \/ Tick(r) \/ Restart(r) \/ Resubscribe(r) \/ Declaration(r)
                           \/ \E w \in Workers : Work(r, w)

Spec == Init /\ [][Next]_vars
-----------------------------------------------------------------------------
Declared == [format : Formats \cup {""}, stamp : Nat]
Held == [ver : Nat, stamp : Nat, format : Formats \cup {""}, fstamp : Nat, at : Nat,
         written : BOOLEAN, rec : Formats \cup {""}]
Goroutine == [pc : {"idle", "next", "row", "record"}, todo : SUBSET Bridges, key : Bridges \cup {None},
          first : BOOLEAN, snap : Held]

\* The rows, the held births and the goroutines keep their shape.
TypeOK ==
    /\ births \in [Bridges -> Seq(Kinds)] /\ got \in [Replicas -> [Bridges -> Nat]]
    /\ clock \in Nat /\ faults \in Nat
    /\ row \in [Bridges -> Nat] /\ decl \in [Bridges -> Declared]
    /\ link \in [owner : Bridges \cup {None}, at : Nat]
    /\ record \in [by : Bridges \cup {None}, format : Formats \cup {""}]
    /\ pend \in [Replicas -> [Bridges -> Held]] /\ version \in [Replicas -> Nat]
    /\ worker \in [Replicas -> [Workers -> Goroutine]]
    /\ lookup \in [Replicas -> [pc : {"idle", "owner", "entry", "record", "birth"},
                                by : Bridges \cup {None}, held : Declared, owner : Bridges \cup {None},
                                floor : [Bridges -> Nat], behind : Nat]]
    /\ confirmed \in [Replicas -> [owner : Bridges \cup {None}, format : Formats \cup {""}]]
    /\ took \in [Replicas -> [Bridges -> [stamp : Nat, fstamp : Nat, at : Nat]]]

\* What a replica has taken of a bridge since it started (the newest birth, the
\* newest declaration and the latest link) is stored, or something newer is, or
\* it is still held to be written: whichever writes failed, overlapped or came
\* late, a held birth is let go only when the store has it (or refused it).
HeldUntilStored ==
    \A r \in Replicas, b \in Bridges :
       LET h == IF pend[r][b].written THEN NotHeld ELSE pend[r][b]
           t == took[r][b]
       IN /\ row[b] >= t.stamp \/ h.stamp >= t.stamp
          /\ decl[b].stamp >= t.fstamp \/ h.fstamp >= t.fstamp
          /\ link.at >= t.at \/ h.at >= t.at

\* "a birth written again later never undoes a newer one": the stored birth,
\* declaration and link are never replaced by an older one, by any replica.
NeverUndone ==
    [][/\ link'.at >= link.at
       /\ \A b \in Bridges : row'[b] >= row[b] /\ decl'[b].stamp >= decl[b].stamp]_vars

\* A payload is read as text only on the newest word: when Declaration answers
\* "plain" or undeclared, nothing newer of that bridge was stored, or held by
\* this replica, when the lookup began, whatever was written, moved or failed
\* while it read ("a plain, held or confirmed, is not taken on trust").
AnswerIsCurrent == \A r \in Replicas : lookup[r].behind = 0

\* An attempt to write a held birth that meets no failure lets it go, unless a
\* newer birth was merged in meanwhile: nothing stays held for good, since the
\* ticker attempts whatever is held every egressRetryEvery.
AttemptLetsGo ==
    [][\A r \in Replicas, w \in Workers :
          LET x == worker[r][w]
          IN (/\ x.pc \in {"row", "record"} /\ worker'[r][w].pc \notin {"row", "record"}
              /\ faults' = faults /\ pend[r][x.key].ver = x.snap.ver)
             => pend'[r][x.key].ver = 0]_vars
=============================================================================
