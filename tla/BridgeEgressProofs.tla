-------------------------- MODULE BridgeEgressProofs --------------------------
(***************************************************************************)
(* For every number of replicas and bridges, births and failures: a held   *)
(* birth is let go only once it is stored, the store never goes back, an   *)
(* attempt without a failure ends the holding, and a payload is read as    *)
(* text only on the newest word.                                           *)
(***************************************************************************)
EXTENDS BridgeEgress, TLAPS

Words == Formats \cup {""}
Owners == Bridges \cup {None}
Lookup == [pc : {"idle", "owner", "entry", "record", "birth"}, by : Owners, held : Declared,
           owner : Owners, floor : [Bridges -> Nat], behind : Nat]
Taken == [stamp : Nat, fstamp : Nat, at : Nat]
-----------------------------------------------------------------------------
(* The records *)

LEMMA Strings == "" \in Words /\ "sealed" \in Words /\ "plain" \in Words
BY DEF Words, Formats

LEMMA Blank ==
    /\ NotHeld \in Held /\ NotHeld.ver = 0 /\ NotHeld.stamp = 0 /\ NotHeld.fstamp = 0 /\ NotHeld.at = 0
    /\ NotHeld.format = ""
    /\ NoDeclaration \in Declared
    /\ NothingTaken \in Taken
    /\ NothingTaken.stamp = 0 /\ NothingTaken.fstamp = 0 /\ NothingTaken.at = 0
<1>1. "" \in Formats \cup {""} /\ 0 \in Nat
  OBVIOUS
<1>2. NotHeld \in Held
  BY <1>1, Zenon DEF NotHeld, Held
<1>3. NotHeld.ver = 0 /\ NotHeld.stamp = 0 /\ NotHeld.fstamp = 0 /\ NotHeld.at = 0 /\ NotHeld.format = ""
  BY DEF NotHeld
<1>4. NoDeclaration \in Declared
  BY <1>1 DEF NoDeclaration, Declared
<1>5. NothingTaken \in Taken /\ NothingTaken.stamp = 0 /\ NothingTaken.fstamp = 0 /\ NothingTaken.at = 0
  BY DEF NothingTaken, Taken
<1> QED
  BY <1>2, <1>3, <1>4, <1>5, Zenon

LEMMA Rests == Resting \in Goroutine /\ Resting.pc = "idle"
<1>1. None \in Bridges \cup {None} /\ {} \in SUBSET Bridges /\ "idle" \in {"idle", "next", "row", "record"}
  OBVIOUS
<1>2. Resting \in Goroutine
  BY <1>1, Blank, Zenon DEF Resting, Goroutine
<1>3. Resting.pc = "idle"
  BY DEF Resting
<1> QED
  BY <1>2, <1>3

LEMMA NewerNat == \A x, y \in Nat : Newer(x, y) \in Nat /\ Newer(x, y) >= x /\ Newer(x, y) >= y
                                    /\ (Newer(x, y) = x \/ Newer(x, y) = y)
BY DEF Newer

LEMMA Fields ==
  ASSUME NEW h \in Held
  PROVE  /\ h.ver \in Nat /\ h.stamp \in Nat /\ h.format \in Words /\ h.fstamp \in Nat /\ h.at \in Nat
         /\ h.written \in BOOLEAN /\ h.rec \in Words
BY Zenon DEF Held, Words

\* What hold returns.
Holds(h, v, i, k, now, y) ==
    /\ y \in Held /\ y.ver = v /\ y.written = FALSE
    /\ y.stamp = Newer(h.stamp, i)
    /\ (k = "absent" => y.at = h.at) /\ (k # "absent" => y.at = Newer(h.at, now))
    /\ ((k \in Formats /\ (h.format = "" \/ i >= h.fstamp)) => y.fstamp = i /\ y.format = k)
    /\ (~(k \in Formats /\ (h.format = "" \/ i >= h.fstamp)) => y.fstamp = h.fstamp /\ y.format = h.format)

LEMMA HoldForm ==
  ASSUME NEW h \in Held, NEW v \in Nat, NEW i \in Nat, NEW k \in Kinds, NEW now \in Nat,
         NEW y, y = Hold(h, v, i, k, now)
  PROVE  Holds(h, v, i, k, now, y)
<1>0. h.ver \in Nat /\ h.stamp \in Nat /\ h.format \in Words /\ h.fstamp \in Nat /\ h.at \in Nat /\ h.rec \in Words
  BY Fields
<1>1. PICK f \in Words, g \in Nat, c \in Words :
         IF k \in Formats /\ (h.format = "" \/ i >= h.fstamp)
         THEN f = k /\ g = i /\ c = k ELSE f = h.format /\ g = h.fstamp /\ c = h.rec
  BY <1>0, Zenon DEF Words
<1>2. PICK a \in Nat : a = IF k = "absent" THEN h.at ELSE Newer(h.at, now)
  BY <1>0, NewerNat, Zenon
<1>3. PICK s \in Nat : s = Newer(h.stamp, i)
  BY <1>0, NewerNat, Zenon
<1>4. y = [ver |-> v, stamp |-> s, format |-> f, fstamp |-> g, at |-> a,
           written |-> FALSE, rec |-> c]
  BY <1>1, <1>2, <1>3, Zenon DEF Hold
<1>5. [ver |-> v, stamp |-> s, format |-> f, fstamp |-> g, at |-> a, written |-> FALSE, rec |-> c] \in Held
  BY Zenon DEF Held, Words
<1>6. y \in Held
  BY <1>4, <1>5, Zenon
<1>7. y.ver = v /\ y.stamp = s /\ y.format = f /\ y.fstamp = g /\ y.at = a
  BY <1>4
<1>8. y.written = FALSE
  BY <1>4
<1> QED
  BY <1>1, <1>2, <1>3, <1>6, <1>7, <1>8, Zenon DEF Holds

\* What written and recorded leave of a held birth of another version, and of
\* the same.
Kept(h, y) == /\ y.ver = h.ver /\ y.stamp = h.stamp /\ y.fstamp = h.fstamp /\ y.at = h.at
              /\ y.format = h.format

LEMMA ReleaseForm ==
  ASSUME NEW h \in Held
  PROVE  /\ Release(h) \in Held
         /\ Release(h) = h \/ (Release(h) = NotHeld /\ h.written)
         /\ (h.written /\ h.rec = "") => Release(h) = NotHeld
BY Blank, Zenon DEF Release

Wrote(h, v, y) ==
    /\ y \in Held
    /\ h.ver # v => y = h
    /\ h.ver = v => y = NotHeld \/ (Kept(h, y) /\ y.written /\ y.rec = h.rec)
    /\ (h.ver = v /\ h.rec = "") => y = NotHeld

LEMMA WrittenForm ==
  ASSUME NEW h \in Held, NEW v, NEW y, y = Written(h, v)
  PROVE  Wrote(h, v, y)
<1>1. CASE h.ver # v
  BY <1>1, Zenon DEF Written, Wrote
<1>2. CASE h.ver = v
  <2>1. PICK z : z = [h EXCEPT !.written = TRUE]
    BY Zenon
  <2>2. z \in Held /\ z.written = TRUE /\ z.rec = h.rec /\ Kept(h, z)
    BY <2>1, Zenon DEF Held, Kept
  <2>3. y = Release(z)
    BY <1>2, <2>1, Zenon DEF Written
  <2>4. y = z \/ y = NotHeld
    BY <2>2, <2>3, ReleaseForm, Zenon
  <2>5. h.rec = "" => y = NotHeld
    BY <2>2, <2>3, ReleaseForm, Zenon
  <2> QED
    BY <1>2, <2>2, <2>4, <2>5, Blank, Zenon DEF Wrote
<1> QED
  BY <1>1, <1>2

Records(h, v, y) ==
    /\ y \in Held
    /\ h.ver # v => y = h
    /\ h.ver = v => (y = NotHeld /\ h.written) \/ (Kept(h, y) /\ y.written = h.written /\ y.rec = "")
    /\ (h.ver = v /\ h.written) => y = NotHeld

LEMMA RecordedForm ==
  ASSUME NEW h \in Held, NEW v, NEW y, y = Recorded(h, v)
  PROVE  Records(h, v, y)
<1>1. CASE h.ver # v
  BY <1>1, Zenon DEF Recorded, Records
<1>2. CASE h.ver = v
  <2>1. PICK z : z = [h EXCEPT !.rec = ""]
    BY Zenon
  <2>2. z \in Held /\ z.written = h.written /\ z.rec = "" /\ Kept(h, z)
    BY <2>1, Strings, Zenon DEF Held, Kept, Words
  <2>3. y = Release(z)
    BY <1>2, <2>1, Zenon DEF Recorded
  <2>4. y = z \/ (y = NotHeld /\ z.written)
    BY <2>2, <2>3, ReleaseForm, Zenon
  <2>5. z.written => y = NotHeld
    BY <2>2, <2>3, ReleaseForm, Zenon
  <2> QED
    BY <1>2, <2>2, <2>4, <2>5, Blank, Zenon DEF Records
<1> QED
  BY <1>1, <1>2

LEMMA DroppedForm ==
  ASSUME NEW h \in Held, NEW v, NEW y, y = Dropped(h, v)
  PROVE  y \in Held /\ (h.ver # v => y = h) /\ (h.ver = v => y = NotHeld)
BY Blank, Zenon DEF Dropped

Writes(b, h, todo, y) ==
    /\ y \in Goroutine /\ y.key = b /\ y.snap = h /\ y.todo = todo
    /\ (h.written => y.pc = "record") /\ (~h.written => y.pc = "row")

LEMMA WritingForm ==
  ASSUME NEW b \in Bridges, NEW h \in Held, NEW todo \in SUBSET Bridges, NEW first \in BOOLEAN,
         NEW y, y = Writing(b, h, todo, first)
  PROVE  Writes(b, h, todo, y)
<1>1. PICK p \in {"idle", "next", "row", "record"} : p = IF h.written THEN "record" ELSE "row"
  BY Zenon
<1>2. y = [pc |-> p, todo |-> todo, key |-> b, first |-> first, snap |-> h]
  BY <1>1, Zenon DEF Writing
<1>3. b \in Owners
  BY DEF Owners
<1>4. [pc |-> p, todo |-> todo, key |-> b, first |-> first, snap |-> h] \in Goroutine
  BY <1>3, Zenon DEF Goroutine, Owners
<1>5. y \in Goroutine
  BY <1>2, <1>4, Zenon
<1>6. y.key = b /\ y.todo = todo /\ y.pc = p
  BY <1>2
<1>7. y.snap = h
  BY <1>2
<1> QED
  BY <1>1, <1>5, <1>6, <1>7, Zenon DEF Writes
-----------------------------------------------------------------------------
(* The invariant *)

\* A held birth: stamped by the replica's counter, linked no later than now, no
\* stamp without a declaration, and version 0 only when nothing is held.
HeldOk(h, v, c) ==
    /\ h.ver <= v /\ h.at <= c /\ (h.format = "" => h.fstamp = 0)
    /\ (h.ver = 0 => h = NotHeld)

\* What of a held birth still has to be stored.
Unwritten(h) == IF h.written THEN NotHeld ELSE h

\* HeldUntilStored, for one replica and one bridge.
Stored(h, t, ro, ds, la) ==
    /\ ro >= t.stamp \/ h.stamp >= t.stamp
    /\ ds >= t.fstamp \/ h.fstamp >= t.fstamp
    /\ la >= t.at \/ h.at >= t.at

\* A goroutine that writes holds a copy of what is held, as long as the version
\* is the same; it writes the record only once the row is written.
SnapOk(x, P, v, c) ==
    x.pc \in {"row", "record"} =>
       /\ x.key \in Bridges /\ x.snap.ver # 0 /\ HeldOk(x.snap, v, c)
       /\ P[x.key].ver = x.snap.ver =>
             /\ Kept(x.snap, P[x.key])
             /\ (x.snap.rec = "" => P[x.key].rec = "")
             /\ (x.pc = "record" => P[x.key].written)

\* What was known when the lookup began is in the table or in its hands.
LookOk(x, de) ==
    /\ x.behind = 0
    /\ (x.pc \in {"owner", "entry"} /\ x.by = None) => \A b \in Bridges : x.floor[b] <= de[b].stamp
    /\ (x.pc \in {"owner", "entry"} /\ x.by # None) =>
          x.floor[x.by] <= de[x.by].stamp \/ x.floor[x.by] <= x.held.stamp
    /\ (x.pc = "entry" /\ x.by = None) => x.owner \in Bridges
    /\ x.pc \in {"record", "birth"} => x.owner \in Bridges /\ x.floor[x.owner] = 0

HeldAll(P, v, c) == \A b \in Bridges : HeldOk(P[b], v, c)
StoredAll(P, T, ro, de, li) ==
    \A b \in Bridges : Stored(Unwritten(P[b]), T[b], ro[b], de[b].stamp, li.at)
SnapAll(W, P, v, c) == \A w \in Workers : SnapOk(W[w], P, v, c)

StoreOk(ro, de, li, re, c) ==
    /\ ro \in [Bridges -> Nat] /\ de \in [Bridges -> Declared] /\ c \in Nat
    /\ li \in [owner : Owners, at : Nat] /\ re \in [by : Owners, format : Words]
    /\ li.at <= c /\ \A b \in Bridges : de[b].format = "" => de[b].stamp = 0

DeclGrows(de, de2) == \A b \in Bridges : de[b].stamp <= de2[b].stamp
RowGrows(ro, ro2) == \A b \in Bridges : ro[b] <= ro2[b]

Confirmed == [owner : Owners, format : Words]
Local(P, v, W, L, T, ro, de, li, c) ==
    HeldAll(P, v, c) /\ StoredAll(P, T, ro, de, li) /\ SnapAll(W, P, v, c) /\ LookOk(L, de)

Inv ==
    /\ births \in [Bridges -> Seq(Kinds)] /\ got \in [Replicas -> [Bridges -> Nat]] /\ faults \in Nat
    /\ StoreOk(row, decl, link, record, clock)
    /\ pend \in [Replicas -> [Bridges -> Held]] /\ version \in [Replicas -> Nat]
    /\ worker \in [Replicas -> [Workers -> Goroutine]] /\ lookup \in [Replicas -> Lookup]
    /\ confirmed \in [Replicas -> Confirmed] /\ took \in [Replicas -> [Bridges -> Taken]]
    /\ \A r \in Replicas :
          Local(pend[r], version[r], worker[r], lookup[r], took[r], row, decl, link, clock)
-----------------------------------------------------------------------------
(* The table only grows, and what is true of a replica stays true *)

LEMMA HeldOkGrows ==
  ASSUME NEW h \in Held, NEW v, NEW c \in Nat, NEW c2 \in Nat, c <= c2, HeldOk(h, v, c)
  PROVE  HeldOk(h, v, c2)
<1>1. h.at \in Nat
  BY Fields
<1>2. h.at <= c
  BY Zenon DEF HeldOk
<1>3. h.at <= c2
  BY <1>1, <1>2
<1> QED
  BY <1>3, Zenon DEF HeldOk

LEMMA HeldAllGrows ==
  ASSUME NEW P \in [Bridges -> Held], NEW v \in Nat, NEW c \in Nat, NEW c2 \in Nat, c <= c2, HeldAll(P, v, c)
  PROVE  HeldAll(P, v, c2)
<1> SUFFICES ASSUME NEW b \in Bridges PROVE HeldOk(P[b], v, c2)
  BY DEF HeldAll
<1>1. HeldOk(P[b], v, c) /\ P[b] \in Held
  BY DEF HeldAll
<1> QED
  BY <1>1, HeldOkGrows, Zenon

LEMMA SnapAllGrows ==
  ASSUME NEW W \in [Workers -> Goroutine], NEW P, NEW v \in Nat, NEW c \in Nat, NEW c2 \in Nat, c <= c2,
         SnapAll(W, P, v, c)
  PROVE  SnapAll(W, P, v, c2)
<1> SUFFICES ASSUME NEW w \in Workers PROVE SnapOk(W[w], P, v, c2)
  BY DEF SnapAll
<1>1. SnapOk(W[w], P, v, c) /\ W[w] \in Goroutine
  BY DEF SnapAll
<1>2. W[w].snap \in Held
  BY <1>1, Zenon DEF Goroutine
<1>4. HeldOk(W[w].snap, v, c) => HeldOk(W[w].snap, v, c2)
  BY <1>2, HeldOkGrows, Zenon
<1> QED
  BY <1>1, <1>4, Zenon DEF SnapOk

LEMMA LookGrows ==
  ASSUME NEW x \in Lookup, NEW de \in [Bridges -> Declared], NEW de2 \in [Bridges -> Declared],
         DeclGrows(de, de2), LookOk(x, de)
  PROVE  LookOk(x, de2)
<1>1. \A b \in Bridges : x.floor[b] \in Nat /\ de[b].stamp \in Nat /\ de2[b].stamp \in Nat
  BY Zenon DEF Lookup, Declared
<1>2. x.by \in Bridges \cup {None}
  BY DEF Lookup, Owners
<1> QED
  BY <1>1, <1>2 DEF LookOk, DeclGrows

LEMMA UnwrittenHeld ==
  ASSUME NEW h \in Held
  PROVE  Unwritten(h) \in Held /\ (Unwritten(h) = h \/ Unwritten(h) = NotHeld)
BY Blank, Zenon DEF Unwritten

LEMMA StoredAllGrows ==
  ASSUME NEW P \in [Bridges -> Held], NEW T \in [Bridges -> Taken],
         NEW ro \in [Bridges -> Nat], NEW ro2 \in [Bridges -> Nat], RowGrows(ro, ro2),
         NEW de \in [Bridges -> Declared], NEW de2 \in [Bridges -> Declared], DeclGrows(de, de2),
         NEW li \in [owner : Owners, at : Nat], NEW li2 \in [owner : Owners, at : Nat], li.at <= li2.at,
         StoredAll(P, T, ro, de, li)
  PROVE  StoredAll(P, T, ro2, de2, li2)
<1> SUFFICES ASSUME NEW b \in Bridges
             PROVE  Stored(Unwritten(P[b]), T[b], ro2[b], de2[b].stamp, li2.at)
  BY DEF StoredAll
<1>1. T[b].stamp \in Nat /\ T[b].fstamp \in Nat /\ T[b].at \in Nat
  BY DEF Taken
<1>2. /\ ro[b] \in Nat /\ ro2[b] \in Nat /\ de[b].stamp \in Nat /\ de2[b].stamp \in Nat
      /\ li.at \in Nat /\ li2.at \in Nat
  BY Zenon DEF Declared
<1>3. ro[b] <= ro2[b] /\ de[b].stamp <= de2[b].stamp
  BY DEF RowGrows, DeclGrows
<1>4. Stored(Unwritten(P[b]), T[b], ro[b], de[b].stamp, li.at)
  BY DEF StoredAll
<1> QED
  BY <1>1, <1>2, <1>3, <1>4 DEF Stored
\* CreateOrUpdateBridge: nothing goes back, and the birth is in the table after.
RowAfter(ro, b, h) == [ro EXCEPT ![b] = Newer(ro[b], h.stamp)]
DeclAfter(de, b, h) == IF h.format # "" /\ h.fstamp >= de[b].stamp
                       THEN [de EXCEPT ![b] = [format |-> h.format, stamp |-> h.fstamp]] ELSE de
LinkAfter(li, b, h) == IF h.at > 0 /\ li.at <= h.at THEN [owner |-> b, at |-> h.at] ELSE li

Created(ro, de, li, re, c, b, h, ro2, de2, li2) ==
    /\ StoreOk(ro2, de2, li2, re, c)
    /\ RowGrows(ro, ro2) /\ DeclGrows(de, de2) /\ li.at <= li2.at
    /\ ro2[b] >= h.stamp /\ de2[b].stamp >= h.fstamp /\ li2.at >= h.at

LEMMA CreateGrows ==
  ASSUME NEW ro, NEW de, NEW li, NEW re, NEW c, StoreOk(ro, de, li, re, c),
         NEW b \in Bridges, NEW h \in Held, NEW v, HeldOk(h, v, c),
         NEW ro2, ro2 = RowAfter(ro, b, h), NEW de2, de2 = DeclAfter(de, b, h), NEW li2, li2 = LinkAfter(li, b, h)
  PROVE  Created(ro, de, li, re, c, b, h, ro2, de2, li2)
<1>1. h.stamp \in Nat /\ h.format \in Words /\ h.fstamp \in Nat /\ h.at \in Nat
  BY Fields
<1>2. h.at <= c /\ (h.format = "" => h.fstamp = 0)
  BY Zenon DEF HeldOk
<1>3. /\ ro \in [Bridges -> Nat] /\ de \in [Bridges -> Declared] /\ c \in Nat
      /\ li \in [owner : Owners, at : Nat] /\ re \in [by : Owners, format : Words]
      /\ li.at <= c /\ \A a \in Bridges : de[a].format = "" => de[a].stamp = 0
  BY Zenon DEF StoreOk
<1>4. PICK n \in Nat : n = Newer(ro[b], h.stamp) /\ n >= ro[b] /\ n >= h.stamp
  BY <1>1, <1>3, NewerNat, Zenon
<1>5. ro2 \in [Bridges -> Nat] /\ RowGrows(ro, ro2) /\ ro2[b] >= h.stamp
  <2>1. ro2 = [ro EXCEPT ![b] = n]
    BY <1>4, Zenon DEF RowAfter
  <2>2. \A a \in Bridges : ro2[a] = IF a = b THEN n ELSE ro[a]
    BY <1>3, <2>1, Zenon
  <2>3. \A a \in Bridges : ro[a] \in Nat
    BY <1>3, Zenon
  <2>4. ro2 \in [Bridges -> Nat]
    BY <1>3, <1>4, <2>1, Zenon
  <2> QED
    BY <1>4, <2>2, <2>3, <2>4 DEF RowGrows
<1>6. \A a \in Bridges : de[a].stamp \in Nat /\ de[a] \in Declared
  BY <1>3, Zenon DEF Declared
<1>7. /\ de2 \in [Bridges -> Declared] /\ DeclGrows(de, de2) /\ de2[b].stamp >= h.fstamp
      /\ \A a \in Bridges : de2[a].format = "" => de2[a].stamp = 0
  <2>1. CASE h.format # "" /\ h.fstamp >= de[b].stamp
    <3>1. PICK z : z = [format |-> h.format, stamp |-> h.fstamp]
      BY Zenon
    <3>2. z \in Declared /\ z.stamp = h.fstamp /\ z.format # ""
      BY <1>1, <2>1, <3>1, Zenon DEF Declared, Words
    <3>3. de2 = [de EXCEPT ![b] = z]
      BY <2>1, <3>1, Zenon DEF DeclAfter
    <3>4. de2 \in [Bridges -> Declared] /\ de2[b] = z /\ \A a \in Bridges : de2[a] = IF a = b THEN z ELSE de[a]
      BY <1>3, <3>2, <3>3, Zenon
    <3>5. de[b].stamp <= z.stamp
      BY <2>1, <3>2, <1>1, <1>6, Zenon
    <3>6. \A a \in Bridges : de[a].stamp <= de[a].stamp
      BY <1>6
    <3>7. DeclGrows(de, de2)
      BY <3>4, <3>5, <3>6, Zenon DEF DeclGrows
    <3>8. de2[b].stamp >= h.fstamp
      <4>1. h.fstamp >= h.fstamp
        BY <1>1
      <4> QED
        BY <3>2, <3>4, <4>1, Zenon
    <3>9. \A a \in Bridges : de2[a].format = "" => de2[a].stamp = 0
      BY <1>3, <3>2, <3>4, Zenon
    <3> QED
      BY <3>4, <3>7, <3>8, <3>9, Zenon
  <2>2. CASE ~(h.format # "" /\ h.fstamp >= de[b].stamp)
    <3>1. de2 = de
      BY <2>2, Zenon DEF DeclAfter
    <3>2. \A a \in Bridges : de[a].stamp <= de[a].stamp
      BY <1>6
    <3>3. de[b].stamp >= h.fstamp
      <4>1. h.fstamp \in Nat /\ de[b].stamp \in Nat /\ (h.fstamp = 0 \/ ~(h.fstamp >= de[b].stamp))
        BY <1>1, <1>2, <1>6, <2>2, Zenon
      <4> QED
        BY <4>1
    <3> QED
      BY <1>3, <3>1, <3>2, <3>3, Zenon DEF DeclGrows
  <2> QED
    BY <2>1, <2>2, Zenon
<1>8. li2 \in [owner : Owners, at : Nat] /\ li2.at <= c /\ li.at <= li2.at /\ li2.at >= h.at
  <2>0. li.at \in Nat
    BY <1>3, Zenon
  <2>1. CASE h.at > 0 /\ li.at <= h.at
    <3>1. li2 = [owner |-> b, at |-> h.at]
      BY <2>1, Zenon DEF LinkAfter
    <3>2. li2.at = h.at /\ li2.owner = b /\ li2 \in [owner : Owners, at : Nat]
      BY <1>1, <3>1 DEF Owners
    <3>3. h.at <= c /\ h.at \in Nat /\ li.at <= h.at
      BY <1>1, <1>2, <2>1, Zenon
    <3>4. h.at >= h.at
      BY <3>3
    <3> QED
      BY <3>2, <3>3, <3>4, Zenon
  <2>2. CASE ~(h.at > 0 /\ li.at <= h.at)
    <3>1. li2 = li
      BY <2>2, Zenon DEF LinkAfter
    <3>2. li.at >= h.at /\ li.at <= li.at
      BY <1>1, <2>0, <2>2
    <3> QED
      BY <1>3, <3>1, <3>2, Zenon
  <2> QED
    BY <2>1, <2>2
<1> QED
  BY <1>3, <1>5, <1>7, <1>8, Zenon DEF StoreOk, Created

\* What written, recorded and dropped may do to a held birth.
Lessened(h, y) ==
    y = h \/ y = NotHeld \/ (h.ver # 0 /\ Kept(h, y) /\ (h.written => y.written) /\ (h.rec = "" => y.rec = ""))

LEMMA NotHeldOk ==
  ASSUME NEW v \in Nat, NEW c \in Nat PROVE HeldOk(NotHeld, v, c)
<1>1. 0 <= v /\ 0 <= c
  OBVIOUS
<1> QED
  BY <1>1, Blank, Zenon DEF HeldOk

LEMMA LessenedOk ==
  ASSUME NEW h \in Held, NEW y \in Held, NEW v \in Nat, NEW c \in Nat, Lessened(h, y), HeldOk(h, v, c)
  PROVE  HeldOk(y, v, c)
<1>1. CASE y = h \/ y = NotHeld
  BY <1>1, NotHeldOk, Zenon
<1>2. CASE h.ver # 0 /\ Kept(h, y)
  BY <1>2, Zenon DEF HeldOk, Kept
<1> QED
  BY <1>1, <1>2, Zenon DEF Lessened

LEMMA LessenedAll ==
  ASSUME NEW P \in [Bridges -> Held], NEW b \in Bridges, NEW y \in Held, NEW v \in Nat, NEW c \in Nat,
         Lessened(P[b], y), NEW P2, P2 = [P EXCEPT ![b] = y], HeldAll(P, v, c)
  PROVE  P2 \in [Bridges -> Held] /\ HeldAll(P2, v, c)
<1>1. \A a \in Bridges : P2[a] = IF a = b THEN y ELSE P[a]
  OBVIOUS
<1>2. HeldOk(y, v, c)
  <2>1. P[b] \in Held /\ HeldOk(P[b], v, c)
    BY DEF HeldAll
  <2> QED
    BY <2>1, LessenedOk, Zenon
<1> QED
  BY <1>1, <1>2, Zenon DEF HeldAll

LEMMA LessenedSnaps ==
  ASSUME NEW P \in [Bridges -> Held], NEW b \in Bridges, NEW y \in Held, NEW v, NEW c,
         Lessened(P[b], y), NEW P2, P2 = [P EXCEPT ![b] = y],
         NEW x, SnapOk(x, P, v, c)
  PROVE  SnapOk(x, P2, v, c)
<1> SUFFICES ASSUME x.pc \in {"row", "record"}, P2[x.key].ver = x.snap.ver, x.key \in Bridges, x.snap.ver # 0
             PROVE  /\ Kept(x.snap, P2[x.key])
                    /\ (x.snap.rec = "" => P2[x.key].rec = "")
                    /\ (x.pc = "record" => P2[x.key].written)
  BY Zenon DEF SnapOk
<1>1. CASE x.key # b
  <2>1. P2[x.key] = P[x.key]
    BY <1>1
  <2> QED
    BY <2>1, Zenon DEF SnapOk
<1>2. CASE x.key = b
  <2>1. P2[b] = y
    OBVIOUS
  <2>2. y # NotHeld
    BY <1>2, <2>1, Blank, Zenon
  <2>3. CASE y = P[b]
    BY <1>2, <2>1, <2>3, Zenon DEF SnapOk
  <2>4. CASE Kept(P[b], y) /\ (P[b].written => y.written) /\ (P[b].rec = "" => y.rec = "")
    <3>1. P[b].ver = x.snap.ver
      BY <1>2, <2>1, <2>4, Zenon DEF Kept
    <3>2. /\ Kept(x.snap, P[b]) /\ (x.snap.rec = "" => P[b].rec = "")
          /\ (x.pc = "record" => P[b].written)
      BY <1>2, <3>1, Zenon DEF SnapOk
    <3>3. Kept(x.snap, y)
      BY <2>4, <3>2, Zenon DEF Kept
    <3> QED
      BY <1>2, <2>1, <2>4, <3>2, <3>3, Zenon
  <2> QED
    BY <2>2, <2>3, <2>4, Zenon DEF Lessened
<1> QED
  BY <1>1, <1>2, Zenon

LEMMA StoredExcept ==
  ASSUME NEW P \in [Bridges -> Held], NEW T \in [Bridges -> Taken], NEW ro, NEW de, NEW li,
         StoredAll(P, T, ro, de, li),
         NEW b \in Bridges, NEW y, NEW t,
         NEW P2, P2 = [P EXCEPT ![b] = y], NEW T2, T2 = [T EXCEPT ![b] = t],
         Stored(Unwritten(y), t, ro[b], de[b].stamp, li.at)
  PROVE  StoredAll(P2, T2, ro, de, li)
<1> SUFFICES ASSUME NEW a \in Bridges
             PROVE  Stored(Unwritten(P2[a]), T2[a], ro[a], de[a].stamp, li.at)
  BY DEF StoredAll
<1>1. CASE a = b
  <2>1. P2[a] = y /\ T2[a] = t
    BY <1>1
  <2> QED
    BY <1>1, <2>1, Zenon
<1>2. CASE a # b
  <2>1. P2[a] = P[a] /\ T2[a] = T[a]
    BY <1>2
  <2> QED
    BY <2>1, Zenon DEF StoredAll
<1> QED
  BY <1>1, <1>2
-----------------------------------------------------------------------------
(* One replica steps *)

Grows(ro, de, li, c, ro2, de2, li2, c2) ==
    RowGrows(ro, ro2) /\ DeclGrows(de, de2) /\ li.at <= li2.at /\ c <= c2

LEMMA GrowsSame ==
  ASSUME NEW ro, NEW de, NEW li, NEW re, NEW c, StoreOk(ro, de, li, re, c)
  PROVE  Grows(ro, de, li, c, ro, de, li, c)
<1>1. ro \in [Bridges -> Nat] /\ de \in [Bridges -> Declared] /\ li \in [owner : Owners, at : Nat] /\ c \in Nat
  BY Zenon DEF StoreOk
<1>2. c <= c /\ li.at <= li.at
  BY <1>1
<1>3. \A b \in Bridges : ro[b] <= ro[b]
  BY <1>1
<1>4. \A b \in Bridges : de[b].stamp <= de[b].stamp
  <2>1. \A b \in Bridges : de[b].stamp \in Nat
    BY <1>1, Zenon DEF Declared
  <2> QED
    BY <2>1
<1> QED
  BY <1>2, <1>3, <1>4, Zenon DEF Grows, RowGrows, DeclGrows

LEMMA LocalGrows ==
  ASSUME NEW P \in [Bridges -> Held], NEW v \in Nat, NEW W \in [Workers -> Goroutine], NEW L \in Lookup,
         NEW T \in [Bridges -> Taken],
         NEW ro, NEW de, NEW li, NEW re, NEW c, StoreOk(ro, de, li, re, c),
         NEW ro2, NEW de2, NEW li2, NEW re2, NEW c2, StoreOk(ro2, de2, li2, re2, c2),
         Grows(ro, de, li, c, ro2, de2, li2, c2), Local(P, v, W, L, T, ro, de, li, c)
  PROVE  Local(P, v, W, L, T, ro2, de2, li2, c2)
<1>1. ro \in [Bridges -> Nat] /\ de \in [Bridges -> Declared] /\ li \in [owner : Owners, at : Nat] /\ c \in Nat
  BY Zenon DEF StoreOk
<1>2. ro2 \in [Bridges -> Nat] /\ de2 \in [Bridges -> Declared] /\ li2 \in [owner : Owners, at : Nat] /\ c2 \in Nat
  BY Zenon DEF StoreOk
<1>3. RowGrows(ro, ro2) /\ DeclGrows(de, de2) /\ li.at <= li2.at /\ c <= c2
  BY Zenon DEF Grows
<1>4. HeldAll(P, v, c) /\ StoredAll(P, T, ro, de, li) /\ SnapAll(W, P, v, c) /\ LookOk(L, de)
  BY Zenon DEF Local
<1>5. HeldAll(P, v, c2)
  BY <1>1, <1>2, <1>3, <1>4, HeldAllGrows, Zenon
<1>6. SnapAll(W, P, v, c2)
  BY <1>1, <1>2, <1>3, <1>4, SnapAllGrows, Zenon
<1>7. LookOk(L, de2)
  BY <1>1, <1>2, <1>3, <1>4, LookGrows, Zenon
<1>8. StoredAll(P, T, ro2, de2, li2)
  BY <1>1, <1>2, <1>3, <1>4, StoredAllGrows, Zenon
<1> QED
  BY <1>5, <1>6, <1>7, <1>8, Zenon DEF Local

\* A step of replica r that leaves its local state at G, P, v, W, L, K and T.
Steps(r, G, P, v, W, L, K, T) ==
    /\ births' = births /\ faults' \in Nat
    /\ got' = [got EXCEPT ![r] = G] /\ pend' = [pend EXCEPT ![r] = P]
    /\ version' = [version EXCEPT ![r] = v] /\ worker' = [worker EXCEPT ![r] = W]
    /\ lookup' = [lookup EXCEPT ![r] = L] /\ confirmed' = [confirmed EXCEPT ![r] = K]
    /\ took' = [took EXCEPT ![r] = T]

LEMMA Assemble ==
  ASSUME Inv, NEW r \in Replicas, NEW G \in [Bridges -> Nat], NEW P \in [Bridges -> Held], NEW v \in Nat,
         NEW W \in [Workers -> Goroutine], NEW L \in Lookup, NEW K \in Confirmed, NEW T \in [Bridges -> Taken],
         Steps(r, G, P, v, W, L, K, T),
         StoreOk(row', decl', link', record', clock'),
         Grows(row, decl, link, clock, row', decl', link', clock'),
         Local(P, v, W, L, T, row', decl', link', clock')
  PROVE  Inv'
<1>0. /\ births \in [Bridges -> Seq(Kinds)] /\ got \in [Replicas -> [Bridges -> Nat]]
      /\ StoreOk(row, decl, link, record, clock)
      /\ pend \in [Replicas -> [Bridges -> Held]] /\ version \in [Replicas -> Nat]
      /\ worker \in [Replicas -> [Workers -> Goroutine]] /\ lookup \in [Replicas -> Lookup]
      /\ confirmed \in [Replicas -> Confirmed] /\ took \in [Replicas -> [Bridges -> Taken]]
      /\ \A q \in Replicas :
            Local(pend[q], version[q], worker[q], lookup[q], took[q], row, decl, link, clock)
  BY Zenon DEF Inv
<1>1. /\ births' \in [Bridges -> Seq(Kinds)] /\ got' \in [Replicas -> [Bridges -> Nat]] /\ faults' \in Nat
      /\ pend' \in [Replicas -> [Bridges -> Held]] /\ version' \in [Replicas -> Nat]
      /\ worker' \in [Replicas -> [Workers -> Goroutine]] /\ lookup' \in [Replicas -> Lookup]
      /\ confirmed' \in [Replicas -> Confirmed] /\ took' \in [Replicas -> [Bridges -> Taken]]
  BY <1>0, Zenon DEF Steps
<1>2. ASSUME NEW q \in Replicas
      PROVE  Local(pend'[q], version'[q], worker'[q], lookup'[q], took'[q], row', decl', link', clock')
  <2>1. CASE q = r
    <3>1. /\ pend'[q] = P /\ version'[q] = v /\ worker'[q] = W /\ lookup'[q] = L /\ took'[q] = T
      BY <1>0, <2>1, Zenon DEF Steps
    <3> QED
      BY <3>1, Zenon
  <2>2. CASE q # r
    <3>1. /\ pend'[q] = pend[q] /\ version'[q] = version[q] /\ worker'[q] = worker[q] /\ lookup'[q] = lookup[q]
          /\ took'[q] = took[q]
      BY <1>0, <2>2, Zenon DEF Steps
    <3>2. /\ pend[q] \in [Bridges -> Held] /\ version[q] \in Nat /\ worker[q] \in [Workers -> Goroutine]
          /\ lookup[q] \in Lookup /\ took[q] \in [Bridges -> Taken]
      BY <1>0, Zenon
    <3>3. Local(pend[q], version[q], worker[q], lookup[q], took[q], row', decl', link', clock')
      BY <1>0, <3>2, LocalGrows, Zenon
    <3> QED
      BY <3>1, <3>3, Zenon
  <2> QED
    BY <2>1, <2>2
<1> QED
  BY <1>1, <1>2, Zenon DEF Inv

\* What the invariant says of one replica.
LEMMA Replica ==
  ASSUME Inv, NEW r \in Replicas
  PROVE  /\ got[r] \in [Bridges -> Nat] /\ pend[r] \in [Bridges -> Held] /\ version[r] \in Nat
         /\ worker[r] \in [Workers -> Goroutine] /\ lookup[r] \in Lookup /\ confirmed[r] \in Confirmed
         /\ took[r] \in [Bridges -> Taken] /\ faults \in Nat
         /\ StoreOk(row, decl, link, record, clock)
         /\ Local(pend[r], version[r], worker[r], lookup[r], took[r], row, decl, link, clock)
BY Zenon DEF Inv

LEMMA Still ==
  ASSUME Inv, NEW r \in Replicas
  PROVE  /\ got = [got EXCEPT ![r] = got[r]] /\ pend = [pend EXCEPT ![r] = pend[r]]
         /\ version = [version EXCEPT ![r] = version[r]] /\ worker = [worker EXCEPT ![r] = worker[r]]
         /\ lookup = [lookup EXCEPT ![r] = lookup[r]] /\ confirmed = [confirmed EXCEPT ![r] = confirmed[r]]
         /\ took = [took EXCEPT ![r] = took[r]]
BY Zenon DEF Inv

LEMMA InitOk == Init => Inv
<1> SUFFICES ASSUME Init PROVE Inv
  OBVIOUS
<1>1. births \in [Bridges -> Seq(Kinds)] /\ got \in [Replicas -> [Bridges -> Nat]] /\ faults \in Nat
  <2>1. <<>> \in Seq(Kinds)
    OBVIOUS
  <2>2. births \in [Bridges -> Seq(Kinds)]
    BY <2>1, Zenon DEF Init
  <2>3. got \in [Replicas -> [Bridges -> Nat]] /\ faults \in Nat
    BY Zenon DEF Init
  <2> QED
    BY <2>2, <2>3
<1>2. StoreOk(row, decl, link, record, clock)
  <2>1. row \in [Bridges -> Nat] /\ decl \in [Bridges -> Declared] /\ clock \in Nat
    BY Blank, Zenon DEF Init
  <2>2. link \in [owner : Owners, at : Nat] /\ link.at <= clock
    <3>1. link = [owner |-> Legacy, at |-> 0] /\ clock = 0
      BY Zenon DEF Init
    <3>2. Legacy \in Owners
      BY EgressAssumption, Zenon DEF Owners
    <3> QED
      BY <3>1, <3>2
  <2>3. record \in [by : Owners, format : Words]
    BY EgressAssumption, Zenon DEF Init, Owners, Words, Formats
  <2>4. \A b \in Bridges : decl[b].stamp = 0
    BY Zenon DEF Init, NoDeclaration
  <2> QED
    BY <2>1, <2>2, <2>3, <2>4, Zenon DEF StoreOk
<1>3. NoLookup \in Lookup /\ NoLookup.pc = "idle" /\ NoLookup.behind = 0
  <2>1. [b \in Bridges |-> 0] \in [Bridges -> Nat]
    OBVIOUS
  <2> QED
    BY <2>1, Blank, Zenon DEF NoLookup, Lookup, Owners
<1>4. /\ pend \in [Replicas -> [Bridges -> Held]] /\ version \in [Replicas -> Nat]
      /\ worker \in [Replicas -> [Workers -> Goroutine]] /\ lookup \in [Replicas -> Lookup]
      /\ took \in [Replicas -> [Bridges -> Taken]]
  BY <1>3, Blank, Rests, Zenon DEF Init
<1>5. confirmed \in [Replicas -> Confirmed]
  BY Strings, Zenon DEF Init, Confirmed, Owners
<1>6. ASSUME NEW r \in Replicas
      PROVE  Local(pend[r], version[r], worker[r], lookup[r], took[r], row, decl, link, clock)
  <2>1. /\ version[r] \in Nat /\ clock \in Nat
        /\ \A b \in Bridges : pend[r][b] = NotHeld /\ took[r][b] = NothingTaken
        /\ \A w \in Workers : worker[r][w] = Resting
        /\ lookup[r] = NoLookup
    BY Zenon DEF Init
  <2>2. HeldAll(pend[r], version[r], clock)
    BY <2>1, NotHeldOk, Zenon DEF HeldAll
  <2>3. \A b \in Bridges : row[b] >= 0 /\ decl[b].stamp >= 0 /\ link.at >= 0
    <3>1. row = [b \in Bridges |-> 0] /\ decl = [b \in Bridges |-> NoDeclaration] /\ link = [owner |-> Legacy, at |-> 0]
      BY Zenon DEF Init
    <3>2. NoDeclaration.stamp = 0 /\ link.at = 0
      BY <3>1, Zenon DEF NoDeclaration
    <3>3. \A b \in Bridges : row[b] = 0 /\ decl[b] = NoDeclaration
      BY <3>1, Zenon
    <3>4. 0 >= 0
      OBVIOUS
    <3> QED
      BY <3>2, <3>3, <3>4, Zenon
  <2>4. StoredAll(pend[r], took[r], row, decl, link)
    BY <2>1, <2>3, Blank, Zenon DEF StoredAll, Stored
  <2>5. SnapAll(worker[r], pend[r], version[r], clock)
    BY <2>1, Rests, Zenon DEF SnapAll, SnapOk
  <2>6. LookOk(lookup[r], decl)
    BY <1>3, <2>1, Zenon DEF LookOk
  <2> QED
    BY <2>2, <2>4, <2>5, <2>6, Zenon DEF Local
<1> QED
  BY <1>1, <1>2, <1>4, <1>5, <1>6, Zenon DEF Inv
-----------------------------------------------------------------------------
(* A birth is taken *)

LEMMA SnapWriting ==
  ASSUME NEW P, NEW b \in Bridges, NEW h \in Held, P[b] = h, h.ver # 0, NEW v, NEW c, HeldOk(h, v, c),
         NEW todo \in SUBSET Bridges, NEW first \in BOOLEAN, NEW y, y = Writing(b, h, todo, first)
  PROVE  y \in Goroutine /\ SnapOk(y, P, v, c)
<1>1. y \in Goroutine /\ y.key = b /\ y.snap = h /\ (~h.written => y.pc = "row")
  <2>1. Writes(b, h, todo, y)
    BY WritingForm, Zenon
  <2> QED
    BY <2>1, Zenon DEF Writes
<1>2. y.pc = "record" => h.written
  <2>1. "row" # "record"
    OBVIOUS
  <2> QED
    BY <1>1, <2>1, Zenon
<1>3. Kept(h, h)
  BY Zenon DEF Kept
<1> QED
  BY <1>1, <1>2, <1>3, Zenon DEF SnapOk

\* What the replica has taken after birth i of kind k.
Takes(t, i, k, now) ==
    [stamp |-> Newer(t.stamp, i), fstamp |-> IF k \in Formats THEN Newer(t.fstamp, i) ELSE t.fstamp,
     at |-> IF k = "absent" THEN t.at ELSE now]

Took(t, i, k, now, y) ==
    /\ y \in Taken /\ y.stamp = Newer(t.stamp, i)
    /\ (k \in Formats => y.fstamp = Newer(t.fstamp, i)) /\ (k \notin Formats => y.fstamp = t.fstamp)
    /\ (k = "absent" => y.at = t.at) /\ (k # "absent" => y.at = now)

LEMMA TakesForm ==
  ASSUME NEW t \in Taken, NEW i \in Nat, NEW k, NEW now \in Nat, NEW y, y = Takes(t, i, k, now)
  PROVE  Took(t, i, k, now, y)
<1>1. t.stamp \in Nat /\ t.fstamp \in Nat /\ t.at \in Nat
  BY DEF Taken
<1>2. PICK s \in Nat : s = Newer(t.stamp, i)
  BY <1>1, NewerNat, Zenon
<1>3. PICK f \in Nat : f = IF k \in Formats THEN Newer(t.fstamp, i) ELSE t.fstamp
  BY <1>1, NewerNat, Zenon
<1>4. PICK a \in Nat : a = IF k = "absent" THEN t.at ELSE now
  BY <1>1
<1>5. y = [stamp |-> s, fstamp |-> f, at |-> a]
  BY <1>2, <1>3, <1>4, Zenon DEF Takes
<1>6. y \in Taken /\ y.stamp = s /\ y.fstamp = f /\ y.at = a
  BY <1>5 DEF Taken
<1> QED
  BY <1>2, <1>3, <1>4, <1>6, Zenon DEF Took

\* Holding a birth keeps what is held no older than what was taken.
LEMMA HoldStored ==
  ASSUME NEW h \in Held, NEW t \in Taken, NEW i \in Nat, NEW k \in Kinds, NEW now \in Nat, NEW v \in Nat, NEW u,
         NEW ro \in Nat, NEW ds \in Nat, NEW la \in Nat, HeldOk(h, u, now),
         Stored(Unwritten(h), t, ro, ds, la),
         NEW y, y = Hold(h, v, i, k, now), NEW t2, t2 = Takes(t, i, k, now)
  PROVE  Stored(Unwritten(y), t2, ro, ds, la)
<1>1. t.stamp \in Nat /\ t.fstamp \in Nat /\ t.at \in Nat
  BY DEF Taken
<1>2. h.stamp \in Nat /\ h.fstamp \in Nat /\ h.at \in Nat
  BY Fields
<1>3. h.at <= now /\ (h.format = "" => h.fstamp = 0)
  BY Zenon DEF HeldOk
<1>4. /\ y.stamp = Newer(h.stamp, i) /\ y.written = FALSE
      /\ (k = "absent" => y.at = h.at) /\ (k # "absent" => y.at = Newer(h.at, now))
      /\ ((k \in Formats /\ (h.format = "" \/ i >= h.fstamp)) => y.fstamp = i /\ y.format = k)
      /\ (~(k \in Formats /\ (h.format = "" \/ i >= h.fstamp)) => y.fstamp = h.fstamp /\ y.format = h.format)
  <2>1. Holds(h, v, i, k, now, y)
    BY HoldForm, Zenon
  <2> QED
    BY <2>1, Zenon DEF Holds
<1>5. /\ t2.stamp = Newer(t.stamp, i)
      /\ (k \in Formats => t2.fstamp = Newer(t.fstamp, i)) /\ (k \notin Formats => t2.fstamp = t.fstamp)
      /\ (k = "absent" => t2.at = t.at) /\ (k # "absent" => t2.at = now)
  <2>1. Took(t, i, k, now, t2)
    BY TakesForm, Zenon
  <2> QED
    BY <2>1, Zenon DEF Took
<1>6. Unwritten(y) = y
  BY <1>4, Zenon DEF Unwritten
<1>7. /\ ro >= t.stamp \/ h.stamp >= t.stamp
      /\ ds >= t.fstamp \/ h.fstamp >= t.fstamp
      /\ la >= t.at \/ h.at >= t.at
  <2>1. Unwritten(h) = h \/ Unwritten(h) = NotHeld
    BY UnwrittenHeld, Zenon
  <2>2. CASE Unwritten(h) = h
    BY <2>2, Zenon DEF Stored
  <2>3. CASE Unwritten(h) = NotHeld
    <3>1. /\ ro >= t.stamp \/ 0 >= t.stamp
          /\ ds >= t.fstamp \/ 0 >= t.fstamp
          /\ la >= t.at \/ 0 >= t.at
      BY <2>3, Blank, Zenon DEF Stored
    <3> QED
      BY <1>1, <1>2, <3>1
  <2> QED
    BY <2>1, <2>2, <2>3
<1>8. ro >= t2.stamp \/ y.stamp >= t2.stamp
  <2>1. y.stamp = Newer(h.stamp, i) /\ t2.stamp = Newer(t.stamp, i)
    BY <1>4, <1>5, Zenon
  <2>2. ro >= t.stamp \/ h.stamp >= t.stamp
    BY <1>7, Zenon
  <2> QED
    BY <1>1, <1>2, <2>1, <2>2 DEF Newer
<1>9. ds >= t2.fstamp \/ y.fstamp >= t2.fstamp
  <2>1. CASE k \notin Formats
    BY <1>1, <1>2, <1>4, <1>5, <1>7, <2>1, Zenon
  <2>2. CASE k \in Formats
    <3>1. t2.fstamp = Newer(t.fstamp, i)
      BY <1>5, <2>2, Zenon
    <3>2. CASE h.format = "" \/ i >= h.fstamp
      <4>1. y.fstamp = i
        BY <1>4, <2>2, <3>2, Zenon
      <4>2. h.fstamp = 0 \/ i >= h.fstamp
        BY <1>3, <3>2, Zenon
      <4> QED
        BY <1>1, <1>2, <1>7, <3>1, <4>1, <4>2 DEF Newer
    <3>3. CASE ~(h.format = "" \/ i >= h.fstamp)
      <4>1. y.fstamp = h.fstamp /\ ~(i >= h.fstamp)
        BY <1>4, <2>2, <3>3, Zenon
      <4> QED
        BY <1>1, <1>2, <1>7, <3>1, <4>1 DEF Newer
    <3> QED
      BY <3>2, <3>3, Zenon
  <2> QED
    BY <2>1, <2>2
<1>10. la >= t2.at \/ y.at >= t2.at
  <2>1. CASE k = "absent"
    BY <1>4, <1>5, <1>7, <2>1, Zenon
  <2>2. CASE k # "absent"
    <3>1. y.at = Newer(h.at, now) /\ t2.at = now
      BY <1>4, <1>5, <2>2, Zenon
    <3> QED
      BY <1>2, <3>1 DEF Newer
  <2> QED
    BY <2>1, <2>2
<1> QED
  BY <1>6, <1>8, <1>9, <1>10, Zenon DEF Stored

LEMMA HeldOkNext ==
  ASSUME NEW h \in Held, NEW v \in Nat, NEW c, HeldOk(h, v, c)
  PROVE  HeldOk(h, v + 1, c) /\ h.ver # v + 1
<1>1. h.ver \in Nat /\ h.ver <= v
  BY Fields, Zenon DEF HeldOk
<1>2. h.ver <= v + 1 /\ h.ver # v + 1
  BY <1>1
<1> QED
  BY <1>2, Zenon DEF HeldOk

LEMMA HoldOk ==
  ASSUME NEW h \in Held, NEW u, NEW v \in Nat, v # 0, NEW i \in Nat, NEW k \in Kinds, NEW now \in Nat,
         HeldOk(h, u, now), NEW y, Holds(h, v, i, k, now, y)
  PROVE  HeldOk(y, v, now)
<1>1. h.at \in Nat
  BY Fields, Zenon
<1>2. h.at <= now /\ (h.format = "" => h.fstamp = 0)
  BY Zenon DEF HeldOk
<1>3. Newer(h.at, now) <= now /\ v <= v
  <2>1. h.at <= now
    BY <1>2, Zenon
  <2> QED
    BY <1>1, <2>1 DEF Newer
<1>4. y.at <= now
  BY <1>2, <1>3, Zenon DEF Holds
<1>5. "" \notin Formats
  BY DEF Formats
<1>6. y.format = "" => y.fstamp = 0
  BY <1>2, <1>5, Zenon DEF Holds
<1> QED
  BY <1>3, <1>4, <1>6, Zenon DEF HeldOk, Holds

LEMMA HoldSnaps ==
  ASSUME NEW P \in [Bridges -> Held], NEW b \in Bridges, NEW v \in Nat, NEW c,
         NEW y \in Held, y.ver = v + 1, NEW P2, P2 = [P EXCEPT ![b] = y],
         NEW x \in Goroutine, SnapOk(x, P, v, c)
  PROVE  SnapOk(x, P2, v + 1, c)
<1> SUFFICES ASSUME x.pc \in {"row", "record"}
             PROVE  /\ x.key \in Bridges /\ x.snap.ver # 0 /\ HeldOk(x.snap, v + 1, c)
                    /\ P2[x.key].ver = x.snap.ver =>
                          /\ Kept(x.snap, P2[x.key])
                          /\ (x.snap.rec = "" => P2[x.key].rec = "")
                          /\ (x.pc = "record" => P2[x.key].written)
  BY Zenon DEF SnapOk
<1>1. /\ x.key \in Bridges /\ x.snap.ver # 0 /\ HeldOk(x.snap, v, c)
      /\ P[x.key].ver = x.snap.ver =>
            /\ Kept(x.snap, P[x.key])
            /\ (x.snap.rec = "" => P[x.key].rec = "")
            /\ (x.pc = "record" => P[x.key].written)
  BY Zenon DEF SnapOk
<1>2. x.snap \in Held
  BY Zenon DEF Goroutine
<1>3. HeldOk(x.snap, v + 1, c) /\ x.snap.ver # v + 1
  BY <1>1, <1>2, HeldOkNext, Zenon
<1>4. P2[x.key] = IF x.key = b THEN y ELSE P[x.key]
  BY <1>1, Zenon
<1>5. P2[x.key].ver = x.snap.ver => P2[x.key] = P[x.key]
  BY <1>3, <1>4, Zenon
<1> QED
  BY <1>1, <1>3, <1>5, Zenon

LEMMA TakeBirthKeeps ==
  ASSUME Inv, NEW r \in Replicas, NEW b \in Bridges, TakeBirth(r, b)
  PROVE  Inv' /\ Grows(row, decl, link, clock, row', decl', link', clock')
<1>0. /\ got[r] \in [Bridges -> Nat] /\ pend[r] \in [Bridges -> Held] /\ version[r] \in Nat
      /\ worker[r] \in [Workers -> Goroutine] /\ lookup[r] \in Lookup /\ confirmed[r] \in Confirmed
      /\ took[r] \in [Bridges -> Taken] /\ faults \in Nat
      /\ StoreOk(row, decl, link, record, clock)
      /\ Local(pend[r], version[r], worker[r], lookup[r], took[r], row, decl, link, clock)
  BY Replica, Zenon
<1>1. PICK i \in Nat : i = got[r][b] + 1 /\ i >= 1
  BY <1>0
<1>2. i <= Len(births[b])
  BY <1>1, Zenon DEF TakeBirth
<1>3. PICK k \in Kinds : k = births[b][i]
  <2>1. births[b] \in Seq(Kinds)
    BY Zenon DEF Inv
  <2> QED
    BY <1>1, <1>2, <2>1
<1>4. clock \in Nat
  BY <1>0, Zenon DEF StoreOk
<1>5. PICK now \in Nat : now = (IF k = "absent" THEN clock ELSE clock + 1) /\ clock <= now
  BY <1>4
<1>6. PICK v \in Nat : v = version[r] + 1 /\ v # 0
  BY <1>0
<1>7. PICK h : h = Hold(pend[r][b], v, i, k, now)
  OBVIOUS
<1>8. PICK t : t = Takes(took[r][b], i, k, now)
  OBVIOUS
<1>9. PICK x : x = Writing(b, h, {}, TRUE)
  BY Zenon
<1>10. PICK P : P = [pend[r] EXCEPT ![b] = h]
  BY Zenon
<1>11. PICK T : T = [took[r] EXCEPT ![b] = t]
  BY Zenon
<1>12. PICK W : W = [worker[r] EXCEPT !["handler"] = x]
  BY Zenon
<1>13. PICK G : G = [got[r] EXCEPT ![b] = i]
  BY Zenon
<1>14. clock' = now /\ row' = row /\ decl' = decl /\ link' = link /\ record' = record
  BY <1>1, <1>3, <1>5, Zenon DEF TakeBirth, table
<1>15. Steps(r, G, P, v, W, lookup[r], confirmed[r], T)
  <2>1. got' = [got EXCEPT ![r] = G]
    BY <1>1, <1>13, Zenon DEF TakeBirth
  <2>2. version' = [version EXCEPT ![r] = v]
    BY <1>6, Zenon DEF TakeBirth
  <2>3. pend' = [pend EXCEPT ![r] = P]
    BY <1>1, <1>3, <1>5, <1>6, <1>7, <1>10, Zenon DEF TakeBirth
  <2>4. worker' = [worker EXCEPT ![r] = W]
    BY <1>1, <1>3, <1>5, <1>6, <1>7, <1>9, <1>12, Zenon DEF TakeBirth
  <2>5. took' = [took EXCEPT ![r] = T]
    BY <1>1, <1>3, <1>5, <1>8, <1>11, Zenon DEF TakeBirth, Takes
  <2>6. births' = births /\ lookup' = lookup /\ confirmed' = confirmed /\ faults' = faults
    BY Zenon DEF TakeBirth
  <2> QED
    BY <1>0, <2>1, <2>2, <2>3, <2>4, <2>5, <2>6, Still, Zenon DEF Steps
<1>16. StoreOk(row, decl, link, record, now) /\ Grows(row, decl, link, clock, row, decl, link, now)
  <2>1. link \in [owner : Owners, at : Nat] /\ link.at <= clock
    BY <1>0, Zenon DEF StoreOk
  <2>2. link.at <= now
    BY <1>4, <1>5, <2>1
  <2>3. StoreOk(row, decl, link, record, now)
    BY <1>0, <2>2, Zenon DEF StoreOk
  <2>4. Grows(row, decl, link, clock, row, decl, link, clock)
    BY <1>0, GrowsSame, Zenon
  <2> QED
    BY <1>5, <2>3, <2>4, Zenon DEF Grows
<1>17. Local(pend[r], version[r], worker[r], lookup[r], took[r], row, decl, link, now)
  BY <1>0, <1>16, LocalGrows, Zenon
<1>18. /\ HeldAll(pend[r], version[r], now) /\ StoredAll(pend[r], took[r], row, decl, link)
       /\ SnapAll(worker[r], pend[r], version[r], now) /\ LookOk(lookup[r], decl)
  BY <1>17, Zenon DEF Local
<1>19. pend[r][b] \in Held /\ HeldOk(pend[r][b], version[r], now) /\ took[r][b] \in Taken
  BY <1>0, <1>18, Zenon DEF HeldAll
<1>20. Holds(pend[r][b], v, i, k, now, h)
  BY <1>7, <1>19, HoldForm, Zenon
<1>21. h \in Held /\ h.ver = v /\ HeldOk(h, v, now)
  <2>1. HeldOk(h, v, now)
    BY <1>6, <1>19, <1>20, HoldOk, Zenon
  <2> QED
    BY <1>20, <2>1, Zenon DEF Holds
<1>22. t \in Taken
  BY <1>8, <1>19, TakesForm, Zenon DEF Took
<1>23. P \in [Bridges -> Held] /\ P[b] = h
  BY <1>0, <1>10, <1>21, Zenon
<1>24. x \in Goroutine /\ SnapOk(x, P, v, now)
  <2>1. h.ver # 0 /\ {} \in SUBSET Bridges /\ TRUE \in BOOLEAN
    BY <1>6, <1>21, Zenon
  <2> QED
    BY <1>9, <1>21, <1>23, <2>1, SnapWriting, Zenon
<1>25. W \in [Workers -> Goroutine] /\ T \in [Bridges -> Taken] /\ G \in [Bridges -> Nat]
  BY <1>0, <1>11, <1>12, <1>13, <1>22, <1>24, Zenon
<1>26. HeldAll(P, v, now)
  <2> SUFFICES ASSUME NEW a \in Bridges PROVE HeldOk(P[a], v, now)
    BY Zenon DEF HeldAll
  <2>1. P[a] = IF a = b THEN h ELSE pend[r][a]
    BY <1>0, <1>10, Zenon
  <2>2. pend[r][a] \in Held /\ HeldOk(pend[r][a], version[r], now)
    BY <1>0, <1>18, Zenon DEF HeldAll
  <2>3. HeldOk(pend[r][a], v, now)
    BY <1>0, <1>6, <2>2, HeldOkNext, Zenon
  <2> QED
    BY <1>21, <2>1, <2>3, Zenon
<1>27. SnapAll(W, P, v, now)
  <2> SUFFICES ASSUME NEW w \in Workers PROVE SnapOk(W[w], P, v, now)
    BY Zenon DEF SnapAll
  <2>1. W[w] = IF w = "handler" THEN x ELSE worker[r][w]
    BY <1>0, <1>12, Zenon
  <2>2. worker[r][w] \in Goroutine /\ SnapOk(worker[r][w], pend[r], version[r], now)
    BY <1>0, <1>18, Zenon DEF SnapAll
  <2>3. SnapOk(worker[r][w], P, v, now)
    BY <1>0, <1>6, <1>10, <1>21, <2>2, HoldSnaps, Zenon
  <2> QED
    BY <1>24, <2>1, <2>3, Zenon
<1>28. StoredAll(P, T, row, decl, link)
  <2>1. row[b] \in Nat /\ decl[b].stamp \in Nat /\ link.at \in Nat
    BY <1>0, Zenon DEF StoreOk, Declared
  <2>2. Stored(Unwritten(pend[r][b]), took[r][b], row[b], decl[b].stamp, link.at)
    BY <1>18, Zenon DEF StoredAll
  <2>3. Stored(Unwritten(h), t, row[b], decl[b].stamp, link.at)
    BY <1>7, <1>8, <1>19, <2>1, <2>2, HoldStored, Zenon
  <2> QED
    BY <1>0, <1>10, <1>11, <1>18, <2>3, StoredExcept, Zenon
<1>29. Local(P, v, W, lookup[r], T, row', decl', link', clock')
  BY <1>14, <1>18, <1>26, <1>27, <1>28, Zenon DEF Local
<1>30. StoreOk(row', decl', link', record', clock') /\ Grows(row, decl, link, clock, row', decl', link', clock')
  BY <1>14, <1>16, Zenon
<1>31. Inv'
  BY <1>0, <1>15, <1>23, <1>25, <1>29, <1>30, Assemble, Zenon
<1> QED
  BY <1>30, <1>31
-----------------------------------------------------------------------------
(* What is held is written *)

\* A step of goroutine w of replica r, which goes on with x: the held birth of
\* b is lessened to y, and t is what counts as taken.
LEMMA WorkKeeps ==
  ASSUME Inv, NEW r \in Replicas, NEW w \in Workers, NEW b \in Bridges, NEW y \in Held, NEW t \in Taken,
         NEW x \in Goroutine,
         NEW P, P = [pend[r] EXCEPT ![b] = y], NEW T, T = [took[r] EXCEPT ![b] = t],
         NEW W, W = [worker[r] EXCEPT ![w] = x],
         Steps(r, got[r], P, version[r], W, lookup[r], confirmed[r], T), clock' = clock,
         StoreOk(row', decl', link', record', clock'),
         Grows(row, decl, link, clock, row', decl', link', clock'),
         Lessened(pend[r][b], y), SnapOk(x, P, version[r], clock),
         Stored(Unwritten(y), t, row'[b], decl'[b].stamp, link'.at)
  PROVE  Inv'
<1>0. /\ got[r] \in [Bridges -> Nat] /\ pend[r] \in [Bridges -> Held] /\ version[r] \in Nat
      /\ worker[r] \in [Workers -> Goroutine] /\ lookup[r] \in Lookup /\ confirmed[r] \in Confirmed
      /\ took[r] \in [Bridges -> Taken] /\ faults \in Nat
      /\ StoreOk(row, decl, link, record, clock)
      /\ Local(pend[r], version[r], worker[r], lookup[r], took[r], row, decl, link, clock)
  BY Replica, Zenon
<1>1. Local(pend[r], version[r], worker[r], lookup[r], took[r], row', decl', link', clock')
  BY <1>0, LocalGrows, Zenon
<1>2. /\ HeldAll(pend[r], version[r], clock') /\ StoredAll(pend[r], took[r], row', decl', link')
      /\ SnapAll(worker[r], pend[r], version[r], clock') /\ LookOk(lookup[r], decl') /\ clock' \in Nat
  BY <1>1, Zenon DEF Local, StoreOk
<1>3. P \in [Bridges -> Held] /\ HeldAll(P, version[r], clock')
  <2>1. PICK p \in [Bridges -> Held] : p = pend[r]
    BY <1>0, Zenon
  <2>2. PICK c \in Nat : c = clock'
    BY <1>2, Zenon
  <2>3. P = [p EXCEPT ![b] = y] /\ Lessened(p[b], y) /\ HeldAll(p, version[r], c)
    BY <1>2, <2>1, <2>2, Zenon
  <2>4. P \in [Bridges -> Held] /\ HeldAll(P, version[r], c)
    BY <1>0, <2>3, LessenedAll, Zenon
  <2> QED
    BY <2>2, <2>4, Zenon
<1>4. W \in [Workers -> Goroutine] /\ T \in [Bridges -> Taken]
  BY <1>0, Zenon
<1>5. SnapAll(W, P, version[r], clock')
  <2> SUFFICES ASSUME NEW u \in Workers PROVE SnapOk(W[u], P, version[r], clock')
    BY Zenon DEF SnapAll
  <2>1. W[u] = IF u = w THEN x ELSE worker[r][u]
    BY <1>0, Zenon
  <2>2. SnapOk(worker[r][u], pend[r], version[r], clock')
    BY <1>2, Zenon DEF SnapAll
  <2>3. SnapOk(worker[r][u], P, version[r], clock')
    <3>1. PICK p \in [Bridges -> Held] : p = pend[r]
      BY <1>0, Zenon
    <3>2. P = [p EXCEPT ![b] = y] /\ Lessened(p[b], y) /\ SnapOk(worker[r][u], p, version[r], clock')
      BY <2>2, <3>1, Zenon
    <3> QED
      BY <3>2, LessenedSnaps, Zenon
  <2> QED
    BY <2>1, <2>3, Zenon
<1>6. StoredAll(P, T, row', decl', link')
  BY <1>0, <1>2, StoredExcept, Zenon
<1>7. Local(P, version[r], W, lookup[r], T, row', decl', link', clock')
  BY <1>2, <1>3, <1>5, <1>6, Zenon DEF Local
<1> QED
  BY <1>0, <1>3, <1>4, <1>7, Assemble, Zenon

LEMMA RestsSnap ==
  ASSUME NEW x, x.pc \notin {"row", "record"}, NEW P, NEW v, NEW c PROVE SnapOk(x, P, v, c)
BY Zenon DEF SnapOk

\* A goroutine that only picks what to write next.
LEMMA PickKeeps ==
  ASSUME Inv, NEW r \in Replicas, NEW w \in Workers, NEW x \in Goroutine, SnapOk(x, pend[r], version[r], clock),
         worker' = [worker EXCEPT ![r][w] = x],
         UNCHANGED <<births, got, clock, row, decl, link, record, pend, version, lookup, confirmed, took>>,
         faults' \in Nat
  PROVE  Inv' /\ Grows(row, decl, link, clock, row', decl', link', clock')
<1>0. /\ got[r] \in [Bridges -> Nat] /\ pend[r] \in [Bridges -> Held] /\ version[r] \in Nat
      /\ worker[r] \in [Workers -> Goroutine] /\ lookup[r] \in Lookup /\ confirmed[r] \in Confirmed
      /\ took[r] \in [Bridges -> Taken] /\ faults \in Nat
      /\ StoreOk(row, decl, link, record, clock)
      /\ Local(pend[r], version[r], worker[r], lookup[r], took[r], row, decl, link, clock)
  BY Replica, Zenon
<1>1. /\ births' = births /\ got' = got /\ clock' = clock /\ row' = row /\ decl' = decl /\ link' = link
      /\ record' = record /\ pend' = pend /\ version' = version /\ lookup' = lookup /\ confirmed' = confirmed
      /\ took' = took
  OBVIOUS
<1>2. PICK W : W = [worker[r] EXCEPT ![w] = x]
  BY Zenon
<1>3. worker' = [worker EXCEPT ![r] = W]
  BY <1>2, Zenon
<1>4. W \in [Workers -> Goroutine]
  BY <1>0, <1>2, Zenon
<1>5. Steps(r, got[r], pend[r], version[r], W, lookup[r], confirmed[r], took[r])
  BY <1>1, <1>3, Still, Zenon DEF Steps
<1>6. Grows(row, decl, link, clock, row', decl', link', clock')
  BY <1>0, <1>1, GrowsSame, Zenon
<1>7. StoreOk(row', decl', link', record', clock')
  BY <1>0, <1>1, Zenon
<1>8. /\ HeldAll(pend[r], version[r], clock) /\ StoredAll(pend[r], took[r], row, decl, link)
      /\ SnapAll(worker[r], pend[r], version[r], clock) /\ LookOk(lookup[r], decl)
  BY <1>0, Zenon DEF Local
<1>9. SnapAll(W, pend[r], version[r], clock)
  <2> SUFFICES ASSUME NEW u \in Workers PROVE SnapOk(W[u], pend[r], version[r], clock)
    BY Zenon DEF SnapAll
  <2>1. W[u] = IF u = w THEN x ELSE worker[r][u]
    BY <1>0, <1>2, Zenon
  <2> QED
    BY <1>8, <2>1, Zenon DEF SnapAll
<1>10. Local(pend[r], version[r], W, lookup[r], took[r], row', decl', link', clock')
  BY <1>1, <1>8, <1>9, Zenon DEF Local
<1>11. Inv'
  BY <1>0, <1>4, <1>5, <1>6, <1>7, <1>10, Assemble, Zenon
<1> QED
  BY <1>6, <1>11

LEMMA TickKeeps ==
  ASSUME Inv, NEW r \in Replicas, Tick(r)
  PROVE  Inv' /\ Grows(row, decl, link, clock, row', decl', link', clock')
<1>0. /\ pend[r] \in [Bridges -> Held] /\ HeldAll(pend[r], version[r], clock) /\ faults \in Nat
  BY Replica, Zenon DEF Local
<1>1. PICK b \in Keys(r) : worker' = [worker EXCEPT ![r]["ticker"] = Writing(b, pend[r][b], Keys(r) \ {b}, FALSE)]
  BY Zenon DEF Tick
<1>2. b \in Bridges /\ pend[r][b].ver # 0 /\ (Keys(r) \ {b}) \in SUBSET Bridges /\ "ticker" \in Workers
  BY DEF Keys, Workers
<1>3. PICK x : x = Writing(b, pend[r][b], Keys(r) \ {b}, FALSE)
  BY Zenon
<1>4. pend[r][b] \in Held /\ HeldOk(pend[r][b], version[r], clock) /\ FALSE \in BOOLEAN
  BY <1>0, <1>2, Zenon DEF HeldAll
<1>5. x \in Goroutine /\ SnapOk(x, pend[r], version[r], clock)
  BY <1>2, <1>3, <1>4, SnapWriting, Zenon
<1>6. UNCHANGED <<births, got, clock, row, decl, link, record, pend, version, lookup, confirmed, took>> /\ faults' = faults
  BY DEF Tick, table
<1>7. worker' = [worker EXCEPT ![r]["ticker"] = x]
  BY <1>1, <1>3, Zenon
<1> QED
  BY <1>0, <1>2, <1>5, <1>6, <1>7, PickKeeps, Zenon

LEMMA GoroutineFields ==
  ASSUME NEW x \in Goroutine
  PROVE  x.todo \in SUBSET Bridges /\ x.snap \in Held /\ x.key \in Owners
BY Zenon DEF Goroutine, Owners

LEMMA NextForm ==
  ASSUME NEW x \in Goroutine, NEW todo \in SUBSET Bridges, NEW y, y = [x EXCEPT !.pc = "next", !.todo = todo]
  PROVE  y \in Goroutine /\ y.pc \notin {"row", "record"}
<1>1. "next" \in {"idle", "next", "row", "record"}
  OBVIOUS
<1>2. y \in Goroutine /\ y.pc = "next"
  BY <1>1, Zenon DEF Goroutine
<1>3. "next" \notin {"row", "record"}
  OBVIOUS
<1> QED
  BY <1>2, <1>3, Zenon

LEMMA RestingPc == Resting.pc \notin {"row", "record"}
<1>1. "idle" \notin {"row", "record"}
  OBVIOUS
<1> QED
  BY <1>1, Rests, Zenon

LEMMA WriteNextKeeps ==
  ASSUME Inv, NEW r \in Replicas, NEW w \in Workers, WriteNext(r, w)
  PROVE  Inv' /\ Grows(row, decl, link, clock, row', decl', link', clock')
<1>0. /\ pend[r] \in [Bridges -> Held] /\ HeldAll(pend[r], version[r], clock) /\ faults \in Nat
      /\ worker[r] \in [Workers -> Goroutine]
  BY Replica, Zenon DEF Local
<1>1. PICK x \in Goroutine : x = worker[r][w]
  BY <1>0, Zenon
<1>2. x.todo \in SUBSET Bridges /\ x.pc = "next"
  BY <1>1, GoroutineFields, Zenon DEF WriteNext
<1>3. PICK b \in x.todo : worker' = [worker EXCEPT ![r][w] =
             IF pend[r][b].ver # 0 THEN Writing(b, pend[r][b], x.todo \ {b}, FALSE)
             ELSE IF x.todo = {b} THEN Resting ELSE [x EXCEPT !.todo = x.todo \ {b}]]
  BY <1>1, Zenon DEF WriteNext
<1>4. b \in Bridges /\ (x.todo \ {b}) \in SUBSET Bridges /\ FALSE \in BOOLEAN
  BY <1>2
<1>5. PICK y : y = IF pend[r][b].ver # 0 THEN Writing(b, pend[r][b], x.todo \ {b}, FALSE)
                   ELSE IF x.todo = {b} THEN Resting ELSE [x EXCEPT !.todo = x.todo \ {b}]
  BY Zenon
<1>6. y \in Goroutine /\ SnapOk(y, pend[r], version[r], clock)
  <2>1. CASE pend[r][b].ver # 0
    <3>1. y = Writing(b, pend[r][b], x.todo \ {b}, FALSE)
      BY <1>5, <2>1, Zenon
    <3>2. pend[r][b] \in Held /\ HeldOk(pend[r][b], version[r], clock)
      BY <1>0, <1>4, Zenon DEF HeldAll
    <3> QED
      BY <1>4, <2>1, <3>1, <3>2, SnapWriting, Zenon
  <2>2. CASE pend[r][b].ver = 0 /\ x.todo = {b}
    <3>1. y = Resting
      BY <1>5, <2>2, Zenon
    <3> QED
      BY <3>1, Rests, RestingPc, RestsSnap, Zenon
  <2>3. CASE pend[r][b].ver = 0 /\ x.todo # {b}
    <3>1. y = [x EXCEPT !.todo = x.todo \ {b}]
      BY <1>5, <2>3, Zenon
    <3>2. y \in Goroutine
      BY <1>4, <3>1, Zenon DEF Goroutine
    <3>3. y.pc = x.pc
      BY <3>1, Zenon DEF Goroutine
    <3>4. "next" \notin {"row", "record"}
      OBVIOUS
    <3> QED
      BY <1>2, <3>2, <3>3, <3>4, RestsSnap, Zenon
  <2> QED
    BY <2>1, <2>2, <2>3
<1>7. UNCHANGED <<births, got, clock, row, decl, link, record, pend, version, lookup, confirmed, took>> /\ faults' = faults
  BY DEF WriteNext, table
<1>8. worker' = [worker EXCEPT ![r][w] = y]
  BY <1>3, <1>5, Zenon
<1> QED
  BY <1>0, <1>6, <1>7, <1>8, PickKeeps, Zenon

\* After writeHeld the goroutine rests or goes on to others.
LEMMA ProceedForm ==
  ASSUME Inv, NEW r \in Replicas, NEW w \in Workers, NEW ok, NEW held, Proceed(r, w, ok, held)
  PROVE  \E x \in Goroutine : x.pc \notin {"row", "record"} /\ worker' = [worker EXCEPT ![r][w] = x]
<1>0. worker[r][w] \in Goroutine
  BY Replica, Zenon
<1> DEFINE x == worker[r][w]
           todo == CASE ~x.first -> x.todo
                     [] x.first /\ ok -> {c \in Bridges \ {x.key} : held[c].ver # 0}
                     [] OTHER -> {}
           y == IF todo = {} THEN Resting ELSE [Resting EXCEPT !.pc = "next", !.todo = todo]
<1>1. worker' = [worker EXCEPT ![r][w] = y]
  BY Zenon DEF Proceed
<1>2. todo \in SUBSET Bridges
  <2>1. x.todo \in SUBSET Bridges /\ x.first \in BOOLEAN
    BY <1>0, Zenon DEF Goroutine
  <2>2. {c \in Bridges \ {x.key} : held[c].ver # 0} \in SUBSET Bridges /\ {} \in SUBSET Bridges
    BY Zenon
  <2> QED
    BY <2>1, <2>2, Zenon
<1>3. y \in Goroutine /\ y.pc \notin {"row", "record"}
  <2>1. CASE todo = {}
    BY <2>1, Rests, RestingPc, Zenon
  <2>2. CASE todo # {}
    <3>1. PICK d \in SUBSET Bridges : d = todo
      BY <1>2, Zenon
    <3>2. y = [Resting EXCEPT !.pc = "next", !.todo = d]
      BY <2>2, <3>1, Zenon
    <3> QED
      BY <3>2, Rests, NextForm, Zenon
  <2> QED
    BY <2>1, <2>2
<1> QED
  BY <1>1, <1>3, Zenon

LEMMA CreateStep ==
  ASSUME Inv, NEW b \in Bridges, NEW h \in Held, NEW v, HeldOk(h, v, clock), CreateOrUpdateBridge(b, h), clock' = clock
  PROVE  /\ StoreOk(row', decl', link', record', clock')
         /\ Grows(row, decl, link, clock, row', decl', link', clock')
         /\ row'[b] >= h.stamp /\ decl'[b].stamp >= h.fstamp /\ link'.at >= h.at
<1>0. StoreOk(row, decl, link, record, clock)
  BY Zenon DEF Inv
<1>1. row' = RowAfter(row, b, h) /\ decl' = DeclAfter(decl, b, h) /\ link' = LinkAfter(link, b, h) /\ record' = record
  BY Zenon DEF CreateOrUpdateBridge, RowAfter, DeclAfter, LinkAfter
<1>2. Created(row, decl, link, record, clock, b, h, row', decl', link')
  BY <1>0, <1>1, CreateGrows, Zenon
<1>3. clock \in Nat
  BY <1>0, Zenon DEF StoreOk
<1>4. clock <= clock
  BY <1>3
<1> QED
  BY <1>1, <1>2, <1>4, Zenon DEF Grows, Created

LEMMA WrittenStored ==
  ASSUME NEW h \in Held, NEW s \in Held, NEW y, y = Written(h, s.ver), h.ver = s.ver => Kept(s, h),
         NEW t \in Taken, NEW ro \in Nat, NEW ds \in Nat, NEW la \in Nat,
         ro >= s.stamp, ds >= s.fstamp, la >= s.at,
         Stored(Unwritten(h), t, ro, ds, la)
  PROVE  Stored(Unwritten(y), t, ro, ds, la)
<1>0. Wrote(h, s.ver, y)
  BY WrittenForm, Zenon
<1>1. CASE h.ver # s.ver
  <2>1. y = h
    BY <1>0, <1>1, Zenon DEF Wrote
  <2> QED
    BY <2>1, Zenon
<1>2. CASE h.ver = s.ver
  <2>1. Unwritten(y) = NotHeld
    <3>1. y = NotHeld \/ y.written
      BY <1>0, <1>2, Zenon DEF Wrote
    <3> QED
      BY <3>1, Zenon DEF Unwritten
  <2>2. h.stamp = s.stamp /\ h.fstamp = s.fstamp /\ h.at = s.at
    BY <1>2, Zenon DEF Kept
  <2>3. t.stamp \in Nat /\ t.fstamp \in Nat /\ t.at \in Nat
    BY DEF Taken
  <2>4. s.stamp \in Nat /\ s.fstamp \in Nat /\ s.at \in Nat
    BY Fields, Zenon
  <2>5. Unwritten(h) = h \/ Unwritten(h) = NotHeld
    BY UnwrittenHeld, Zenon
  <2>6. ro >= t.stamp /\ ds >= t.fstamp /\ la >= t.at
    <3>1. CASE Unwritten(h) = h
      <4>1. /\ ro >= t.stamp \/ s.stamp >= t.stamp
            /\ ds >= t.fstamp \/ s.fstamp >= t.fstamp
            /\ la >= t.at \/ s.at >= t.at
        BY <2>2, <3>1, Zenon DEF Stored
      <4> QED
        BY <2>3, <2>4, <4>1
    <3>2. CASE Unwritten(h) = NotHeld
      <4>1. /\ ro >= t.stamp \/ 0 >= t.stamp
            /\ ds >= t.fstamp \/ 0 >= t.fstamp
            /\ la >= t.at \/ 0 >= t.at
        BY <3>2, Blank, Zenon DEF Stored
      <4> QED
        BY <2>3, <4>1
    <3> QED
      BY <2>5, <3>1, <3>2
  <2> QED
    BY <2>6, Zenon DEF Stored
<1> QED
  BY <1>1, <1>2

LEMMA WrittenLess ==
  ASSUME NEW h \in Held, NEW v, v # 0 PROVE Written(h, v) \in Held /\ Lessened(h, Written(h, v))
<1>1. PICK y : y = Written(h, v)
  OBVIOUS
<1>2. Wrote(h, v, y)
  BY <1>1, WrittenForm, Zenon
<1> QED
  BY <1>1, <1>2, Zenon DEF Lessened, Wrote

LEMMA RecordedLess ==
  ASSUME NEW h \in Held, NEW v, v # 0 PROVE Recorded(h, v) \in Held /\ Lessened(h, Recorded(h, v))
<1>1. PICK y : y = Recorded(h, v)
  OBVIOUS
<1>2. Records(h, v, y)
  BY <1>1, RecordedForm, Zenon
<1> QED
  BY <1>1, <1>2, Zenon DEF Lessened, Records

LEMMA RecordedStored ==
  ASSUME NEW h \in Held, NEW v, NEW y, y = Recorded(h, v), NEW t, NEW ro, NEW ds, NEW la,
         Stored(Unwritten(h), t, ro, ds, la)
  PROVE  Stored(Unwritten(y), t, ro, ds, la)
<1>0. Records(h, v, y)
  BY RecordedForm, Zenon
<1>1. CASE h.ver # v
  <2>1. y = h
    BY <1>0, <1>1, Zenon DEF Records
  <2> QED
    BY <2>1, Zenon
<1>2. CASE h.ver = v
  <2>1. (y = NotHeld /\ h.written) \/ (Kept(h, y) /\ y.written = h.written)
    BY <1>0, <1>2, Zenon DEF Records
  <2>2. CASE y = NotHeld /\ h.written
    BY <2>2, Zenon DEF Unwritten
  <2>3. CASE Kept(h, y) /\ y.written = h.written
    <3>1. CASE h.written
      BY <2>3, <3>1, Zenon DEF Unwritten
    <3>2. CASE ~h.written
      <4>1. Unwritten(y) = y /\ Unwritten(h) = h
        BY <2>3, <3>2, Zenon DEF Unwritten
      <4> QED
        BY <2>3, <4>1, Zenon DEF Stored, Kept
    <3> QED
      BY <3>1, <3>2
  <2> QED
    BY <2>1, <2>2, <2>3
<1> QED
  BY <1>1, <1>2

\* The row is written; the record is next.
ToRecord(x) == [x EXCEPT !.pc = "record"]

RowDone(P, v, c, x, b, h, s, y, P2, z) ==
    /\ P \in [Bridges -> Held] /\ x \in Goroutine /\ x.pc = "row" /\ SnapOk(x, P, v, c)
    /\ b \in Bridges /\ b = x.key /\ h \in Held /\ h = P[b] /\ s = x.snap
    /\ y = Written(h, s.ver) /\ P2 = [P EXCEPT ![b] = y] /\ z = ToRecord(x)

LEMMA RecordNext ==
  ASSUME NEW P, NEW v, NEW c, NEW x, NEW b, NEW h, NEW s, NEW y, NEW P2, NEW z,
         RowDone(P, v, c, x, b, h, s, y, P2, z)
  PROVE  z \in Goroutine /\ SnapOk(z, P2, v, c)
<1>0. /\ P \in [Bridges -> Held] /\ x \in Goroutine /\ x.pc = "row" /\ SnapOk(x, P, v, c)
      /\ b \in Bridges /\ b = x.key /\ h \in Held /\ h = P[b] /\ s = x.snap
      /\ y = Written(h, s.ver) /\ P2 = [P EXCEPT ![b] = y] /\ z = ToRecord(x)
  BY Zenon DEF RowDone
<1>1. "record" \in {"idle", "next", "row", "record"} /\ x.pc \in {"row", "record"}
  BY <1>0, Zenon
<1>2. z \in Goroutine /\ z.key = b /\ z.snap = x.snap
  BY <1>0, <1>1, Zenon DEF Goroutine, ToRecord
<1>3. /\ x.snap.ver # 0 /\ HeldOk(x.snap, v, c)
      /\ P[b].ver = x.snap.ver => Kept(x.snap, P[b]) /\ (x.snap.rec = "" => P[b].rec = "")
  BY <1>0, <1>1, Zenon DEF SnapOk
<1>4. /\ P[b].ver # x.snap.ver => y = P[b]
      /\ P[b].ver = x.snap.ver => y = NotHeld \/ (Kept(P[b], y) /\ y.written /\ y.rec = P[b].rec)
  <2>1. Wrote(h, s.ver, y)
    BY <1>0, WrittenForm, Zenon
  <2> QED
    BY <1>0, <2>1, Zenon DEF Wrote
<1>5. P2[b] = y
  BY <1>0, Zenon
<1>6. ASSUME y.ver = x.snap.ver
      PROVE  Kept(x.snap, y) /\ y.written /\ (x.snap.rec = "" => y.rec = "")
  <2>1. P[b].ver = x.snap.ver /\ y # NotHeld
    BY <1>3, <1>4, <1>6, Blank, Zenon
  <2> QED
    BY <1>3, <1>4, <2>1, Zenon DEF Kept
<1> QED
  BY <1>0, <1>2, <1>3, <1>5, <1>6, Zenon DEF SnapOk

\* What the invariant says of a goroutine that writes.
WriterAt(r, w, x, b) ==
    /\ x = worker[r][w] /\ b = x.key /\ x.snap \in Held /\ x.snap.ver # 0
    /\ HeldOk(x.snap, version[r], clock) /\ SnapOk(x, pend[r], version[r], clock)
    /\ pend[r][b] \in Held /\ took[r][b] \in Taken
    /\ Stored(Unwritten(pend[r][b]), took[r][b], row[b], decl[b].stamp, link.at)

LEMMA Writer ==
  ASSUME Inv, NEW r \in Replicas, NEW w \in Workers, worker[r][w].pc \in {"row", "record"}
  PROVE  \E x \in Goroutine, b \in Bridges : WriterAt(r, w, x, b)
<1>0. /\ pend[r] \in [Bridges -> Held] /\ worker[r] \in [Workers -> Goroutine] /\ took[r] \in [Bridges -> Taken]
      /\ Local(pend[r], version[r], worker[r], lookup[r], took[r], row, decl, link, clock)
  BY Replica, Zenon
<1>1. PICK x \in Goroutine : x = worker[r][w]
  BY <1>0, Zenon
<1>2. SnapOk(x, pend[r], version[r], clock) /\ x.snap \in Held
  BY <1>0, <1>1, GoroutineFields, Zenon DEF Local, SnapAll
<1>3. x.key \in Bridges /\ x.snap.ver # 0 /\ HeldOk(x.snap, version[r], clock)
  BY <1>1, <1>2, Zenon DEF SnapOk
<1>4. Stored(Unwritten(pend[r][x.key]), took[r][x.key], row[x.key], decl[x.key].stamp, link.at)
  BY <1>0, <1>3, Zenon DEF Local, StoredAll
<1>5. pend[r][x.key] \in Held /\ took[r][x.key] \in Taken
  BY <1>0, <1>3, Zenon
<1>6. WriterAt(r, w, x, x.key)
  BY <1>1, <1>2, <1>3, <1>4, <1>5, Zenon DEF WriterAt
<1> QED
  BY <1>3, <1>6, Zenon

\* The table has grown meanwhile.
LEMMA StoredGrows ==
  ASSUME Inv, NEW r \in Replicas, NEW b \in Bridges,
         StoreOk(row', decl', link', record', clock'),
         Grows(row, decl, link, clock, row', decl', link', clock')
  PROVE  Stored(Unwritten(pend[r][b]), took[r][b], row'[b], decl'[b].stamp, link'.at)
<1>0. /\ pend[r] \in [Bridges -> Held] /\ version[r] \in Nat
      /\ worker[r] \in [Workers -> Goroutine] /\ lookup[r] \in Lookup
      /\ took[r] \in [Bridges -> Taken] /\ StoreOk(row, decl, link, record, clock)
      /\ Local(pend[r], version[r], worker[r], lookup[r], took[r], row, decl, link, clock)
  BY Replica, Zenon
<1>1. Local(pend[r], version[r], worker[r], lookup[r], took[r], row', decl', link', clock')
  BY <1>0, LocalGrows, Zenon
<1> QED
  BY <1>1, Zenon DEF Local, StoredAll

LEMMA WriteRowKeeps ==
  ASSUME Inv, NEW r \in Replicas, NEW w \in Workers, WriteRow(r, w)
  PROVE  Inv' /\ Grows(row, decl, link, clock, row', decl', link', clock')
<1>0. worker[r][w].pc = "row" /\ worker[r][w].pc \in {"row", "record"}
  BY Zenon DEF WriteRow
<1>w. PICK x \in Goroutine, b \in Bridges : WriterAt(r, w, x, b)
  BY <1>0, Writer, Zenon
<1>1. /\ x = worker[r][w] /\ b = x.key /\ x.snap \in Held /\ x.snap.ver # 0
      /\ HeldOk(x.snap, version[r], clock) /\ SnapOk(x, pend[r], version[r], clock)
      /\ pend[r][b] \in Held /\ took[r][b] \in Taken
      /\ Stored(Unwritten(pend[r][b]), took[r][b], row[b], decl[b].stamp, link.at)
  BY <1>w, Zenon DEF WriterAt
<1>2. PICK p \in Held, t \in Taken, s \in Held : p = pend[r][b] /\ t = took[r][b] /\ s = x.snap
  BY <1>1, Zenon
<1>3. /\ births' = births /\ got' = got /\ clock' = clock /\ version' = version /\ lookup' = lookup
      /\ confirmed' = confirmed
  BY Zenon DEF WriteRow
<1>4. StoreOk(row, decl, link, record, clock) /\ faults \in Nat /\ pend[r] \in [Bridges -> Held]
      /\ took[r] \in [Bridges -> Taken] /\ worker[r] \in [Workers -> Goroutine]
  BY Replica, Zenon
<1>5. pend = [pend EXCEPT ![r] = [pend[r] EXCEPT ![b] = p]] /\ took = [took EXCEPT ![r] = [took[r] EXCEPT ![b] = t]]
  BY <1>2, <1>4, Zenon DEF Inv
\* Whatever the store did, y is held after and t2 counts as taken.
<1>6. ASSUME NEW y \in Held, NEW t2 \in Taken, NEW z \in Goroutine,
             NEW P, P = [pend[r] EXCEPT ![b] = y], NEW T, T = [took[r] EXCEPT ![b] = t2],
             pend' = [pend EXCEPT ![r] = P], took' = [took EXCEPT ![r] = T], worker' = [worker EXCEPT ![r][w] = z],
             faults' \in Nat, StoreOk(row', decl', link', record', clock'),
             Grows(row, decl, link, clock, row', decl', link', clock'),
             Lessened(pend[r][b], y), SnapOk(z, P, version[r], clock),
             Stored(Unwritten(y), t2, row'[b], decl'[b].stamp, link'.at)
      PROVE  Inv'
  <2>1. PICK W : W = [worker[r] EXCEPT ![w] = z]
    BY Zenon
  <2>2. worker' = [worker EXCEPT ![r] = W]
    BY <1>6, <2>1, Zenon
  <2>3. Steps(r, got[r], P, version[r], W, lookup[r], confirmed[r], T)
    BY <1>3, <1>6, <2>2, Still, Zenon DEF Steps
  <2> QED
    BY <1>3, <1>6, <2>1, <2>3, WorkKeeps, Zenon
<1>7. CASE /\ CreateOrUpdateBridge(b, x.snap)
           /\ pend' = [pend EXCEPT ![r][b] = Written(pend[r][b], x.snap.ver)]
           /\ \/ worker' = [worker EXCEPT ![r][w] = [x EXCEPT !.pc = "record"]]
              \/ Proceed(r, w, TRUE, [pend EXCEPT ![r][b] = Written(pend[r][b], x.snap.ver)][r])
           /\ UNCHANGED <<took, faults>>
  <2>1. /\ StoreOk(row', decl', link', record', clock')
        /\ Grows(row, decl, link, clock, row', decl', link', clock')
        /\ row'[b] >= s.stamp /\ decl'[b].stamp >= s.fstamp /\ link'.at >= s.at
    BY <1>1, <1>2, <1>3, <1>7, CreateStep, Zenon
  <2>2. PICK y : y = Written(p, s.ver)
    OBVIOUS
  <2>3. y \in Held /\ Lessened(p, y)
    BY <1>1, <1>2, <2>2, WrittenLess, Zenon
  <2>4. PICK P : P = [pend[r] EXCEPT ![b] = y]
    BY Zenon
  <2>5. pend' = [pend EXCEPT ![r] = P]
    BY <1>2, <1>7, <2>2, <2>4, Zenon
  <2>6. Stored(Unwritten(y), t, row'[b], decl'[b].stamp, link'.at)
    <3>1. p.ver = s.ver => Kept(s, p)
      BY <1>0, <1>1, <1>2, Zenon DEF SnapOk
    <3>2. Stored(Unwritten(p), t, row'[b], decl'[b].stamp, link'.at)
      BY <1>2, <2>1, StoredGrows, Zenon
    <3>3. row'[b] \in Nat /\ decl'[b].stamp \in Nat /\ link'.at \in Nat
      BY <2>1, Zenon DEF StoreOk, Declared
    <3> QED
      BY <2>1, <2>2, <3>1, <3>2, <3>3, WrittenStored, Zenon
  <2>7. PICK z \in Goroutine : worker' = [worker EXCEPT ![r][w] = z] /\ SnapOk(z, P, version[r], clock)
    <3>1. CASE worker' = [worker EXCEPT ![r][w] = [x EXCEPT !.pc = "record"]]
      <4>1. PICK z : z = ToRecord(x)
        OBVIOUS
      <4>2. PICK q \in [Bridges -> Held] : q = pend[r]
        BY <1>4, Zenon
      <4>3. p = q[b] /\ P = [q EXCEPT ![b] = y] /\ SnapOk(x, q, version[r], clock)
        BY <1>1, <1>2, <2>2, <2>4, <4>2, Zenon
      <4>4. x.pc = "row" /\ b = x.key /\ s = x.snap
        BY <1>0, <1>1, <1>2, Zenon
      <4>5. z \in Goroutine /\ SnapOk(z, P, version[r], clock)
        <5>1. RowDone(q, version[r], clock, x, b, p, s, y, P, z)
          BY <2>2, <4>1, <4>3, <4>4, Zenon DEF RowDone
        <5> QED
          BY <5>1, RecordNext, Zenon
      <4> QED
        BY <3>1, <4>1, <4>5, Zenon DEF ToRecord
    <3>2. CASE Proceed(r, w, TRUE, [pend EXCEPT ![r][b] = Written(pend[r][b], x.snap.ver)][r])
      BY <3>2, ProceedForm, RestsSnap, Zenon
    <3> QED
      BY <1>7, <3>1, <3>2, Zenon
  <2>8. PICK T : T = [took[r] EXCEPT ![b] = t]
    BY Zenon
  <2>9. took' = [took EXCEPT ![r] = T] /\ faults' = faults
    BY <1>5, <1>7, <2>8, Zenon
  <2>10. Inv'
    BY <1>2, <1>4, <1>6, <2>1, <2>3, <2>4, <2>5, <2>6, <2>7, <2>8, <2>9, Zenon
  <2> QED
    BY <2>1, <2>10
<1>8. CASE /\ Fault
           /\ pend' = [pend EXCEPT ![r][b] = Dropped(pend[r][b], x.snap.ver)]
           /\ took' = [took EXCEPT ![r][b] = IF pend[r][b].ver = x.snap.ver THEN NothingTaken ELSE took[r][b]]
           /\ Proceed(r, w, FALSE, pend[r]) /\ UNCHANGED table
  <2>1. row' = row /\ decl' = decl /\ link' = link /\ record' = record
    BY <1>8, Zenon DEF table
  <2>2. /\ StoreOk(row', decl', link', record', clock')
        /\ Grows(row, decl, link, clock, row', decl', link', clock')
    BY <1>3, <1>4, <2>1, GrowsSame, Zenon
  <2>3. PICK y : y = Dropped(p, s.ver)
    OBVIOUS
  <2>4. y \in Held /\ Lessened(p, y)
    <3>1. y = p \/ y = NotHeld
      BY <2>3, Zenon DEF Dropped
    <3> QED
      BY <3>1, Blank, Zenon DEF Lessened
  <2>5. PICK t2 : t2 = IF p.ver = s.ver THEN NothingTaken ELSE t
    OBVIOUS
  <2>6. t2 \in Taken
    BY <2>5, Blank, Zenon
  <2>7. PICK P : P = [pend[r] EXCEPT ![b] = y]
    BY Zenon
  <2>8. PICK T : T = [took[r] EXCEPT ![b] = t2]
    BY Zenon
  <2>9. pend' = [pend EXCEPT ![r] = P] /\ took' = [took EXCEPT ![r] = T]
    BY <1>2, <1>8, <2>3, <2>5, <2>7, <2>8, Zenon
  <2>10. PICK z \in Goroutine : worker' = [worker EXCEPT ![r][w] = z] /\ SnapOk(z, P, version[r], clock)
    BY <1>8, ProceedForm, RestsSnap, Zenon
  <2>11. faults' \in Nat
    BY SMTT(40), <1>4, <1>8 DEF Fault
  <2>12. Stored(Unwritten(y), t2, row'[b], decl'[b].stamp, link'.at)
    <3>1. Stored(Unwritten(p), t, row'[b], decl'[b].stamp, link'.at)
      BY <1>1, <1>2, <2>1, Zenon
    <3>2. CASE p.ver # s.ver
      <4>1. y = p /\ t2 = t
        BY <2>3, <2>5, <3>2, DroppedForm, Zenon
      <4> QED
        BY <3>1, <4>1, Zenon
    <3>3. CASE p.ver = s.ver
      <4>1. t2 = NothingTaken
        BY <2>5, <3>3, Zenon
      <4>2. row'[b] \in Nat /\ decl'[b].stamp \in Nat /\ link'.at \in Nat
        BY <2>2, Zenon DEF StoreOk, Declared
      <4>3. row'[b] >= 0 /\ decl'[b].stamp >= 0 /\ link'.at >= 0
        BY <4>2
      <4> QED
        BY <4>1, <4>3, Blank, Zenon DEF Stored
    <3> QED
      BY <3>2, <3>3
  <2>13. Inv'
    BY <1>2, <1>6, <2>2, <2>4, <2>6, <2>7, <2>8, <2>9, <2>10, <2>11, <2>12, Zenon
  <2> QED
    BY <2>2, <2>13
<1>9. CASE /\ Fault /\ Proceed(r, w, FALSE, pend[r]) /\ UNCHANGED <<pend, took>>
           /\ UNCHANGED table \/ CreateOrUpdateBridge(b, x.snap)
  <2>1. /\ StoreOk(row', decl', link', record', clock')
        /\ Grows(row, decl, link, clock, row', decl', link', clock')
    <3>1. CASE UNCHANGED table
      <4>1. row' = row /\ decl' = decl /\ link' = link /\ record' = record
        BY <3>1, Zenon DEF table
      <4> QED
        BY <1>3, <1>4, <4>1, GrowsSame, Zenon
    <3>2. CASE CreateOrUpdateBridge(b, x.snap)
      BY <1>1, <1>3, <3>2, CreateStep, Zenon
    <3> QED
      BY ZenonT(40), <1>9, <3>1, <3>2
  <2>2. PICK P : P = [pend[r] EXCEPT ![b] = p]
    BY Zenon
  <2>3. PICK T : T = [took[r] EXCEPT ![b] = t]
    BY Zenon
  <2>4. pend' = [pend EXCEPT ![r] = P] /\ took' = [took EXCEPT ![r] = T]
    BY <1>5, <1>9, <2>2, <2>3, Zenon
  <2>5. PICK z \in Goroutine : worker' = [worker EXCEPT ![r][w] = z] /\ SnapOk(z, P, version[r], clock)
    BY <1>9, ProceedForm, RestsSnap, Zenon
  <2>6. faults' \in Nat
    BY <1>4, <1>9 DEF Fault
  <2>7. Stored(Unwritten(p), t, row'[b], decl'[b].stamp, link'.at)
    BY <1>2, <2>1, StoredGrows, Zenon
  <2>8. Lessened(pend[r][b], p)
    BY <1>2, Zenon DEF Lessened
  <2>9. Inv'
    BY <1>2, <1>6, <2>1, <2>2, <2>3, <2>4, <2>5, <2>6, <2>7, <2>8, Zenon
  <2> QED
    BY <2>1, <2>9
<1> QED
  BY <1>1, <1>7, <1>8, <1>9, Zenon DEF WriteRow

LEMMA WriteRecordKeeps ==
  ASSUME Inv, NEW r \in Replicas, NEW w \in Workers, WriteRecord(r, w)
  PROVE  Inv' /\ Grows(row, decl, link, clock, row', decl', link', clock')
<1>0. worker[r][w].pc = "record" /\ worker[r][w].pc \in {"row", "record"}
  BY Zenon DEF WriteRecord
<1>w. PICK x \in Goroutine, b \in Bridges : WriterAt(r, w, x, b)
  BY <1>0, Writer, Zenon
<1>1. /\ x = worker[r][w] /\ b = x.key /\ x.snap \in Held /\ x.snap.ver # 0
      /\ pend[r][b] \in Held /\ took[r][b] \in Taken
      /\ Stored(Unwritten(pend[r][b]), took[r][b], row[b], decl[b].stamp, link.at)
  BY <1>w, Zenon DEF WriterAt
<1>2. PICK p \in Held, t \in Taken, s \in Held : p = pend[r][b] /\ t = took[r][b] /\ s = x.snap
  BY <1>1, Zenon
<1>3. /\ births' = births /\ got' = got /\ clock' = clock /\ version' = version /\ lookup' = lookup
      /\ confirmed' = confirmed /\ took' = took
  BY Zenon DEF WriteRecord
<1>4. StoreOk(row, decl, link, record, clock) /\ faults \in Nat /\ pend[r] \in [Bridges -> Held]
      /\ took[r] \in [Bridges -> Taken] /\ worker[r] \in [Workers -> Goroutine]
  BY Replica, Zenon
<1>5. pend = [pend EXCEPT ![r] = [pend[r] EXCEPT ![b] = p]] /\ took = [took EXCEPT ![r] = [took[r] EXCEPT ![b] = t]]
  BY <1>2, <1>4, Zenon DEF Inv
<1>6. /\ StoreOk(row', decl', link', record', clock')
      /\ Grows(row, decl, link, clock, row', decl', link', clock')
      /\ row' = row /\ decl' = decl /\ link' = link
  <2>1. (row' = row /\ decl' = decl /\ link' = link /\ record' = record) \/ SetDeviceEgress(b, x.snap)
    BY <1>1, Zenon DEF WriteRecord, table
  <2>2. CASE row' = row /\ decl' = decl /\ link' = link /\ record' = record
    BY <1>3, <1>4, <2>2, GrowsSame, Zenon
  <2>3. CASE SetDeviceEgress(b, x.snap)
    <3>1. row' = row /\ decl' = decl /\ link' = link
      BY <2>3, Zenon DEF SetDeviceEgress
    <3>2. PICK f : f = IF decl[b].format # "" THEN decl[b].format ELSE x.snap.rec
      BY Zenon
    <3>3. decl[b].format \in Words
      BY <1>4, Zenon DEF StoreOk, Declared, Words
    <3>4. f \in Words
      BY <1>1, <3>2, <3>3, Fields, Zenon
    <3>5. record' = [by |-> b, format |-> f]
      BY <2>3, <3>2, Zenon DEF SetDeviceEgress
    <3>6. record' \in [by : Owners, format : Words]
      BY <3>4, <3>5 DEF Owners
    <3>7. StoreOk(row', decl', link', record', clock')
      BY <1>3, <1>4, <3>1, <3>6, Zenon DEF StoreOk
    <3> QED
      BY <1>3, <1>4, <3>1, <3>7, GrowsSame, Zenon
  <2> QED
    BY <2>1, <2>2, <2>3
<1>7. PICK y \in Held : /\ Lessened(pend[r][b], y) /\ Stored(Unwritten(y), t, row'[b], decl'[b].stamp, link'.at)
                        /\ pend' = [pend EXCEPT ![r] = [pend[r] EXCEPT ![b] = y]]
  <2>1. CASE pend' = pend
    BY <1>1, <1>2, <1>5, <1>6, <2>1, Zenon DEF Lessened
  <2>2. CASE pend' = [pend EXCEPT ![r][b] = Recorded(pend[r][b], x.snap.ver)]
    <3>1. PICK y : y = Recorded(p, s.ver)
      OBVIOUS
    <3>2. y \in Held /\ Lessened(p, y)
      BY <1>1, <1>2, <3>1, RecordedLess, Zenon
    <3>3. Stored(Unwritten(p), t, row'[b], decl'[b].stamp, link'.at)
      BY <1>1, <1>2, <1>6, Zenon
    <3>4. Stored(Unwritten(y), t, row'[b], decl'[b].stamp, link'.at)
      BY <3>1, <3>3, RecordedStored, ZenonT(60)
    <3>5. pend' = [pend EXCEPT ![r] = [pend[r] EXCEPT ![b] = y]]
      BY <1>2, <2>2, <3>1, Zenon
    <3> QED
      BY <1>2, <3>2, <3>4, <3>5, Zenon
  <2> QED
    BY <1>1, <2>1, <2>2, Zenon DEF WriteRecord
<1>8. PICK P : P = [pend[r] EXCEPT ![b] = y]
  BY Zenon
<1>9. PICK T : T = [took[r] EXCEPT ![b] = t]
  BY Zenon
<1>10. PICK z \in Goroutine : worker' = [worker EXCEPT ![r][w] = z] /\ z.pc \notin {"row", "record"}
  BY ProceedForm, Zenon DEF WriteRecord
<1>11. PICK W : W = [worker[r] EXCEPT ![w] = z]
  BY Zenon
<1>12. faults' \in Nat
  <2>1. faults' = faults \/ faults' = faults + 1
    BY Zenon DEF WriteRecord, Fault
  <2> QED
    BY <1>4, <2>1
<1>13. Steps(r, got[r], P, version[r], W, lookup[r], confirmed[r], T)
  <2>1. pend' = [pend EXCEPT ![r] = P] /\ took' = [took EXCEPT ![r] = T] /\ worker' = [worker EXCEPT ![r] = W]
    BY <1>3, <1>5, <1>7, <1>8, <1>9, <1>10, <1>11, Zenon
  <2> QED
    BY <1>3, <1>12, <2>1, Still, Zenon DEF Steps
<1>14. SnapOk(z, P, version[r], clock)
  BY <1>10, RestsSnap, Zenon
<1>15. Inv'
  BY <1>3, <1>6, <1>7, <1>8, <1>9, <1>11, <1>13, <1>14, WorkKeeps, Zenon
<1> QED
  BY <1>6, <1>15
-----------------------------------------------------------------------------
(* Device births, restarts, births published *)

LEMMA DeviceBirthKeeps ==
  ASSUME Inv, NEW r \in Replicas, NEW b \in Bridges, DeviceBirth(r, b)
  PROVE  Inv' /\ Grows(row, decl, link, clock, row', decl', link', clock')
<1>0. /\ got[r] \in [Bridges -> Nat] /\ pend[r] \in [Bridges -> Held] /\ version[r] \in Nat
      /\ worker[r] \in [Workers -> Goroutine] /\ lookup[r] \in Lookup /\ confirmed[r] \in Confirmed
      /\ took[r] \in [Bridges -> Taken] /\ faults \in Nat
      /\ StoreOk(row, decl, link, record, clock)
      /\ Local(pend[r], version[r], worker[r], lookup[r], took[r], row, decl, link, clock)
  BY Replica, Zenon
<1>1. /\ births' = births /\ got' = got /\ row' = row /\ decl' = decl /\ record' = record /\ pend' = pend
      /\ version' = version /\ worker' = worker /\ lookup' = lookup /\ confirmed' = confirmed /\ took' = took
      /\ faults' = faults
  BY Zenon DEF DeviceBirth
<1>2. clock' = clock + 1 /\ link' = [owner |-> b, at |-> clock']
  BY Zenon DEF DeviceBirth
<1>3. clock \in Nat /\ link.at <= clock /\ link.at \in Nat
  BY <1>0, Zenon DEF StoreOk
<1>4. /\ link' \in [owner : Owners, at : Nat] /\ link'.at <= clock' /\ clock' \in Nat /\ clock <= clock'
      /\ link.at <= link'.at
  <2>1. PICK n \in Nat : n = clock + 1 /\ clock <= n /\ link.at <= n /\ n <= n
    BY <1>3
  <2>2. link' = [owner |-> b, at |-> n] /\ clock' = n
    BY <1>2, <2>1, Zenon
  <2>3. link' \in [owner : Owners, at : Nat] /\ link'.at = n
    BY <2>2 DEF Owners
  <2> QED
    BY <2>1, <2>2, <2>3, Zenon
<1>5. StoreOk(row', decl', link', record', clock')
  BY <1>0, <1>1, <1>4, Zenon DEF StoreOk
<1>6. Grows(row, decl, link, clock, row', decl', link', clock')
  <2>1. Grows(row, decl, link, clock, row, decl, link, clock)
    BY <1>0, GrowsSame, Zenon
  <2> QED
    BY <1>1, <1>4, <2>1, Zenon DEF Grows
<1>7. Local(pend[r], version[r], worker[r], lookup[r], took[r], row', decl', link', clock')
  BY <1>0, <1>5, <1>6, LocalGrows, Zenon
<1>8. Steps(r, got[r], pend[r], version[r], worker[r], lookup[r], confirmed[r], took[r])
  BY <1>0, <1>1, Still, Zenon DEF Steps
<1>9. Inv'
  BY <1>0, <1>5, <1>6, <1>7, <1>8, Assemble, Zenon
<1> QED
  BY <1>6, <1>9

LEMMA RetainedNat == ASSUME Inv PROVE Retained \in [Bridges -> Nat]
<1>1. ASSUME NEW b \in Bridges PROVE (IF births[b] = <<>> THEN 0 ELSE Len(births[b]) - 1) \in Nat
  <2>1. births[b] \in Seq(Kinds)
    BY Zenon DEF Inv
  <2>2. Len(births[b]) \in Nat /\ (births[b] # <<>> => Len(births[b]) # 0)
    BY <2>1
  <2>3. PICK n \in Nat : n = Len(births[b])
    BY <2>2, Zenon
  <2>4. n # 0 => n - 1 \in Nat
    OBVIOUS
  <2>5. 0 \in Nat
    OBVIOUS
  <2> QED
    BY <2>2, <2>3, <2>4, <2>5, Zenon
<1> QED
  BY <1>1, Zenon DEF Retained

LEMMA IdleLookup == NoLookup \in Lookup /\ NoLookup.pc = "idle" /\ NoLookup.behind = 0
<1>1. [b \in Bridges |-> 0] \in [Bridges -> Nat]
  OBVIOUS
<1> QED
  BY <1>1, Blank, Zenon DEF NoLookup, Lookup, Owners

LEMMA IdleOk == ASSUME NEW x, x.pc = "idle", x.behind = 0, NEW de PROVE LookOk(x, de)
BY DEF LookOk

LEMMA RestartKeeps ==
  ASSUME Inv, NEW r \in Replicas, Restart(r)
  PROVE  Inv' /\ Grows(row, decl, link, clock, row', decl', link', clock')
<1>0. faults \in Nat /\ StoreOk(row, decl, link, record, clock)
  BY Replica, Zenon
<1>1. /\ births' = births /\ clock' = clock /\ row' = row /\ decl' = decl /\ link' = link /\ record' = record
  BY Zenon DEF Restart, table
<1>2. PICK P : P = [b \in Bridges |-> NotHeld]
  BY Zenon
<1>3. PICK W : W = [w \in Workers |-> Resting]
  BY Zenon
<1>4. PICK T : T = [b \in Bridges |-> NothingTaken]
  BY Zenon
<1>5. PICK K : K = [owner |-> None, format |-> ""]
  BY Zenon
<1>6. /\ P \in [Bridges -> Held] /\ W \in [Workers -> Goroutine] /\ T \in [Bridges -> Taken]
      /\ \A b \in Bridges : P[b] = NotHeld /\ T[b] = NothingTaken
      /\ \A w \in Workers : W[w] = Resting
  BY <1>2, <1>3, <1>4, Blank, Rests, Zenon
<1>7. K \in Confirmed /\ 0 \in Nat
  BY <1>5, Strings, Zenon DEF Confirmed, Owners
<1>8. faults' \in Nat
  <2>1. faults' = faults + 1
    BY Zenon DEF Restart, Fault
  <2> QED
    BY <1>0, <2>1
<1>9. Steps(r, Retained, P, 0, W, NoLookup, K, T)
  BY <1>1, <1>2, <1>3, <1>4, <1>5, <1>8, Zenon DEF Steps, Restart
<1>10. clock \in Nat /\ \A b \in Bridges : row[b] >= 0 /\ decl[b].stamp >= 0 /\ link.at >= 0
  <2>1. clock \in Nat /\ link.at \in Nat /\ \A b \in Bridges : row[b] \in Nat /\ decl[b].stamp \in Nat
    BY <1>0, Zenon DEF StoreOk, Declared
  <2> QED
    BY <2>1
<1>11. HeldAll(P, 0, clock)
  BY <1>6, <1>7, <1>10, NotHeldOk, Zenon DEF HeldAll
<1>12. StoredAll(P, T, row, decl, link)
  BY <1>6, <1>10, Blank, Zenon DEF StoredAll, Stored
<1>13. SnapAll(W, P, 0, clock)
  BY <1>6, RestingPc, Zenon DEF SnapAll, SnapOk
<1>14. LookOk(NoLookup, decl)
  BY IdleLookup, IdleOk, Zenon
<1>15. Local(P, 0, W, NoLookup, T, row', decl', link', clock')
  BY <1>1, <1>11, <1>12, <1>13, <1>14, Zenon DEF Local
<1>16. Grows(row, decl, link, clock, row', decl', link', clock') /\ StoreOk(row', decl', link', record', clock')
  BY <1>0, <1>1, GrowsSame, Zenon
<1>17. Inv'
  BY <1>6, <1>7, <1>9, <1>15, <1>16, IdleLookup, RetainedNat, Assemble, Zenon
<1> QED
  BY <1>16, <1>17

\* The steps that leave the store and what is held alone.
LEMMA QuietKeeps ==
  ASSUME Inv, NEW r \in Replicas, NEW G \in [Bridges -> Nat], NEW L \in Lookup, NEW K \in Confirmed, LookOk(L, decl),
         births' = births, clock' = clock, row' = row, decl' = decl, link' = link, record' = record, pend' = pend,
         version' = version, worker' = worker, took' = took, faults' \in Nat,
         got' = [got EXCEPT ![r] = G], lookup' = [lookup EXCEPT ![r] = L], confirmed' = [confirmed EXCEPT ![r] = K]
  PROVE  Inv' /\ Grows(row, decl, link, clock, row', decl', link', clock')
<1>0. /\ pend[r] \in [Bridges -> Held] /\ version[r] \in Nat
      /\ worker[r] \in [Workers -> Goroutine] /\ took[r] \in [Bridges -> Taken]
      /\ StoreOk(row, decl, link, record, clock)
      /\ Local(pend[r], version[r], worker[r], lookup[r], took[r], row, decl, link, clock)
  BY Replica, Zenon
<1>1. Local(pend[r], version[r], worker[r], L, took[r], row', decl', link', clock')
  BY <1>0, Zenon DEF Local
<1>2. Steps(r, G, pend[r], version[r], worker[r], L, K, took[r])
  BY Still, Zenon DEF Steps
<1>3. Grows(row, decl, link, clock, row', decl', link', clock') /\ StoreOk(row', decl', link', record', clock')
  BY <1>0, GrowsSame, Zenon
<1>4. Inv'
  BY <1>0, <1>1, <1>2, <1>3, Assemble, Zenon
<1> QED
  BY <1>3, <1>4

LEMMA ResubscribeKeeps ==
  ASSUME Inv, NEW r \in Replicas, Resubscribe(r)
  PROVE  Inv' /\ Grows(row, decl, link, clock, row', decl', link', clock')
<1>0. /\ lookup[r] \in Lookup /\ confirmed[r] \in Confirmed /\ LookOk(lookup[r], decl) /\ faults \in Nat
  BY Replica, Zenon DEF Local
<1>1. /\ births' = births /\ clock' = clock /\ row' = row /\ decl' = decl /\ link' = link /\ record' = record
      /\ pend' = pend /\ version' = version /\ worker' = worker /\ took' = took
      /\ lookup' = lookup /\ confirmed' = confirmed /\ got' = [got EXCEPT ![r] = Retained]
  BY Zenon DEF Resubscribe, table
<1>2. faults' \in Nat
  <2>1. faults' = faults + 1
    BY Zenon DEF Resubscribe, Fault
  <2> QED
    BY <1>0, <2>1
<1>3. lookup' = [lookup EXCEPT ![r] = lookup[r]] /\ confirmed' = [confirmed EXCEPT ![r] = confirmed[r]]
  BY <1>1, Still, Zenon
<1> QED
  BY <1>0, <1>1, <1>2, <1>3, RetainedNat, QuietKeeps, Zenon

LEMMA PublishKeeps ==
  ASSUME Inv, NEW s \in Says, Publish(s[1], s[2])
  PROVE  Inv' /\ Grows(row, decl, link, clock, row', decl', link', clock')
<1>1. s[1] \in Bridges /\ s[2] \in Kinds
  BY EgressAssumption
<1>2. births \in [Bridges -> Seq(Kinds)]
  BY Zenon DEF Inv
<1>3. Append(births[s[1]], s[2]) \in Seq(Kinds)
  BY <1>1, <1>2
<1>4. births' \in [Bridges -> Seq(Kinds)]
  BY <1>1, <1>2, <1>3, Zenon DEF Publish
<1>5. /\ got' = got /\ clock' = clock /\ row' = row /\ decl' = decl /\ link' = link /\ record' = record
      /\ pend' = pend /\ version' = version /\ worker' = worker /\ lookup' = lookup /\ confirmed' = confirmed
      /\ took' = took /\ faults' = faults
  BY Zenon DEF Publish, table
<1>6. Inv'
  BY <1>4, <1>5, Zenon DEF Inv
<1>7. StoreOk(row, decl, link, record, clock)
  BY Zenon DEF Inv
<1> QED
  BY <1>5, <1>6, <1>7, GrowsSame, Zenon
-----------------------------------------------------------------------------
(* The lookup *)

\* The lookup goes on as x or ends as x, and what it knows stays covered.
Goes(r) == \E x \in Lookup : LookOk(x, decl) /\ lookup' = [lookup EXCEPT ![r] = x]

LEMMA LookFields ==
  ASSUME NEW x \in Lookup
  PROVE  /\ x.by \in Owners /\ x.held \in Declared /\ x.owner \in Owners /\ x.floor \in [Bridges -> Nat]
         /\ x.held.stamp \in Nat /\ \A b \in Bridges : x.floor[b] \in Nat
BY Zenon DEF Lookup, Declared

LEMMA AnswerGoes ==
  ASSUME Inv, NEW r \in Replicas, NEW says, NEW of, NEW stamp, Answer(r, says, of, stamp),
         ~(says \in {"plain", "none"} /\ of # None /\ lookup[r].floor[of] > stamp)
  PROVE  Goes(r)
<1>1. PICK x : x = [NoLookup EXCEPT !.behind = 0]
  BY Zenon
<1>2. x \in Lookup /\ x.pc = "idle" /\ x.behind = 0
  BY <1>1, IdleLookup DEF Lookup
<1>3. lookup' = [lookup EXCEPT ![r] = x]
  BY <1>1, Zenon DEF Answer, Look
<1> QED
  BY <1>2, <1>3, IdleOk, Zenon DEF Goes

LEMMA UnavailableGoes ==
  ASSUME Inv, NEW r \in Replicas, NEW owner, Unavailable(r, owner)
  PROVE  Goes(r)
<1>1. "sealed" \notin {"plain", "none"} /\ "unavailable" \notin {"plain", "none"}
  OBVIOUS
<1>2. Answer(r, "sealed", confirmed[r].owner, 0) \/ Answer(r, "unavailable", None, 0)
  BY Zenon DEF Unavailable
<1> QED
  BY <1>1, <1>2, AnswerGoes, Zenon

LEMMA LooksKeep ==
  ASSUME Inv, NEW r \in Replicas, NEW K \in Confirmed, Goes(r), confirmed' = [confirmed EXCEPT ![r] = K],
         births' = births, got' = got, clock' = clock, row' = row, decl' = decl, link' = link, record' = record,
         pend' = pend, version' = version, worker' = worker, took' = took, faults' = faults \/ Fault
  PROVE  Inv' /\ Grows(row, decl, link, clock, row', decl', link', clock')
<1>0. got[r] \in [Bridges -> Nat] /\ faults \in Nat
  BY Replica, Zenon
<1>1. PICK x \in Lookup : LookOk(x, decl) /\ lookup' = [lookup EXCEPT ![r] = x]
  BY Zenon DEF Goes
<1>2. faults' \in Nat
  <2>1. faults' = faults \/ faults' = faults + 1
    BY Zenon DEF Fault
  <2> QED
    BY <1>0, <2>1
<1>3. got' = [got EXCEPT ![r] = got[r]]
  BY Still, Zenon
<1> QED
  BY <1>0, <1>1, <1>2, <1>3, QuietKeeps, Zenon

LEMMA AskKeeps ==
  ASSUME Inv, NEW r \in Replicas, Ask(r)
  PROVE  Inv' /\ Grows(row, decl, link, clock, row', decl', link', clock')
<1>0. /\ pend[r] \in [Bridges -> Held] /\ HeldAll(pend[r], version[r], clock) /\ confirmed[r] \in Confirmed
      /\ StoreOk(row, decl, link, record, clock)
  BY Replica, Zenon DEF Local
<1>1. ASSUME NEW b \in Bridges
      PROVE  /\ pend[r][b] \in Held /\ pend[r][b].fstamp \in Nat /\ pend[r][b].format \in Words
             /\ decl[b].stamp \in Nat /\ Floor(r)[b] = Newer(decl[b].stamp, pend[r][b].fstamp)
             /\ Floor(r)[b] \in Nat /\ (b \notin Declaring(r) => pend[r][b].fstamp = 0)
  <2>1. pend[r][b] \in Held /\ HeldOk(pend[r][b], version[r], clock)
    BY <1>0, Zenon DEF HeldAll
  <2>2. pend[r][b].fstamp \in Nat /\ pend[r][b].format \in Words
    BY <2>1, Fields, Zenon
  <2>3. decl[b].stamp \in Nat
    BY <1>0, Zenon DEF StoreOk, Declared
  <2>4. Floor(r)[b] = Newer(decl[b].stamp, pend[r][b].fstamp)
    BY Zenon DEF Floor
  <2>5. Floor(r)[b] \in Nat
    BY <2>2, <2>3, <2>4, NewerNat, Zenon
  <2>6. b \notin Declaring(r) => pend[r][b].fstamp = 0
    <3>1. b \notin Declaring(r) => pend[r][b].ver = 0 \/ pend[r][b].format = ""
      BY Zenon DEF Declaring, Keys
    <3> QED
      BY <2>1, <3>1, Blank, Zenon DEF HeldOk
  <2> QED
    BY <2>1, <2>2, <2>3, <2>4, <2>5, <2>6
<1>2. PICK F \in [Bridges -> Nat] : F = Floor(r)
  BY <1>1, Zenon DEF Floor
<1>3. Goes(r)
  <2>1. CASE Declaring(r) = {} /\ Look(r, [NoLookup EXCEPT !.pc = "owner", !.floor = Floor(r)])
    <3>1. PICK x : x = [NoLookup EXCEPT !.pc = "owner", !.floor = F]
      OBVIOUS
    <3>2. x \in Lookup /\ x.pc = "owner" /\ x.behind = 0 /\ x.floor = F /\ x.by = None
      BY <3>1, IdleLookup, Zenon DEF Lookup, NoLookup
    <3>3. \A b \in Bridges : F[b] <= decl[b].stamp
      <4> SUFFICES ASSUME NEW b \in Bridges PROVE F[b] <= decl[b].stamp
        OBVIOUS
      <4>1. F[b] = Newer(decl[b].stamp, 0) /\ decl[b].stamp \in Nat
        BY <1>1, <1>2, <2>1, Zenon
      <4> QED
        BY <4>1 DEF Newer
    <3>4. LookOk(x, decl)
      BY <3>2, <3>3 DEF LookOk
    <3>5. lookup' = [lookup EXCEPT ![r] = x]
      BY <1>2, <2>1, <3>1, Zenon DEF Look
    <3> QED
      BY <3>2, <3>4, <3>5, Zenon DEF Goes
  <2>2. ASSUME NEW b \in Bridges, Latest(r, b),
               Look(r, [NoLookup EXCEPT !.pc = "owner", !.floor = Floor(r), !.by = b,
                            !.held = [format |-> pend[r][b].format, stamp |-> pend[r][b].fstamp]])
        PROVE  Goes(r)
    <3>1. PICK d : d = [format |-> pend[r][b].format, stamp |-> pend[r][b].fstamp]
      BY Zenon
    <3>2. d \in Declared /\ d.stamp = pend[r][b].fstamp
      BY <1>1, <3>1, Zenon DEF Declared, Words
    <3>3. PICK x : x = [NoLookup EXCEPT !.pc = "owner", !.floor = F, !.by = b, !.held = d]
      OBVIOUS
    <3>4. x \in Lookup /\ x.pc = "owner" /\ x.behind = 0 /\ x.floor = F /\ x.by = b /\ x.held = d
      BY <3>2, <3>3, IdleLookup, Zenon DEF Lookup, Owners
    <3>5. F[b] <= decl[b].stamp \/ F[b] <= d.stamp
      <4>1. F[b] = Newer(decl[b].stamp, d.stamp) /\ decl[b].stamp \in Nat /\ d.stamp \in Nat
        BY <1>1, <1>2, <3>2, Zenon
      <4> QED
        BY <4>1 DEF Newer
    <3>6. LookOk(x, decl)
      BY <3>4, <3>5, EgressAssumption DEF LookOk
    <3>7. lookup' = [lookup EXCEPT ![r] = x]
      BY <1>2, <2>2, <3>1, <3>3, Zenon DEF Look
    <3> QED
      BY <3>4, <3>6, <3>7, Zenon DEF Goes
  <2> QED
    BY <2>1, <2>2, Zenon DEF Ask
<1>4. /\ births' = births /\ got' = got /\ clock' = clock /\ row' = row /\ decl' = decl /\ link' = link
      /\ record' = record /\ pend' = pend /\ version' = version /\ worker' = worker /\ took' = took
      /\ confirmed' = confirmed /\ faults' = faults
  BY Zenon DEF Ask, table
<1>5. confirmed' = [confirmed EXCEPT ![r] = confirmed[r]]
  BY <1>4, Still, Zenon
<1> QED
  BY <1>0, <1>3, <1>4, <1>5, LooksKeep, Zenon

LEMMA ReadOwnerKeeps ==
  ASSUME Inv, NEW r \in Replicas, ReadOwner(r)
  PROVE  Inv' /\ Grows(row, decl, link, clock, row', decl', link', clock')
<1>0. /\ lookup[r] \in Lookup /\ confirmed[r] \in Confirmed /\ LookOk(lookup[r], decl)
      /\ StoreOk(row, decl, link, record, clock)
  BY Replica, Zenon DEF Local
<1>1. PICK x \in Lookup : x = lookup[r]
  BY <1>0, Zenon
<1>2. x.pc = "owner" /\ x.by \in Owners /\ link.owner \in Owners
  BY <1>0, <1>1, LookFields, Zenon DEF ReadOwner, StoreOk
<1>3. "sealed" \notin {"plain", "none"} /\ "unavailable" \notin {"plain", "none"}
  OBVIOUS
<1>4. ASSUME Answer(r, "unavailable", None, 0) \/ Answer(r, "none", None, 0)
      PROVE  Goes(r)
  <2>1. ASSUME NEW says, Answer(r, says, None, 0) PROVE Goes(r)
    BY <2>1, AnswerGoes, Zenon
  <2> QED
    BY <1>4, <2>1
<1>5. ASSUME Answer(r, "sealed", x.by, x.held.stamp)
      PROVE  Goes(r)
  BY <1>3, <1>5, AnswerGoes, Zenon
<1>6. ASSUME Unavailable(r, None)
      PROVE  Goes(r)
  BY <1>6, UnavailableGoes, Zenon
<1>7. ASSUME /\ ~(x.by # None /\ link.owner \notin {None, x.by}) /\ ~(x.by = None /\ link.owner = None)
             /\ Look(r, [x EXCEPT !.pc = "entry", !.owner = link.owner])
      PROVE  Goes(r)
  <2>1. PICK y : y = [x EXCEPT !.pc = "entry", !.owner = link.owner]
    OBVIOUS
  <2>2. /\ y \in Lookup /\ y.pc = "entry" /\ y.owner = link.owner /\ y.by = x.by /\ y.held = x.held
        /\ y.floor = x.floor /\ y.behind = x.behind
    <3>1. PICK o \in Owners : o = link.owner
      BY <1>2, Zenon
    <3>2. y = [x EXCEPT !.pc = "entry", !.owner = o]
      BY <2>1, <3>1, Zenon
    <3> QED
      BY <3>1, <3>2, Zenon DEF Lookup
  <2>3. y.by = None => y.owner \in Bridges
    BY <1>2, <1>7, <2>2 DEF Owners
  <2>4. LookOk(x, decl)
    BY <1>0, <1>1, Zenon
  <2>5. LookOk(y, decl)
    BY <1>2, <2>2, <2>3, <2>4 DEF LookOk
  <2>6. lookup' = [lookup EXCEPT ![r] = y]
    BY <1>7, <2>1, Zenon DEF Look
  <2> QED
    BY <2>2, <2>5, <2>6, Zenon DEF Goes
<1>8. Goes(r)
  <2>1. \/ CASE x.by # None /\ link.owner \notin {None, x.by} -> Answer(r, "unavailable", None, 0)
             [] x.by = None /\ link.owner = None -> Answer(r, "none", None, 0)
             [] OTHER -> Look(r, [x EXCEPT !.pc = "entry", !.owner = link.owner])
        \/ Answer(r, "sealed", x.by, x.held.stamp) \/ Unavailable(r, None)
    BY <1>1, Zenon DEF ReadOwner
  <2>2. CASE x.by # None /\ link.owner \notin {None, x.by}
    BY <1>4, <1>5, <1>6, <2>1, <2>2, Zenon
  <2>3. CASE x.by = None /\ link.owner = None
    BY <1>4, <1>5, <1>6, <2>1, <2>3, Zenon
  <2>4. CASE ~(x.by # None /\ link.owner \notin {None, x.by}) /\ ~(x.by = None /\ link.owner = None)
    BY <1>5, <1>6, <1>7, <2>1, <2>4, Zenon
  <2> QED
    BY <2>2, <2>3, <2>4, Zenon
<1>9. /\ births' = births /\ got' = got /\ clock' = clock /\ row' = row /\ decl' = decl /\ link' = link
      /\ record' = record /\ pend' = pend /\ version' = version /\ worker' = worker /\ took' = took
      /\ confirmed' = confirmed /\ (faults' = faults \/ Fault)
  BY Zenon DEF ReadOwner, table
<1>10. confirmed' = [confirmed EXCEPT ![r] = confirmed[r]]
  BY <1>9, Still, Zenon
<1> QED
  BY <1>0, <1>8, <1>9, <1>10, LooksKeep, Zenon

LEMMA ConfirmedRecord ==
  ASSUME NEW o \in Owners, NEW f \in Words PROVE [owner |-> o, format |-> f] \in Confirmed
BY DEF Confirmed

LEMMA ReadEntryKeeps ==
  ASSUME Inv, NEW r \in Replicas, ReadEntry(r)
  PROVE  Inv' /\ Grows(row, decl, link, clock, row', decl', link', clock')
<1>0. /\ lookup[r] \in Lookup /\ confirmed[r] \in Confirmed /\ LookOk(lookup[r], decl)
      /\ StoreOk(row, decl, link, record, clock)
  BY Replica, Zenon DEF Local
<1>1. PICK x \in Lookup : x = lookup[r]
  BY <1>0, Zenon
<1>2. x.pc = "entry" /\ x.by \in Owners /\ x.held.stamp \in Nat /\ LookOk(x, decl)
  BY <1>0, <1>1, LookFields, Zenon DEF ReadEntry
<1>3. "sealed" \notin {"plain", "none"}
  OBVIOUS
<1>4. PICK b \in Bridges : b = IF x.by # None THEN x.by ELSE x.owner
  BY <1>2 DEF LookOk, Owners
<1>5. PICK e \in Declared : e = decl[b]
  BY <1>0, Zenon DEF StoreOk
<1>6. e.stamp \in Nat /\ e.format \in Words /\ (e.format = "" => e.stamp = 0) /\ x.floor[b] \in Nat
  <2>1. e.stamp \in Nat /\ e.format \in Words
    BY Zenon DEF Declared, Words
  <2>2. e.format = "" => e.stamp = 0
    BY <1>0, <1>5, Zenon DEF StoreOk
  <2> QED
    BY <2>1, <2>2, LookFields, Zenon
<1>n. PICK n \in Nat, m \in Nat, k \in Nat : n = x.floor[b] /\ m = x.held.stamp /\ k = e.stamp
  BY <1>2, <1>6, Zenon
<1>7. /\ x.by = None => b = x.owner /\ n <= k
      /\ x.by # None => n <= k \/ n <= m
  BY ZenonT(40), <1>2, <1>4, <1>5, <1>n DEF LookOk
<1>8. ASSUME /\ e.format # "" /\ (x.by = None \/ e.stamp > x.held.stamp)
             /\ Answer(r, e.format, b, e.stamp)
      PROVE  Goes(r)
  <2>1. n <= k \/ (n <= m /\ k > m)
    BY <1>7, <1>8, <1>n, Zenon
  <2>2. ~(n > k)
    BY <2>1
  <2> QED
    BY <1>1, <1>8, <1>n, <2>2, AnswerGoes, Zenon
<1>9. ASSUME /\ ~(e.format # "" /\ (x.by = None \/ e.stamp > x.held.stamp)) /\ x.by # None
             /\ Answer(r, x.held.format, b, x.held.stamp)
      PROVE  Goes(r)
  <2>1. (k = 0 \/ ~(k > m)) /\ (n <= k \/ n <= m)
    BY <1>6, <1>7, <1>9, <1>n, Zenon
  <2>2. ~(n > m)
    BY <2>1
  <2> QED
    BY <1>1, <1>9, <1>n, <2>2, AnswerGoes, Zenon
<1>10. ASSUME /\ ~(e.format # "" /\ (x.by = None \/ e.stamp > x.held.stamp)) /\ x.by = None
              /\ Look(r, [x EXCEPT !.pc = "record"])
       PROVE  Goes(r)
  <2>1. k = 0 /\ b = x.owner /\ n <= k
    BY <1>6, <1>7, <1>10, <1>n, Zenon
  <2>2. n = 0
    BY <2>1
  <2>3. PICK y : y = [x EXCEPT !.pc = "record"]
    BY Zenon
  <2>4. y \in Lookup /\ y.pc = "record" /\ y.owner = x.owner /\ y.floor = x.floor /\ y.behind = x.behind
    BY ZenonT(40), <2>3 DEF Lookup
  <2>5. LookOk(y, decl)
    BY <1>2, <1>n, <2>1, <2>2, <2>4 DEF LookOk
  <2>6. lookup' = [lookup EXCEPT ![r] = y]
    BY <1>10, <2>3, Zenon DEF Look
  <2> QED
    BY <2>4, <2>5, <2>6, Zenon DEF Goes
<1>11. ASSUME Answer(r, "sealed", b, x.held.stamp)
       PROVE  Goes(r)
  BY <1>3, <1>11, AnswerGoes, Zenon
<1>12. ASSUME Unavailable(r, x.owner)
       PROVE  Goes(r)
  BY <1>12, UnavailableGoes, Zenon
<1>13. Goes(r)
  <2>1. \/ IF e.format # "" /\ (x.by = None \/ e.stamp > x.held.stamp)
           THEN Answer(r, e.format, b, e.stamp)
           ELSE IF x.by # None
           THEN Answer(r, x.held.format, b, x.held.stamp)
           ELSE Look(r, [x EXCEPT !.pc = "record"])
        \/ Answer(r, "sealed", b, x.held.stamp) \/ Unavailable(r, x.owner)
    BY <1>1, <1>4, <1>5, Zenon DEF ReadEntry
  <2> QED
    BY <1>8, <1>9, <1>10, <1>11, <1>12, <2>1, Zenon
<1>14. PICK K \in Confirmed : confirmed' = [confirmed EXCEPT ![r] = K]
  <2>1. confirmed' = confirmed \/ confirmed' = [confirmed EXCEPT ![r] = [owner |-> b, format |-> e.format]]
    BY <1>1, <1>4, <1>5, Zenon DEF ReadEntry, Confirm
  <2>2. [owner |-> b, format |-> e.format] \in Confirmed
    BY <1>6, ConfirmedRecord, Zenon DEF Owners
  <2> QED
    BY <1>0, <2>1, <2>2, Still, Zenon
<1>15. /\ births' = births /\ got' = got /\ clock' = clock /\ row' = row /\ decl' = decl /\ link' = link
      /\ record' = record /\ pend' = pend /\ version' = version /\ worker' = worker /\ took' = took
      /\ (faults' = faults \/ Fault)
  BY Zenon DEF ReadEntry, table
<1> QED
  BY <1>13, <1>14, <1>15, LooksKeep, Zenon

LEMMA ReadRecordKeeps ==
  ASSUME Inv, NEW r \in Replicas, ReadRecord(r)
  PROVE  Inv' /\ Grows(row, decl, link, clock, row', decl', link', clock')
<1>0. /\ lookup[r] \in Lookup /\ confirmed[r] \in Confirmed /\ LookOk(lookup[r], decl)
      /\ StoreOk(row, decl, link, record, clock)
  BY Replica, Zenon DEF Local
<1>1. PICK x \in Lookup : x = lookup[r]
  BY <1>0, Zenon
<1>2. x.pc = "record" /\ LookOk(x, decl) /\ "record" \in {"record", "birth"}
  BY <1>0, <1>1, Zenon DEF ReadRecord
<1>3. x.owner \in Bridges /\ x.floor[x.owner] = 0 /\ x.behind = 0
  BY <1>2, Zenon DEF LookOk
<1>4. ASSUME Answer(r, record.format, x.owner, 0) PROVE Goes(r)
  <2>1. ~(x.floor[x.owner] > 0)
    BY <1>3
  <2> QED
    BY <1>1, <1>4, <2>1, AnswerGoes, Zenon
<1>5. ASSUME Look(r, [x EXCEPT !.pc = "birth"]) PROVE Goes(r)
  <2>1. PICK y : y = [x EXCEPT !.pc = "birth"]
    BY Zenon
  <2>2. y \in Lookup /\ y.pc = "birth" /\ y.owner = x.owner /\ y.floor = x.floor /\ y.behind = x.behind
    BY <2>1 DEF Lookup
  <2>3. LookOk(y, decl)
    BY <1>3, <2>2 DEF LookOk
  <2>4. lookup' = [lookup EXCEPT ![r] = y]
    BY <1>5, <2>1, Zenon DEF Look
  <2> QED
    BY <2>2, <2>3, <2>4, Zenon DEF Goes
<1>6. Goes(r)
  <2>1. Answer(r, record.format, x.owner, 0) \/ Look(r, [x EXCEPT !.pc = "birth"]) \/ Unavailable(r, x.owner)
    BY <1>1, Zenon DEF ReadRecord
  <2> QED
    BY <1>4, <1>5, <2>1, UnavailableGoes, Zenon
<1>7. PICK K \in Confirmed : confirmed' = [confirmed EXCEPT ![r] = K]
  <2>1. confirmed' = confirmed \/ confirmed' = [confirmed EXCEPT ![r] = [owner |-> x.owner, format |-> record.format]]
    BY <1>1, Zenon DEF ReadRecord, Confirm
  <2>2. [owner |-> x.owner, format |-> record.format] \in Confirmed
    BY <1>0, <1>3, ConfirmedRecord, Zenon DEF Owners, StoreOk
  <2> QED
    BY <1>0, <2>1, <2>2, Still, Zenon
<1>8. /\ births' = births /\ got' = got /\ clock' = clock /\ row' = row /\ decl' = decl /\ link' = link
      /\ record' = record /\ pend' = pend /\ version' = version /\ worker' = worker /\ took' = took
      /\ (faults' = faults \/ Fault)
  BY Zenon DEF ReadRecord, table
<1> QED
  BY <1>6, <1>7, <1>8, LooksKeep, Zenon

LEMMA ReadBirthKeeps ==
  ASSUME Inv, NEW r \in Replicas, ReadBirth(r)
  PROVE  Inv' /\ Grows(row, decl, link, clock, row', decl', link', clock')
<1>0. /\ lookup[r] \in Lookup /\ confirmed[r] \in Confirmed /\ LookOk(lookup[r], decl)
      /\ StoreOk(row, decl, link, record, clock)
  BY Replica, Zenon DEF Local
<1>1. PICK x \in Lookup : x = lookup[r]
  BY <1>0, Zenon
<1>2. x.pc = "birth" /\ LookOk(x, decl) /\ "birth" \in {"record", "birth"}
  BY <1>0, <1>1, Zenon DEF ReadBirth
<1>3. x.owner \in Bridges /\ x.floor[x.owner] = 0
  BY <1>2, Zenon DEF LookOk
<1>4. row[x.owner] \in Nat
  BY <1>0, <1>3, Zenon DEF StoreOk
<1>5. ASSUME NEW says, NEW stamp \in Nat, Answer(r, says, x.owner, stamp) PROVE Goes(r)
  <2>1. ~(x.floor[x.owner] > stamp)
    BY <1>3
  <2> QED
    BY <1>1, <1>5, <2>1, AnswerGoes, Zenon
<1>6. PICK k : k = IF row[x.owner] = 0 THEN "absent" ELSE births[x.owner][row[x.owner]]
  OBVIOUS
<1>7. \/ /\ k \in Formats /\ Answer(r, k, x.owner, row[x.owner])
         /\ confirmed' = [confirmed EXCEPT ![r] = [owner |-> x.owner, format |-> k]]
      \/ /\ Answer(r, IF confirmed[r].owner = x.owner THEN confirmed[r].format ELSE "none", x.owner, 0)
         /\ confirmed' = confirmed
      \/ Unavailable(r, x.owner) /\ confirmed' = confirmed
  BY <1>1, <1>6, Zenon DEF ReadBirth, Confirm
<1>8. Goes(r)
  <2>1. 0 \in Nat
    OBVIOUS
  <2> QED
    BY <1>4, <1>5, <1>7, <2>1, UnavailableGoes, Zenon
<1>9. PICK K \in Confirmed : confirmed' = [confirmed EXCEPT ![r] = K]
  <2>1. k \in Formats => [owner |-> x.owner, format |-> k] \in Confirmed
    BY <1>3, ConfirmedRecord, Zenon DEF Owners, Words
  <2> QED
    BY <1>0, <1>7, <2>1, Still, Zenon
<1>10. /\ births' = births /\ got' = got /\ clock' = clock /\ row' = row /\ decl' = decl /\ link' = link
      /\ record' = record /\ pend' = pend /\ version' = version /\ worker' = worker /\ took' = took
      /\ (faults' = faults \/ Fault)
  BY Zenon DEF ReadBirth, table
<1> QED
  BY <1>8, <1>9, <1>10, LooksKeep, Zenon
-----------------------------------------------------------------------------
(* The theorems *)

LEMMA Step ==
  ASSUME Inv, [Next]_vars
  PROVE  Inv' /\ Grows(row, decl, link, clock, row', decl', link', clock')
<1>1. CASE UNCHANGED vars
  <2>1. /\ births' = births /\ got' = got /\ clock' = clock /\ row' = row /\ decl' = decl /\ link' = link
        /\ record' = record /\ pend' = pend /\ version' = version /\ worker' = worker /\ took' = took
        /\ lookup' = lookup /\ confirmed' = confirmed /\ faults' = faults
    BY <1>1, Zenon DEF vars
  <2>2. StoreOk(row, decl, link, record, clock)
    BY Zenon DEF Inv
  <2>3. Inv'
    BY <2>1, Zenon DEF Inv
  <2> QED
    BY <2>1, <2>2, <2>3, GrowsSame, Zenon
<1>2. ASSUME NEW s \in Says, Publish(s[1], s[2])
      PROVE  Inv' /\ Grows(row, decl, link, clock, row', decl', link', clock')
  BY <1>2, PublishKeeps, Zenon
<1>3. ASSUME NEW r \in Replicas,
             \/ \E b \in Bridges : TakeBirth(r, b) \/ DeviceBirth(r, b)
             \/ Tick(r) \/ Restart(r) \/ Resubscribe(r) \/ Declaration(r)
             \/ \E w \in Workers : Work(r, w)
      PROVE  Inv' /\ Grows(row, decl, link, clock, row', decl', link', clock')
  <2>1. ASSUME NEW b \in Bridges, TakeBirth(r, b) \/ DeviceBirth(r, b)
        PROVE  Inv' /\ Grows(row, decl, link, clock, row', decl', link', clock')
    BY <2>1, TakeBirthKeeps, DeviceBirthKeeps, Zenon
  <2>2. CASE Tick(r) \/ Restart(r) \/ Resubscribe(r)
    BY <2>2, TickKeeps, RestartKeeps, ResubscribeKeeps, Zenon
  <2>3. CASE Declaration(r)
    BY <2>3, AskKeeps, ReadOwnerKeeps, ReadEntryKeeps, ReadRecordKeeps, ReadBirthKeeps, Zenon DEF Declaration
  <2>4. ASSUME NEW w \in Workers, Work(r, w)
        PROVE  Inv' /\ Grows(row, decl, link, clock, row', decl', link', clock')
    BY <2>4, WriteNextKeeps, WriteRowKeeps, WriteRecordKeeps, Zenon DEF Work
  <2> QED
    BY <1>3, <2>1, <2>2, <2>3, <2>4, Zenon
<1> QED
  BY <1>1, <1>2, <1>3, Zenon DEF Next

LEMMA Invariant == Spec => []Inv
<1>1. Init => Inv
  BY InitOk
<1>2. Inv /\ [Next]_vars => Inv'
  BY Step
<1> QED
  BY <1>1, <1>2, PTL DEF Spec

\* The rows, the held births, the goroutines and the lookups of egress_pending.go,
\* egress.go and bridges.go keep their shape.
THEOREM Typed == Spec => []TypeOK
<1>1. Inv => TypeOK
  BY Zenon DEF Inv, TypeOK, StoreOk, Lookup, Confirmed, Taken, Owners, Words
<1> QED
  BY <1>1, Invariant, PTL

\* For every number of replicas, bridges, births and failures: what a replica has
\* taken since it started is stored or still held (pendingBirths), whichever of
\* its two goroutines or of the other replicas wrote, merged or failed between.
THEOREM NothingLost == Spec => []HeldUntilStored
<1>1. ASSUME Inv PROVE HeldUntilStored
  <2> SUFFICES ASSUME NEW r \in Replicas, NEW b \in Bridges
               PROVE  Stored(Unwritten(pend[r][b]), took[r][b], row[b], decl[b].stamp, link.at)
    BY Zenon DEF HeldUntilStored, Stored, Unwritten
  <2> QED
    BY <1>1, Replica, Zenon DEF Local, StoredAll
<1> QED
  BY <1>1, Invariant, PTL

\* For every number of readers and failures: Declaration never lets a payload be
\* read as text on a word older than what was known when the lookup began.
THEOREM Current == Spec => []AnswerIsCurrent
<1>1. ASSUME Inv PROVE AnswerIsCurrent
  <2> SUFFICES ASSUME NEW r \in Replicas PROVE lookup[r].behind = 0
    BY Zenon DEF AnswerIsCurrent
  <2> QED
    BY <1>1, Replica, Zenon DEF Local, LookOk
<1> QED
  BY <1>1, Invariant, PTL

\* For every interleaving of the replicas' writes: CreateOrUpdateBridge and
\* AssociateDeviceWithBridge never put an older birth, declaration or link in
\* place of a newer one.
THEOREM StoreGrows == Spec => NeverUndone
<1>1. ASSUME Inv, [Next]_vars
      PROVE  link'.at >= link.at /\ \A b \in Bridges : row'[b] >= row[b] /\ decl'[b].stamp >= decl[b].stamp
  <2>1. /\ Inv' /\ link.at <= link'.at
        /\ \A b \in Bridges : row[b] <= row'[b] /\ decl[b].stamp <= decl'[b].stamp
    BY <1>1, Step, Zenon DEF Grows, RowGrows, DeclGrows
  <2>2. link.at \in Nat /\ \A b \in Bridges : row[b] \in Nat /\ decl[b].stamp \in Nat
    BY <1>1, Zenon DEF Inv, StoreOk, Declared
  <2>3. StoreOk(row', decl', link', record', clock')
    BY <2>1, Zenon DEF Inv
  <2>4. link'.at \in Nat /\ \A b \in Bridges : row'[b] \in Nat /\ decl'[b].stamp \in Nat
    BY <2>3, Zenon DEF StoreOk, Declared
  <2> QED
    BY <2>1, <2>2, <2>4
<1> QED
  BY <1>1, Invariant, PTL DEF Spec, NeverUndone

\* A goroutine that writes is moved by its own writes alone.
LEMMA OthersLeave ==
  ASSUME Inv, NEW r \in Replicas, NEW w \in Workers, worker[r][w].pc \in {"row", "record"},
         NEW q \in Replicas, NEW u \in Workers, worker[q][u].pc \notin {"row", "record"},
         NEW y, worker' = [worker EXCEPT ![q][u] = y]
  PROVE  worker'[r][w] = worker[r][w]
<1>1. worker \in [Replicas -> [Workers -> Goroutine]]
  BY Zenon DEF Inv
<1>2. ~(q = r /\ u = w)
  BY Zenon
<1>3. CASE q # r
  BY <1>1, <1>3, Zenon
<1>4. CASE q = r /\ u # w
  BY <1>1, <1>4, Zenon
<1> QED
  BY <1>2, <1>3, <1>4, Zenon

LEMMA OtherWriters ==
  ASSUME Inv, NEW r \in Replicas, NEW w \in Workers, NEW q \in Replicas, NEW u \in Workers, ~(q = r /\ u = w),
         NEW y, worker' = [worker EXCEPT ![q][u] = y]
  PROVE  worker'[r][w] = worker[r][w]
<1>1. worker \in [Replicas -> [Workers -> Goroutine]]
  BY Zenon DEF Inv
<1>3. CASE q # r
  BY <1>1, <1>3, Zenon
<1>4. CASE q = r /\ u # w
  BY <1>1, <1>4, Zenon
<1> QED
  BY <1>3, <1>4, Zenon

\* Every step but a write of w and a failure leaves it where it is.
LEMMA Stays ==
  ASSUME Inv, NEW r \in Replicas, NEW w \in Workers, worker[r][w].pc \in {"row", "record"},
         [Next]_vars, faults' = faults, ~WriteRow(r, w), ~WriteRecord(r, w)
  PROVE  worker'[r][w] = worker[r][w]
<1>0. faults \in Nat /\ ~Fault
  <2>1. faults \in Nat
    BY Zenon DEF Inv
  <2>2. faults # faults + 1
    BY <2>1
  <2> QED
    BY <2>1, <2>2, Zenon DEF Fault
<1>i. "idle" \notin {"row", "record"} /\ "next" \notin {"row", "record"} /\ "handler" \in Workers /\ "ticker" \in Workers
  BY DEF Workers
<1>1. CASE UNCHANGED vars
  BY <1>1, Zenon DEF vars
<1>2. CASE \E s \in Says : Publish(s[1], s[2])
  BY <1>2, Zenon DEF Publish
<1>3. ASSUME NEW q \in Replicas,
             \/ \E b \in Bridges : TakeBirth(q, b) \/ DeviceBirth(q, b)
             \/ Tick(q) \/ Restart(q) \/ Resubscribe(q) \/ Declaration(q)
             \/ \E u \in Workers : Work(q, u)
      PROVE  worker'[r][w] = worker[r][w]
  <2>1. ASSUME NEW b \in Bridges, TakeBirth(q, b) PROVE worker'[r][w] = worker[r][w]
    <3>1. worker[q]["handler"].pc \notin {"row", "record"}
      BY <1>i, <2>1, Zenon DEF TakeBirth
    <3>2. PICK y : worker' = [worker EXCEPT ![q]["handler"] = y]
      BY <2>1, Zenon DEF TakeBirth
    <3> QED
      BY <1>i, <3>1, <3>2, OthersLeave, Zenon
  <2>2. CASE Tick(q)
    <3>1. worker[q]["ticker"].pc \notin {"row", "record"}
      BY <1>i, <2>2, Zenon DEF Tick
    <3>2. PICK y : worker' = [worker EXCEPT ![q]["ticker"] = y]
      BY <2>2, Zenon DEF Tick
    <3> QED
      BY <1>i, <3>1, <3>2, OthersLeave, Zenon
  <2>3. CASE Restart(q) \/ Resubscribe(q)
    BY <1>0, <2>3, Zenon DEF Restart, Resubscribe
  <2>4. CASE Declaration(q)
    BY <2>4, Zenon DEF Declaration, Ask, ReadOwner, ReadEntry, ReadRecord, ReadBirth
  <2>5. ASSUME NEW b \in Bridges, DeviceBirth(q, b) PROVE worker'[r][w] = worker[r][w]
    BY <2>5, Zenon DEF DeviceBirth
  <2>6. ASSUME NEW u \in Workers, WriteNext(q, u) PROVE worker'[r][w] = worker[r][w]
    <3>1. worker[q][u].pc \notin {"row", "record"}
      BY <1>i, <2>6, Zenon DEF WriteNext
    <3>2. PICK y : worker' = [worker EXCEPT ![q][u] = y]
      BY <2>6, Zenon DEF WriteNext
    <3> QED
      BY <3>1, <3>2, OthersLeave, Zenon
  <2>7. ASSUME NEW u \in Workers, WriteRow(q, u) \/ WriteRecord(q, u) PROVE worker'[r][w] = worker[r][w]
    <3>1. ~(q = r /\ u = w)
      BY <2>7, Zenon
    <3>2. \E y : worker' = [worker EXCEPT ![q][u] = y]
      <4>1. \/ \E ok, held : Proceed(q, u, ok, held)
            \/ worker' = [worker EXCEPT ![q][u] = [worker[q][u] EXCEPT !.pc = "record"]]
        BY <2>7, Zenon DEF WriteRow, WriteRecord
      <4> QED
        BY <4>1, ProceedForm, Zenon
    <3>3. PICK y : worker' = [worker EXCEPT ![q][u] = y]
      BY <3>2, Zenon
    <3> QED
      BY <3>1, <3>3, OtherWriters, Zenon
  <2> QED
    BY <1>3, <2>1, <2>2, <2>3, <2>4, <2>5, <2>6, <2>7, Zenon DEF Work
<1> QED
  BY <1>1, <1>2, <1>3, Zenon DEF Next

\* For every interleaving: writeHeld, when no call of it fails, ends the holding of
\* the birth it began with unless a newer one was merged in.
THEOREM LetsGo == Spec => AttemptLetsGo
<1>1. ASSUME Inv, [Next]_vars, NEW r \in Replicas, NEW w \in Workers,
             worker[r][w].pc \in {"row", "record"}, worker'[r][w].pc \notin {"row", "record"}, faults' = faults,
             pend[r][worker[r][w].key].ver = worker[r][w].snap.ver
      PROVE  pend'[r][worker[r][w].key].ver = 0
  <2>0. ~Fault
    <3>1. faults \in Nat
      BY <1>1, Zenon DEF Inv
    <3>2. faults # faults + 1
      BY <3>1
    <3> QED
      BY <1>1, <3>2, Zenon DEF Fault
  <2>1. PICK x \in Goroutine, b \in Bridges : WriterAt(r, w, x, b)
    BY <1>1, Writer, Zenon
  <2>2. /\ x = worker[r][w] /\ b = x.key /\ x.snap \in Held /\ x.snap.ver # 0
        /\ SnapOk(x, pend[r], version[r], clock) /\ pend[r][b] \in Held
    BY <2>1, Zenon DEF WriterAt
  <2>3. pend \in [Replicas -> [Bridges -> Held]] /\ worker \in [Replicas -> [Workers -> Goroutine]]
    BY <1>1, Zenon DEF Inv
  <2>4. PICK p \in Held : p = pend[r][b] /\ p.ver = x.snap.ver
    BY <1>1, <2>2, Zenon
  <2>5. CASE WriteRow(r, w)
    <3>1. /\ pend' = [pend EXCEPT ![r][b] = Written(pend[r][b], x.snap.ver)]
          /\ x.snap.rec # "" => worker' = [worker EXCEPT ![r][w] = [x EXCEPT !.pc = "record"]]
      BY <2>0, <2>2, <2>5, Zenon DEF WriteRow
    <3>2. x.snap.rec = ""
      <4>1. SUFFICES ASSUME worker' = [worker EXCEPT ![r][w] = [x EXCEPT !.pc = "record"]] PROVE FALSE
        BY <3>1, Zenon
      <4>2. worker'[r][w] = [x EXCEPT !.pc = "record"]
        BY <2>3, <4>1, Zenon
      <4>3. [x EXCEPT !.pc = "record"].pc = "record"
        BY Zenon DEF Goroutine
      <4> QED
        BY <1>1, <4>2, <4>3, Zenon
    <3>3. p.rec = ""
      BY <1>1, <2>2, <2>4, <3>2, Zenon DEF SnapOk
    <3>4. PICK y : y = Written(p, x.snap.ver)
      OBVIOUS
    <3>5. y = NotHeld
      <4>1. Wrote(p, x.snap.ver, y)
        BY <3>4, WrittenForm, Zenon
      <4> QED
        BY <2>4, <3>3, <4>1, Zenon DEF Wrote
    <3>6. pend'[r][b] = y
      BY <2>3, <2>4, <3>1, <3>4, Zenon
    <3> QED
      BY <2>2, <3>5, <3>6, Blank, Zenon
  <2>6. CASE WriteRecord(r, w)
    <3>1. pend' = [pend EXCEPT ![r][b] = Recorded(pend[r][b], x.snap.ver)] /\ x.pc = "record"
      BY <2>0, <2>2, <2>6, Zenon DEF WriteRecord
    <3>2. p.written
      BY <1>1, <2>2, <2>4, <3>1, Zenon DEF SnapOk
    <3>3. PICK y : y = Recorded(p, x.snap.ver)
      OBVIOUS
    <3>4. Records(p, x.snap.ver, y)
      BY <3>3, RecordedForm, Zenon
    <3>5. y = NotHeld
      BY <2>4, <3>2, <3>4, Zenon DEF Records
    <3>6. pend'[r][b] = y
      BY <2>3, <2>4, <3>1, <3>3, Zenon
    <3> QED
      BY <2>2, <3>5, <3>6, Blank, Zenon
  <2>7. WriteRow(r, w) \/ WriteRecord(r, w)
    BY <1>1, Stays, Zenon
  <2> QED
    BY <2>5, <2>6, <2>7, Zenon
<1>2. Inv /\ [Next]_vars =>
         \A r \in Replicas, w \in Workers :
            (/\ worker[r][w].pc \in {"row", "record"} /\ worker'[r][w].pc \notin {"row", "record"}
             /\ faults' = faults /\ pend[r][worker[r][w].key].ver = worker[r][w].snap.ver)
            => pend'[r][worker[r][w].key].ver = 0
  BY <1>1, Zenon
<1> QED
  BY <1>2, Invariant, PTL DEF Spec, AttemptLetsGo
=============================================================================
