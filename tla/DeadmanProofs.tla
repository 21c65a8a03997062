---------------------------- MODULE DeadmanProofs ----------------------------
(***************************************************************************)
(* For every number of scanners and callers an alert is raised only for a  *)
(* silent device; with one scanner, the leader's, no silence raises more   *)
(* alerts than calls allow.                                                *)
(***************************************************************************)
EXTENDS Deadman, TLAPS

ScanRec == [pc : {"idle", "device", "save", "trigger"}, row : Row, now : Times, was : Times, seen : Times]
CallRec == [pc : {"idle", "read", "save", "touch"}, kind : AllKinds, row : Row]

LEMMA Rows ==
    /\ \A i \in Intervals : NewRow(i) \in Row
    /\ NoRow \in Row
    /\ \A row \in Row : [row EXCEPT !.alerted = TRUE] \in Row /\ [row EXCEPT !.alerted = FALSE] \in Row
    /\ \A row \in Row, n \in Nat : [row EXCEPT !.snoozed = n] \in Row
    /\ \A row \in Row, i \in Intervals : [row EXCEPT !.interval = i] \in Row
<1>0. 1 \in Intervals /\ 0 \in Nat
  BY DeadmanAssumption
<1>1. \A i \in Intervals : NewRow(i) \in Row
  BY <1>0, Zenon DEF NewRow, Row
<1>2. NoRow \in Row
  BY <1>0, <1>1, Zenon DEF NoRow, NewRow, Row
<1>3. \A row \in Row : [row EXCEPT !.alerted = TRUE] \in Row /\ [row EXCEPT !.alerted = FALSE] \in Row
  BY Zenon DEF Row
<1>4. \A row \in Row, n \in Nat : [row EXCEPT !.snoozed = n] \in Row
  BY Zenon DEF Row
<1>5. \A row \in Row, i \in Intervals : [row EXCEPT !.interval = i] \in Row
  BY Zenon DEF Row
<1> QED
  BY <1>1, <1>2, <1>3, <1>4, <1>5

LEMMA Idle == NoScan \in ScanRec /\ NoCall \in CallRec /\ NoScan.pc = "idle"
<1>1. 0 \in Times
  BY DeadmanAssumption DEF Times
<1>2. "checkin" \in AllKinds
  BY DEF AllKinds
<1> QED
  BY <1>1, <1>2, Rows DEF NoScan, NoCall, ScanRec, CallRec

LEMMA InitType == Init => TypeOK
<1>1. 1 \in Times /\ 0 \in Nat /\ 1 \in Intervals
  BY DeadmanAssumption DEF Times
<1> QED
  BY <1>1, Rows, Idle DEF Init, TypeOK, ScanRec, CallRec

LEMMA ReadType ==
  ASSUME TypeOK, NEW c \in Callers, NEW k \in AllKinds, NEW i \in Intervals, NEW found \in Row,
         AfterRead(c, k, i, found)
  PROVE  call' \in [Callers -> CallRec]
<1>1. call \in [Callers -> CallRec]
  BY DEF TypeOK, CallRec
<1>2. CASE k = "configure"
  <2>1. CASE found.there
    <3>1. [pc |-> "save", kind |-> k, row |-> [found EXCEPT !.interval = i]] \in CallRec
      BY Rows DEF CallRec
    <3> QED
      BY <1>1, <1>2, <2>1, <3>1 DEF AfterRead
  <2>2. CASE ~found.there
    <3>1. [pc |-> "save", kind |-> k, row |-> NewRow(i)] \in CallRec
      BY Rows DEF CallRec
    <3> QED
      BY <1>1, <1>2, <2>2, <3>1 DEF AfterRead
  <2> QED
    BY <2>1, <2>2
<1>3. CASE k = "checkin"
  <2>1. [pc |-> IF found.alerted THEN "save" ELSE "touch", kind |-> k, row |-> found] \in CallRec
    BY DEF CallRec
  <2> QED
    BY <1>1, <1>3, <2>1 DEF AfterRead
<1>4. CASE k # "configure" /\ k # "checkin"
  <2>1. [pc |-> "save", kind |-> k, row |-> found] \in CallRec
    BY DEF CallRec
  <2> QED
    BY <1>1, <1>4, <2>1, Idle DEF AfterRead
<1> QED
  BY <1>2, <1>3, <1>4

LEMMA WrittenType ==
  ASSUME TypeOK, NEW c \in Callers PROVE Written(c) \in Row
<1>1. call[c].row \in Row /\ call[c].kind \in AllKinds
  BY DEF TypeOK
<1>2. clock + SnoozeFor \in Nat /\ 0 \in Nat
  BY DeadmanAssumption DEF TypeOK, Times
<1> QED
  BY <1>1, <1>2, Rows, Zenon DEF Written, AllKinds

LEMMA NextType == TypeOK /\ [Next]_vars => TypeOK'
<1> SUFFICES ASSUME TypeOK, [Next]_vars PROVE TypeOK'
  OBVIOUS
<1>0. /\ clock \in Times /\ lastSeen \in Times /\ resets \in Nat /\ calls \in Nat /\ faults \in Nat
      /\ cfg \in Row /\ raised \in [Times -> Nat]
      /\ scan \in [Scanners -> ScanRec] /\ call \in [Callers -> CallRec]
  BY DEF TypeOK, ScanRec, CallRec
<1>f. Fault => faults' \in Nat
  BY <1>0 DEF Fault
<1> SUFFICES /\ clock' \in Times /\ lastSeen' \in Times /\ resets' \in Nat /\ calls' \in Nat /\ faults' \in Nat
             /\ cfg' \in Row /\ raised' \in [Times -> Nat]
             /\ scan' \in [Scanners -> ScanRec] /\ call' \in [Callers -> CallRec]
  BY DEF TypeOK, ScanRec, CallRec
<1>1. CASE Tick
  BY <1>0, <1>1, DeadmanAssumption DEF Tick, Times
<1>2. ASSUME NEW s \in Scanners, List(s) PROVE TypeOK'
  <2>1. 0 \in Times
    BY DeadmanAssumption DEF Times
  <2>2. [pc |-> "device", row |-> cfg, now |-> clock, was |-> lastSeen, seen |-> 0] \in ScanRec
    BY <1>0, <2>1 DEF ScanRec
  <2> QED
    BY <1>0, <1>2, <2>2 DEF List, TypeOK, ScanRec, CallRec
<1>3. ASSUME NEW s \in Scanners, GetDevice(s) PROVE TypeOK'
  <2>1. [scan[s] EXCEPT !.pc = "save", !.seen = lastSeen] \in ScanRec
    BY <1>0, Zenon DEF ScanRec
  <2>2. scan' \in [Scanners -> ScanRec] /\ faults' \in Nat
    BY <1>0, <1>3, <1>f, <2>1, Idle, Zenon DEF GetDevice, Done
  <2> QED
    BY <1>0, <1>3, <2>2 DEF GetDevice, TypeOK, ScanRec, CallRec
<1>4. ASSUME NEW s \in Scanners, SaveFlag(s) PROVE TypeOK'
  <2>1. [scan[s].row EXCEPT !.alerted = TRUE] \in Row
    BY <1>0, Rows, Zenon DEF ScanRec
  <2>2. [scan[s] EXCEPT !.pc = "trigger"] \in ScanRec
    BY <1>0 DEF ScanRec
  <2>3. scan' \in [Scanners -> ScanRec] /\ faults' \in Nat /\ cfg' \in Row
    BY <1>0, <1>4, <1>f, <2>1, <2>2, Idle, Zenon DEF SaveFlag, Done
  <2> QED
    BY <1>0, <1>4, <2>3 DEF SaveFlag, TypeOK, ScanRec, CallRec
<1>5. ASSUME NEW s \in Scanners, Trigger(s) PROVE TypeOK'
  <2>1. [raised EXCEPT ![scan[s].seen] = raised[scan[s].seen] + 1] \in [Times -> Nat]
    BY <1>0 DEF ScanRec
  <2>2. scan' \in [Scanners -> ScanRec] /\ faults' \in Nat /\ raised' \in [Times -> Nat]
    BY <1>0, <1>5, <1>f, <2>1, Idle DEF Trigger, Done
  <2> QED
    BY <1>0, <1>5, <2>2 DEF Trigger, TypeOK, ScanRec, CallRec
<1>6. ASSUME NEW s \in Scanners, Stop(s) PROVE TypeOK'
  BY <1>0, <1>6, <1>f, Idle DEF Stop, Done, TypeOK, ScanRec, CallRec
<1>7. ASSUME NEW c \in Callers, Position(c) PROVE TypeOK'
  <2>1. [call[c] EXCEPT !.pc = "read"] \in CallRec
    BY <1>0 DEF CallRec
  <2>2. call' \in [Callers -> CallRec] /\ faults' \in Nat /\ lastSeen' \in Times /\ calls' \in Nat
    BY <1>0, <1>7, <1>f, <2>1 DEF Position
  <2> QED
    BY <1>0, <1>7, <2>2 DEF Position, TypeOK, ScanRec, CallRec
<1>8. ASSUME NEW c \in Callers, Save(c) PROVE TypeOK'
  <2>1. Written(c) \in Row
    BY WrittenType, <1>8
  <2>2. [call[c] EXCEPT !.pc = "touch"] \in CallRec
    BY <1>0 DEF CallRec
  <2>3. call' \in [Callers -> CallRec]
    BY <1>0, <1>8, <2>2, Idle DEF Save, Hangup
  <2>4. faults' \in Nat /\ cfg' \in Row /\ resets' \in Nat
    BY <1>0, <1>8, <1>f, <2>1 DEF Save
  <2> QED
    BY <1>0, <1>8, <2>3, <2>4 DEF Save, TypeOK, ScanRec, CallRec
<1>9. ASSUME NEW c \in Callers, TouchDeviceLastSeen(c) PROVE TypeOK'
  BY <1>0, <1>9, <1>f, Idle DEF TouchDeviceLastSeen, Hangup, TypeOK, ScanRec, CallRec
<1>10. ASSUME NEW c \in Callers, NEW k \in Kinds, NEW i \in Intervals, Read(c, k, i) PROVE TypeOK'
  <2>1. k \in AllKinds /\ NoRow \in Row
    BY DeadmanAssumption, Rows
  <2>2. call' \in [Callers -> CallRec]
    BY <1>0, <1>10, <2>1, ReadType DEF Read
  <2>3. faults' \in Nat /\ calls' \in Nat
    BY <1>0, <1>10, <1>f DEF Read
  <2> QED
    BY <1>0, <1>10, <2>2, <2>3 DEF Read, TypeOK, ScanRec, CallRec
<1>11. CASE Remove
  BY <1>0, <1>11, <1>f, Rows DEF Remove
<1>12. CASE UNCHANGED vars
  BY <1>0, <1>12 DEF vars
<1> QED
  BY <1>1, <1>2, <1>3, <1>4, <1>5, <1>6, <1>7, <1>8, <1>9, <1>10, <1>11, <1>12
  DEF Next, ScanStep, CallStep, TypeOK, ScanRec, CallRec

(* Every stored value keeps its type, however many replicas scan and call.  *)
THEOREM TypeCorrect == Spec => []TypeOK
BY InitType, NextType, PTL DEF Spec
-----------------------------------------------------------------------------
\* What a scanner read stays in the past of the device.
ReadInPast ==
    /\ lastSeen <= clock
    /\ \A s \in Scanners : scan[s].pc = "device" => scan[s].was <= lastSeen

LEMMA InitSilent == Init => ReadInPast /\ OnlySilentAlerts
BY Idle DEF Init, ReadInPast, OnlySilentAlerts

LEMMA NextSilent ==
  TypeOK /\ ReadInPast /\ OnlySilentAlerts /\ [Next]_vars => (ReadInPast /\ OnlySilentAlerts)'
<1> SUFFICES ASSUME TypeOK, ReadInPast, OnlySilentAlerts, [Next]_vars PROVE (ReadInPast /\ OnlySilentAlerts)'
  OBVIOUS
<1>0. /\ clock \in Int /\ lastSeen \in Int /\ Grace \in Int
      /\ \A s \in Scanners : scan[s].now \in Int /\ scan[s].was \in Int /\ scan[s].row.interval \in Int
      /\ scan \in [Scanners -> ScanRec]
  <2>1. scan \in [Scanners -> ScanRec]
    BY DEF TypeOK, ScanRec
  <2>2. \A s \in Scanners : scan[s].now \in Times /\ scan[s].was \in Times /\ scan[s].row \in Row
    BY <2>1 DEF ScanRec
  <2>3. \A row \in Row : row.interval \in Int
    <3>1. \A row \in Row : row.interval \in Intervals
      BY Zenon DEF Row
    <3>2. \A i \in Intervals : i \in Int
      BY DeadmanAssumption
    <3> QED
      BY <3>1, <3>2, Zenon
  <2>4. Grace \in Int /\ \A t \in Times : t \in Int
    BY DeadmanAssumption DEF Times
  <2> QED
    BY <2>1, <2>2, <2>3, <2>4 DEF TypeOK
\* Steps of anyone but a scanner move lastSeen and the clock forward only.
<1>1. ASSUME UNCHANGED scan, lastSeen' \in {lastSeen, clock}, clock' \in {clock, clock + 1}
      PROVE (ReadInPast /\ OnlySilentAlerts)'
  BY <1>0, <1>1 DEF ReadInPast, OnlySilentAlerts
<1>2. CASE Tick \/ Remove \/ \E c \in Callers : CallStep(c)
  BY <1>1, <1>2 DEF Tick, Remove, CallStep, Position, Read, Save, TouchDeviceLastSeen
<1>3. ASSUME NEW s \in Scanners, NEW rec, scan' = [scan EXCEPT ![s] = rec], UNCHANGED <<lastSeen, clock>>,
             rec.pc = "device" => rec.was <= lastSeen,
             rec.pc \in {"save", "trigger"} => rec.now >= rec.was + rec.row.interval + Grace
      PROVE (ReadInPast /\ OnlySilentAlerts)'
  <2>1. \A t \in Scanners : scan'[t] = IF t = s THEN rec ELSE scan[t]
    BY <1>0, <1>3
  <2> QED
    BY <1>3, <2>1 DEF ReadInPast, OnlySilentAlerts
<1>4. ASSUME NEW s \in Scanners, Done(s), UNCHANGED <<lastSeen, clock>> PROVE (ReadInPast /\ OnlySilentAlerts)'
  BY <1>3, <1>4, Idle, Zenon DEF Done
<1>5. ASSUME NEW s \in Scanners, List(s) PROVE (ReadInPast /\ OnlySilentAlerts)'
  <2> DEFINE rec == [pc |-> "device", row |-> cfg, now |-> clock, was |-> lastSeen, seen |-> 0]
  <2>1. rec.pc = "device" /\ rec.was <= lastSeen
    BY <1>0
  <2>2. scan' = [scan EXCEPT ![s] = rec] /\ UNCHANGED <<lastSeen, clock>>
    BY <1>5 DEF List
  <2> HIDE DEF rec
  <2> QED
    BY <1>3, <2>1, <2>2, Zenon
<1>6. ASSUME NEW s \in Scanners, GetDevice(s) PROVE (ReadInPast /\ OnlySilentAlerts)'
  <2>1. UNCHANGED <<lastSeen, clock>> /\ scan[s].pc = "device"
    BY <1>6 DEF GetDevice
  <2>2. CASE scan[s].now >= Deadline(scan[s].row, lastSeen) /\ scan' = [scan EXCEPT ![s].pc = "save", ![s].seen = lastSeen]
    <3> DEFINE rec == [scan[s] EXCEPT !.pc = "save", !.seen = lastSeen]
    <3>1. rec.pc = "save" /\ rec.now = scan[s].now /\ rec.was = scan[s].was /\ rec.row = scan[s].row
      BY <1>0 DEF ScanRec
    <3>2. scan' = [scan EXCEPT ![s] = rec]
      BY <1>0, <2>2, Zenon
    <3>3. scan[s].now >= scan[s].was + scan[s].row.interval + Grace
      BY <1>0, <2>1, <2>2 DEF Deadline, ReadInPast
    <3> HIDE DEF rec
    <3> QED
      BY <1>3, <2>1, <3>1, <3>2, <3>3, Zenon
  <2> QED
    BY <1>4, <1>6, <2>1, <2>2 DEF GetDevice
<1>7. ASSUME NEW s \in Scanners, SaveFlag(s) PROVE (ReadInPast /\ OnlySilentAlerts)'
  <2>1. UNCHANGED <<lastSeen, clock>> /\ scan[s].pc = "save"
    BY <1>7 DEF SaveFlag
  <2>2. CASE scan' = [scan EXCEPT ![s].pc = "trigger"]
    <3> DEFINE rec == [scan[s] EXCEPT !.pc = "trigger"]
    <3>1. rec.pc = "trigger" /\ rec.now = scan[s].now /\ rec.was = scan[s].was /\ rec.row = scan[s].row
      BY <1>0 DEF ScanRec
    <3>2. scan' = [scan EXCEPT ![s] = rec]
      BY <1>0, <2>2
    <3> HIDE DEF rec
    <3> QED
      BY <1>3, <2>1, <3>1, <3>2, Zenon DEF OnlySilentAlerts
  <2> QED
    BY <1>4, <1>7, <2>1, <2>2 DEF SaveFlag
<1>8. ASSUME NEW s \in Scanners, Trigger(s) \/ Stop(s) PROVE (ReadInPast /\ OnlySilentAlerts)'
  BY <1>4, <1>8 DEF Trigger, Stop
<1>9. CASE UNCHANGED vars
  BY <1>1, <1>9 DEF vars
<1> QED
  BY <1>2, <1>5, <1>6, <1>7, <1>8, <1>9 DEF Next, ScanStep

(* checkDevice alerts only for a device silent for its interval and grace,  *)
(* however the scans, check-ins and API calls of any number of replicas     *)
(* interleave and fail.                                                     *)
THEOREM AlertsAreJustified == Spec => []OnlySilentAlerts
BY InitType, NextType, InitSilent, NextSilent, PTL DEF Spec
-----------------------------------------------------------------------------
OneScanner == \A a, b \in Scanners : a = b

\* With one scanner: a silence's alerts, the one about to be raised included,
\* outnumber the resets by at most the flag now stored, and do not outnumber
\* them while a scan is on that listed the switch unflagged.
Flag(row) == IF row.alerted THEN 1 ELSE 0

Pend(rec, t) == IF rec.pc = "trigger" /\ rec.seen = t THEN 1 ELSE 0

Counted(s) ==
    \A t \in Times :
        /\ raised[t] + Pend(scan[s], t) <= resets + Flag(cfg)
        /\ scan[s].pc \in {"device", "save"} => raised[t] <= resets

AllCounted == \A t \in Times : raised[t] <= resets + Flag(cfg)

\* The invariant as the scanners that exist see it.
CountInv == AllCounted /\ \A s \in Scanners : Counted(s)

LEMMA InitCount == Init => CountInv
<1> SUFFICES ASSUME Init PROVE CountInv
  OBVIOUS
<1>1. \A s \in Scanners, t \in Times : Pend(scan[s], t) = 0 /\ scan[s].pc = "idle"
  BY Idle DEF Init, Pend
<1>2. Flag(cfg) \in {0, 1}
  BY DEF Flag
<1> QED
  BY <1>1, <1>2 DEF Init, CountInv, AllCounted, Counted

LEMMA NextCount ==
  ASSUME OneScanner
  PROVE  TypeOK /\ CountInv /\ [Next]_vars => CountInv'
<1> SUFFICES ASSUME TypeOK, CountInv, [Next]_vars PROVE CountInv'
  OBVIOUS
<1>0. /\ resets \in Nat /\ raised \in [Times -> Nat] /\ scan \in [Scanners -> ScanRec]
      /\ Flag(cfg) \in 0 .. 1 /\ Flag(cfg') \in 0 .. 1
      /\ \A s \in Scanners, t \in Times : Pend(scan[s], t) \in 0 .. 1 /\ Pend(scan'[s], t) \in 0 .. 1
  BY DEF TypeOK, ScanRec, Flag, Pend
<1>n. resets \in Nat /\ Flag(cfg) \in Nat /\ Flag(cfg) <= 1 /\ Flag(cfg') \in Nat /\ Flag(cfg') <= 1
  BY <1>0
\* A step that leaves scanners and alerts alone and pays for the flag it takes.
<1>1. ASSUME UNCHANGED <<scan, raised>>, resets' \in Nat, resets' + Flag(cfg') >= resets + Flag(cfg), resets' >= resets
      PROVE CountInv'
  <2>1. \A s \in Scanners, t \in Times : Pend(scan'[s], t) = Pend(scan[s], t)
    BY <1>1 DEF Pend
  <2>2. AllCounted'
    <3> SUFFICES ASSUME NEW t \in Times PROVE raised'[t] <= resets' + Flag(cfg')
      BY DEF AllCounted
    <3>1. raised[t] <= resets + Flag(cfg) /\ raised'[t] = raised[t] /\ raised[t] \in Nat
      BY <1>0, <1>1 DEF CountInv, AllCounted
    <3> QED
      BY <1>n, <1>1, <3>1
  <2>3. ASSUME NEW s \in Scanners, NEW t \in Times
        PROVE raised'[t] + Pend(scan'[s], t) <= resets' + Flag(cfg') /\ (scan'[s].pc \in {"device", "save"} => raised'[t] <= resets')
    <3>1. /\ raised[t] + Pend(scan[s], t) <= resets + Flag(cfg) /\ raised'[t] = raised[t] /\ raised[t] \in Nat
          /\ scan'[s].pc \in {"device", "save"} => raised[t] <= resets
      BY <1>0, <1>1 DEF CountInv, Counted
    <3>2. Pend(scan'[s], t) = Pend(scan[s], t) /\ Pend(scan[s], t) \in Nat
      BY <1>0, <2>1
    <3> QED
      BY <1>n, <1>1, <3>1, <3>2
  <2> QED
    BY <2>2, <2>3 DEF CountInv, Counted
\* A scan that ends without an alert.
<1>2. ASSUME NEW s \in Scanners, Done(s), UNCHANGED <<raised, resets>>, Flag(cfg') >= Flag(cfg) PROVE CountInv'
  <2>1. scan'[s].pc = "idle"
    BY <1>0, <1>2, Idle DEF Done
  <2>2. \A a \in Scanners : a = s
    BY <1>2 DEF OneScanner
  <2>3. \A t \in Times : Pend(scan'[s], t) = 0
    BY <2>1 DEF Pend
  <2> QED
    BY <1>0, <1>2, <2>1, <2>2, <2>3 DEF CountInv, AllCounted, Counted
<1>3. CASE Tick \/ \E c \in Callers : Position(c) \/ TouchDeviceLastSeen(c) \/ \E k \in Kinds, i \in Intervals : Read(c, k, i)
  <2>1. UNCHANGED <<scan, raised, resets, cfg>>
    BY <1>3 DEF Tick, Position, TouchDeviceLastSeen, Read
  <2>2. Flag(cfg') = Flag(cfg)
    BY <2>1 DEF Flag
  <2> QED
    BY <1>0, <1>1, <2>1, <2>2
<1>4. ASSUME NEW c \in Callers, Save(c) PROVE CountInv'
  <2>1. UNCHANGED <<scan, raised>> /\ cfg' \in {cfg, Written(c)}
    BY <1>4 DEF Save
  <2>2. CASE Written(c).alerted
    <3>1. resets' = resets
      BY <1>0, <1>4, <2>2 DEF Save
    <3>2. Flag(cfg') >= Flag(cfg)
      BY <1>0, <2>1, <2>2 DEF Flag
    <3>3. resets' \in Nat /\ resets' + Flag(cfg') >= resets + Flag(cfg) /\ resets' >= resets
      BY <1>n, <3>1, <3>2
    <3> QED
      BY <1>1, <2>1, <3>3
  <2>3. CASE ~Written(c).alerted
    <3>1. resets' = resets + 1
      BY <1>0, <1>4, <2>3 DEF Save
    <3>2. resets' \in Nat /\ resets' + Flag(cfg') >= resets + Flag(cfg) /\ resets' >= resets
      BY <1>n, <3>1
    <3> QED
      BY <1>1, <2>1, <3>2
  <2> QED
    BY <2>2, <2>3
<1>5. CASE Remove
  <2>1. UNCHANGED <<scan, raised>> /\ resets' = resets + 1
    BY <1>5 DEF Remove
  <2>2. resets' \in Nat /\ resets' + Flag(cfg') >= resets + Flag(cfg) /\ resets' >= resets
    BY <1>n, <2>1
  <2> QED
    BY <1>1, <2>1, <2>2
<1>6. ASSUME NEW s \in Scanners, List(s) PROVE CountInv'
  <2>1. UNCHANGED <<raised, resets, cfg>> /\ ~cfg.alerted /\ scan'[s].pc = "device"
    BY <1>0, <1>6 DEF List, Skipped
  <2>2. Flag(cfg) = 0 /\ Flag(cfg') = 0 /\ \A t \in Times : Pend(scan'[s], t) = 0
    BY <2>1 DEF Flag, Pend
  <2>3. \A a \in Scanners : a = s
    BY <1>6 DEF OneScanner
  <2> QED
    BY <1>0, <2>1, <2>2, <2>3 DEF CountInv, AllCounted, Counted
<1>7. ASSUME NEW s \in Scanners, GetDevice(s) PROVE CountInv'
  <2>1. UNCHANGED <<raised, resets, cfg>> /\ scan[s].pc = "device"
    BY <1>7 DEF GetDevice
  <2>2. Flag(cfg') = Flag(cfg)
    BY <2>1 DEF Flag
  <2>3. CASE scan' = [scan EXCEPT ![s].pc = "save", ![s].seen = lastSeen]
    <3>1. scan'[s].pc = "save"
      BY <1>0, <2>3 DEF ScanRec
    <3>2. \A a \in Scanners : a = s
      BY <1>7 DEF OneScanner
    <3>3. \A t \in Times : Pend(scan'[s], t) = 0
      BY <3>1 DEF Pend
    <3> QED
      BY <1>0, <2>1, <2>2, <3>1, <3>2, <3>3 DEF CountInv, AllCounted, Counted
  <2> QED
    BY <1>0, <1>2, <1>7, <2>1, <2>2, <2>3 DEF GetDevice
<1>8. ASSUME NEW s \in Scanners, SaveFlag(s) PROVE CountInv'
  <2> DEFINE flagged == [scan[s].row EXCEPT !.alerted = TRUE]
  <2>1. UNCHANGED <<raised, resets>> /\ scan[s].pc = "save" /\ cfg' \in {cfg, flagged}
    BY <1>8 DEF SaveFlag
  <2>2. flagged.alerted
    BY <1>0, Zenon DEF ScanRec, Row
  <2>3. Flag(cfg') >= Flag(cfg) /\ (cfg' = flagged => Flag(cfg') = 1)
    <3>1. cfg' = flagged => Flag(cfg') = 1
      BY <2>2 DEF Flag
    <3>2. cfg' = cfg => Flag(cfg') = Flag(cfg)
      BY DEF Flag
    <3> HIDE DEF flagged
    <3> QED
      BY <1>0, <2>1, <3>1, <3>2
  <2>4. CASE scan' = [scan EXCEPT ![s].pc = "trigger"] /\ cfg' = flagged
    <3>1. scan'[s].pc = "trigger"
      BY <1>0, <2>4 DEF ScanRec
    <3>2. \A a \in Scanners : a = s
      BY <1>8 DEF OneScanner
    <3>3. \A t \in Times : raised[t] <= resets
      BY <2>1 DEF CountInv, Counted
    <3> HIDE DEF flagged
    <3> QED
      BY <1>0, <2>1, <2>3, <2>4, <3>1, <3>2, <3>3 DEF CountInv, AllCounted, Counted
  <2> QED
    BY <1>2, <1>8, <2>1, <2>3, <2>4 DEF SaveFlag
<1>9. ASSUME NEW s \in Scanners, Trigger(s) PROVE CountInv'
  <2>1. UNCHANGED <<cfg, resets>> /\ scan[s].pc = "trigger" /\ Done(s)
    BY <1>9 DEF Trigger
  <2>2. Flag(cfg') = Flag(cfg)
    BY <2>1 DEF Flag
  <2>3. CASE raised' = raised
    BY <1>0, <1>2, <2>1, <2>2, <2>3
  <2>4. CASE raised' = [raised EXCEPT ![scan[s].seen] = raised[scan[s].seen] + 1]
    <3>1. scan'[s].pc = "idle"
      BY <1>0, <2>1, Idle DEF Done
    <3>2. \A a \in Scanners : a = s
      BY <1>9 DEF OneScanner
    <3>3. \A t \in Times : Pend(scan'[s], t) = 0 /\ raised'[t] = raised[t] + Pend(scan[s], t)
      BY <1>0, <2>1, <2>4, <3>1 DEF Pend
    <3> QED
      BY <1>0, <2>1, <2>2, <3>1, <3>2, <3>3 DEF CountInv, AllCounted, Counted
  <2> QED
    BY <1>9, <2>3, <2>4 DEF Trigger
<1>10. ASSUME NEW s \in Scanners, Stop(s) PROVE CountInv'
  <2>1. UNCHANGED <<raised, resets, cfg>> /\ Done(s)
    BY <1>10 DEF Stop
  <2>2. Flag(cfg') = Flag(cfg)
    BY <2>1 DEF Flag
  <2> QED
    BY <1>0, <1>2, <2>1, <2>2
<1>11. CASE UNCHANGED vars
  <2>1. UNCHANGED <<scan, raised, resets, cfg>>
    BY <1>11 DEF vars
  <2>2. Flag(cfg') = Flag(cfg)
    BY <2>1 DEF Flag
  <2> QED
    BY <1>0, <1>1, <2>1, <2>2
<1> QED
  BY <1>3, <1>4, <1>5, <1>6, <1>7, <1>8, <1>9, <1>10, <1>11 DEF Next, ScanStep, CallStep

(* With the scan on one replica, a silence raises at most one alert more    *)
(* than there were calls that re-armed the switch: a restart, a failed save *)
(* and a failed trigger never repeat an alert.                              *)
THEOREM AlertsAreCounted ==
  ASSUME OneScanner
  PROVE  Spec => []OneAlertPerSilence
<1>1. TypeOK /\ CountInv => OneAlertPerSilence
  <2> SUFFICES ASSUME TypeOK, CountInv, NEW t \in Times PROVE raised[t] <= 1 + resets
    BY DEF OneAlertPerSilence
  <2>1. Flag(cfg) \in {0, 1} /\ resets \in Nat /\ raised[t] \in Nat
    BY DEF Flag, TypeOK
  <2> QED
    BY <2>1 DEF CountInv, AllCounted
<1> QED
  BY <1>1, InitType, NextType, InitCount, NextCount, PTL DEF Spec
=============================================================================
