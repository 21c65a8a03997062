------------------------------- MODULE Deadman -------------------------------
(***************************************************************************)
(* The dead man's switch of one device (src/internal/deadman/deadman.go):  *)
(* the leader's scan raises an alert when the device was silent for its    *)
(* window; check-ins and API calls on every replica read the stored config *)
(* and write it back whole.  Store calls and the trigger may fail, and a   *)
(* scanning replica may stop between any two of its calls.                 *)
(***************************************************************************)
EXTENDS Integers, FiniteSets

CONSTANTS
    Scanners,            \* replicas that run the scan
    Callers,             \* handlers of check-ins and API requests
    Kinds,               \* the calls they make
    Intervals, Grace,    \* the check-in intervals in use, and the grace
    SnoozeFor,           \* how long a snooze lasts
    MaxClock, MaxCalls, MaxFaults   \* bounds

AllKinds == {"configure", "snooze", "unsnooze", "clear", "checkin"}

ASSUME DeadmanAssumption ==
    /\ Kinds \subseteq AllKinds
    /\ Intervals \subseteq Nat /\ 1 \in Intervals
    /\ Grace \in Nat /\ SnoozeFor \in Nat
    /\ MaxClock \in Nat \ {0} /\ MaxCalls \in Nat /\ MaxFaults \in Nat

VARIABLES
    clock,
    cfg,        \* the row of deadman_configs
    lastSeen,   \* devices.last_seen
    scan,       \* the scanners
    call,       \* the callers
    raised,     \* how many alerts each silence (named by its last_seen) raised
    resets,     \* how often a caller removed the row or wrote it unflagged
    calls, faults

vars == <<clock, cfg, lastSeen, scan, call, raised, resets, calls, faults>>

Times == 0 .. MaxClock

NewRow(i) == [there |-> TRUE, interval |-> i, snoozed |-> 0, alerted |-> FALSE]
NoRow == [NewRow(1) EXCEPT !.there = FALSE]
NoScan == [pc |-> "idle", row |-> NoRow, now |-> 0, was |-> 0, seen |-> 0]
NoCall == [pc |-> "idle", kind |-> "checkin", row |-> NoRow]

Init ==
    /\ clock = 1
    /\ cfg = NewRow(1) /\ lastSeen = 1
    /\ scan = [s \in Scanners |-> NoScan]
    /\ call = [c \in Callers |-> NoCall]
    /\ raised = [t \in Times |-> 0]
    /\ resets = 0 /\ calls = 0 /\ faults = 0

Fault == faults < MaxFaults /\ faults' = faults + 1

Tick ==
    /\ clock < MaxClock /\ clock' = clock + 1
    /\ UNCHANGED <<cfg, lastSeen, scan, call, raised, resets, calls, faults>>
-----------------------------------------------------------------------------
(* scan and checkDevice. *)

Done(s) == scan' = [scan EXCEPT ![s] = NoScan]

Skipped_NoFlag(row, now) == row.snoozed > now

Skipped_ForGood(row, now) == row.snoozed # 0 \/ row.alerted

\* Snoozed, or alerted already.
Skipped(row, now) == row.snoozed > now \/ row.alerted

\* ListDeadmanConfigs, the time of the scan, and the early returns.
List(s) ==
    /\ scan[s].pc = "idle" /\ cfg.there /\ ~Skipped(cfg, clock)
    /\ scan' = [scan EXCEPT ![s] = [pc |-> "device", row |-> cfg, now |-> clock, was |-> lastSeen, seen |-> 0]]
    /\ UNCHANGED <<clock, cfg, lastSeen, call, raised, resets, calls, faults>>

Deadline_NoGrace(row, seen) == seen + row.interval

Deadline(row, seen) == seen + row.interval + Grace

GetDevice(s) ==
    /\ scan[s].pc = "device"
    /\ \/ /\ scan[s].now >= Deadline(scan[s].row, lastSeen) /\ UNCHANGED faults
          /\ scan' = [scan EXCEPT ![s].pc = "save", ![s].seen = lastSeen]
       \/ scan[s].now < Deadline(scan[s].row, lastSeen) /\ Done(s) /\ UNCHANGED faults
       \/ Fault /\ Done(s)
    /\ UNCHANGED <<clock, cfg, lastSeen, call, raised, resets, calls>>

\* SaveDeadmanConfig writes the row as it was listed, flagged, whether it is
\* still there or not; a failed save ends the check of this device.
SaveFlag(s) ==
    LET flagged == [scan[s].row EXCEPT !.alerted = TRUE]
    IN /\ scan[s].pc = "save"
       /\ \/ cfg' = flagged /\ scan' = [scan EXCEPT ![s].pc = "trigger"] /\ UNCHANGED faults
          \/ cfg' \in {cfg, flagged} /\ Fault /\ Done(s)
       /\ UNCHANGED <<clock, lastSeen, call, raised, resets, calls>>

Trigger(s) ==
    LET more == [raised EXCEPT ![scan[s].seen] = raised[scan[s].seen] + 1]
    IN /\ scan[s].pc = "trigger"
       /\ \/ raised' = more /\ UNCHANGED faults
          \/ raised' \in {raised, more} /\ Fault
       /\ Done(s)
       /\ UNCHANGED <<clock, cfg, lastSeen, call, resets, calls>>

\* The scanning replica stops; the next one starts from the store.
Stop(s) ==
    /\ scan[s].pc # "idle" /\ Fault /\ Done(s)
    /\ UNCHANGED <<clock, cfg, lastSeen, call, raised, resets, calls>>
-----------------------------------------------------------------------------
(* Configure, update (Snooze, ClearSnooze, ClearAlert), CheckIn and Remove. *)

Hangup(c) == call' = [call EXCEPT ![c] = NoCall]

\* A position is stored: the device is touched before the check-in.
Position(c) ==
    /\ call[c].pc = "idle" /\ "checkin" \in Kinds /\ calls < MaxCalls
    /\ \/ lastSeen' = clock /\ UNCHANGED faults
       \/ lastSeen' \in {lastSeen, clock} /\ Fault
    /\ call' = [call EXCEPT ![c].pc = "read"]
    /\ calls' = calls + 1
    /\ UNCHANGED <<clock, cfg, scan, raised, resets>>

\* What follows the read of the config, found being the row read or NoRow.  An
\* update of none is nothing; a configure of none, or one whose read failed,
\* starts afresh, else it keeps the snooze and the flag; a check-in writes
\* only what is flagged.
AfterRead(c, k, i, found) ==
    call' = [call EXCEPT ![c] =
        CASE k = "configure" ->
               [pc |-> "save", kind |-> k, row |-> IF found.there THEN [found EXCEPT !.interval = i] ELSE NewRow(i)]
          [] k = "checkin" -> [pc |-> IF found.alerted THEN "save" ELSE "touch", kind |-> k, row |-> found]
          [] OTHER -> IF found.there THEN [pc |-> "save", kind |-> k, row |-> found] ELSE NoCall]

Read(c, k, i) ==
    /\ \/ call[c].pc = "idle" /\ calls < MaxCalls /\ calls' = calls + 1
       \/ call[c].pc = "read" /\ k = "checkin" /\ UNCHANGED calls
    /\ \/ AfterRead(c, k, i, cfg) /\ UNCHANGED faults
       \/ AfterRead(c, k, i, NoRow) /\ Fault
    /\ UNCHANGED <<clock, cfg, lastSeen, scan, raised, resets>>

\* What the call writes.
Written(c) ==
    LET row == call[c].row
    IN CASE call[c].kind = "configure" -> row
         [] call[c].kind = "snooze" -> [row EXCEPT !.snoozed = clock + SnoozeFor]
         [] call[c].kind = "unsnooze" -> [row EXCEPT !.snoozed = 0]
         [] call[c].kind \in {"clear", "checkin"} -> [row EXCEPT !.alerted = FALSE]

Save(c) ==
    /\ call[c].pc = "save"
    /\ \/ cfg' = Written(c) /\ UNCHANGED faults
       \/ cfg' \in {cfg, Written(c)} /\ Fault
    /\ resets' = resets + (IF Written(c).alerted THEN 0 ELSE 1)
    /\ IF call[c].kind = "checkin" THEN call' = [call EXCEPT ![c].pc = "touch"] ELSE Hangup(c)
    /\ UNCHANGED <<clock, lastSeen, scan, raised, calls>>

TouchDeviceLastSeen(c) ==
    /\ call[c].pc = "touch"
    /\ \/ lastSeen' = clock /\ UNCHANGED faults
       \/ lastSeen' \in {lastSeen, clock} /\ Fault
    /\ Hangup(c)
    /\ UNCHANGED <<clock, cfg, scan, raised, resets, calls>>

\* Remove, and Configure with a disabled switch.
Remove ==
    /\ calls < MaxCalls /\ calls' = calls + 1
    /\ \/ cfg' = NoRow /\ UNCHANGED faults
       \/ cfg' \in {cfg, NoRow} /\ Fault
    /\ resets' = resets + 1
    /\ UNCHANGED <<clock, lastSeen, scan, call, raised>>

ScanStep(s) == List(s) \/ GetDevice(s) \/ SaveFlag(s) \/ Trigger(s)

CallStep(c) ==
    \/ Position(c) \/ Save(c) \/ TouchDeviceLastSeen(c)
    \/ \E k \in Kinds, i \in Intervals : Read(c, k, i)

Next ==
    \/ Tick \/ Remove
    \/ \E s \in Scanners : ScanStep(s) \/ Stop(s)
    \/ \E c \in Callers : CallStep(c)

Spec == Init /\ [][Next]_vars

(* Time passes, the leader scans, a call that began ends. *)
FairSpec ==
    /\ Spec
    /\ WF_vars(Tick)
    /\ \A s \in Scanners : WF_vars(ScanStep(s))
    /\ \A c \in Callers : WF_vars(call[c].pc # "idle" /\ CallStep(c))
-----------------------------------------------------------------------------
Row == [there : BOOLEAN, interval : Intervals, snoozed : Nat, alerted : BOOLEAN]

TypeOK ==
    /\ clock \in Times /\ lastSeen \in Times
    /\ resets \in Nat /\ calls \in Nat /\ faults \in Nat
    /\ cfg \in Row
    /\ scan \in [Scanners -> [pc : {"idle", "device", "save", "trigger"}, row : Row, now : Times, was : Times, seen : Times]]
    /\ call \in [Callers -> [pc : {"idle", "read", "save", "touch"}, kind : AllKinds, row : Row]]
    /\ raised \in [Times -> Nat]

(* checkDevice alerts only for a device that had, at the time of the scan,  *)
(* been silent for the interval and grace it was listed with, judged by the *)
(* check-ins stored when the scan began, though it reads the device later.  *)
OnlySilentAlerts ==
    \A s \in Scanners :
        scan[s].pc \in {"save", "trigger"} => scan[s].now >= scan[s].was + scan[s].row.interval + Grace

(* checkDevice marks the flag first "so a second replica or a restart does  *)
(* not trigger the same alert again": a silence raises one alert, and at    *)
(* most one more for each call that removed the row or wrote it unflagged.  *)
OneAlertPerSilence == \A t \in Times : raised[t] <= 1 + resets

\* The switch is on and not snoozed, and the window has passed.
Overdue == cfg.there /\ cfg.snoozed <= clock /\ clock >= lastSeen + cfg.interval + Grace

(* A device that stays overdue ends up flagged for good, whatever calls,    *)
(* failures and restarts came before.                                       *)
OverdueIsFlagged == <>[]Overdue => <>[]cfg.alerted
-----------------------------------------------------------------------------
(* deadman.go:2 "If the device does not send an MO message within that      *)
(* window + grace period, an alert is triggered": a silence that lasts has  *)
(* raised one.                                                              *)
SilenceAlerts == <>[]Overdue => <>[](raised[lastSeen] > 0)
=============================================================================
