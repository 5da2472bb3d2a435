------------------------- MODULE AgentStatus_proofs -------------------------
(***************************************************************************)
(* What holds of the stored status for any set of faults, any number of    *)
(* days and any number of crashes, also between the two writes of          *)
(* _set_status.                                                            *)
(*                                                                         *)
(* The properties are about a status and a reason that are written one     *)
(* after the other.  StatusInv says what stands behind them: which pair of *)
(* values the owner's command left or is leaving, what a cycle that has    *)
(* started since must have read, and why a bad heartbeat that the cycle    *)
(* has seen keeps its entries back.                                        *)
(***************************************************************************)
EXTENDS AgentStatus, TLAPS

Manual == Because("manual")

\* While the owner's stop stands, the agent is HALTED, or PAUSED for a reason
\* that no automatic check lifts.
StopStands ==
  /\ owner = "stop" => \/ status = "HALTED"
                       \/ status = "PAUSED" /\ reason = Manual /\ WrittenOut
  /\ owner = "stopping" => \/ status = "HALTED" /\ ~WrittenOut
                           \/ status = "PAUSED" /\ unwritten = Manual

\* A cycle keeps no status before it calls the engine; one that has started
\* under a stop has read no RUNNING.
BeforeEngine ==
  {"idle", "fetch", "reconcile", "reconciled", "tell_reconcile", "checked", "tell_deadman"}
ReadLate ==
  /\ cycle \in BeforeEngine => seen.status = "HALTED"
  /\ stopAge = 1 => status # "RUNNING" /\ seen.status # "RUNNING"

\* A cycle that saw a bad heartbeat is kept from entries: by a status that only
\* the owner lifts while it tells the owner, by the status it has read after.
NotForTheClock == IF WrittenOut THEN reason # Because("clock") ELSE unwritten # Because("clock")
Unprotected == ~seen.deadman /\ ~overruled
KeptBack ==
  /\ cycle = "checked" /\ Unprotected => status # "RUNNING"
  /\ cycle = "tell_deadman" /\ Unprotected =>
       status = "HALTED" \/ (status = "PAUSED" /\ NotForTheClock)
  /\ cycle \in {"execute", "sending", "halting"} /\ Unprotected => seen.status # "RUNNING"

\* The inductive invariant.
StatusInv == TypeOK /\ StopStands /\ ReadLate /\ KeptBack

-----------------------------------------------------------------------------
(* Types                                                                   *)

\* What _set_status may be given.
LEMMA ReasonTypes ==
  /\ \A k \in {"none", "manual", "clock", "reconcile", "deadman", "max_drawdown", "manual_kill"} :
       Because(k) \in Reasons
  /\ \A d \in 0..MaxDay : DailyLoss(d) \in Reasons
  BY DEF Reasons

StoredTypes ==
  /\ status \in Status
  /\ reason \in Reasons
  /\ unwritten \in Reasons \cup {Written}
  /\ stopAge \in 0..1

\* _set_status keeps the types of what it stores.
LEMMA SetStatusTypes ==
  ASSUME StoredTypes, NEW s \in Status, NEW r \in Reasons, SetStatus(s, r)
  PROVE  StoredTypes'
  BY DEF StoredTypes, SetStatus

\* So do the two handlers that may or may not call it.
LEMMA UpdateClockTypes ==
  ASSUME StoredTypes, UpdateClock
  PROVE  StoredTypes'
<1>1. CASE SetStatus("PAUSED", Because("clock"))
  BY <1>1, ReasonTypes, SetStatusTypes DEF Status
<1>2. CASE SetStatus("RUNNING", NoReason)
  BY <1>2, ReasonTypes, SetStatusTypes DEF Status, NoReason
<1>3. CASE UNCHANGED <<stored, stopAge>>
  BY <1>3 DEF StoredTypes, stored
<1>4. QED
  BY <1>1, <1>2, <1>3 DEF UpdateClock

\* _auto_pause writes statuses and reasons.
LEMMA AutoPauseTypes ==
  ASSUME StoredTypes, NEW r \in Reasons, NEW bad \in BOOLEAN, AutoPause(r, bad)
  PROVE  StoredTypes'
<1>1. CASE SetStatus("PAUSED", r)
  BY <1>1, SetStatusTypes DEF Status
<1>2. CASE SetStatus("RUNNING", NoReason)
  BY <1>2, ReasonTypes, SetStatusTypes DEF Status, NoReason
<1>3. CASE UNCHANGED <<stored, stopAge>>
  BY <1>3 DEF StoredTypes, stored
<1>4. QED
  BY <1>1, <1>2, <1>3 DEF AutoPause

OtherTypes ==
  /\ day \in 0..MaxDay
  /\ {clockBad, mismatch, deadmanBad, deep, loss, clockKnownBad, marked} \subseteq BOOLEAN
  /\ cycle \in Places
  /\ kill \in {"down", "idle", "cancelling"}
  /\ seen \in SeenType
  /\ owner \in {"none", "stopping", "stop", "lost"}
  /\ overruled \in BOOLEAN
  /\ crashes \in 0..MaxCrashes

\* The type invariant in two parts.
LEMMA TypeParts == TypeOK <=> StoredTypes /\ OtherTypes
  BY DEF TypeOK, StoredTypes, OtherTypes

\* A cycle that has read nothing.
LEMMA NothingType == Nothing \in SeenType
  BY BoundsAssumption DEF Nothing, SeenType, Status

\* Every step keeps the types of what is stored.
LEMMA StepStored == TypeOK /\ [Next]_vars => StoredTypes'
<1> SUFFICES ASSUME TypeOK, [Next]_vars
             PROVE  StoredTypes'
  OBVIOUS
<1>a. StoredTypes
  BY TypeParts
<1>1. CASE UNCHANGED <<stored, stopAge>>
  BY <1>1, <1>a DEF StoredTypes, stored
<1>2. CASE WriteReason
  BY <1>2, <1>a DEF StoredTypes, WriteReason, WrittenOut
<1>3. CASE ClockJob \/ Startup
  BY <1>1, <1>3, <1>a, UpdateClockTypes DEF ClockJob, Startup, stored
<1>4. CASE CycleStart
  <2>1. CASE SetStatus("RUNNING", NoReason)
    BY <2>1, <1>a, ReasonTypes, SetStatusTypes DEF Status, NoReason
  <2>2. CASE UNCHANGED stored /\ stopAge' \in 0..1
    BY <2>2, <1>a DEF StoredTypes, stored
  <2>3. QED
    BY <1>4, <1>a, <2>1, <2>2 DEF CycleStart, StoredTypes
<1>5. CASE Reconcile
  <2>1. PICK ok \in {~mismatch, FALSE} : AutoPause(Because("reconcile"), ~ok)
    BY <1>5 DEF Reconcile
  <2>2. QED
    BY <2>1, <1>a, ReasonTypes, AutoPauseTypes
<1>6. CASE CheckDeadman
  <2>1. deadmanBad \in BOOLEAN
    BY DEF TypeOK
  <2>2. QED
    BY <1>6, <2>1, <1>a, ReasonTypes, AutoPauseTypes DEF CheckDeadman
<1>7. CASE Halt
  BY <1>7, <1>a, ReasonTypes, SetStatusTypes DEF Halt, Status
<1>8. CASE EndCycle
  <2>1. seen.day \in 0..MaxDay
    BY DEF TypeOK, SeenType
  <2>2. CASE SetStatus("PAUSED", DailyLoss(seen.day))
    BY <2>1, <2>2, <1>a, ReasonTypes, SetStatusTypes DEF Status
  <2>3. QED
    BY <1>1, <1>8, <2>2 DEF EndCycle
<1>9. CASE Pause \/ Resume \/ KillEnd
  BY <1>9, <1>a, ReasonTypes, SetStatusTypes DEF Pause, Resume, KillEnd, Status, NoReason
<1>10. CASE Crash
  BY <1>10, <1>a DEF Crash, StoredTypes
<1>11. CASE World \/ Midnight \/ Fetched \/ Engine \/ SendEntry \/ EntrySent \/ TriggerHalt \/ KillStart
  BY <1>1, <1>11 DEF World, Midnight, Fetched, Engine, SendEntry, EntrySent, TriggerHalt, KillStart,
     histories, stored
<1>12. CASE UNCHANGED vars
  BY <1>1, <1>12 DEF vars, stored
<1>13. QED
  BY <1>2, <1>3, <1>4, <1>5, <1>6, <1>7, <1>8, <1>9, <1>10, <1>11, <1>12 DEF Next, CycleStep, OwnerStep

\* Every step keeps the types of the rest.
LEMMA StepOther == TypeOK /\ [Next]_vars => OtherTypes'
<1> SUFFICES ASSUME TypeOK, [Next]_vars
             PROVE  OtherTypes'
  OBVIOUS
<1>a. OtherTypes /\ status \in Status
  BY DEF TypeOK, OtherTypes
<1> USE <1>a DEF OtherTypes, world, histories, Places, Awaiting, Running
<1>1. CASE WriteReason
  BY <1>1 DEF WriteReason
<1>2. CASE World
  BY <1>2, ZenonT(60) DEF World, Clock, Books, Heartbeats, Equity, Losses
<1>3. CASE Midnight
  <2>1. day' \in 0..MaxDay
    BY <1>3, BoundsAssumption DEF Midnight
  <2>2. QED
    BY <1>3, <2>1 DEF Midnight
<1>4. CASE ClockJob
  BY <1>4 DEF ClockJob, UpdateClock
<1>5. CASE Startup
  BY <1>5 DEF Startup, UpdateClock
<1>6. CASE CycleStart
  <2>1. seen' \in SeenType
    BY <1>6 DEF CycleStart, SeenType
  <2>2. QED
    BY <1>6, <2>1 DEF CycleStart
<1>7. CASE Fetched
  BY <1>7, NothingType DEF Fetched
<1>8. CASE Reconcile
  <2>1. seen' \in SeenType
    BY <1>8 DEF Reconcile, SeenType
  <2>2. QED
    BY <1>8, <2>1 DEF Reconcile
<1>9. CASE CheckDeadman
  <2>1. seen' \in SeenType
    BY <1>9 DEF CheckDeadman, SeenType
  <2>2. QED
    BY <1>9, <2>1 DEF CheckDeadman
<1>10. CASE Engine
  <2>1. seen' \in SeenType
    BY <1>10 DEF Engine, SeenType
  <2>2. QED
    BY <1>10, <2>1 DEF Engine
<1>11. CASE SendEntry \/ EntrySent \/ TriggerHalt
  BY <1>11 DEF SendEntry, EntrySent, TriggerHalt
<1>12. CASE Halt \/ EndCycle
  BY <1>12, NothingType DEF Halt, EndCycle, FinishCycle
<1>13. CASE Pause \/ KillStart \/ KillEnd
  BY <1>13 DEF Pause, KillStart, KillEnd
<1>14. CASE Resume
  BY <1>14 DEF Resume
<1>15. CASE Crash
  <2>1. crashes' \in 0..MaxCrashes
    BY <1>15, BoundsAssumption DEF Crash
  <2>2. QED
    BY <1>15, <2>1, NothingType DEF Crash
<1>16. CASE UNCHANGED vars
  BY <1>16 DEF vars
<1>17. QED
  BY <1>1, <1>2, <1>3, <1>4, <1>5, <1>6, <1>7, <1>8, <1>9, <1>10, <1>11, <1>12, <1>13, <1>14, <1>15, <1>16
     DEF Next, CycleStep, OwnerStep

-----------------------------------------------------------------------------
(* The invariant                                                           *)

\* The agent starts RUNNING, with no command of the owner.
LEMMA InitInv == Init => StatusInv
<1> SUFFICES ASSUME Init
             PROVE  StatusInv
  OBVIOUS
<1>1. StoredTypes
  BY ReasonTypes DEF Init, StoredTypes, Status, NoReason
<1>2. OtherTypes
  <2>1. ("clock" \in Faults) \in BOOLEAN
    OBVIOUS
  <2>2. clockBad \in BOOLEAN
    BY <2>1 DEF Init
  <2>3. 0 \in 0..MaxDay /\ 0 \in 0..MaxCrashes
    BY BoundsAssumption
  <2>4. QED
    BY <2>2, <2>3, NothingType DEF Init, OtherTypes, Places, Awaiting
<1>3. StopStands /\ ReadLate /\ KeptBack
  BY DEF Init, StopStands, ReadLate, KeptBack, BeforeEngine, Nothing
<1>4. QED
  BY <1>1, <1>2, <1>3, TypeParts DEF StatusInv

\* No automatic check takes the owner's reason for its own.
LEMMA ManualIsNobodys ==
  /\ Manual # Written /\ Because("manual_kill") # Written /\ Manual.kind # "daily_loss"
  /\ Manual # Because("clock") /\ Manual # Because("reconcile") /\ Manual # Because("deadman")
<1>1. Manual.kind = "manual" /\ Written.kind = "written"
  BY DEF Manual, Written, Because
<1>2. \A k \in {"clock", "reconcile", "deadman", "manual_kill"} : Because(k).kind = k
  BY DEF Because
<1>3. QED
  BY <1>1, <1>2

\* No step lifts the owner's stop but /resume: a check lifts only the pause it
\* set itself, and the owner's reason is not one of theirs.
LEMMA StepStands == StatusInv /\ [Next]_vars => StopStands'
<1> SUFFICES ASSUME StatusInv, [Next]_vars
             PROVE  StopStands'
  OBVIOUS
<1>a. StopStands
  BY DEF StatusInv
<1> USE <1>a, ManualIsNobodys DEF StopStands, WrittenOut, stored
<1>1. CASE UNCHANGED <<stored, owner>>
  BY <1>1
<1>2. CASE WriteReason
  BY <1>2 DEF WriteReason
<1>3. CASE ClockJob \/ Startup
  BY <1>3 DEF ClockJob, Startup, UpdateClock, SetStatus, AtAwait
<1>4. CASE CycleStart
  BY <1>4 DEF CycleStart, PausedYesterday, SetStatus, AtAwait
<1>5. CASE Reconcile
  BY <1>5 DEF Reconcile, AutoPause, SetStatus, AtAwait
<1>6. CASE CheckDeadman
  BY <1>6 DEF CheckDeadman, AutoPause, SetStatus
<1>7. CASE Halt
  BY <1>7 DEF Halt, SetStatus, AtAwait
<1>8. CASE EndCycle
  BY <1>8 DEF EndCycle, SetStatus, AtAwait
<1>9. CASE Pause
  BY <1>9 DEF Pause, SetStatus, Manual
<1>10. CASE Resume
  BY <1>10 DEF Resume
<1>11. CASE KillEnd
  BY <1>11 DEF KillEnd, SetStatus
<1>12. CASE Crash
  BY <1>12 DEF Crash
<1>13. CASE World \/ Midnight \/ Fetched \/ Engine \/ SendEntry \/ EntrySent \/ TriggerHalt \/ KillStart
  BY <1>1, <1>13 DEF World, Midnight, Fetched, Engine, SendEntry, EntrySent, TriggerHalt, KillStart, histories
<1>14. CASE UNCHANGED vars
  BY <1>1, <1>14 DEF vars
<1>15. QED
  BY <1>2, <1>3, <1>4, <1>5, <1>6, <1>7, <1>8, <1>9, <1>10, <1>11, <1>12, <1>13, <1>14
     DEF Next, CycleStep, OwnerStep

\* Once a cycle has started under a stop, no cycle holds a RUNNING it has read
\* before, unless the status was RUNNING again in between.
LEMMA StepLate == StatusInv /\ [Next]_vars => ReadLate'
<1> SUFFICES ASSUME StatusInv, [Next]_vars
             PROVE  ReadLate'
  OBVIOUS
<1>a. ReadLate /\ stopAge \in 0..1 /\ seen \in SeenType /\ status \in Status
  BY DEF StatusInv, TypeOK
<1> USE <1>a DEF ReadLate, BeforeEngine, stored, histories, SetStatus
<1>1. CASE UNCHANGED <<stored, stopAge, cycle, seen>>
  BY <1>1
<1>2. CASE ClockJob \/ Startup
  BY <1>2 DEF ClockJob, Startup, UpdateClock
<1>3. CASE CycleStart
  <2>1. seen'.status = seen.status
    BY <1>3 DEF CycleStart, SeenType
  <2>2. QED
    BY <1>3, <2>1 DEF CycleStart
<1>4. CASE Fetched
  BY <1>4 DEF Fetched, Nothing
<1>5. CASE Reconcile
  <2>1. seen'.status = seen.status
    BY <1>5 DEF Reconcile, SeenType
  <2>2. QED
    BY <1>5, <2>1 DEF Reconcile, AutoPause
<1>6. CASE CheckDeadman
  <2>1. seen'.status = seen.status
    BY <1>6 DEF CheckDeadman, SeenType
  <2>2. QED
    BY <1>6, <2>1 DEF CheckDeadman, AutoPause
<1>7. CASE Engine
  <2>1. seen'.status = status
    BY <1>7 DEF Engine, SeenType
  <2>2. QED
    BY <1>7, <2>1 DEF Engine
<1>8. CASE SendEntry \/ EntrySent \/ TriggerHalt
  BY <1>8 DEF SendEntry, EntrySent, TriggerHalt
<1>9. CASE Halt \/ EndCycle
  BY <1>9 DEF Halt, EndCycle, FinishCycle, Nothing
<1>10. CASE Pause \/ Resume \/ KillEnd
  <2>1. UNCHANGED <<cycle, seen>>
    BY <1>10 DEF Pause, Resume, KillEnd
  <2>2. \/ status' # "RUNNING" /\ stopAge' = stopAge
        \/ stopAge' = 0
    BY <1>10 DEF Pause, Resume, KillEnd
  <2>3. QED
    BY <2>1, <2>2
<1>11. CASE Crash
  BY <1>11 DEF Crash, Nothing
<1>12. CASE WriteReason \/ World \/ Midnight \/ KillStart
  BY <1>1, <1>12 DEF WriteReason, World, Midnight, KillStart
<1>13. CASE UNCHANGED vars
  BY <1>1, <1>13 DEF vars
<1>14. QED
  BY <1>2, <1>3, <1>4, <1>5, <1>6, <1>7, <1>8, <1>9, <1>10, <1>11, <1>12, <1>13 DEF Next, CycleStep, OwnerStep

\* What the cycle has seen of the Deadman Switch keeps its entries back until
\* the next look at it, or until the owner's /resume.
LEMMA StepKept == StatusInv /\ [Next]_vars => KeptBack'
<1> SUFFICES ASSUME StatusInv, [Next]_vars
             PROVE  KeptBack'
  OBVIOUS
<1>a. KeptBack /\ seen \in SeenType /\ status \in Status /\ deadmanBad \in BOOLEAN
  BY DEF StatusInv, TypeOK
<1>b. /\ Because("deadman") # Because("clock") /\ Because("manual") # Because("clock")
      /\ \A k \in {"deadman", "manual"} : Because(k) # Written
  <2>1. \A k \in {"deadman", "manual", "clock"} : Because(k).kind = k /\ Written.kind = "written"
    BY DEF Because, Written
  <2>2. QED
    BY <2>1
<1> USE <1>a DEF KeptBack, Unprotected
<1>1. CASE UNCHANGED <<stored, cycle, seen, overruled>>
  BY <1>1 DEF NotForTheClock, WrittenOut, stored
<1>2. CASE WriteReason
  BY <1>2 DEF WriteReason, NotForTheClock, WrittenOut, world
<1>3. CASE ClockJob
  \* The job ends a pause only if it is one for the clock.
  BY <1>3 DEF ClockJob, UpdateClock, NotForTheClock, WrittenOut, AtAwait, Running, SetStatus, stored
<1>4. CASE Startup
  BY <1>4 DEF Startup, UpdateClock, NotForTheClock, WrittenOut, AtAwait, Running, SetStatus, stored
<1>5. CASE CycleStart \/ Fetched
  <2>1. cycle' \in {"idle", "fetch", "reconcile"}
    BY <1>5 DEF CycleStart, Fetched
  <2>2. QED
    BY <2>1
<1>6. CASE Reconcile
  <2>1. cycle' \in {"tell_reconcile", "reconciled"}
    BY <1>6 DEF Reconcile
  <2>2. QED
    BY <2>1
<1>7. CASE CheckDeadman
  \* A bad heartbeat leaves a status that is not RUNNING; if it changed, the
  \* pause is for the heartbeat.
  <2>1. seen'.deadman = ~deadmanBad
    BY <1>7 DEF CheckDeadman, SeenType
  <2>2. cycle' = IF status' # status THEN "tell_deadman" ELSE "checked"
    BY <1>7 DEF CheckDeadman
  <2>3. deadmanBad => \/ status' = "PAUSED" /\ unwritten' = Because("deadman")
                      \/ status' = status /\ status # "RUNNING"
    BY <1>7 DEF CheckDeadman, AutoPause, SetStatus, stored
  <2>4. QED
    BY <2>1, <2>2, <2>3, <1>b DEF NotForTheClock, WrittenOut
<1>8. CASE Engine
  \* "checked" holds the loop; after "tell_deadman" the pause still stands.
  <2>1. seen'.status = status /\ seen'.deadman = seen.deadman
    BY <1>8 DEF Engine, SeenType
  <2>2. QED
    BY <1>8, <2>1 DEF Engine
<1>9. CASE SendEntry \/ EntrySent \/ TriggerHalt
  BY <1>9 DEF SendEntry, EntrySent, TriggerHalt, histories
<1>10. CASE Halt \/ EndCycle \/ Crash
  BY <1>10 DEF Halt, EndCycle, FinishCycle, Crash
<1>11. CASE Pause
  BY <1>11, <1>b DEF Pause, SetStatus, NotForTheClock, WrittenOut
<1>12. CASE Resume
  BY <1>12 DEF Resume
<1>13. CASE KillEnd
  BY <1>13 DEF KillEnd, SetStatus
<1>14. CASE World \/ Midnight \/ KillStart
  BY <1>1, <1>14 DEF World, Midnight, KillStart, histories
<1>15. CASE UNCHANGED vars
  BY <1>1, <1>15 DEF vars, stored
<1>16. QED
  BY <1>2, <1>3, <1>4, <1>5, <1>6, <1>7, <1>8, <1>9, <1>10, <1>11, <1>12, <1>13, <1>14, <1>15
     DEF Next, CycleStep, OwnerStep

\* Every step keeps the invariant.
LEMMA StepInv == StatusInv /\ [Next]_vars => StatusInv'
  BY StepStored, StepOther, StepStands, StepLate, StepKept DEF StatusInv, TypeOK, StoredTypes, OtherTypes

-----------------------------------------------------------------------------
(* The theorems                                                            *)

\* StatusInv holds in every reachable state.
THEOREM StatusInvHolds == Spec => []StatusInv
<1>1. QED
  BY InitInv, StepInv, PTL DEF Spec

\* The stored state and what the handlers keep of it have their types, for
\* any number of days and crashes.
THEOREM TypesHold == Spec => []TypeOK
<1>1. StatusInv => TypeOK
  BY DEF StatusInv
<1>2. QED
  BY <1>1, StatusInvHolds, PTL

\* A stop the owner was told of (pause and kill, runner.py) is lifted by
\* nothing but /resume, whatever the checks find and wherever the process dies.
THEOREM OwnerStopsStick == Spec => []OwnerStopSticks
<1>1. StatusInv => OwnerStopSticks
  BY DEF StatusInv, StopStands, OwnerStopSticks
<1>2. QED
  BY <1>1, StatusInvHolds, PTL

\* No entry is approved on an unhealthy Deadman Switch (_live_checks).
THEOREM DeadmanProtects == Spec => []DeadmanBlocksEntries
<1>1. StatusInv => DeadmanBlocksEntries
  BY DEF StatusInv, KeptBack, Unprotected, DeadmanBlocksEntries, EntryApproved
<1>2. QED
  BY <1>1, StatusInvHolds, PTL

\* A cycle that starts under a pause or a halt sends no entry (_cycle).
THEOREM StopsBindNextCycle == Spec => StopBindsNextCycle
<1>1. StatusInv /\ [Next]_vars => [SendEntry => stopAge = 0]_vars
  BY DEF StatusInv, TypeOK, ReadLate, SendEntry, EntryApproved
<1>2. QED
  BY <1>1, StatusInvHolds, PTL DEF Spec, StopBindsNextCycle

\* HALTED is left only by /resume: every other handler that sets a status
\* tests it first, or sets HALTED itself.
THEOREM HaltsNeedResume == Spec => HaltNeedsResume
<1>1. ASSUME [Next]_vars, status = "HALTED", status' # "HALTED"
      PROVE  Resume
  BY <1>1 DEF Next, CycleStep, OwnerStep, vars, WriteReason, World, Midnight, ClockJob, Startup, UpdateClock,
     CycleStart, PausedYesterday, Fetched, Reconcile, AutoPause, CheckDeadman, Engine, SendEntry, EntrySent,
     TriggerHalt, Halt, EndCycle, Pause, KillStart, KillEnd, Crash, SetStatus, stored
<1>2. [Next]_vars => [status = "HALTED" /\ status' # "HALTED" => Resume]_vars
  BY <1>1
<1>3. QED
  BY <1>2, PTL DEF Spec, HaltNeedsResume
=============================================================================
