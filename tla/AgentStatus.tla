---------------------------- MODULE AgentStatus ----------------------------
(***************************************************************************)
(* The agent's status, RUNNING, PAUSED or HALTED, and the single reason    *)
(* stored beside it (agent/runner.py, mode live): who sets it, who lifts   *)
(* it, and what a trading cycle that read it does with it.                 *)
(*                                                                         *)
(* Status and reason are read and written by the trading cycle, the clock  *)
(* job and the owner's Telegram commands, which interleave at every await. *)
(* Commands are handled one at a time.  _set_status writes the two values  *)
(* in two transactions, with no await between them.  Orders, the ledger    *)
(* and the market are reduced to what these handlers test.                 *)
(*                                                                         *)
(* A definition marked "mutant of" is a bug that the runs must catch, put  *)
(* in the place of the definition it names; nothing else uses it.          *)
(***************************************************************************)
EXTENDS Naturals

CONSTANTS
  Faults,      \* the facts about the world that may change
  MaxDay,      \* bound on the number of local days
  TornCrash,   \* may the process die between the two writes of _set_status?
  MaxCrashes   \* bound on the number of crashes

ASSUME BoundsAssumption ==
  /\ Faults \subseteq {"clock", "books", "heartbeats", "equity", "loss"}
  /\ MaxDay \in Nat
  /\ TornCrash \in BOOLEAN
  /\ MaxCrashes \in Nat

VARIABLES
  status, reason,    \* the stored state
  unwritten,         \* the reason _set_status has still to write
  day,               \* the local date
  clockBad,          \* the VPS clock is outside max_clock_offset_ms
  mismatch,          \* the exchange does not match the ledger
  deadmanBad,        \* DeadmanSwitch.healthy is FALSE
  deep,              \* drawdown from the stored peak is over the limit
  loss,              \* today's loss is over the limit
  clockKnownBad,     \* what the last successful clock check measured
  marked,            \* last_markets is set: a cycle has fetched since the start
  cycle,             \* where the cycle is
  kill,              \* where /kill is
  seen,              \* what the cycle has read or computed
  owner,             \* history: the owner's last command, and whether it was acknowledged
  overruled,         \* history: /resume came after the cycle's Deadman check
  stopAge,           \* history: 1 once a cycle has started since the status left RUNNING
  crashes

vars == <<status, reason, unwritten, day, clockBad, mismatch, deadmanBad, deep, loss,
          clockKnownBad, marked, cycle, kill, seen, owner, overruled, stopAge, crashes>>
stored == <<status, reason, unwritten>>
world == <<day, clockBad, mismatch, deadmanBad, deep, loss>>
histories == <<owner, overruled, stopAge>>

Status == {"RUNNING", "PAUSED", "HALTED"}
Because(kind) == [kind |-> kind, day |-> 0]
DailyLoss(d) == [kind |-> "daily_loss", day |-> d]
NoReason == Because("none")
Reasons ==
  {Because(k) : k \in {"none", "manual", "clock", "reconcile", "deadman", "max_drawdown", "manual_kill"}}
    \cup {DailyLoss(d) : d \in 0..MaxDay}
Written == Because("written")

\* Places of the cycle: at an await, or holding the loop between two awaits.
Awaiting == {"idle", "fetch", "reconcile", "tell_reconcile", "tell_deadman", "execute", "sending", "halting"}
Running == {"reconciled", "checked"}
Places == Awaiting \cup Running

\* What the cycle keeps in local variables.
SeenType == [day : 0..MaxDay, recon : BOOLEAN, deadman : BOOLEAN,
             status : Status, halt : BOOLEAN, daily : BOOLEAN]
Nothing == [day |-> 0, recon |-> TRUE, deadman |-> TRUE,
            status |-> "HALTED", halt |-> FALSE, daily |-> FALSE]

TypeOK ==
  /\ status \in Status
  /\ reason \in Reasons
  /\ unwritten \in Reasons \cup {Written}
  /\ day \in 0..MaxDay
  /\ {clockBad, mismatch, deadmanBad, deep, loss, clockKnownBad, marked} \subseteq BOOLEAN
  /\ cycle \in Places
  /\ kill \in {"down", "idle", "cancelling"}
  /\ seen \in SeenType
  /\ owner \in {"none", "stopping", "stop", "lost"}
  /\ overruled \in BOOLEAN
  /\ stopAge \in 0..1
  /\ crashes \in 0..MaxCrashes

Init ==
  /\ status = "RUNNING" /\ reason = NoReason /\ unwritten = Written
  /\ day = 0
  /\ clockBad \in {FALSE, "clock" \in Faults}
  /\ mismatch = FALSE /\ deadmanBad = FALSE /\ deep = FALSE /\ loss = FALSE
  /\ clockKnownBad = FALSE /\ marked = FALSE
  /\ cycle = "idle" /\ kill = "down"
  /\ seen = Nothing
  /\ owner = "none" /\ overruled = FALSE /\ stopAge = 0
  /\ crashes = 0

-----------------------------------------------------------------------------
(* _set_status                                                             *)

Up == kill # "down"
WrittenOut == unwritten = Written
AtAwait == WrittenOut /\ cycle \notin Running

SetStatus(s, r) ==
  /\ status' = s
  /\ unwritten' = r
  /\ stopAge' = IF s = "RUNNING" THEN 0 ELSE stopAge
  /\ UNCHANGED reason

WriteReason ==
  /\ unwritten # Written
  /\ reason' = unwritten
  /\ unwritten' = Written
  /\ owner' = IF owner = "stopping" THEN "stop" ELSE owner
  /\ UNCHANGED <<status, world, clockKnownBad, marked, cycle, kill, seen, overruled, stopAge, crashes>>

-----------------------------------------------------------------------------
(* The world                                                               *)

Clock == "clock" \in Faults /\ clockBad' = ~clockBad /\ UNCHANGED <<day, mismatch, deadmanBad, deep, loss>>
Books == "books" \in Faults /\ mismatch' = ~mismatch /\ UNCHANGED <<day, clockBad, deadmanBad, deep, loss>>
Heartbeats ==
  "heartbeats" \in Faults /\ Up /\ deadmanBad' = ~deadmanBad /\ UNCHANGED <<day, clockBad, mismatch, deep, loss>>
Equity == "equity" \in Faults /\ deep' = ~deep /\ UNCHANGED <<day, clockBad, mismatch, deadmanBad, loss>>
Losses ==
  "loss" \in Faults /\ day < MaxDay /\ loss' = ~loss /\ UNCHANGED <<day, clockBad, mismatch, deadmanBad, deep>>

World ==
  /\ Clock \/ Books \/ Heartbeats \/ Equity \/ Losses
  /\ UNCHANGED <<stored, clockKnownBad, marked, cycle, kill, seen, histories, crashes>>

\* A new day starts from the equity of its first cycle.
Midnight ==
  /\ day < MaxDay
  /\ day' = day + 1
  /\ loss' = FALSE
  /\ UNCHANGED <<clockBad, mismatch, deadmanBad, deep>>
  /\ UNCHANGED <<stored, clockKnownBad, marked, cycle, kill, seen, histories, crashes>>

-----------------------------------------------------------------------------
(* The clock                                                               *)

\* update_clock with a measured offset.
UpdateClock ==
  /\ clockKnownBad' = clockBad
  /\ \/ clockBad /\ status = "RUNNING" /\ SetStatus("PAUSED", Because("clock"))
     \/ ~clockBad /\ status = "PAUSED" /\ reason = Because("clock") /\ SetStatus("RUNNING", NoReason)
     \/ /\ ~(clockBad /\ status = "RUNNING")
        /\ ~(~clockBad /\ status = "PAUSED" /\ reason = Because("clock"))
        /\ UNCHANGED <<stored, stopAge>>

\* check_clock_job; a check that fails changes nothing.
ClockJob ==
  /\ Up /\ AtAwait
  /\ UpdateClock
  /\ UNCHANGED <<world, marked, cycle, kill, seen, owner, overruled, crashes>>

\* main.run up to the scheduler: the first check may fail.
Startup ==
  /\ ~Up /\ AtAwait
  /\ kill' = "idle"
  /\ UpdateClock \/ UNCHANGED <<clockKnownBad, stored, stopAge>>
  /\ UNCHANGED <<world, marked, cycle, seen, owner, overruled, crashes>>

-----------------------------------------------------------------------------
(* The trading cycle                                                       *)

\* _cycle up to fetch_markets: yesterday's daily-loss pause is lifted.
PausedYesterday ==
  status = "PAUSED" /\ reason.kind = "daily_loss" /\ reason.day # day

CycleStart ==
  /\ Up /\ AtAwait
  /\ cycle = "idle"
  /\ cycle' = "fetch"
  /\ seen' = [seen EXCEPT !.day = day]
  /\ IF PausedYesterday
       THEN SetStatus("RUNNING", NoReason)
       ELSE /\ stopAge' = IF status # "RUNNING" THEN 1 ELSE stopAge
            /\ UNCHANGED stored
  /\ UNCHANGED <<world, clockKnownBad, marked, kill, owner, overruled, crashes>>

\* fetch_markets and check_resting.  A cycle without data for a position
\* raises, and ends here.
Fetched ==
  /\ AtAwait
  /\ cycle = "fetch"
  /\ \/ cycle' = "reconcile" /\ marked' = TRUE /\ UNCHANGED seen
     \/ cycle' = "idle" /\ seen' = Nothing /\ UNCHANGED marked
  /\ UNCHANGED <<stored, world, clockKnownBad, kill, histories, crashes>>

\* _auto_pause: set or lift a pause for one condition.  Only a change is told
\* to the owner, and only then does the cycle await.
LiftsAny(r, bad) ==                                      \* mutant of AutoPause
  IF bad /\ status = "RUNNING" THEN SetStatus("PAUSED", r)
  ELSE IF ~bad /\ status = "PAUSED" THEN SetStatus("RUNNING", NoReason)
  ELSE UNCHANGED <<stored, stopAge>>
NeverLifts(r, bad) ==                                    \* mutant of AutoPause
  IF bad /\ status = "RUNNING" THEN SetStatus("PAUSED", r) ELSE UNCHANGED <<stored, stopAge>>
NeverPauses(r, bad) ==                                   \* mutant of AutoPause
  IF ~bad /\ status = "PAUSED" /\ reason = r
    THEN SetStatus("RUNNING", NoReason) ELSE UNCHANGED <<stored, stopAge>>
AutoPause(r, bad) ==
  \/ bad /\ status = "RUNNING" /\ SetStatus("PAUSED", r)
  \/ ~bad /\ status = "PAUSED" /\ reason = r /\ SetStatus("RUNNING", NoReason)
  \/ /\ ~(bad /\ status = "RUNNING")
     /\ ~(~bad /\ status = "PAUSED" /\ reason = r)
     /\ UNCHANGED <<stored, stopAge>>

\* The answers of reconcile arrive.  Balances or open orders that cannot be
\* read count as a mismatch.
Reconcile ==
  /\ AtAwait
  /\ cycle = "reconcile"
  /\ \E ok \in {~mismatch, FALSE} :
       /\ AutoPause(Because("reconcile"), ~ok)
       /\ seen' = [seen EXCEPT !.recon = ok]
  /\ cycle' = IF status' # status THEN "tell_reconcile" ELSE "reconciled"
  /\ UNCHANGED <<world, clockKnownBad, marked, kill, owner, overruled, crashes>>

CheckDeadman ==
  /\ WrittenOut
  /\ cycle \in {"reconciled", "tell_reconcile"}
  /\ AutoPause(Because("deadman"), deadmanBad)
  /\ seen' = [seen EXCEPT !.deadman = ~deadmanBad]
  /\ cycle' = IF status' # status THEN "tell_deadman" ELSE "checked"
  /\ overruled' = FALSE
  /\ UNCHANGED <<world, clockKnownBad, marked, kill, owner, crashes>>

\* The engine is called with the status of this moment, and computes the
\* account limits.  What follows awaits the LLM and the exchange.
Engine ==
  /\ WrittenOut
  /\ cycle \in {"checked", "tell_deadman"}
  /\ seen' = [seen EXCEPT !.status = status, !.halt = deep, !.daily = loss]
  /\ cycle' = "execute"
  /\ UNCHANGED <<stored, world, clockKnownBad, marked, kill, owner, overruled, stopAge, crashes>>

\* execute sends a buy that RiskManager.evaluate approved on what was seen.
ApprovedAnyway == seen.recon /\ ~seen.halt /\ ~seen.daily  \* mutant of EntryApproved
EntryApproved == seen.status = "RUNNING" /\ seen.recon /\ ~seen.halt /\ ~seen.daily

SendEntry ==
  /\ AtAwait
  /\ cycle = "execute"
  /\ EntryApproved
  /\ cycle' = "sending"
  /\ UNCHANGED <<stored, world, clockKnownBad, marked, kill, seen, histories, crashes>>

EntrySent ==
  /\ AtAwait
  /\ cycle = "sending"
  /\ cycle' = "execute"
  /\ UNCHANGED <<stored, world, clockKnownBad, marked, kill, seen, histories, crashes>>

\* After the last execute: the kill switch, or the daily stop, or neither.
FinishCycle == cycle' = "idle" /\ seen' = Nothing

TriggerHalt ==
  /\ AtAwait
  /\ cycle = "execute"
  /\ seen.halt /\ status # "HALTED"
  /\ cycle' = "halting"
  /\ UNCHANGED <<stored, world, clockKnownBad, marked, kill, seen, histories, crashes>>

\* cancel_all has returned.
Halt ==
  /\ AtAwait
  /\ cycle = "halting"
  /\ SetStatus("HALTED", Because("max_drawdown"))
  /\ FinishCycle
  /\ UNCHANGED <<world, clockKnownBad, marked, kill, owner, overruled, crashes>>

EndCycle ==
  /\ AtAwait
  /\ cycle = "execute"
  /\ ~(seen.halt /\ status # "HALTED")
  /\ IF seen.daily /\ status = "RUNNING"
       THEN SetStatus("PAUSED", DailyLoss(seen.day))
       ELSE UNCHANGED <<stored, stopAge>>
  /\ FinishCycle
  /\ UNCHANGED <<world, clockKnownBad, marked, kill, owner, overruled, crashes>>

-----------------------------------------------------------------------------
(* The owner's commands                                                    *)

PauseAlways ==                                           \* mutant of Pause
  /\ kill = "idle" /\ AtAwait
  /\ SetStatus("PAUSED", Because("manual"))
  /\ owner' = "stopping"
  /\ UNCHANGED <<world, clockKnownBad, marked, cycle, kill, seen, overruled, crashes>>
Pause ==
  /\ kill = "idle" /\ AtAwait
  /\ status # "HALTED"
  /\ SetStatus("PAUSED", Because("manual"))
  /\ owner' = "stopping"
  /\ UNCHANGED <<world, clockKnownBad, marked, cycle, kill, seen, overruled, crashes>>

\* From HALTED, the peak equity is reset to the current equity.
Resume ==
  /\ kill = "idle" /\ AtAwait
  /\ status # "RUNNING"
  /\ deep' = IF status = "HALTED" /\ marked THEN FALSE ELSE deep
  /\ SetStatus("RUNNING", NoReason)
  /\ owner' = "none"
  /\ overruled' = TRUE
  /\ UNCHANGED <<day, clockBad, mismatch, deadmanBad, loss, clockKnownBad, marked,
                 cycle, kill, seen, crashes>>

\* /kill CONFIRM: cancel_all is awaited first, then the status is set.
KillStart ==
  /\ kill = "idle" /\ AtAwait
  /\ kill' = "cancelling"
  /\ UNCHANGED <<stored, world, clockKnownBad, marked, cycle, seen, histories, crashes>>

KillEnd ==
  /\ kill = "cancelling" /\ AtAwait
  /\ SetStatus("HALTED", Because("manual_kill"))
  /\ kill' = "idle"
  /\ owner' = "stopping"
  /\ UNCHANGED <<world, clockKnownBad, marked, cycle, seen, overruled, crashes>>

-----------------------------------------------------------------------------
\* The process dies; the stored state and the world stay.
Crash ==
  /\ Up
  /\ crashes < MaxCrashes
  /\ TornCrash \/ AtAwait
  /\ crashes' = crashes + 1
  /\ unwritten' = Written
  /\ kill' = "down"
  /\ cycle' = "idle"
  /\ seen' = Nothing
  /\ clockKnownBad' = FALSE
  /\ marked' = FALSE
  /\ deadmanBad' = FALSE
  /\ owner' = IF owner = "stopping" THEN "lost" ELSE owner
  /\ UNCHANGED <<status, reason, day, clockBad, mismatch, deep, loss, overruled, stopAge>>

CycleStep ==
  \/ CycleStart \/ Fetched \/ Reconcile \/ CheckDeadman \/ Engine
  \/ SendEntry \/ EntrySent \/ TriggerHalt \/ Halt \/ EndCycle
OwnerStep == Pause \/ Resume \/ KillStart \/ KillEnd

Next ==
  \/ WriteReason \/ World \/ Midnight \/ ClockJob \/ Startup
  \/ CycleStep \/ OwnerStep \/ Crash

Spec == Init /\ [][Next]_vars

\* The jobs run for ever; a cycle does not fail for ever in fetch_markets,
\* and reconcile does not for ever fail to read the exchange.
Fairness ==
  /\ WF_vars(WriteReason)
  /\ WF_vars(Startup /\ clockKnownBad' = clockBad)
  /\ WF_vars(Midnight)
  /\ SF_vars(ClockJob)
  /\ SF_vars(CycleStart)
  /\ SF_vars(Fetched /\ cycle' = "reconcile")
  /\ SF_vars(Reconcile /\ seen'.recon)
  /\ SF_vars(Reconcile)
  /\ SF_vars(CheckDeadman)
  /\ SF_vars(Engine)
  /\ SF_vars(EntrySent)
  /\ SF_vars(TriggerHalt \/ EndCycle)
  /\ SF_vars(Halt)

FairSpec == Spec /\ Fairness

-----------------------------------------------------------------------------
(* Properties                                                              *)

\* A stop the owner was told of (/pause or /kill) lasts until the owner's
\* /resume: no clock check, reconciliation, heartbeat, new day or drawdown
\* lifts it.
OwnerStopSticks == owner = "stop" /\ WrittenOut => status # "RUNNING"

\* HALTED is left only by /resume (README: "perlu /resume").
HaltNeedsResume == [][status = "HALTED" /\ status' # "HALTED" => Resume]_vars

\* A pause or a halt binds every cycle that starts after it; only the cycle
\* in progress may still send what it approved before.
StopBindsNextCycle == [][SendEntry => stopAge = 0]_vars

\* No entry is approved on an unhealthy Deadman Switch, unless the owner has
\* resumed since the cycle looked at it.
DeadmanBlocksEntries ==
  cycle = "execute" /\ EntryApproved => seen.deadman \/ overruled

\* Once clock, books, heartbeats and losses stay good, no pause that the agent
\* set by itself lasts: the agent lifts it by itself (README, "Status"), even
\* though a cycle may still fail to read the exchange now and then.
Good == ~clockBad /\ ~mismatch /\ ~deadmanBad /\ ~loss
PausedByItself == status = "PAUSED" /\ owner = "none"
AutoPauseLifts == <>[]Good => []<>~PausedByItself

-----------------------------------------------------------------------------
(* What a comment says and the code does not keep                          *)

\* "Pause entries while the VPS clock is off" (runner.py:145): the agent
\* never lifts a pause by itself while the last check found the clock bad.
ClockPauseHolds ==
  [][status = "PAUSED" /\ status' = "RUNNING" /\ ~Resume => ~clockKnownBad']_vars
=============================================================================
