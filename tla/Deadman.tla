------------------------------ MODULE Deadman ------------------------------
(***************************************************************************)
(* The Deadman Switch against the timer it keeps alive                     *)
(* (agent/execution/deadman.py, agent/main.py, agent/runner.py).           *)
(*                                                                         *)
(* The exchange cancels every order of the listed pairs when Countdown has *)
(* passed since the last heartbeat it took, once.  The agent sends a       *)
(* heartbeat each Heartbeat, counts the failures in a row and sends no     *)
(* entry while there are FailThreshold of them.  The two meet in time      *)
(* only: a heartbeat that fails may take long to do so, a cycle acts on    *)
(* the health it read before, and a stopping agent cancels its orders      *)
(* while its jobs still run.                                               *)
(*                                                                         *)
(* Time passes in ticks, and only while nothing is overdue.  A request is  *)
(* taken by the exchange or lost within a tick (recvWindow is shorter);    *)
(* its answer may take longer.  Entries only: a resting sell is wanted.    *)
(*                                                                         *)
(* A definition marked "mutant of" is a bug that the runs must catch, put  *)
(* in the place of the definition it names; nothing else uses it.          *)
(***************************************************************************)
EXTENDS Integers

CONSTANTS
  Pairs,          \* the whitelist
  Heartbeat,      \* heartbeat_s
  Countdown,      \* countdown_ms
  FailThreshold,  \* fail_threshold
  AttemptTime,    \* longest time one attempt of a heartbeat takes (timeout_s, sleep)
  BeatTime,       \* longest time one heartbeat takes, with its retries and messages
  StartTime,      \* longest time from the start of the preflight to the scheduler
  EntryTime       \* longest time from a cycle's checks to its last entry

ASSUME DeadmanTimes ==
  /\ Heartbeat \in Nat \ {0} /\ Countdown \in Nat \ {0} /\ FailThreshold \in Nat \ {0}
  /\ AttemptTime \in Nat /\ BeatTime \in Nat /\ StartTime \in Nat /\ EntryTime \in Nat

\* What the settings check: "At least 3 heartbeats must fit into one countdown window."
ASSUME CountdownAssumption == Heartbeat * 3 <= Countdown

VARIABLES
  age,       \* exchange: time since the last heartbeat it took, up to Countdown
  resting,   \* exchange: pairs with an open entry
  proc,      \* the agent's process
  starting,  \* time since the preflight began
  dead,      \* time since the process ended, up to Countdown + 1
  wait,      \* time to the scheduler's next heartbeat
  beat,      \* DeadmanSwitch.beat: idle, waiting for the exchange, or telling the owner
  spent,     \* time since it was called
  asked,     \* time since its last attempt was sent
  reached,   \* the exchange has taken that attempt
  failures,  \* DeadmanSwitch.failures; more than FailThreshold are one too many
  cycle,     \* a trading cycle with approved entries is under way
  late,      \* time since its checks
  toCancel   \* what the stopping agent has left to cancel

exchange == <<age, resting>>
heart == <<wait, beat, spent, asked, reached, failures>>
trading == <<cycle, late>>
process == <<proc, starting, dead, toCancel>>
deadmanVars == <<age, resting, proc, starting, dead, wait, beat, spent, asked, reached, failures,
          cycle, late, toCancel>>

DeadmanTypes ==
  /\ age \in 0..Countdown
  /\ resting \subseteq Pairs /\ toCancel \subseteq Pairs
  /\ proc \in {"down", "preflight", "starting", "up", "stopping"}
  /\ starting \in 0..StartTime /\ dead \in 0..(Countdown + 1)
  /\ wait \in 0..Heartbeat
  /\ beat \in {"idle", "asking", "alerting", "telling"} /\ reached \in BOOLEAN
  /\ spent \in 0..BeatTime /\ asked \in 0..AttemptTime
  /\ failures \in 0..(FailThreshold + 1)
  /\ cycle \in BOOLEAN /\ late \in 0..EntryTime

Armed == age < Countdown

\* The process is down, and has been for long; nothing is open.
DeadmanInit ==
  /\ age = Countdown /\ resting = {}
  /\ proc = "down" /\ starting = 0 /\ dead = Countdown + 1 /\ toCancel = {}
  /\ wait = Heartbeat /\ beat = "idle" /\ spent = 0 /\ asked = 0 /\ reached = FALSE /\ failures = 0
  /\ cycle = FALSE /\ late = 0

-----------------------------------------------------------------------------
(* Time                                                                    *)

\* The scheduler runs until _shutdown stops it, after the orders are cancelled.
Scheduled == proc \in {"up", "stopping"}

NoTimeout ==   \* mutant of Overdue: a heartbeat may wait for ever
  \/ Scheduled /\ wait = 0
  \/ cycle /\ late = EntryTime
  \/ proc \in {"preflight", "starting"} /\ starting = StartTime
Overdue ==
  \/ Scheduled /\ wait = 0
  \/ beat # "idle" /\ spent = BeatTime
  \/ beat = "asking" /\ asked = AttemptTime
  \/ cycle /\ late = EntryTime
  \/ proc \in {"preflight", "starting"} /\ starting = StartTime

\* The timer fires when the countdown ends, and is off from then on.
Tick ==
  /\ ~Overdue
  /\ age' = IF Armed THEN age + 1 ELSE age
  /\ resting' = IF age + 1 = Countdown THEN {} ELSE resting
  /\ starting' = IF proc \in {"preflight", "starting"} THEN starting + 1 ELSE starting
  /\ dead' = IF proc = "down" /\ dead <= Countdown THEN dead + 1 ELSE dead
  /\ wait' = IF Scheduled THEN wait - 1 ELSE wait
  /\ spent' = IF beat # "idle" THEN spent + 1 ELSE spent
  /\ asked' = IF beat = "asking" THEN asked + 1 ELSE asked
  /\ late' = IF cycle THEN late + 1 ELSE late
  /\ UNCHANGED <<proc, toCancel, beat, reached, failures, cycle>>

-----------------------------------------------------------------------------
(* The heartbeat                                                           *)

HealthyOnce == failures <= FailThreshold   \* mutant of Healthy
Healthy == failures < FailThreshold

Ask ==
  /\ beat' = "asking" /\ spent' = 0 /\ asked' = 0 /\ reached' = FALSE

\* The interval job; a run that comes due while the last one is still under
\* way is skipped (max_instances).
BeatDue ==
  /\ Scheduled /\ wait = 0
  /\ wait' = Heartbeat
  /\ IF beat = "idle" THEN Ask ELSE UNCHANGED <<beat, spent, asked, reached>>
  /\ UNCHANGED <<failures, exchange, trading, process>>

\* countdownCancelAll starts the timer again.
Reaches ==
  /\ beat = "asking" /\ ~reached
  /\ reached' = TRUE
  /\ age' = 0
  /\ UNCHANGED <<resting, wait, beat, spent, asked, failures, trading, process>>

\* No answer: _retrying sends the request again.
Retry ==
  /\ beat = "asking" /\ spent < BeatTime
  /\ asked' = 0 /\ reached' = FALSE
  /\ UNCHANGED <<wait, beat, spent, failures, exchange, trading, process>>

BeatOk ==
  /\ beat = "asking" /\ reached
  /\ beat' = IF failures >= FailThreshold THEN "telling" ELSE "idle"
  /\ failures' = IF failures >= FailThreshold THEN failures ELSE 0
  /\ proc' = IF proc = "preflight" THEN "starting" ELSE proc
  /\ UNCHANGED <<wait, spent, asked, reached, exchange, trading, starting, dead, toCancel>>

\* The owner is told of the recovery before the switch recovers.
Recovered ==
  /\ beat = "telling"
  /\ beat' = "idle"
  /\ failures' = 0
  /\ UNCHANGED <<wait, spent, asked, reached, exchange, trading, process>>

\* The job is over, with nothing accepted: in the preflight no start.
EndFailed ==
  /\ proc' = IF proc = "preflight" THEN "down" ELSE proc
  /\ dead' = IF proc = "preflight" THEN 0 ELSE dead
  /\ UNCHANGED <<wait, spent, asked, reached, exchange, trading, starting, toCancel>>

\* The exchange refuses, or does not answer the last attempt.
BeatFails ==
  /\ beat = "asking"
  /\ failures' = IF failures > FailThreshold THEN failures ELSE failures + 1
  /\ IF failures + 1 = FailThreshold
       THEN beat' = "alerting" /\ UNCHANGED <<wait, spent, asked, reached, exchange, trading, process>>
       ELSE beat' = "idle" /\ EndFailed

Alerted ==
  /\ beat = "alerting"
  /\ beat' = "idle"
  /\ EndFailed
  /\ UNCHANGED failures

-----------------------------------------------------------------------------
(* The trading cycle, as far as entries go                                 *)

\* _live_checks: entries are approved if the switch is healthy now.
LiveChecks ==
  /\ Scheduled /\ ~cycle
  /\ cycle' = Healthy
  /\ late' = 0
  /\ UNCHANGED <<exchange, heart, process>>

SendEntry(p) ==
  /\ cycle /\ p \notin resting
  /\ resting' = resting \union {p}
  /\ UNCHANGED <<age, heart, trading, process>>

EndCycle ==
  /\ cycle
  /\ cycle' = FALSE
  /\ UNCHANGED <<late, exchange, heart, process>>

\* An entry is filled, or a cycle cancels it.
EntryCloses(p) ==
  /\ p \in resting
  /\ resting' = resting \ {p}
  /\ UNCHANGED <<age, heart, trading, process>>

-----------------------------------------------------------------------------
(* The process                                                             *)

\* live_preflight of a new process; the switch counts from zero.
Preflight ==
  /\ proc = "down"
  /\ proc' = "preflight" /\ starting' = 0
  /\ Ask
  /\ failures' = 0
  /\ UNCHANGED <<wait, exchange, trading, dead, toCancel>>

\* The rest of the preflight may still refuse (reconciliation).
Refused ==
  /\ proc = "starting"
  /\ proc' = "down" /\ dead' = 0
  /\ UNCHANGED <<exchange, heart, trading, starting, toCancel>>

\* startup, then sched.start: the first heartbeat is due after one interval.
SchedulerStarts ==
  /\ proc = "starting"
  /\ proc' = "up"
  /\ wait' = Heartbeat
  /\ UNCHANGED <<exchange, beat, spent, asked, reached, failures, trading, starting, dead, toCancel>>

\* SIGTERM: cancel_all of what is open now.
Stop ==
  /\ proc = "up"
  /\ proc' = "stopping"
  /\ toCancel' = resting
  /\ UNCHANGED <<exchange, heart, trading, starting, dead>>

\* One order of it; a cancel that fails leaves the order open.
CancelOne(p) ==
  /\ proc = "stopping" /\ p \in toCancel
  /\ toCancel' = toCancel \ {p}
  /\ resting' \in {resting, resting \ {p}}
  /\ UNCHANGED <<age, heart, trading, proc, starting, dead>>

\* _shutdown: the jobs end where they are.
ExitSwitchesOff ==   \* mutant of Exit
  /\ proc = "stopping" /\ toCancel = {}
  /\ proc' = "down" /\ dead' = 0
  /\ beat' = "idle" /\ cycle' = FALSE
  /\ age' = Countdown
  /\ UNCHANGED <<resting, wait, spent, asked, reached, failures, late, starting, toCancel>>
Exit ==
  /\ proc = "stopping" /\ toCancel = {}
  /\ proc' = "down" /\ dead' = 0
  /\ beat' = "idle" /\ cycle' = FALSE
  /\ UNCHANGED <<exchange, wait, spent, asked, reached, failures, late, starting, toCancel>>

\* The process dies anywhere.
Crash ==
  /\ proc # "down"
  /\ proc' = "down" /\ dead' = 0 /\ toCancel' = {}
  /\ beat' = "idle" /\ cycle' = FALSE
  /\ UNCHANGED <<exchange, wait, spent, asked, reached, failures, late, starting>>

DeadmanNext ==
  \/ Tick
  \/ BeatDue \/ Reaches \/ Retry \/ BeatOk \/ Recovered \/ BeatFails \/ Alerted
  \/ LiveChecks \/ EndCycle \/ \E p \in Pairs : SendEntry(p) \/ EntryCloses(p)
  \/ Preflight \/ Refused \/ SchedulerStarts
  \/ Stop \/ Exit \/ Crash \/ \E p \in Pairs : CancelOne(p)

DeadmanSpec == DeadmanInit /\ [][DeadmanNext]_deadmanVars

-----------------------------------------------------------------------------
(* Properties                                                              *)

\* Under which proportions the switch keeps its promise: from the last
\* heartbeat the exchange took to the entry a cycle sends on the health it
\* read, everything fits into one countdown.
TimesFit ==
  /\ BeatTime < Heartbeat
  /\ StartTime + FailThreshold * Heartbeat + BeatTime + EntryTime < Countdown

\* While an entry of the agent rests at the exchange the timer runs: no entry
\* is sent after it has fired (healthy, read in _live_checks).
EntriesGuarded == resting # {} => Armed

\* "If the agent dies or loses connectivity, Indodax cancels ALL open orders on
\* the listed pairs after countdown_ms" (deadman.py), also after a shutdown
\* that missed an entry of the running cycle (main.py).
DeathClearsEntries == proc = "down" /\ dead >= Countdown => resting = {}
=============================================================================
