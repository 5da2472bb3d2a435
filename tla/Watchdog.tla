------------------------------ MODULE Watchdog ------------------------------
(***************************************************************************)
(* Satpam, the watchdog that a timer runs outside of the agent's process   *)
(* (agent/ops/watchdog.py, scripts/watchdog.py): it reads the facts, tells *)
(* the owner of the problems on Telegram and keeps what it told in a file. *)
(*                                                                         *)
(* A run stops at the first message that cannot be sent and then leaves    *)
(* the file as it was; it can also die, and a file cut short is read as    *)
(* an empty one.  A send that failed may have reached the owner: a chunk   *)
(* was delivered, or its answer was lost.                                  *)
(*                                                                         *)
(* A definition marked "mutant of" is a bug that the runs must catch, put  *)
(* in the place of the definition it names; nothing else uses it.          *)
(***************************************************************************)
EXTENDS Integers, Sequences

CONSTANTS
  Realert,    \* realert_minutes, in periods of the timer
  Troubled,   \* the parts whose facts change in the instance
  LastRun     \* bound: runs of the timer

ASSUME WatchAssumption == Realert \in Nat \ {0} /\ LastRun \in Nat

VARIABLES
  facts,      \* what snapshot reads of each part
  run,        \* number of the timer's run, which is the time
  busy,       \* the run is sending
  wrong,      \* the problems it found
  msgs,       \* its messages that are still to be sent
  told,       \* the file: the run that told each problem last
  delivered   \* the run whose alert of the problem reached the owner last

watchVars == <<facts, run, busy, wrong, msgs, told, delivered>>

Readings == [
  service |-> {"active", "failed", "unknown"},
  stale   |-> {"fresh", "old", "none"},
  disk    |-> {"free", "low", "unknown"},
  backup  |-> {"fresh", "old", "none"},
  skills  |-> {"fresh", "old", "none", "failed", "off"}]

Keys == DOMAIN Readings
Never == -1
Runs == Never..LastRun

WatchTypes ==
  /\ \A k \in Keys : facts[k] \in Readings[k]
  /\ run \in Runs /\ busy \in BOOLEAN
  /\ wrong \subseteq Keys
  /\ msgs \in Seq([key : Keys, kind : {"alert", "recovered"}])
  /\ told \in [Keys -> Runs] /\ delivered \in [Keys -> Runs]

WatchInit ==
  /\ facts = [service |-> "active", stale |-> "fresh", disk |-> "free",
              backup |-> "fresh", skills |-> "fresh"]
  /\ run = 0 /\ busy = FALSE /\ wrong = {} /\ msgs = <<>>
  /\ told = [k \in Keys |-> Never] /\ delivered = [k \in Keys |-> Never]

\* Something happens to the agent, the disk, the backups or the skills.
Changes ==
  /\ ~busy
  /\ \E k \in Troubled : \E r \in Readings[k] \ {facts[k]} : facts' = [facts EXCEPT ![k] = r]
  /\ UNCHANGED <<run, busy, wrong, msgs, told, delivered>>

\* A heartbeat, a backup or a cycle of the skills that never was is a problem,
\* a fact that could not be read is none, and skills that are off are ignored.
Problems == {k \in Keys : facts[k] \in {"failed", "old", "none", "low"}}

Due(k) == told[k] = Never \/ run - told[k] >= Realert

One(kind, keys, k) == IF k \in keys THEN <<[key |-> k, kind |-> kind]>> ELSE <<>>

About(kind, keys) ==
  One(kind, keys, "service") \o One(kind, keys, "stale") \o One(kind, keys, "disk")
    \o One(kind, keys, "backup") \o One(kind, keys, "skills")

\* The timer runs main: what it finds, and what it has to say of it.
Look ==
  /\ ~busy /\ run < LastRun
  /\ busy' = TRUE
  /\ wrong' = Problems
  /\ msgs' = About("alert", {k \in Problems : Due(k)})
               \o About("recovered", {k \in Keys \ Problems : told[k] # Never})
  /\ UNCHANGED <<facts, run, told, delivered>>

\* The database of the agent cannot be read: the exception ends the run.
Blind ==
  /\ ~busy /\ run < LastRun
  /\ run' = run + 1
  /\ UNCHANGED <<facts, busy, wrong, msgs, told, delivered>>

ReachesOwner(m) ==
  delivered' = IF m.kind = "alert" THEN [delivered EXCEPT ![m.key] = run] ELSE delivered

SendMessage ==
  /\ busy /\ msgs # <<>>
  /\ ReachesOwner(Head(msgs))
  /\ msgs' = Tail(msgs)
  /\ UNCHANGED <<facts, run, busy, wrong, told>>

RunEnds == busy' = FALSE /\ wrong' = {} /\ msgs' = <<>> /\ run' = run + 1 /\ UNCHANGED facts

\* new_state: the problems that were due are told by this run.
NewState == [k \in Keys |-> IF k \notin wrong THEN Never ELSE IF Due(k) THEN run ELSE told[k]]

\* mutant of Kept: the file is written whatever was sent
WrittenAnyway == told' = NewState

\* "keep the old state so the alert is retried next run"
Kept == UNCHANGED told

SendFails ==
  /\ busy /\ msgs # <<>>
  /\ ReachesOwner(Head(msgs)) \/ UNCHANGED delivered
  /\ Kept /\ RunEnds

Finish ==
  /\ busy /\ msgs = <<>>
  /\ told' = NewState
  /\ RunEnds /\ UNCHANGED delivered

\* The run dies, possibly while it writes the file: what cannot be parsed is
\* read as an empty state.
RunDies ==
  /\ busy
  /\ UNCHANGED told \/ (msgs = <<>> /\ told' = [k \in Keys |-> Never])
  /\ RunEnds /\ UNCHANGED delivered

WatchNext == Changes \/ Look \/ Blind \/ SendMessage \/ SendFails \/ Finish \/ RunDies

WatchSpec == WatchInit /\ [][WatchNext]_watchVars

-----------------------------------------------------------------------------
(* Properties                                                              *)

\* "Each problem alerts once, repeats every realert_minutes while it lasts"
\* (watchdog.py:6): a run that comes to its end leaves no problem of which an
\* alert has not reached the owner within the last realert_minutes, whatever
\* earlier runs could not send, sent in part or lost.
AlertsRepeat ==
  [][Finish => \A k \in wrong : delivered[k] # Never /\ run - delivered[k] < Realert]_watchVars
=============================================================================
