---------------------------- MODULE AgentProcess ----------------------------
(***************************************************************************)
(* The life of the agent's process (agent/main.py): the start with its     *)
(* preflight, the jobs of the scheduler, the stop; the Telegram link       *)
(* (agent/reporting/telegram_bot.py) by which the owner's commands come    *)
(* in; and what a failed cycle does (runner.run_cycle).  systemd starts    *)
(* the process again whenever it ends, except when it refused to run.      *)
(*                                                                         *)
(* Telegram keeps what was sent to the bot until it is taken.  The         *)
(* Application of python-telegram-bot (external) can be initialized again, *)
(* but not started while it runs: start() then raises.                     *)
(*                                                                         *)
(* A definition marked "mutant of" is a bug that the runs must catch, put  *)
(* in the place of the definition it names; nothing else uses it.          *)
(***************************************************************************)
EXTENDS Integers, Sequences

CONSTANTS
  Threshold,   \* ERROR_ALERT_THRESHOLD
  MaxInbox,    \* bound: messages at Telegram
  LastLife     \* bound: starts of the process

ASSUME ProcessAssumption == Threshold \in Nat \ {0} /\ MaxInbox \in Nat /\ LastLife \in Nat

VARIABLES
  mode,     \* "live" or "paper"
  token,    \* Telegram takes the configured token
  net,      \* Telegram can be reached
  life,     \* number of starts
  stage,    \* where the process is in its life
  running,  \* the Application has been started
  link,     \* TelegramLink: "off", "starting", "on" or "invalid"
  inbox,    \* messages that wait at Telegram, each with the life it was
            \* sent in, 0 if there was no link
  handler,  \* the command that is being handled
  cycles,   \* the cycles in flight: the "first", a "job"
  errors    \* consecutive_errors, up to one more than the threshold

telegram == <<running, link, inbox, handler>>
jobs == <<cycles, errors>>
procVars == <<mode, token, net, life, stage, telegram, jobs>>

Idle == -1

ProcTypes ==
  /\ mode \in {"live", "paper"} /\ token \in BOOLEAN /\ net \in BOOLEAN
  /\ life \in 0..LastLife
  /\ stage \in {"down", "linking", "preflight", "up", "stopping", "refused"}
  /\ running \in BOOLEAN /\ link \in {"off", "starting", "on", "invalid"}
  /\ inbox \in Seq(0..LastLife) /\ Len(inbox) <= MaxInbox
  /\ handler \in Idle..LastLife
  /\ cycles \subseteq {"first", "job"} /\ errors \in 0..Threshold + 1

ProcInit ==
  /\ mode \in {"live", "paper"} /\ token \in BOOLEAN /\ net = TRUE
  /\ life = 0 /\ stage = "down"
  /\ running = FALSE /\ link = "off" /\ inbox = <<>> /\ handler = Idle
  /\ cycles = {} /\ errors = 0

-----------------------------------------------------------------------------
(* The link.                                                               *)

\* ensure_started: at the start of the process and as a job.
MayLink == stage = "linking" \/ stage = "up"

Initialize ==
  /\ MayLink /\ link = "off" /\ net /\ ~running
  /\ IF token THEN link' = "starting" /\ running' = TRUE
              ELSE link' = "invalid" /\ UNCHANGED running
  /\ UNCHANGED <<mode, token, net, life, stage, inbox, handler, jobs>>

Pending == inbox   \* mutant of Dropped: drop_pending_updates forgotten
Dropped == <<>>

\* start_polling reaches Telegram, or raises.
StartPolling ==
  /\ link = "starting"
  /\ IF net THEN link' = "on" /\ inbox' = Dropped ELSE link' = "off" /\ UNCHANGED inbox
  /\ UNCHANGED <<mode, token, net, life, stage, running, handler, jobs>>

\* Any text; Telegram keeps it also when nobody fetches it.
OwnerWrites ==
  /\ Len(inbox) < MaxInbox
  /\ inbox' = Append(inbox, IF link = "on" THEN life ELSE 0)
  /\ UNCHANGED <<mode, token, net, life, stage, running, link, handler, jobs>>

\* One update after the other is fetched and handled.  What comes from other
\* chats is ignored.
Take ==
  /\ link = "on" /\ net /\ handler = Idle /\ inbox # <<>>
  /\ handler' = Head(inbox) \/ UNCHANGED handler
  /\ inbox' = Tail(inbox)
  /\ UNCHANGED <<mode, token, net, life, stage, running, link, jobs>>

Handled ==
  /\ handler # Idle
  /\ handler' = Idle
  /\ UNCHANGED <<mode, token, net, life, stage, running, link, inbox, jobs>>

NetChanges ==
  /\ net' = ~net
  /\ UNCHANGED <<mode, token, life, stage, telegram, jobs>>

-----------------------------------------------------------------------------
(* The process.                                                            *)

\* Everything in memory is new.
Boot ==
  /\ stage = "down" /\ life < LastLife
  /\ life' = life + 1 /\ stage' = "linking"
  /\ UNCHANGED <<mode, token, net, telegram, jobs>>

\* ensure_started has returned.  Only a live agent has a preflight.
Linked ==
  /\ stage = "linking" /\ link # "starting"
  /\ link # "off" \/ running \/ ~net
  /\ IF mode = "live"
     THEN stage' = "preflight" /\ UNCHANGED cycles
     ELSE stage' = "up" /\ cycles' = {"first"}
  /\ UNCHANGED <<mode, token, net, life, telegram, errors>>

\* The preflight wants the link, among other things.  The first cycle is run
\* beside the jobs of the scheduler.
PreflightEnds ==
  /\ stage = "preflight"
  /\ \/ link = "on" /\ stage' = "up" /\ cycles' = {"first"} /\ UNCHANGED telegram
     \/ stage' = "refused" /\ UNCHANGED cycles
        /\ running' = FALSE /\ link' = "off" /\ handler' = Idle /\ UNCHANGED inbox
  /\ UNCHANGED <<mode, token, net, life, errors>>

\* A refused configuration is started again by the owner.
Repair ==
  /\ stage = "refused"
  /\ stage' = "down" /\ token' = TRUE
  /\ UNCHANGED <<mode, net, life, telegram, jobs>>

\* The interval job has max_instances = 1.
CycleJob ==
  /\ stage \in {"up", "stopping"} /\ "job" \notin cycles
  /\ cycles' = cycles \cup {"job"}
  /\ UNCHANGED <<mode, token, net, life, stage, telegram, errors>>

CycleEnds(c) ==
  /\ c \in cycles
  /\ cycles' = cycles \ {c}
  /\ errors' = 0 \/ (errors <= Threshold /\ errors' = errors + 1)
  /\ UNCHANGED <<mode, token, net, life, stage, telegram>>

\* SIGTERM or SIGINT is looked at after the first cycle.
StopSignal ==
  /\ stage = "up" /\ "first" \notin cycles
  /\ stage' = "stopping"
  /\ UNCHANGED <<mode, token, net, life, telegram, jobs>>

\* The process ends, by _shutdown or in the middle of anything.
ProcessEnds ==
  /\ stage \in {"linking", "preflight", "up", "stopping"}
  /\ stage' = "down"
  /\ running' = FALSE /\ link' = "off" /\ handler' = Idle
  /\ cycles' = {} /\ errors' = 0
  /\ UNCHANGED <<mode, token, net, life, inbox>>

ProcNext ==
  \/ Initialize \/ StartPolling \/ OwnerWrites \/ Take \/ Handled \/ NetChanges
  \/ Boot \/ Linked \/ PreflightEnds \/ Repair
  \/ CycleJob \/ (\E c \in cycles : CycleEnds(c))
  \/ StopSignal \/ ProcessEnds

ProcSpec == ProcInit /\ [][ProcNext]_procVars

-----------------------------------------------------------------------------
(* Properties                                                              *)

\* A command takes effect only in the life of the process, and on the link, in
\* which the owner gave it: no /resume or /kill from before a restart or an
\* outage is carried out later on an agent that has moved on.
CommandsAreFresh == handler # Idle => handler = life /\ handler # 0
=============================================================================
