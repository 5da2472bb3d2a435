----------------------------- MODULE Bulletins -----------------------------
(***************************************************************************)
(* The messages that the runner sends on its own account and remembers in  *)
(* the database to have sent: the announcement of a new plan and the early *)
(* signals of each coin, at the end of every cycle (_pm_messages,          *)
(* pm_signals), and the review before going live, tried every five minutes *)
(* (go_live_review).  Two cycles can be in flight: the first one of a      *)
(* process and the scheduler's.  A send gives the other tasks their turn;  *)
(* the process can die before it or after.                                 *)
(*                                                                         *)
(* A definition marked "mutant of" is a bug that the runs must catch, put  *)
(* in the place of the definition it names; nothing else uses it.          *)
(***************************************************************************)
EXTENDS Integers

CONSTANTS
  Signalled,   \* coins
  Writers,     \* the cycles that can be in flight
  LastPlan,    \* bound: plans made
  LastDate,    \* bound: days
  MaxDeaths    \* bound: restarts of the process

ASSUME BulletinAssumption == LastPlan \in Nat /\ LastDate \in Nat /\ MaxDeaths \in Nat

VARIABLES
  date,
  made,       \* the plan in force, 0 before the first
  inPlan,     \* coins that are held or have a weight in it
  trend,      \* each coin's last close and price against its trend line
  lacking,    \* a condition of go_live_readiness is not met
  available,  \* Telegram is connected
  announced,  \* pm:announced, in the database
  alerts,     \* pm:alerts, in the database: each coin's last signal
  reviewed,   \* golive_review:last_sent
  done,       \* golive_review:done
  step,       \* where each cycle is in _pm_messages
  plan,       \* the plan it has read
  sent,       \* its copy of pm:alerts
  signals,    \* what its pm_signals found and it has not yet looked at
  sending,    \* the review is being sent
  deaths,
  given        \* history: what was given to the notifier

world == <<date, made, inPlan, trend, lacking, available>>
marks == <<announced, alerts, reviewed, done>>
local == <<step, plan, sent, signals, sending>>
bulVars == <<world, marks, local, deaths, given>>

Nothing == <<0, "none">>
Tags == (0..LastDate) \X {"buy", "sell"}

Unread == [p \in Signalled |-> Nothing]

BulTypes ==
  /\ date \in 0..LastDate /\ made \in 0..LastPlan /\ inPlan \subseteq Signalled
  /\ trend \in [Signalled -> [above : BOOLEAN, near : BOOLEAN]]
  /\ lacking \in BOOLEAN /\ available \in BOOLEAN
  /\ announced \in 0..LastPlan /\ alerts \in [Signalled -> Tags \cup {Nothing}]
  /\ reviewed \in -1..LastDate /\ done \in BOOLEAN
  /\ step \in [Writers -> {"idle", "announce", "alert", "coins"}]
  /\ plan \in [Writers -> 0..LastPlan]
  /\ sent \in [Writers -> [Signalled -> Tags \cup {Nothing}]]
  /\ signals \in [Writers -> SUBSET (Signalled \X Tags)]
  /\ sending \in BOOLEAN /\ deaths \in 0..MaxDeaths
  /\ given.plans \in [1..LastPlan -> Nat] /\ given.reviews \in [0..LastDate -> Nat]
  /\ given.coins \subseteq Signalled \X Tags

BulInit ==
  /\ date = 0 /\ made = 0 /\ inPlan = {} /\ lacking = TRUE /\ available = TRUE
  /\ trend = [p \in Signalled |-> [above |-> FALSE, near |-> FALSE]]
  /\ announced = 0 /\ alerts = Unread
  /\ reviewed = -1 /\ done = FALSE
  /\ step = [c \in Writers |-> "idle"] /\ plan = [c \in Writers |-> 0]
  /\ sent = [c \in Writers |-> Unread] /\ signals = [c \in Writers |-> {}]
  /\ sending = FALSE /\ deaths = 0
  /\ given = [plans |-> [n \in 1..LastPlan |-> 0], reviews |-> [d \in 0..LastDate |-> 0],
             coins |-> {}]

-----------------------------------------------------------------------------
(* What the messages are about.                                            *)

NewPlan ==
  /\ made < LastPlan
  /\ made' = made + 1 /\ inPlan' \in SUBSET Signalled
  /\ UNCHANGED <<date, trend, lacking, available, marks, local, deaths, given>>

PriceMoves ==
  /\ \E p \in Signalled, t \in [above : BOOLEAN, near : BOOLEAN] :
       trend' = [trend EXCEPT ![p] = t]
  /\ UNCHANGED <<date, made, inPlan, lacking, available, marks, local, deaths, given>>

\* The day ends, the conditions of going live change, Telegram comes and goes.
Turns ==
  /\ \/ date < LastDate /\ date' = date + 1 /\ UNCHANGED <<lacking, available>>
     \/ lacking' = ~lacking /\ UNCHANGED <<date, available>>
     \/ available' = ~available /\ UNCHANGED <<date, lacking>>
  /\ UNCHANGED <<made, inPlan, trend, marks, local, deaths, given>>

\* pm_signals: a coin whose price is within alert_band_pct of the line, or
\* beyond it already, may be bought or sold at the next close.
Signals ==
  {<<p, <<date, "buy">>>> : p \in {q \in Signalled \ inPlan : trend[q].near /\ ~trend[q].above}}
  \cup
  {<<p, <<date, "sell">>>> : p \in {q \in inPlan : trend[q].near /\ trend[q].above}}

-----------------------------------------------------------------------------
(* _pm_messages.                                                           *)

\* A new plan is marked in the database before it is announced.
Unmarked == UNCHANGED announced   \* mutant of Marked
Marked == announced' = made

Begin(c) ==
  /\ step[c] = "idle" /\ made > 0
  /\ plan' = [plan EXCEPT ![c] = made]
  /\ IF announced # made
     THEN Marked /\ step' = [step EXCEPT ![c] = "announce"]
     ELSE UNCHANGED announced /\ step' = [step EXCEPT ![c] = "alert"]
  /\ UNCHANGED <<world, alerts, reviewed, done, sent, signals, sending, deaths, given>>

Announce(c) ==
  /\ step[c] = "announce"
  /\ step' = [step EXCEPT ![c] = "alert"]
  /\ given' = [given EXCEPT !.plans[plan[c]] = @ + 1]
  /\ UNCHANGED <<world, marks, plan, sent, signals, sending, deaths>>

\* With portfolio.alerts, the marks of all coins are read once.
ReadAlerts(c) ==
  /\ step[c] = "alert"
  /\ step' = [step EXCEPT ![c] = "coins"]
  /\ sent' = [sent EXCEPT ![c] = alerts]
  /\ signals' = [signals EXCEPT ![c] = Signals]
  /\ UNCHANGED <<world, marks, plan, sending, deaths, given>>

\* A signal is sent unless it was this coin's last one and is of today.
Signal(c) ==
  /\ step[c] = "coins"
  /\ \E s \in signals[c] :
       /\ signals' = [signals EXCEPT ![c] = @ \ {s}]
       /\ IF sent[c][s[1]] = s[2]
          THEN UNCHANGED <<sent, given>>
          ELSE /\ sent' = [sent EXCEPT ![c][s[1]] = s[2]]
               /\ given' = [given EXCEPT !.coins = @ \cup {s}]
  /\ UNCHANGED <<world, marks, step, plan, sending, deaths>>

\* The copy is stored, over whatever another cycle stored meanwhile.
StoreAlerts(c) ==
  /\ step[c] = "coins" /\ signals[c] = {}
  /\ alerts' = sent[c]
  /\ step' = [step EXCEPT ![c] = "idle"]
  /\ plan' = [plan EXCEPT ![c] = 0]
  /\ sent' = [sent EXCEPT ![c] = Unread]
  /\ UNCHANGED <<world, announced, reviewed, done, signals, sending, deaths, given>>

-----------------------------------------------------------------------------
(* go_live_review, and the end of the process.                             *)

\* Once a day, until everything was ready; not while Telegram is away.
Review ==
  /\ ~sending /\ ~done /\ reviewed # date /\ available
  /\ reviewed' = date /\ done' = ~lacking
  /\ sending' = TRUE
  /\ UNCHANGED <<world, announced, alerts, step, plan, sent, signals, deaths, given>>

ReviewSent ==
  /\ sending
  /\ sending' = FALSE
  /\ given' = [given EXCEPT !.reviews[reviewed] = @ + 1]
  /\ UNCHANGED <<world, marks, step, plan, sent, signals, deaths>>

ProcessDies ==
  /\ deaths < MaxDeaths
  /\ deaths' = deaths + 1
  /\ step' = [c \in Writers |-> "idle"] /\ plan' = [c \in Writers |-> 0]
  /\ sent' = [c \in Writers |-> Unread]
  /\ signals' = [c \in Writers |-> {}] /\ sending' = FALSE
  /\ UNCHANGED <<world, marks, given>>

BulNext ==
  \/ NewPlan \/ PriceMoves \/ Turns
  \/ \E c \in Writers : Begin(c) \/ Announce(c) \/ ReadAlerts(c) \/ Signal(c) \/ StoreAlerts(c)
  \/ Review \/ ReviewSent \/ ProcessDies

BulSpec == BulInit /\ [][BulNext]_bulVars

-----------------------------------------------------------------------------
(* Properties                                                              *)

\* However the two cycles interleave and wherever the process dies: a plan
\* is announced and a day's review is sent at most once, and a coin's signal
\* that is marked as sent was sent.
NoneTwiceNoneSkipped ==
  /\ \A n \in 1..LastPlan : given.plans[n] <= 1
  /\ \A d \in 0..LastDate : given.reviews[d] <= 1
  /\ \A p \in Signalled : alerts[p] # Nothing => <<p, alerts[p]>> \in given.coins
=============================================================================
