--------------------------- MODULE Runner_proofs ----------------------------
(***************************************************************************)
(* Proofs about the parts of the runner that keep their own state, about   *)
(* the watchdog, and about the check that precedes going live with the     *)
(* arithmetic of its orders and of the strategy's.                         *)
(*                                                                         *)
(* AgentProcess: for any number of starts and of messages, a command is    *)
(* carried out only in the life of the process and on the link it was      *)
(* given to.  CapitalRebase: for any capitals above the losses, any number *)
(* of days and restarts, what the owner adds or takes changes neither the  *)
(* drawdown nor the loss of the day.  Bulletins: for any coins, cycles in  *)
(* flight, plans, days and restarts, nothing is announced twice and no     *)
(* signal is marked that was not sent.  Deadman: for all times that fit    *)
(* (TimesFit) no entry rests without a running timer, and none outlives    *)
(* the countdown of a dead agent.  Watchdog: for any period, a run that    *)
(* comes to its end leaves no problem of which the owner was not told      *)
(* within the period.  OrderCheck: a check of the order interface that     *)
(* passes leaves none of its orders on the book.  OrderNumbers: while a    *)
(* step and a stop leave room for rounding, every order submitted is       *)
(* accepted, risks at most its budget and is read as it was executed.      *)
(*                                                                         *)
(* At the end, the types of each part and of all of them together, as the  *)
(* run of MCServices checks them.                                          *)
(***************************************************************************)
EXTENDS MCServices, Exchange_proofs, WellFoundedInduction, TLAPS

-----------------------------------------------------------------------------
(* AgentProcess                                                            *)

\* What CommandsAreFresh rests on: a process that is there has been started,
\* one that is not has no link and handles nothing; what waits while the link
\* is on was written on it.
ProcTyped ==
  /\ life \in 0..LastLife
  /\ inbox \in Seq(0..LastLife)
  /\ handler \in Idle..LastLife

DownIsQuiet ==
  /\ stage \in {"down", "refused"} => link = "off" /\ handler = Idle
  /\ stage \in {"linking", "preflight", "up", "stopping", "refused"} => life > 0
  /\ stage \in {"down", "linking", "preflight", "up", "stopping", "refused"}
  /\ link \in {"off", "starting", "on", "invalid"}

InboxIsFresh == link = "on" => \A i \in 1..Len(inbox) : inbox[i] = life

ProcInv == ProcTyped /\ DownIsQuiet /\ InboxIsFresh /\ CommandsAreFresh

\* Before the first start nothing waits that was written on a link.
LEMMA ProcStarts == ProcInit => ProcInv
  BY ProcessAssumption
  DEF ProcInit, ProcInv, ProcTyped, DownIsQuiet, InboxIsFresh, CommandsAreFresh, Idle

\* The link is opened, and the updates that waited are dropped.
LEMMA LinkKeeps ==
  ASSUME ProcInv, Initialize \/ StartPolling
  PROVE  ProcInv'
<1> USE ProcessAssumption DEF ProcInv, ProcTyped, DownIsQuiet, InboxIsFresh,
        CommandsAreFresh, Idle, jobs
<1>1. CASE Initialize
  BY <1>1 DEF Initialize, MayLink
<1>2. CASE StartPolling
  <2>1. link = "starting" /\ UNCHANGED <<life, stage, handler>>
    BY <1>2, SMT DEF StartPolling
  <2>2. CASE net
    <3>1. link' = "on" /\ inbox' = <<>>
      BY <1>2, <2>2, Zenon DEF StartPolling, Dropped
    <3>2. QED
      BY <2>1, <3>1
  <2>3. CASE ~net
    <3>1. link' = "off" /\ inbox' = inbox
      BY <1>2, <2>3, Zenon DEF StartPolling
    <3>2. QED
      BY <2>1, <3>1
  <2>4. QED
    BY <2>2, <2>3
<1>3. QED
  BY <1>1, <1>2

\* A message is written, taken, handled.
LEMMA CommandKeeps ==
  ASSUME ProcInv, OwnerWrites \/ Take \/ Handled
  PROVE  ProcInv'
<1> USE ProcessAssumption DEF ProcInv, ProcTyped, DownIsQuiet, InboxIsFresh,
        CommandsAreFresh, Idle, jobs
<1>1. CASE OwnerWrites
  <2>1. /\ inbox' = Append(inbox, IF link = "on" THEN life ELSE 0)
        /\ UNCHANGED <<life, stage, link, handler>>
    BY <1>1 DEF OwnerWrites
  <2>2. InboxIsFresh'
    BY <2>1
  <2>3. inbox' \in Seq(0..LastLife)
    BY <2>1
  <2>4. QED
    BY <2>1, <2>2, <2>3
<1>2. CASE Take
  <2>1. /\ link = "on" /\ inbox # <<>> /\ inbox' = Tail(inbox)
        /\ handler' = Head(inbox) \/ UNCHANGED handler
        /\ UNCHANGED <<life, stage, link>>
    BY <1>2 DEF Take
  <2>2. Head(inbox) = life /\ Head(inbox) \in 0..LastLife
    BY <2>1
  <2>3. InboxIsFresh'
    BY <2>1
  <2>4. life > 0 /\ stage \notin {"down", "refused"}
    BY <2>1
  <2>5. inbox' \in Seq(0..LastLife)
    BY <2>1
  <2>6. QED
    BY <2>1, <2>2, <2>3, <2>4, <2>5
<1>3. CASE Handled
  BY <1>3 DEF Handled
<1>4. QED
  BY <1>1, <1>2, <1>3

\* The process starts, works and ends.
LEMMA ProcessKeeps ==
  ASSUME ProcInv,
         \/ Boot \/ Linked \/ PreflightEnds \/ Repair \/ StopSignal \/ ProcessEnds
  PROVE  ProcInv'
<1> USE ProcessAssumption DEF ProcInv, ProcTyped, DownIsQuiet, InboxIsFresh,
        CommandsAreFresh, Idle, jobs, telegram
<1>1. CASE Boot
  BY <1>1 DEF Boot
<1>2. CASE Linked
  BY <1>2 DEF Linked
<1>3. CASE PreflightEnds
  BY <1>3 DEF PreflightEnds
<1>4. CASE Repair
  BY <1>4 DEF Repair
<1>5. CASE StopSignal
  BY <1>5 DEF StopSignal
<1>6. CASE ProcessEnds
  BY <1>6 DEF ProcessEnds
<1>7. QED
  BY <1>1, <1>2, <1>3, <1>4, <1>5, <1>6

\* The network and the cycles touch neither the link nor the inbox.
LEMMA ProcOthersKeep ==
  ASSUME ProcInv,
         NetChanges \/ CycleJob \/ (\E c \in cycles : CycleEnds(c)) \/ UNCHANGED procVars
  PROVE  ProcInv'
  BY DEF ProcInv, ProcTyped, DownIsQuiet, InboxIsFresh, CommandsAreFresh, Idle,
         NetChanges, CycleJob, CycleEnds, procVars, jobs, telegram

\* The invariant of the process holds.
LEMMA ProcInvHolds == ProcSpec => []ProcInv
<1>1. ProcInv /\ [ProcNext]_procVars => ProcInv'
  BY LinkKeeps, CommandKeeps, ProcessKeeps, ProcOthersKeep DEF ProcNext
<1>2. QED
  BY ProcStarts, <1>1, PTL DEF ProcSpec

\* CommandsAreFresh holds however often Telegram is lost, the process dies and
\* is started again, and whatever the owner writes meanwhile.
THEOREM FreshCommands == ProcSpec => []CommandsAreFresh
<1>1. ProcInv => CommandsAreFresh
  BY DEF ProcInv
<1>2. QED
  BY ProcInvHolds, <1>1, PTL

-----------------------------------------------------------------------------
(* CapitalRebase                                                           *)

\* The larger of two numbers, as Python's max.
LEMMA MaxOfTwo ==
  ASSUME NEW a \in Int, NEW b \in Int
  PROVE  Max({a, b}) = IF a >= b THEN a ELSE b
<1> DEFINE m == IF a >= b THEN a ELSE b
<1>1. m \in {a, b} /\ \A y \in {a, b} : m >= y
  OBVIOUS
<1>2. \A x \in {a, b} : (\A y \in {a, b} : x >= y) => x = m
  OBVIOUS
<1>3. Max({a, b}) = m
  BY <1>1, <1>2 DEF Max
<1>4. QED
  BY <1>3

\* The least of one day is that day.
LEMMA MinOfOne == ASSUME NEW a \in Int PROVE Min({a}) = a
  BY DEF Min

-----------------------------------------------------------------------------
(* The invariant: which capital each figure is based on, at every step of  *)
(* a start.                                                                *)

FiguresTyped ==
  /\ configured \in Capitals /\ capital \in Capitals
  /\ booting \in {"capital", "peak", "day", "up"} /\ shift \in Int
  /\ pnl \in Gains /\ entry \in Entries
  /\ stored \in Capitals \cup {None} /\ peak \in Int
  /\ starts \in [Entries -> Int]
  /\ best \in Gains \cup {None} /\ opening \in [Entries -> Gains \cup {None}]

\* A database without the capital is as the first start found it.
FirstStart ==
  \/ best = None /\ \A d \in Entries : starts[d] = None
  \/ /\ entry = 1 /\ best = 0 /\ opening[1] = None
     /\ starts[0] \in Capitals /\ peak = starts[0]
     /\ \A d \in Entries : d # 0 => starts[d] = None

\* A day has its row from its first cycle on.
RowsKnown ==
  /\ opening[entry] = None <=> starts[entry] = None
  /\ \A d \in Entries : d > entry => opening[d] = None /\ starts[d] = None
  /\ best = None => peak = 0

PeakBasedOn(c) == best # None => peak = c + best
DayBasedOn(c) == opening[entry] # None => starts[entry] = c + opening[entry]

BasisKnown ==
  /\ stored = None => booting = "capital" /\ FirstStart
  /\ booting = "capital" /\ stored # None => PeakBasedOn(stored) /\ DayBasedOn(stored)
  /\ booting # "capital" => stored = capital
  /\ booting = "peak" => PeakBasedOn(capital - shift) /\ DayBasedOn(capital - shift)
  /\ booting = "day" => PeakBasedOn(capital) /\ DayBasedOn(capital - shift)
  /\ booting = "up" => PeakBasedOn(capital) /\ DayBasedOn(capital)

\* Of a start that was cut short nothing is promised.
CapInv == cut \/ (FiguresTyped /\ RowsKnown /\ BasisKnown)

\* Losses are smaller than any capital: no figure is mistaken for None.
LEMMA CapitalsBounded ==
  /\ MaxLoss \in Nat
  /\ \A c \in Capitals : c \in Nat /\ c > MaxLoss /\ c # None
  /\ \A g \in Gains : g \in Int /\ g >= -MaxLoss /\ g <= MaxLoss /\ g # None
  /\ None \in Int /\ None < 0 /\ None < -MaxLoss
  /\ 0 \in Gains
  BY CapitalAssumption DEF Gains, None

\* Both databases a start may find agree with the capital they were made with.
LEMMA CapStarts == CapInit => CapInv
<1> SUFFICES ASSUME CapInit PROVE CapInv
  OBVIOUS
<1> USE CapitalsBounded, CapitalAssumption
<1>1. /\ configured \in Capitals /\ capital \in Capitals
      /\ booting = "capital" /\ shift = 0 /\ pnl = 0 /\ stored = None
  BY DEF CapInit
<1>2. CASE /\ entry = 0 /\ peak = 0 /\ best = None
           /\ starts = [d \in Entries |-> None] /\ opening = [d \in Entries |-> None]
  BY <1>1, <1>2
  DEF CapInv, FiguresTyped, RowsKnown, BasisKnown, FirstStart, Entries
<1>3. ASSUME NEW c \in Capitals,
             entry = 1 /\ peak = c /\ best = 0,
             starts = [d \in Entries |-> IF d = 0 THEN c ELSE None],
             opening = [d \in Entries |-> IF d = 0 THEN 0 ELSE None]
      PROVE  CapInv
  <2>1. 0 \in Entries /\ 1 \in Entries
    BY DEF Entries
  <2>2. FirstStart
    BY <1>3, <2>1 DEF FirstStart
  <2>3. FiguresTyped
    BY <1>1, <1>3, <2>1 DEF FiguresTyped
  <2>4. RowsKnown
    BY <1>3, <2>1 DEF RowsKnown, Entries
  <2>5. QED
    BY <1>1, <2>2, <2>3, <2>4 DEF CapInv, BasisKnown
<1>4. QED
  BY <1>2, <1>3 DEF CapInit

\* The capital the figures were based on is found, in an old database too.
LEMMA OldIsBasis ==
  ASSUME CapInv, ~cut, booting = "capital"
  PROVE  /\ Old \in Int
         /\ stored # None => Old = stored
         /\ PeakBasedOn(Old) /\ DayBasedOn(Old)
<1> USE CapitalsBounded, CapitalAssumption
        DEF CapInv, FiguresTyped, BasisKnown, RowsKnown, PeakBasedOn, DayBasedOn, Entries
<1>1. CASE stored # None
  BY <1>1 DEF Old
<1>2. CASE stored = None /\ best = None /\ \A d \in Entries : starts[d] = None
  <2>1. Days = {}
    BY <1>2 DEF Days
  <2>2. Old = capital
    BY <1>2, <2>1 DEF Old
  <2>3. QED
    BY <1>2, <2>2
<1>3. CASE stored = None /\ entry = 1 /\ best = 0 /\ opening[1] = None
           /\ starts[0] \in Capitals /\ peak = starts[0]
           /\ \A d \in Entries : d # 0 => starts[d] = None
  <2>1. Days = {0}
    BY <1>3 DEF Days
  <2>2. Min(Days) = 0
    BY <2>1, MinOfOne
  <2>3. Old = starts[0]
    BY <1>3, <2>1, <2>2 DEF Old
  <2>4. QED
    BY <1>3, <2>3
<1>4. QED
  BY <1>1, <1>2, <1>3 DEF FirstStart

-----------------------------------------------------------------------------
(* The steps.                                                              *)

\* The three transactions of a start.
LEMMA StartKeeps ==
  ASSUME CapInv, SetCapital \/ ShiftPeak \/ ShiftDay
  PROVE  CapInv'
<1> USE CapitalsBounded, CapitalAssumption
<1>1. CASE cut
  BY <1>1 DEF CapInv, SetCapital, ShiftPeak, ShiftDay
<1>2. CASE ~cut /\ SetCapital
  <2>1. /\ Old \in Int
        /\ PeakBasedOn(Old) /\ DayBasedOn(Old)
    BY <1>2, OldIsBasis DEF SetCapital
  <2>2. FiguresTyped /\ RowsKnown
    BY <1>2 DEF CapInv
  <2>3. /\ stored' = capital /\ shift' = capital - Old
        /\ booting' = IF Old = capital THEN "up" ELSE "peak"
        /\ UNCHANGED <<configured, capital, pnl, entry, peak, starts, best, opening, cut>>
    BY <1>2 DEF SetCapital
  <2>4. FiguresTyped' /\ RowsKnown'
    BY <2>1, <2>2, <2>3 DEF FiguresTyped, RowsKnown
  <2>5. capital - shift' = Old
    BY <2>1, <2>2, <2>3 DEF FiguresTyped
  <2>6. BasisKnown'
    BY <2>1, <2>2, <2>3, <2>5 DEF BasisKnown, PeakBasedOn, DayBasedOn, FiguresTyped
  <2>7. QED
    BY <2>4, <2>6 DEF CapInv
<1>3. CASE ~cut /\ ShiftPeak
  <2>1. FiguresTyped /\ RowsKnown /\ BasisKnown /\ booting = "peak"
    BY <1>3 DEF CapInv, ShiftPeak
  <2>2. /\ peak' = Shifted /\ booting' = "day"
        /\ UNCHANGED <<configured, capital, shift, pnl, entry, stored, starts, best, opening, cut>>
    BY <1>3 DEF ShiftPeak
  <2>3. best # None => peak + shift = capital + best /\ capital + best > 0
    BY <2>1 DEF FiguresTyped, BasisKnown, PeakBasedOn
  <2>4. best # None => Shifted = capital + best
    BY <2>1, <2>3, MaxOfTwo DEF Shifted, FiguresTyped
  <2>5. Shifted \in Int /\ (best = None => Shifted = peak)
    BY <2>1, <2>4 DEF Shifted, FiguresTyped
  <2>6. FiguresTyped' /\ RowsKnown'
    BY <2>1, <2>2, <2>5 DEF FiguresTyped, RowsKnown
  <2>7. BasisKnown'
    BY <2>1, <2>2, <2>4 DEF BasisKnown, PeakBasedOn, DayBasedOn, FiguresTyped
  <2>8. QED
    BY <2>6, <2>7 DEF CapInv
<1>4. CASE ~cut /\ ShiftDay
  <2>1. FiguresTyped /\ RowsKnown /\ BasisKnown /\ booting = "day"
    BY <1>4 DEF CapInv, ShiftDay
  <2>2. /\ booting' = "up"
        /\ starts' = [starts EXCEPT ![entry] = IF @ = None THEN @ ELSE @ + shift]
        /\ UNCHANGED <<configured, capital, shift, pnl, entry, stored, peak, best, opening, cut>>
    BY <1>4 DEF ShiftDay
  <2>3. opening[entry] # None => starts'[entry] = capital + opening[entry]
    BY <2>1, <2>2 DEF FiguresTyped, RowsKnown, BasisKnown, DayBasedOn
  <2>4. opening[entry] = None => starts'[entry] = None
    BY <2>1, <2>2 DEF FiguresTyped, RowsKnown
  <2>5. FiguresTyped'
    BY <2>1, <2>2 DEF FiguresTyped
  <2>6. opening[entry] # None => starts'[entry] # None
    BY <2>1, <2>3 DEF FiguresTyped
  <2>7. RowsKnown'
    BY <2>1, <2>2, <2>4, <2>6 DEF RowsKnown, FiguresTyped, Entries
  <2>8. BasisKnown'
    BY <2>1, <2>2, <2>3 DEF BasisKnown, PeakBasedOn, DayBasedOn
  <2>9. QED
    BY <2>5, <2>7, <2>8 DEF CapInv
<1>5. QED
  BY <1>1, <1>2, <1>3, <1>4

\* A cycle books the peak and, once a day, the row of the day.
LEMMA CycleKeeps ==
  ASSUME CapInv, Cycle
  PROVE  CapInv'
<1> USE CapitalsBounded, CapitalAssumption
<1>1. CASE cut
  BY <1>1 DEF CapInv, Cycle
<1>2. CASE ~cut
  <2> DEFINE equity == capital + pnl
  <2>1. FiguresTyped /\ RowsKnown /\ BasisKnown /\ booting = "up"
    BY <1>2 DEF CapInv, Cycle
  <2>2. /\ peak' = Max({peak, equity})
        /\ starts' = [starts EXCEPT ![entry] = IF @ = None THEN equity ELSE @]
        /\ best' = (IF best = None \/ pnl > best THEN pnl ELSE best)
        /\ opening' = [opening EXCEPT ![entry] = IF @ = None THEN pnl ELSE @]
        /\ UNCHANGED <<configured, capital, booting, shift, pnl, entry, stored, cut>>
    BY DEF Cycle
  <2>3. equity \in Int /\ equity > 0 /\ equity # None /\ pnl # None
    BY <2>1 DEF FiguresTyped
  <2>4. peak' = IF peak >= equity THEN peak ELSE equity
    BY <2>1, <2>2, <2>3, MaxOfTwo DEF FiguresTyped
  <2>5. best' # None /\ peak' = capital + best'
    BY <2>1, <2>2, <2>3, <2>4 DEF FiguresTyped, RowsKnown, BasisKnown, PeakBasedOn
  <2>6. opening'[entry] # None /\ starts'[entry] # None
    BY <2>1, <2>2, <2>3 DEF FiguresTyped, RowsKnown
  <2>7. starts'[entry] = capital + opening'[entry]
    BY <2>1, <2>2, <2>3 DEF FiguresTyped, RowsKnown, BasisKnown, DayBasedOn
  <2>8. FiguresTyped'
    BY <2>1, <2>2, <2>3, <2>4 DEF FiguresTyped
  <2>9. RowsKnown'
    BY <2>1, <2>2, <2>5, <2>6 DEF RowsKnown, FiguresTyped, Entries
  <2>10. BasisKnown'
    BY <2>1, <2>2, <2>5, <2>7 DEF BasisKnown, PeakBasedOn, DayBasedOn
  <2>11. QED
    BY <2>8, <2>9, <2>10 DEF CapInv
<1>3. QED
  BY <1>1, <1>2

\* A start that is not cut short finds the figures as the last one left them.
LEMMA RestartKeeps ==
  ASSUME CapInv, Restart
  PROVE  CapInv'
<1> USE CapitalsBounded, CapitalAssumption
<1>1. CASE cut \/ booting \in {"peak", "day"}
  BY <1>1 DEF CapInv, Restart
<1>2. CASE ~cut /\ booting \notin {"peak", "day"}
  <2>1. FiguresTyped /\ RowsKnown /\ BasisKnown
    BY <1>2 DEF CapInv
  <2>2. /\ capital' = configured /\ booting' = "capital" /\ shift' = 0
        /\ UNCHANGED <<configured, pnl, entry, stored, peak, starts, best, opening>>
    BY DEF Restart, database
  <2>3. FiguresTyped' /\ RowsKnown'
    BY <2>1, <2>2 DEF FiguresTyped, RowsKnown
  <2>4. BasisKnown'
    BY <1>2, <2>1, <2>2 DEF BasisKnown, FirstStart, FiguresTyped, PeakBasedOn, DayBasedOn
  <2>5. QED
    BY <2>3, <2>4 DEF CapInv
<1>3. QED
  BY <1>1, <1>2

\* A new day has no row yet, and /resume moves the peak to what there is.
LEMMA DayOrResetKeeps ==
  ASSUME CapInv, NextDay \/ ResetPeak
  PROVE  CapInv'
<1> USE CapitalsBounded, CapitalAssumption
<1>1. CASE cut
  BY <1>1 DEF CapInv, NextDay, ResetPeak
<1>2. CASE ~cut /\ NextDay
  <2>1. FiguresTyped /\ RowsKnown /\ BasisKnown /\ booting = "up"
    BY <1>2 DEF CapInv, NextDay
  <2>2. /\ entry < LastEntry /\ entry' = entry + 1
        /\ UNCHANGED <<configured, capital, booting, shift, pnl, stored, peak, starts,
                       best, opening, cut>>
    BY <1>2 DEF NextDay, database
  <2>3. entry' \in Entries /\ entry' > entry
    BY <2>1, <2>2 DEF FiguresTyped, Entries
  <2>4. opening[entry'] = None /\ starts[entry'] = None
    BY <2>1, <2>3 DEF RowsKnown
  <2>5. FiguresTyped'
    BY <2>1, <2>2, <2>3 DEF FiguresTyped
  <2>6. RowsKnown'
    BY <2>1, <2>2, <2>4 DEF RowsKnown, FiguresTyped, Entries
  <2>7. BasisKnown'
    BY <2>1, <2>2, <2>4 DEF BasisKnown, PeakBasedOn, DayBasedOn
  <2>8. QED
    BY <2>5, <2>6, <2>7 DEF CapInv
<1>3. CASE ~cut /\ ResetPeak
  <2>1. FiguresTyped /\ RowsKnown /\ BasisKnown /\ booting = "up"
    BY <1>3 DEF CapInv, ResetPeak
  <2>2. /\ best # None /\ peak' = capital + pnl /\ best' = pnl
        /\ UNCHANGED <<configured, capital, booting, shift, pnl, entry, stored, starts,
                       opening, cut>>
    BY <1>3 DEF ResetPeak
  <2>3. FiguresTyped' /\ RowsKnown'
    BY <2>1, <2>2 DEF FiguresTyped, RowsKnown
  <2>4. BasisKnown'
    BY <2>1, <2>2 DEF BasisKnown, PeakBasedOn, DayBasedOn
  <2>5. QED
    BY <2>3, <2>4 DEF CapInv
<1>4. QED
  BY <1>1, <1>2, <1>3

\* A new setting, a gain or a loss changes no figure that is stored.
LEMMA OthersKeepFigures ==
  ASSUME CapInv, Configure \/ Wins(1) \/ Wins(-1) \/ UNCHANGED capVars
  PROVE  CapInv'
  BY DEF CapInv, FiguresTyped, RowsKnown, BasisKnown, FirstStart, PeakBasedOn,
         DayBasedOn, Configure, Wins, capVars, database

\* CapitalIsNoLoss holds for every succession of days, gains, changes of the
\* capital and restarts in which no start is cut short.
THEOREM CapitalChangesAreNoLoss == CapSpec => []CapitalIsNoLoss
<1>1. CapInit => CapInv
  BY CapStarts
<1>2. CapInv /\ [CapNext]_capVars => CapInv'
  BY StartKeeps, CycleKeeps, RestartKeeps, DayOrResetKeeps, OthersKeepFigures DEF CapNext
<1>3. CapInv => CapitalIsNoLoss
  BY CapitalsBounded
  DEF CapInv, CapitalIsNoLoss, FiguresTyped, BasisKnown, PeakBasedOn, DayBasedOn
<1>4. QED
  BY <1>1, <1>2, <1>3, PTL DEF CapSpec

-----------------------------------------------------------------------------
(* Bulletins.                                                              *)
(*                                                                         *)
(* The mark comes first: what a cycle or a review is about to send is      *)
(* marked and was not given before.  A copy of the alerts knows only what  *)
(* was given, so storing it over another copy loses no signal.             *)

Messages == Signalled \X Tags
PlanCounts == [1..LastPlan -> Nat]
ReviewCounts == [0..LastDate -> Nat]
Given == [plans : PlanCounts, reviews : ReviewCounts, coins : SUBSET Messages]

MarksTyped ==
  /\ date \in 0..LastDate /\ made \in 0..LastPlan /\ inPlan \subseteq Signalled
  /\ announced \in 0..made /\ reviewed \in -1..date
  /\ alerts \in [Signalled -> Tags \cup {Nothing}]
  /\ step \in [Writers -> {"idle", "announce", "alert", "coins"}]
  /\ plan \in [Writers -> 0..LastPlan]
  /\ sent \in [Writers -> [Signalled -> Tags \cup {Nothing}]]
  /\ signals \in [Writers -> SUBSET Messages]
  /\ given \in Given

\* Who announces a plan is alone with it, and it was not announced before.
AnnouncedOnce ==
  /\ \A n \in 1..LastPlan : given.plans[n] <= 1 /\ (given.plans[n] # 0 => n <= announced)
  /\ \A c \in Writers : step[c] = "announce" =>
       plan[c] \in 1..announced /\ given.plans[plan[c]] = 0
  /\ \A c, d \in Writers :
       step[c] = "announce" /\ step[d] = "announce" /\ plan[c] = plan[d] => c = d

\* A review that is being sent is the first of its day.
ReviewedOnce ==
  /\ \A d \in 0..LastDate : given.reviews[d] <= 1 /\ (given.reviews[d] # 0 => d <= reviewed)
  /\ sending => reviewed \in 0..LastDate /\ given.reviews[reviewed] = 0

\* What is marked, and what a cycle will mark, was given.
SignalsGiven ==
  /\ \A p \in Signalled : alerts[p] # Nothing => <<p, alerts[p]>> \in given.coins
  /\ \A c \in Writers, p \in Signalled : sent[c][p] # Nothing => <<p, sent[c][p]>> \in given.coins

BulInv == MarksTyped /\ AnnouncedOnce /\ ReviewedOnce /\ SignalsGiven

\* Nothing is marked or given at the start.
LEMMA BulStarts == BulInit => BulInv
<1> SUFFICES ASSUME BulInit PROVE BulInv
  OBVIOUS
<1>1. Unread \in [Signalled -> Tags \cup {Nothing}] /\ \A p \in Signalled : Unread[p] = Nothing
  BY DEF Unread
<1>2. MarksTyped
  <2>1. given \in Given
    BY BulletinAssumption DEF BulInit, Given, PlanCounts, ReviewCounts
  <2>2. 0 \in 0..LastDate /\ 0 \in 0..LastPlan /\ -1 \in -1..0
    BY BulletinAssumption
  <2>3. QED
    BY <1>1, <2>1, <2>2 DEF BulInit, MarksTyped
<1>3. AnnouncedOnce /\ ReviewedOnce
  BY BulletinAssumption DEF BulInit, AnnouncedOnce, ReviewedOnce
<1>4. SignalsGiven
  BY <1>1 DEF BulInit, SignalsGiven
<1>5. QED
  BY <1>2, <1>3, <1>4 DEF BulInv

\* Steps of the world around: nothing is marked or given.
LEMMA WorldKeepsMarks ==
  ASSUME BulInv, NewPlan \/ PriceMoves \/ Turns \/ UNCHANGED bulVars
  PROVE  BulInv'
<1>1. MarksTyped'
  BY BulletinAssumption
  DEF BulInv, MarksTyped, NewPlan, PriceMoves, Turns, bulVars, world, marks, local
<1>2. UNCHANGED <<announced, alerts, reviewed, step, plan, sent, sending, given>>
  BY DEF NewPlan, PriceMoves, Turns, bulVars, world, marks, local
<1>3. QED
  BY <1>1, <1>2 DEF BulInv, AnnouncedOnce, ReviewedOnce, SignalsGiven

\* A cycle marks a plan that no one has announced.
LEMMA BeginKeepsMarks ==
  ASSUME BulInv, NEW c \in Writers, Begin(c)
  PROVE  BulInv'
<1>1. MarksTyped /\ AnnouncedOnce
  BY DEF BulInv
<1>2. /\ made \in 1..LastPlan
      /\ plan' = [plan EXCEPT ![c] = made]
      /\ UNCHANGED <<date, made, inPlan, alerts, reviewed, sent, signals, sending, given>>
  BY <1>1 DEF Begin, world, MarksTyped
<1>3. \/ /\ announced < made /\ announced' = made
         /\ step' = [step EXCEPT ![c] = "announce"]
      \/ announced' = announced /\ step' = [step EXCEPT ![c] = "alert"]
  BY <1>1 DEF Begin, Marked, MarksTyped
<1>4. MarksTyped'
  <2>1. announced' \in 0..made'
    BY <1>1, <1>2, <1>3 DEF MarksTyped
  <2>2. step' \in [Writers -> {"idle", "announce", "alert", "coins"}]
    BY <1>1, <1>3 DEF MarksTyped
  <2>3. plan' \in [Writers -> 0..LastPlan]
    BY <1>1, <1>2 DEF MarksTyped
  <2>4. QED
    BY <1>1, <1>2, <2>1, <2>2, <2>3 DEF MarksTyped
<1>5. \A d \in Writers : d # c => step'[d] = step[d] /\ plan'[d] = plan[d]
  BY <1>1, <1>2, <1>3 DEF MarksTyped
<1>6. plan'[c] = made /\ step'[c] \in {"announce", "alert"}
  BY <1>1, <1>2, <1>3 DEF MarksTyped
<1>7. AnnouncedOnce'
  <2>1. CASE announced < made /\ announced' = made
    <3>1. announced \in Nat /\ made \in Nat /\ given.plans \in [1..LastPlan -> Nat]
      BY <1>1 DEF MarksTyped, Given, PlanCounts, ReviewCounts
    <3>2. given.plans[made] = 0
      BY <1>1, <1>2, <2>1, <3>1 DEF AnnouncedOnce
    <3>3. \A d \in Writers : d # c /\ step'[d] = "announce" => plan'[d] # made
      BY <1>1, <1>5, <2>1, <3>1 DEF AnnouncedOnce
    <3>4. \A n \in 1..LastPlan : n <= announced => n <= announced'
      BY <2>1, <3>1
    <3>5. \A d \in Writers : d # c /\ step'[d] = "announce" => plan'[d] \in 1..announced'
      BY <1>1, <1>5, <2>1, <3>1 DEF AnnouncedOnce
    <3>6. made \in 1..announced'
      BY <1>2, <2>1
    <3>7. QED
      BY <1>1, <1>2, <1>5, <1>6, <3>2, <3>3, <3>4, <3>5, <3>6 DEF AnnouncedOnce
  <2>2. CASE announced' = announced /\ step' = [step EXCEPT ![c] = "alert"]
    <3>1. step'[c] = "alert"
      BY <1>1, <2>2 DEF MarksTyped
    <3>2. QED
      BY <1>1, <1>2, <1>5, <2>2, <3>1 DEF AnnouncedOnce
  <2>3. QED
    BY <1>3, <2>1, <2>2
<1>8. ReviewedOnce' /\ SignalsGiven'
  BY <1>2 DEF BulInv, ReviewedOnce, SignalsGiven
<1>9. QED
  BY <1>4, <1>7, <1>8 DEF BulInv

\* The announcement is given once.
LEMMA AnnounceKeepsMarks ==
  ASSUME BulInv, NEW c \in Writers, Announce(c)
  PROVE  BulInv'
<1>1. MarksTyped /\ AnnouncedOnce
  BY DEF BulInv
<1>2. /\ step[c] = "announce" /\ step' = [step EXCEPT ![c] = "alert"]
      /\ given' = [given EXCEPT !.plans[plan[c]] = @ + 1]
      /\ UNCHANGED <<date, made, inPlan, announced, alerts, reviewed, plan, sent, signals, sending>>
  BY DEF Announce, world, marks
<1>3. plan[c] \in 1..LastPlan /\ plan[c] <= announced /\ given.plans[plan[c]] = 0
  BY <1>1, <1>2 DEF AnnouncedOnce, MarksTyped
<1>4. /\ given' \in Given
      /\ given'.reviews = given.reviews /\ given'.coins = given.coins
      /\ \A n \in 1..LastPlan : given'.plans[n] = IF n = plan[c] THEN 1 ELSE given.plans[n]
  <2>1. /\ given \in Given /\ given.plans \in [1..LastPlan -> Nat]
        /\ given.reviews \in [0..LastDate -> Nat] /\ given.coins \in SUBSET Messages
    BY <1>1 DEF MarksTyped, Given, PlanCounts, ReviewCounts
  <2>2. PICK f : f = [given.plans EXCEPT ![plan[c]] = given.plans[plan[c]] + 1]
    OBVIOUS
  <2>3. given' = [given EXCEPT !.plans = f]
    BY <1>2, <2>1, <2>2
  <2>4. f \in [1..LastPlan -> Nat] /\ \A n \in 1..LastPlan : f[n] = IF n = plan[c] THEN 1 ELSE given.plans[n]
    <3>1. PICK u, k : u = given.plans /\ k = plan[c]
      OBVIOUS
    <3>2. u \in [1..LastPlan -> Nat] /\ k \in 1..LastPlan /\ u[k] = 0 /\ f = [u EXCEPT ![k] = u[k] + 1]
      BY <1>3, <2>1, <2>2, <3>1
    <3>3. f \in [1..LastPlan -> Nat] /\ \A n \in 1..LastPlan : f[n] = IF n = k THEN 1 ELSE u[n]
      BY <3>2
    <3>4. QED
      BY <3>1, <3>3
  <2>e. given \in Given
    BY <2>1
  <2>5. given'.plans = f /\ given'.reviews = given.reviews /\ given'.coins = given.coins
    BY <2>e, <2>3 DEF Given
  <2>6. given' \in Given
    BY <2>1, <2>3, <2>4 DEF Given, PlanCounts, ReviewCounts
  <2>7. QED
    BY <2>4, <2>5, <2>6
<1>5. MarksTyped'
  BY <1>1, <1>2, <1>4 DEF MarksTyped
<1>6. \A d \in Writers : step'[d] = "announce" => d # c /\ step[d] = "announce" /\ plan[d] # plan[c]
  BY <1>1, <1>2 DEF MarksTyped, AnnouncedOnce
<1>7. \A d \in Writers : step'[d] = "announce" => given'.plans[plan[d]] = 0
  BY <1>1, <1>4, <1>6 DEF AnnouncedOnce, MarksTyped
<1>8. AnnouncedOnce'
  BY <1>1, <1>2, <1>3, <1>4, <1>6, <1>7 DEF AnnouncedOnce
<1>9. ReviewedOnce' /\ SignalsGiven'
  BY <1>2, <1>4 DEF BulInv, ReviewedOnce, SignalsGiven
<1>10. QED
  BY <1>5, <1>8, <1>9 DEF BulInv

\* The copy of the alerts is taken, used and stored.
LEMMA AlertsKeepMarks ==
  ASSUME BulInv, NEW c \in Writers, ReadAlerts(c) \/ Signal(c) \/ StoreAlerts(c)
  PROVE  BulInv'
<1>1. MarksTyped /\ AnnouncedOnce /\ ReviewedOnce /\ SignalsGiven
  BY DEF BulInv
<1>2. UNCHANGED <<date, made, announced, reviewed, sending>>
  BY DEF ReadAlerts, Signal, StoreAlerts, world, marks
<1>3. CASE ReadAlerts(c)
  <2>1. /\ step' = [step EXCEPT ![c] = "coins"]
        /\ sent' = [sent EXCEPT ![c] = alerts]
        /\ signals' = [signals EXCEPT ![c] = Signals]
        /\ UNCHANGED <<inPlan, alerts, plan, given>>
    BY <1>3 DEF ReadAlerts, marks, world
  <2>2. Signals \in SUBSET Messages
    BY <1>1 DEF Signals, Tags, Messages, MarksTyped
  <2>3. MarksTyped'
    BY <1>1, <1>2, <2>1, <2>2 DEF MarksTyped
  <2>4. \A d \in Writers : step'[d] = "announce" => step[d] = "announce"
    BY <1>1, <2>1 DEF MarksTyped
  <2>5. AnnouncedOnce'
    BY <1>1, <1>2, <2>1, <2>4 DEF AnnouncedOnce
  <2>6. \A d \in Writers : sent'[d] = IF d = c THEN alerts ELSE sent[d]
    BY <1>1, <2>1 DEF MarksTyped
  <2>7. SignalsGiven'
    BY <1>1, <2>1, <2>6 DEF SignalsGiven
  <2>8. ReviewedOnce'
    BY <1>1, <1>2, <2>1 DEF ReviewedOnce
  <2>9. QED
    BY <2>3, <2>5, <2>7, <2>8 DEF BulInv
<1>4. CASE Signal(c)
  <2>1. PICK s \in signals[c] :
          /\ signals' = [signals EXCEPT ![c] = @ \ {s}]
          /\ \/ UNCHANGED <<sent, given>>
             \/ /\ sent' = [sent EXCEPT ![c][s[1]] = s[2]]
                /\ given' = [given EXCEPT !.coins = @ \cup {s}]
          /\ UNCHANGED <<inPlan, alerts, step, plan>>
    BY <1>4 DEF Signal, marks, world
  <2>2. s = <<s[1], s[2]>> /\ s[1] \in Signalled /\ s[2] \in Tags /\ s \in Messages
    BY <1>1 DEF MarksTyped, Messages
  <2>3. /\ given' \in Given /\ given'.plans = given.plans /\ given'.reviews = given.reviews
        /\ given.coins \subseteq given'.coins
        /\ sent' \in [Writers -> [Signalled -> Tags \cup {Nothing}]]
        /\ \A d \in Writers, p \in Signalled :
             \/ sent'[d][p] = sent[d][p]
             \/ p = s[1] /\ sent'[d][p] = s[2] /\ s \in given'.coins
    <3>1. given \in Given /\ sent \in [Writers -> [Signalled -> Tags \cup {Nothing}]]
      BY <1>1 DEF MarksTyped
    <3>2. CASE UNCHANGED <<sent, given>>
      BY <3>1, <3>2
    <3>3. CASE /\ sent' = [sent EXCEPT ![c][s[1]] = s[2]]
               /\ given' = [given EXCEPT !.coins = @ \cup {s}]
      <4>1. given' \in Given /\ given'.plans = given.plans /\ given'.reviews = given.reviews
            /\ given'.coins = given.coins \cup {s}
        BY <2>2, <3>1, <3>3 DEF Given
      <4>2. sent' \in [Writers -> [Signalled -> Tags \cup {Nothing}]]
        BY <2>2, <3>1, <3>3
      <4>3. \A d \in Writers, p \in Signalled :
              sent'[d][p] = IF d = c /\ p = s[1] THEN s[2] ELSE sent[d][p]
        BY <2>2, <3>1, <3>3
      <4>4. QED
        BY <4>1, <4>2, <4>3
    <3>4. QED
      BY <2>1, <3>2, <3>3
  <2>4. signals' \in [Writers -> SUBSET Messages]
    BY <1>1, <2>1 DEF MarksTyped
  <2>5. MarksTyped'
    BY <1>1, <1>2, <2>1, <2>3, <2>4 DEF MarksTyped
  <2>6. AnnouncedOnce' /\ ReviewedOnce'
    BY <1>1, <1>2, <2>1, <2>3 DEF AnnouncedOnce, ReviewedOnce
  <2>7. \A d \in Writers, p \in Signalled : sent'[d][p] # Nothing => <<p, sent'[d][p]>> \in given'.coins
    BY <1>1, <2>2, <2>3 DEF SignalsGiven
  <2>8. SignalsGiven'
    BY <1>1, <2>1, <2>3, <2>7 DEF SignalsGiven
  <2>9. QED
    BY <2>5, <2>6, <2>8 DEF BulInv
<1>5. CASE StoreAlerts(c)
  <2>1. /\ alerts' = sent[c]
        /\ step' = [step EXCEPT ![c] = "idle"]
        /\ plan' = [plan EXCEPT ![c] = 0]
        /\ sent' = [sent EXCEPT ![c] = Unread]
        /\ UNCHANGED <<inPlan, signals, given>>
    BY <1>5 DEF StoreAlerts, world
  <2>2. Unread \in [Signalled -> Tags \cup {Nothing}] /\ \A p \in Signalled : Unread[p] = Nothing
    BY DEF Unread
  <2>3. MarksTyped'
    BY <1>1, <1>2, <2>1, <2>2, BulletinAssumption DEF MarksTyped
  <2>4. \A d \in Writers : step'[d] = "announce" => step[d] = "announce" /\ d # c /\ plan'[d] = plan[d]
    BY <1>1, <2>1 DEF MarksTyped
  <2>5. AnnouncedOnce'
    BY <1>1, <1>2, <2>1, <2>4 DEF AnnouncedOnce
  <2>6. \A d \in Writers : sent'[d] = IF d = c THEN Unread ELSE sent[d]
    BY <1>1, <2>1 DEF MarksTyped
  <2>7. SignalsGiven'
    BY <1>1, <2>1, <2>2, <2>6 DEF SignalsGiven
  <2>8. ReviewedOnce'
    BY <1>1, <1>2, <2>1 DEF ReviewedOnce
  <2>9. QED
    BY <2>3, <2>5, <2>7, <2>8 DEF BulInv
<1>6. QED
  BY <1>3, <1>4, <1>5

\* A review is marked before it is sent, and sent once.
LEMMA ReviewKeepsMarks ==
  ASSUME BulInv, Review \/ ReviewSent
  PROVE  BulInv'
<1>1. MarksTyped /\ AnnouncedOnce /\ ReviewedOnce /\ SignalsGiven
  BY DEF BulInv
<1>2. UNCHANGED <<date, made, inPlan, announced, alerts, step, plan, sent, signals>>
  BY DEF Review, ReviewSent, world, marks
<1>3. CASE Review
  <2>1. ~sending /\ reviewed # date /\ reviewed' = date /\ sending' = TRUE /\ given' = given
    BY <1>3 DEF Review
  <2>2. date \in 0..LastDate /\ reviewed \in Int /\ reviewed < date
    BY <1>1, <2>1 DEF MarksTyped
  <2>3. MarksTyped'
    BY <1>1, <1>2, <2>1, <2>2 DEF MarksTyped
  <2>4. \A d \in 0..LastDate : given.reviews[d] # 0 => d <= date /\ d # date
    BY <1>1, <2>2 DEF ReviewedOnce
  <2>5. ReviewedOnce'
    BY <1>1, <2>1, <2>2, <2>4 DEF ReviewedOnce
  <2>6. AnnouncedOnce' /\ SignalsGiven'
    BY <1>1, <1>2, <2>1 DEF AnnouncedOnce, SignalsGiven
  <2>7. QED
    BY <2>3, <2>5, <2>6 DEF BulInv
<1>4. CASE ReviewSent
  <2>1. /\ sending /\ sending' = FALSE /\ reviewed' = reviewed
        /\ given' = [given EXCEPT !.reviews[reviewed] = @ + 1]
    BY <1>4 DEF ReviewSent, marks
  <2>2. reviewed \in 0..LastDate /\ given.reviews[reviewed] = 0
    BY <1>1, <2>1 DEF ReviewedOnce
  <2>3. /\ given' \in Given /\ given'.plans = given.plans /\ given'.coins = given.coins
        /\ \A d \in 0..LastDate : given'.reviews[d] = IF d = reviewed THEN 1 ELSE given.reviews[d]
    <3>1. /\ given \in Given /\ given.plans \in [1..LastPlan -> Nat]
          /\ given.reviews \in [0..LastDate -> Nat] /\ given.coins \in SUBSET Messages
      BY <1>1 DEF MarksTyped, Given, PlanCounts, ReviewCounts
    <3>2. PICK f : f = [given.reviews EXCEPT ![reviewed] = given.reviews[reviewed] + 1]
      OBVIOUS
    <3>3. given' = [given EXCEPT !.reviews = f]
      BY <2>1, <3>1, <3>2
    <3>4. f \in [0..LastDate -> Nat] /\ \A d \in 0..LastDate : f[d] = IF d = reviewed THEN 1 ELSE given.reviews[d]
      <4>1. PICK u, k : u = given.reviews /\ k = reviewed
        OBVIOUS
      <4>2. u \in [0..LastDate -> Nat] /\ k \in 0..LastDate /\ u[k] = 0 /\ f = [u EXCEPT ![k] = u[k] + 1]
        BY <2>2, <3>1, <3>2, <4>1
      <4>3. f \in [0..LastDate -> Nat] /\ \A d \in 0..LastDate : f[d] = IF d = k THEN 1 ELSE u[d]
        BY <4>2
      <4>4. QED
        BY <4>1, <4>3
    <3>e. given \in Given
      BY <3>1
    <3>5. given'.reviews = f /\ given'.plans = given.plans /\ given'.coins = given.coins
      BY <3>e, <3>3 DEF Given
    <3>6. given' \in Given
      BY <3>1, <3>3, <3>4 DEF Given, PlanCounts, ReviewCounts
    <3>7. QED
      BY <3>4, <3>5, <3>6
  <2>4. MarksTyped'
    BY <1>1, <1>2, <2>1, <2>3 DEF MarksTyped
  <2>5. ReviewedOnce'
    BY <1>1, <2>1, <2>2, <2>3 DEF ReviewedOnce
  <2>6. AnnouncedOnce' /\ SignalsGiven'
    BY <1>1, <1>2, <2>3 DEF AnnouncedOnce, SignalsGiven
  <2>7. QED
    BY <2>4, <2>5, <2>6 DEF BulInv
<1>5. QED
  BY <1>3, <1>4

\* What a process had not sent yet is not sent; the marks stay.
LEMMA DeathKeepsMarks == ASSUME BulInv, ProcessDies PROVE BulInv'
<1>1. /\ step' = [c \in Writers |-> "idle"] /\ plan' = [c \in Writers |-> 0]
      /\ sent' = [c \in Writers |-> Unread]
      /\ signals' = [c \in Writers |-> {}] /\ sending' = FALSE
      /\ UNCHANGED <<date, made, inPlan, announced, alerts, reviewed, given>>
  BY DEF ProcessDies, world, marks
<1>2. Unread \in [Signalled -> Tags \cup {Nothing}] /\ \A p \in Signalled : Unread[p] = Nothing
  BY DEF Unread
<1>3. MarksTyped'
  BY <1>1, <1>2, BulletinAssumption DEF BulInv, MarksTyped
<1>4. AnnouncedOnce' /\ ReviewedOnce' /\ SignalsGiven'
  BY <1>1, <1>2 DEF BulInv, AnnouncedOnce, ReviewedOnce, SignalsGiven
<1>5. QED
  BY <1>3, <1>4 DEF BulInv

\* The invariant of the messages holds.
LEMMA BulInvHolds == BulSpec => []BulInv
<1>1. BulInv /\ [BulNext]_bulVars => BulInv'
  BY WorldKeepsMarks, BeginKeepsMarks, AnnounceKeepsMarks, AlertsKeepMarks, ReviewKeepsMarks,
     DeathKeepsMarks DEF BulNext
<1>2. QED
  BY BulStarts, <1>1, PTL DEF BulSpec

\* For any coins, cycles in flight, plans, days and restarts: a plan is
\* announced and a review sent at most once, and a signal that is marked was
\* sent (_pm_messages, go_live_review).
THEOREM MessagesGoOutOnce == BulSpec => []NoneTwiceNoneSkipped
<1>1. BulInv => NoneTwiceNoneSkipped
  BY DEF BulInv, AnnouncedOnce, ReviewedOnce, SignalsGiven, NoneTwiceNoneSkipped
<1>2. QED
  BY BulInvHolds, <1>1, PTL

-----------------------------------------------------------------------------
(* Deadman.                                                                *)
(*                                                                         *)
(* The exchange knows only the age of the last heartbeat it took, the      *)
(* agent only how many failed.  DeadmanInv bounds the one by the other: a  *)
(* heartbeat is started every interval, so the failures in a row and the   *)
(* time since the last one started say how old the timer may be.           *)


Elapsed == Heartbeat - wait

\* What the agent's count of failures says about the timer's age, while it is
\* small enough for entries.
AgeKnown ==
  Scheduled =>
    /\ beat # "idle" => spent = Elapsed
    /\ beat = "asking" /\ reached => age <= spent
    /\ beat = "telling" => age <= spent
    /\ beat \in {"telling", "alerting"} => ~Healthy
    /\ Healthy /\ beat = "asking" => age <= StartTime + (failures + 1) * Heartbeat + spent
    /\ Healthy /\ beat = "idle" => age <= StartTime + failures * Heartbeat + Elapsed

\* The preflight's heartbeat is the first of them.
StartKnown ==
  /\ proc = "preflight" => \/ beat = "asking" /\ failures = 0 /\ (reached => age <= starting)
                           \/ beat = "alerting"
  /\ proc = "starting" => beat = "idle" /\ failures = 0 /\ age <= starting

\* A cycle with entries was healthy when it read the switch.
EntriesKnown ==
  cycle => Scheduled /\ age <= StartTime + FailThreshold * Heartbeat + BeatTime + late

\* Nothing of a dead agent starts the timer again.
DeadKnown ==
  proc = "down" => beat = "idle" /\ (resting # {} => dead <= age)

\* The inductive invariant.
DeadmanInv ==
  /\ DeadmanTypes
  /\ AgeKnown
  /\ StartKnown
  /\ EntriesKnown
  /\ DeadKnown
  /\ EntriesGuarded

USE DeadmanTimes

-----------------------------------------------------------------------------
(* Arithmetic                                                              *)

\* One more failure is one more interval.
LEMMA OneMore ==
  ASSUME NEW f \in Nat
  PROVE  f * Heartbeat \in Nat /\ (f + 1) * Heartbeat = f * Heartbeat + Heartbeat
OBVIOUS

\* While the switch is healthy there is room for one more failure.
LEMMA RoomForOne ==
  ASSUME NEW f \in Nat, f < FailThreshold
  PROVE  (f + 1) * Heartbeat <= FailThreshold * Heartbeat
<1>1. PICK d \in Nat : FailThreshold = f + 1 + d
  <2>1. FailThreshold - f - 1 \in Nat
    OBVIOUS
  <2>2. FailThreshold = f + 1 + (FailThreshold - f - 1)
    OBVIOUS
  <2>3. QED
    BY <2>1, <2>2
<1>2. FailThreshold * Heartbeat = (f + 1) * Heartbeat + d * Heartbeat
  BY <1>1
<1>3. d * Heartbeat \in Nat /\ (f + 1) * Heartbeat \in Nat
  OBVIOUS
<1>4. QED
  BY <1>2, <1>3

-----------------------------------------------------------------------------
(* The invariant                                                           *)

\* The types in two parts: no prover here does arithmetic and Booleans at once.
Flags == reached \in BOOLEAN /\ cycle \in BOOLEAN
Others ==
  /\ age \in 0..Countdown
  /\ resting \subseteq Pairs /\ toCancel \subseteq Pairs
  /\ proc \in {"down", "preflight", "starting", "up", "stopping"}
  /\ starting \in 0..StartTime /\ dead \in 0..(Countdown + 1)
  /\ wait \in 0..Heartbeat
  /\ beat \in {"idle", "asking", "alerting", "telling"}
  /\ spent \in 0..BeatTime /\ asked \in 0..AttemptTime
  /\ failures \in 0..(FailThreshold + 1)
  /\ late \in 0..EntryTime

\* The type invariant in two parts.
LEMMA TypeParts == DeadmanTypes <=> Others /\ Flags
BY DEF DeadmanTypes, Others, Flags

\* Every step keeps the types of the flags,
LEMMA StepFlags ==
  ASSUME DeadmanTypes, [DeadmanNext]_deadmanVars
  PROVE  Flags'
<1> USE DEF exchange, heart, trading, process
<1>1. Flags
  BY TypeParts
<1>2. CASE Tick \/ UNCHANGED deadmanVars
  BY <1>1, <1>2 DEF Flags, Tick, deadmanVars
<1>3. CASE BeatDue
  BY <1>1, <1>3 DEF Flags, BeatDue, Ask
<1>4. CASE Reaches \/ Retry
  BY <1>1, <1>4 DEF Flags, Reaches, Retry
<1>5. CASE BeatOk \/ Recovered \/ BeatFails \/ Alerted
  BY <1>1, <1>5 DEF Flags, BeatOk, Recovered, BeatFails, Alerted, EndFailed
<1>6. CASE LiveChecks
  <2>1. Healthy \in BOOLEAN
    BY DEF Healthy
  <2>2. QED
    BY <1>1, <1>6, <2>1 DEF Flags, LiveChecks
<1>7. CASE EndCycle \/ \E p \in Pairs : SendEntry(p) \/ EntryCloses(p)
  BY <1>1, <1>7 DEF Flags, EndCycle, SendEntry, EntryCloses
<1>8. CASE Preflight
  BY <1>1, <1>8 DEF Flags, Preflight, Ask
<1>9. CASE Refused \/ SchedulerStarts \/ Stop \/ \E p \in Pairs : CancelOne(p)
  BY <1>1, <1>9 DEF Flags, Refused, SchedulerStarts, Stop, CancelOne
<1>10. CASE Exit \/ Crash
  BY <1>1, <1>10 DEF Flags, Exit, Crash
<1>11. QED
  BY <1>2, <1>3, <1>4, <1>5, <1>6, <1>7, <1>8, <1>9, <1>10 DEF DeadmanNext

\* Tick: nothing that is measured passes its bound, for then it is overdue.
LEMMA StepOthers ==
  ASSUME DeadmanTypes, [DeadmanNext]_deadmanVars
  PROVE  Others'
<1> USE DEF exchange, heart, trading, process
<1>1. Others
  BY TypeParts
<1>2. CASE Tick
  BY <1>1, <1>2 DEF Others, Tick, Overdue, Scheduled, Armed
<1>3. CASE BeatDue \/ Reaches \/ Retry
  BY <1>1, <1>3 DEF Others, BeatDue, Ask, Reaches, Retry
<1>4. CASE BeatOk \/ Recovered \/ BeatFails \/ Alerted
  BY <1>1, <1>4 DEF Others, BeatOk, Recovered, BeatFails, Alerted, EndFailed
<1>5. CASE LiveChecks \/ EndCycle \/ \E p \in Pairs : SendEntry(p) \/ EntryCloses(p)
  BY <1>1, <1>5 DEF Others, LiveChecks, EndCycle, SendEntry, EntryCloses
<1>6. CASE Preflight \/ Refused \/ SchedulerStarts
  BY <1>1, <1>6 DEF Others, Preflight, Ask, Refused, SchedulerStarts
<1>7. CASE Stop \/ Exit \/ Crash \/ \E p \in Pairs : CancelOne(p)
  BY <1>1, <1>7 DEF Others, Stop, Exit, Crash, CancelOne
<1>8. CASE UNCHANGED deadmanVars
  BY <1>1, <1>8 DEF Others, deadmanVars
<1>9. QED
  BY <1>2, <1>3, <1>4, <1>5, <1>6, <1>7, <1>8 DEF DeadmanNext

\* and all types.
LEMMA StepTypes ==
  ASSUME DeadmanTypes, [DeadmanNext]_deadmanVars
  PROVE  DeadmanTypes'
<1>1. Others' /\ Flags'
  BY StepOthers, StepFlags
<1>2. QED
  BY <1>1 DEF DeadmanTypes, Others, Flags

\* The invariant holds before the first heartbeat.
LEMMA InitInv ==
  ASSUME DeadmanInit
  PROVE  DeadmanInv
<1>1. DeadmanTypes
  <2>1. Others
    BY DEF DeadmanInit, Others
  <2>2. Flags
    BY DEF DeadmanInit, Flags
  <2>3. QED
    BY <2>1, <2>2, TypeParts
<1>2. AgeKnown /\ StartKnown /\ EntriesKnown /\ DeadKnown /\ EntriesGuarded
  BY DEF DeadmanInit, AgeKnown, StartKnown, EntriesKnown, DeadKnown, EntriesGuarded, Scheduled
<1>3. QED
  BY <1>1, <1>2 DEF DeadmanInv

\* Time: every bound grows by the tick that the age grows by, and the timer
\* that fires takes the entries with it.
LEMMA TickInv ==
  ASSUME DeadmanInv, Tick
  PROVE  DeadmanInv'
<1>1. DeadmanTypes'
  BY StepTypes DEF DeadmanInv, DeadmanNext
<1>2. AgeKnown'
  <2>1. failures * Heartbeat \in Nat /\ (failures + 1) * Heartbeat \in Nat
    BY OneMore DEF DeadmanInv, DeadmanTypes
  <2>2. QED
    BY <2>1 DEF DeadmanInv, DeadmanTypes, AgeKnown, Tick, Overdue, Scheduled, Armed, Healthy, Elapsed
<1>3. StartKnown'
  BY DEF DeadmanInv, DeadmanTypes, StartKnown, Tick, Overdue, Armed
<1>4. EntriesKnown'
  <2>1. FailThreshold * Heartbeat \in Nat
    OBVIOUS
  <2>2. QED
    BY <2>1 DEF DeadmanInv, DeadmanTypes, EntriesKnown, Tick, Overdue, Scheduled, Armed
<1>5. DeadKnown'
  BY DEF DeadmanInv, DeadmanTypes, DeadKnown, EntriesGuarded, Tick, Armed
<1>6. EntriesGuarded'
  BY DEF DeadmanInv, DeadmanTypes, EntriesGuarded, Tick, Armed
<1>7. QED
  BY <1>1, <1>2, <1>3, <1>4, <1>5, <1>6 DEF DeadmanInv

\* The heartbeat: it starts on time, and one that fails is one interval more.
LEMMA BeatInv ==
  ASSUME TimesFit, DeadmanInv, BeatDue \/ Reaches \/ Retry \/ BeatOk \/ Recovered \/ BeatFails \/ Alerted
  PROVE  DeadmanInv'
<1> USE DEF exchange, trading, process
<1>1. DeadmanTypes'
  BY StepTypes DEF DeadmanInv, DeadmanNext
<1>2. AgeKnown'
  <2>1. failures \in Nat /\ wait \in Nat /\ age \in Nat /\ spent \in Nat
    BY DEF DeadmanInv, DeadmanTypes
  <2>2. (failures + 1) * Heartbeat = failures * Heartbeat + Heartbeat /\ failures * Heartbeat \in Nat
    BY <2>1, OneMore
  <2>3. CASE BeatDue
    <3>1. beat = "idle"
      BY <2>3 DEF BeatDue, DeadmanInv, DeadmanTypes, AgeKnown, Elapsed, TimesFit
    <3>2. QED
      BY <2>1, <2>2, <2>3, <3>1 DEF BeatDue, Ask, DeadmanInv, AgeKnown, Scheduled, Healthy, Elapsed
  <2>4. CASE Reaches
    BY <2>1, <2>2, <2>4 DEF Reaches, DeadmanInv, DeadmanTypes, AgeKnown, Scheduled, Healthy, Elapsed
  <2>5. CASE Retry
    BY <2>1, <2>2, <2>5 DEF Retry, DeadmanInv, DeadmanTypes, AgeKnown, Scheduled, Healthy, Elapsed
  <2>6. CASE BeatOk \/ Recovered
    BY <2>1, <2>6 DEF BeatOk, Recovered, DeadmanInv, DeadmanTypes, AgeKnown, Scheduled, Healthy, Elapsed
  <2>7. CASE BeatFails \/ Alerted
    BY <2>1, <2>2, <2>7
    DEF BeatFails, Alerted, EndFailed, DeadmanInv, DeadmanTypes, AgeKnown, Scheduled, Healthy, Elapsed
  <2>8. QED
    BY <2>3, <2>4, <2>5, <2>6, <2>7
<1>3. StartKnown'
  BY DEF DeadmanInv, DeadmanTypes, StartKnown, DeadKnown, BeatDue, Ask, Reaches, Retry, BeatOk,
     Recovered, BeatFails, Alerted, EndFailed, Scheduled
<1>4. EntriesKnown'
  <2>1. FailThreshold * Heartbeat \in Nat
    OBVIOUS
  <2>2. CASE BeatDue \/ Retry \/ BeatOk \/ Recovered \/ BeatFails \/ Alerted
    BY <2>2 DEF DeadmanInv, EntriesKnown, StartKnown, Scheduled, BeatDue, Retry, BeatOk, Recovered,
       BeatFails, Alerted, EndFailed
  <2>3. CASE Reaches
    BY <2>1, <2>3 DEF DeadmanInv, DeadmanTypes, EntriesKnown, Scheduled, Reaches
  <2>4. QED
    BY <2>2, <2>3
<1>5. DeadKnown'
  BY DEF DeadmanInv, DeadmanTypes, DeadKnown, EntriesGuarded, Scheduled, BeatDue, Ask, Reaches, Retry,
     BeatOk, Recovered, BeatFails, Alerted, EndFailed
<1>6. EntriesGuarded'
  BY DEF DeadmanInv, EntriesGuarded, Armed, BeatDue, Reaches, Retry, BeatOk, Recovered, BeatFails,
     Alerted, EndFailed
<1>7. QED
  BY <1>1, <1>2, <1>3, <1>4, <1>5, <1>6 DEF DeadmanInv

\* The cycle: what it reads is fresh enough for all its entries.
LEMMA CycleInv ==
  ASSUME TimesFit, DeadmanInv,
         LiveChecks \/ EndCycle \/ \E p \in Pairs : SendEntry(p) \/ EntryCloses(p)
  PROVE  DeadmanInv'
<1> USE DEF exchange, heart, trading, process
<1>1. DeadmanTypes'
  BY StepTypes DEF DeadmanInv, DeadmanNext
<1>2. AgeKnown' /\ StartKnown'
  BY DEF DeadmanInv, AgeKnown, StartKnown, LiveChecks, EndCycle, SendEntry, EntryCloses, Scheduled,
     Healthy,
     Elapsed
<1>3. EntriesKnown'
  <2>1. CASE LiveChecks /\ Healthy
    <3>1. failures \in Nat /\ failures < FailThreshold
      BY <2>1 DEF DeadmanInv, DeadmanTypes, Healthy
    <3>2. (failures + 1) * Heartbeat <= FailThreshold * Heartbeat
      BY <3>1, RoomForOne
    <3>3. (failures + 1) * Heartbeat = failures * Heartbeat + Heartbeat /\ failures * Heartbeat \in Nat
      BY <3>1, OneMore
    <3>4. FailThreshold * Heartbeat \in Nat
      OBVIOUS
    <3>5. age <= StartTime + FailThreshold * Heartbeat + BeatTime
      BY <2>1, <3>2, <3>3, <3>4 DEF LiveChecks, DeadmanInv, DeadmanTypes, AgeKnown, Elapsed
    <3>6. QED
      BY <2>1, <3>4, <3>5 DEF LiveChecks, EntriesKnown, Scheduled, DeadmanInv, DeadmanTypes
  <2>2. CASE LiveChecks /\ ~Healthy
    BY <2>2 DEF LiveChecks, EntriesKnown
  <2>3. CASE EndCycle
    BY <2>3 DEF EndCycle, EntriesKnown
  <2>4. CASE \E p \in Pairs : SendEntry(p) \/ EntryCloses(p)
    BY <2>4 DEF SendEntry, EntryCloses, DeadmanInv, EntriesKnown, Scheduled
  <2>5. QED
    BY <2>1, <2>2, <2>3, <2>4
<1>4. EntriesGuarded'
  <2>1. CASE \E p \in Pairs : SendEntry(p)
    <3>1. FailThreshold * Heartbeat \in Nat
      OBVIOUS
    <3>2. age < Countdown
      BY <2>1, <3>1 DEF SendEntry, DeadmanInv, DeadmanTypes, EntriesKnown, TimesFit
    <3>3. QED
      BY <2>1, <3>2 DEF SendEntry, EntriesGuarded, Armed
  <2>2. CASE LiveChecks \/ EndCycle \/ \E p \in Pairs : EntryCloses(p)
    BY <2>2 DEF LiveChecks, EndCycle, EntryCloses, DeadmanInv, EntriesGuarded, Armed
  <2>3. QED
    BY <2>1, <2>2
<1>5. DeadKnown'
  BY DEF DeadmanInv, DeadKnown, EntriesKnown, Scheduled, LiveChecks, EndCycle, SendEntry, EntryCloses
<1>6. QED
  BY <1>1, <1>2, <1>3, <1>4, <1>5 DEF DeadmanInv

\* The process: the first heartbeat vouches for the start, and a death starts
\* counting at once.
LEMMA ProcessInv ==
  ASSUME DeadmanInv,
         Preflight \/ Refused \/ SchedulerStarts \/ Stop \/ Exit \/ Crash \/ \E p \in Pairs : CancelOne(p)
  PROVE  DeadmanInv'
<1> USE DEF exchange, heart, trading
<1>1. DeadmanTypes'
  BY StepTypes DEF DeadmanInv, DeadmanNext
<1>2. AgeKnown'
  <2>1. CASE SchedulerStarts
    <3>1. failures * Heartbeat = 0
      BY <2>1 DEF SchedulerStarts, DeadmanInv, StartKnown
    <3>2. QED
      BY <2>1, <3>1 DEF SchedulerStarts, DeadmanInv, DeadmanTypes, StartKnown, AgeKnown, Scheduled,
         Elapsed, Healthy
  <2>2. CASE Preflight \/ Refused \/ Exit \/ Crash
    BY <2>2 DEF Preflight, Refused, Exit, Crash, AgeKnown, Scheduled
  <2>3. CASE Stop \/ \E p \in Pairs : CancelOne(p)
    BY <2>3 DEF Stop, CancelOne, DeadmanInv, AgeKnown, Scheduled, Elapsed, Healthy
  <2>4. QED
    BY <2>1, <2>2, <2>3
<1>3. StartKnown'
  BY DEF DeadmanInv, StartKnown, Preflight, Ask, Refused, SchedulerStarts, Stop, Exit, Crash, CancelOne
<1>4. EntriesKnown'
  BY DEF DeadmanInv, EntriesKnown, Scheduled, Preflight, Refused, SchedulerStarts, Stop, Exit, Crash,
     CancelOne
<1>5. DeadKnown'
  BY DEF DeadmanInv, DeadmanTypes, StartKnown, DeadKnown, Preflight, Refused, SchedulerStarts, Stop,
     Exit, Crash, CancelOne
<1>6. EntriesGuarded'
  BY DEF DeadmanInv, DeadmanTypes, EntriesGuarded, Armed, Preflight, Refused, SchedulerStarts, Stop,
     Exit, Crash, CancelOne
<1>7. QED
  BY <1>1, <1>2, <1>3, <1>4, <1>5, <1>6 DEF DeadmanInv

\* Stuttering keeps the invariant,
LEMMA StutterInv ==
  ASSUME DeadmanInv, UNCHANGED deadmanVars
  PROVE  DeadmanInv'
BY DEF deadmanVars, DeadmanInv, DeadmanTypes, AgeKnown, StartKnown, EntriesKnown, DeadKnown,
   EntriesGuarded, Armed,
   Scheduled, Healthy, Elapsed

\* and so does every step.
LEMMA StepInv ==
  ASSUME TimesFit
  PROVE  DeadmanInv /\ [DeadmanNext]_deadmanVars => DeadmanInv'
BY TickInv, BeatInv, CycleInv, ProcessInv, StutterInv DEF DeadmanNext

-----------------------------------------------------------------------------
(* The theorems                                                            *)

\* The count of failures bounds the age of the timer.
THEOREM DeadmanInvHolds ==
  ASSUME TimesFit
  PROVE  DeadmanSpec => []DeadmanInv
<1>1. DeadmanInv /\ [DeadmanNext]_deadmanVars => DeadmanInv'
  BY StepInv
<1>2. QED
  BY <1>1, InitInv, PTL DEF DeadmanSpec

\* The timer runs while an entry rests: failures are counted fast enough for
\* healthy (deadman.py) to stop entries before it fires.
THEOREM EntriesAreGuarded ==
  ASSUME TimesFit
  PROVE  DeadmanSpec => []EntriesGuarded
<1>1. DeadmanInv => EntriesGuarded
  BY DEF DeadmanInv
<1>2. QED
  BY <1>1, DeadmanInvHolds, PTL

\* One countdown after the agent ended, killed or stopped by main.py, none of
\* its entries is open.
THEOREM DeathsClearEntries ==
  ASSUME TimesFit
  PROVE  DeadmanSpec => []DeathClearsEntries
<1>1. DeadmanInv => DeathClearsEntries
  BY DEF DeadmanInv, DeadmanTypes, DeadKnown, EntriesGuarded, Armed, DeathClearsEntries
<1>2. QED
  BY <1>1, DeadmanInvHolds, PTL

-----------------------------------------------------------------------------
(* Watchdog                                                                *)

Letters == [key : Keys, kind : {"alert", "recovered"}]

\* What AlertsRepeat rests on: the file is never ahead of what has reached the
\* owner, and a run still has in hand the alerts that are due and that it has
\* not delivered.
WatchTyped ==
  /\ run \in Nat /\ wrong \subseteq Keys /\ msgs \in Seq(Letters)
  /\ told \in [Keys -> Int] /\ delivered \in [Keys -> Int]

FileBehind == \A k \in Keys : Never <= told[k] /\ told[k] <= delivered[k] /\ delivered[k] <= run

Held(list, m) == \E i \in 1..Len(list) : list[i] = m

InHand(k) == Held(msgs, [key |-> k, kind |-> "alert"])

DueInHand == busy => \A k \in wrong : Due(k) => delivered[k] = run \/ InHand(k)

WatchInv == WatchTyped /\ FileBehind /\ DueInHand

\* What either part of a list holds, the list holds.
LEMMA JoinHolds ==
  ASSUME NEW s \in Seq(Letters), NEW t \in Seq(Letters)
  PROVE  s \o t \in Seq(Letters) /\ \A m : Held(s, m) \/ Held(t, m) => Held(s \o t, m)
<1>1. s \o t \in Seq(Letters) /\ Len(s \o t) = Len(s) + Len(t)
  OBVIOUS
<1>2. \A i \in 1..Len(s) : (s \o t)[i] = s[i] /\ i \in 1..Len(s \o t)
  BY <1>1
<1>3. \A i \in 1..Len(t) : (s \o t)[Len(s) + i] = t[i] /\ Len(s) + i \in 1..Len(s \o t)
  BY <1>1
<1>4. QED
  BY <1>1, <1>2, <1>3 DEF Held

\* One has the message of its key, if that is asked for.
LEMMA OneHolds ==
  ASSUME NEW kind \in {"alert", "recovered"}, NEW keys \in SUBSET Keys, NEW k \in Keys
  PROVE  /\ One(kind, keys, k) \in Seq(Letters)
         /\ k \in keys => Held(One(kind, keys, k), [key |-> k, kind |-> kind])
<1>1. PICK m \in Letters : m = [key |-> k, kind |-> kind]
  BY DEF Letters
<1>2. CASE k \in keys
  <2>1. One(kind, keys, k) = <<m>>
    BY <1>1, <1>2 DEF One
  <2>2. <<m>> \in Seq(Letters) /\ Len(<<m>>) = 1 /\ <<m>>[1] = m
    OBVIOUS
  <2>3. QED
    BY <1>1, <2>1, <2>2 DEF Held
<1>3. CASE k \notin keys
  BY <1>3 DEF One
<1>4. QED
  BY <1>2, <1>3

\* A key that is asked for has its message.
LEMMA AboutHolds ==
  ASSUME NEW kind \in {"alert", "recovered"}, NEW keys \in SUBSET Keys
  PROVE  /\ About(kind, keys) \in Seq(Letters)
         /\ \A k \in keys : Held(About(kind, keys), [key |-> k, kind |-> kind])
<1> DEFINE P(k) == One(kind, keys, k)
           A2 == P("service") \o P("stale")
           A3 == A2 \o P("disk")
           A4 == A3 \o P("backup")
           A5 == A4 \o P("skills")
           Msg(k) == [key |-> k, kind |-> kind]
<1>1. Keys = {"service", "stale", "disk", "backup", "skills"}
  BY DEF Keys, Readings
<1>2. \A k \in Keys : P(k) \in Seq(Letters) /\ (k \in keys => Held(P(k), Msg(k)))
  BY OneHolds
<1>3. About(kind, keys) = A5
  BY Zenon DEF About
<1> HIDE DEF P, Msg
<1>4. A2 \in Seq(Letters) /\ \A k \in keys : k \in {"service", "stale"} => Held(A2, Msg(k))
  BY <1>1, <1>2, JoinHolds
<1> HIDE DEF A2
<1>5. A3 \in Seq(Letters) /\ \A k \in keys : k \in {"service", "stale", "disk"} => Held(A3, Msg(k))
  BY <1>1, <1>2, <1>4, JoinHolds
<1> HIDE DEF A3
<1>6. A4 \in Seq(Letters) /\ \A k \in keys : k \in {"service", "stale", "disk", "backup"} => Held(A4, Msg(k))
  BY <1>1, <1>2, <1>5, JoinHolds
<1> HIDE DEF A4
<1>7. A5 \in Seq(Letters) /\ \A k \in keys : Held(A5, Msg(k))
  BY <1>1, <1>2, <1>6, JoinHolds
<1> HIDE DEF A5
<1>8. QED
  BY <1>3, <1>7, Zenon DEF Msg

\* Nothing is told before the first run.
LEMMA WatchStarts == WatchInit => WatchInv
<1>1. WatchInit => WatchTyped
  BY DEF WatchInit, WatchTyped, Never
<1>2. QED
  BY <1>1 DEF WatchInit, WatchInv, FileBehind, DueInHand, Never

\* A run that looks takes in hand every alert that is due.
LEMMA LookTakesInHand == WatchInv /\ Look => WatchInv'
<1> SUFFICES ASSUME WatchInv, Look PROVE WatchInv'
  OBVIOUS
<1> DEFINE due == {k \in Problems : Due(k)}
           over == {k \in Keys \ Problems : told[k] # Never}
<1>1. due \in SUBSET Keys /\ over \in SUBSET Keys /\ Problems \subseteq Keys
  BY DEF Problems
<1>2. msgs' = About("alert", due) \o About("recovered", over)
  BY DEF Look
<1>3. wrong' = Problems /\ busy' /\ UNCHANGED <<facts, run, told, delivered>>
  BY DEF Look
<1> HIDE DEF due, over
<1>4. /\ About("alert", due) \in Seq(Letters) /\ About("recovered", over) \in Seq(Letters)
      /\ \A k \in due : Held(About("alert", due), [key |-> k, kind |-> "alert"])
  BY <1>1, AboutHolds
<1>5. msgs' \in Seq(Letters) /\ \A m : Held(About("alert", due), m) => Held(msgs', m)
  BY <1>2, <1>4, JoinHolds
<1>6. \A k \in due : InHand(k)'
  BY <1>4, <1>5 DEF InHand
<1>7. WatchTyped'
  BY <1>1, <1>3, <1>5 DEF WatchInv, WatchTyped
<1>8. FileBehind'
  BY <1>3 DEF WatchInv, FileBehind
<1>9. \A k \in Keys : Due(k)' = Due(k)
  BY <1>3 DEF Due
<1>10. DueInHand'
  BY <1>1, <1>3, <1>6, <1>9 DEF DueInHand, due
<1>11. QED
  BY <1>7, <1>8, <1>10 DEF WatchInv

\* A message that is sent leaves the list as it reaches the owner.
LEMMA SentIsDelivered == WatchInv /\ SendMessage => WatchInv'
<1> SUFFICES ASSUME WatchInv, SendMessage PROVE WatchInv'
  OBVIOUS
<1>1. /\ msgs \in Seq(Letters) /\ msgs # <<>> /\ msgs' = Tail(msgs)
      /\ UNCHANGED <<facts, run, busy, wrong, told>>
  BY DEF SendMessage, WatchInv, WatchTyped
<1>2. /\ msgs' \in Seq(Letters) /\ Len(msgs) \in Nat \ {0} /\ Len(msgs') = Len(msgs) - 1
      /\ msgs[1] = Head(msgs) /\ Head(msgs) \in Letters
      /\ \A i \in 1..Len(msgs') : msgs'[i] = msgs[i + 1]
  BY <1>1
<1>3. PICK m \in Letters : m = msgs[1]
  BY <1>2
<1>4. delivered' = IF m.kind = "alert" THEN [delivered EXCEPT ![m.key] = run] ELSE delivered
  BY <1>2, <1>3 DEF SendMessage, ReachesOwner
<1>5. m.key \in Keys
  BY <1>3 DEF Letters
<1>6. WatchTyped'
  BY <1>1, <1>2, <1>4, <1>5 DEF WatchInv, WatchTyped
<1>7. \A k \in Keys : delivered'[k] = delivered[k] \/ delivered'[k] = run
  BY <1>4, <1>5 DEF WatchInv, WatchTyped
<1>8. FileBehind'
  <2>1. \A k \in Keys : Never <= told[k] /\ told[k] <= delivered[k] /\ delivered[k] <= run
    BY DEF WatchInv, FileBehind
  <2>2. told' = told /\ run' = run /\ run \in Nat /\ told \in [Keys -> Int] /\ delivered \in [Keys -> Int]
    BY <1>1 DEF WatchInv, WatchTyped
  <2>3. ASSUME NEW k \in Keys
        PROVE  Never <= told'[k] /\ told'[k] <= delivered'[k] /\ delivered'[k] <= run'
    BY <1>7, <2>1, <2>2
  <2>4. QED
    BY <2>3 DEF FileBehind
<1>9. ASSUME NEW k \in wrong, Due(k), busy
      PROVE  delivered'[k] = run \/ InHand(k)'
  <2>1. k \in Keys
    BY DEF WatchInv, WatchTyped
  <2>2. CASE delivered[k] = run
    BY <1>7, <2>1, <2>2
  <2>3. CASE InHand(k)
    <3>1. PICK i \in 1..Len(msgs) : msgs[i] = [key |-> k, kind |-> "alert"]
      BY <2>3 DEF InHand, Held
    <3>2. CASE i = 1
      <4>1. m.key = k /\ m.kind = "alert"
        BY <1>3, <3>1, <3>2
      <4>2. QED
        BY <1>4, <2>1, <4>1 DEF WatchInv, WatchTyped
    <3>3. CASE i # 1
      <4>1. i - 1 \in 1..Len(msgs') /\ msgs'[i - 1] = msgs[i]
        BY <1>2, <3>3
      <4>2. QED
        BY <3>1, <4>1 DEF InHand, Held
    <3>4. QED
      BY <3>2, <3>3
  <2>4. QED
    BY <1>9, <2>2, <2>3 DEF WatchInv, DueInHand
<1>10. \A k \in Keys : Due(k)' = Due(k)
  BY <1>1 DEF Due
<1>11. DueInHand'
  BY <1>1, <1>9, <1>10 DEF DueInHand, WatchInv, WatchTyped
<1>12. QED
  BY <1>6, <1>8, <1>11 DEF WatchInv

\* A run that is over has nothing in hand: what it leaves is right when the
\* file is typed and not ahead of what was delivered.
LEMMA OverIsRight ==
  WatchTyped /\ FileBehind /\ RunEnds
    /\ (UNCHANGED told \/ told' = NewState \/ told' = [k \in Keys |-> Never])
    /\ (told' = NewState => \A k \in wrong : Due(k) => delivered[k] = run)
    /\ delivered' \in [Keys -> Int]
    /\ (\A k \in Keys : delivered'[k] = delivered[k] \/ delivered'[k] = run)
  => WatchInv'
<1> SUFFICES ASSUME WatchTyped, FileBehind, RunEnds,
                    UNCHANGED told \/ told' = NewState \/ told' = [k \in Keys |-> Never],
                    told' = NewState => \A k \in wrong : Due(k) => delivered[k] = run,
                    delivered' \in [Keys -> Int],
                    \A k \in Keys : delivered'[k] = delivered[k] \/ delivered'[k] = run
             PROVE  WatchInv'
  OBVIOUS
<1>1. /\ run \in Nat /\ told \in [Keys -> Int] /\ delivered \in [Keys -> Int]
      /\ run' = run + 1 /\ wrong' = {} /\ msgs' = <<>> /\ ~busy'
  BY DEF WatchTyped, RunEnds
<1>2. NewState \in [Keys -> Int]
  BY <1>1 DEF NewState, Never
<1>3. told' \in [Keys -> Int]
  BY <1>1, <1>2 DEF Never
<1>4. ASSUME NEW k \in Keys
      PROVE  Never <= told'[k] /\ told'[k] <= delivered'[k] /\ delivered'[k] <= run'
  <2>1. /\ Never <= told[k] /\ told[k] <= delivered[k] /\ delivered[k] <= run
        /\ delivered'[k] = delivered[k] \/ delivered'[k] = run
        /\ told[k] \in Int /\ delivered[k] \in Int /\ delivered'[k] \in Int
    BY <1>1 DEF FileBehind
  <2>2. delivered[k] <= delivered'[k] /\ delivered'[k] <= run'
    BY <1>1, <2>1
  <2>3. Never <= told'[k] /\ told'[k] <= delivered[k]
    <3>1. CASE UNCHANGED told
      BY <2>1, <3>1
    <3>2. CASE told' = [x \in Keys |-> Never]
      BY <2>1, <3>2 DEF Never
    <3>3. CASE told' = NewState
      BY <1>1, <2>1, <3>3 DEF NewState, Never
    <3>4. QED
      BY <3>1, <3>2, <3>3
  <2>4. QED
    BY <1>3, <2>1, <2>2, <2>3 DEF Never
<1>5. WatchTyped'
  BY <1>1, <1>3 DEF WatchTyped
<1>6. FileBehind' /\ DueInHand'
  BY <1>1, <1>4 DEF FileBehind, DueInHand
<1>7. QED
  BY <1>5, <1>6 DEF WatchInv

\* No step of the watchdog breaks it.
LEMMA WatchStep == WatchInv /\ [WatchNext]_watchVars => WatchInv'
<1> SUFFICES ASSUME WatchInv, [WatchNext]_watchVars PROVE WatchInv'
  OBVIOUS
<1> USE DEF WatchInv
<1>1. CASE Changes \/ UNCHANGED watchVars
  <2>1. UNCHANGED <<run, busy, wrong, msgs, told, delivered>>
    BY <1>1 DEF Changes, watchVars
  <2>2. WatchTyped' /\ FileBehind'
    BY <2>1 DEF WatchTyped, FileBehind
  <2>3. DueInHand'
    BY <2>1 DEF DueInHand, Due, InHand
  <2>4. QED
    BY <2>2, <2>3
<1>2. CASE Look
  BY <1>2, LookTakesInHand
<1>3. CASE Blind
  <2>1. run' = run + 1 /\ ~busy' /\ UNCHANGED <<wrong, msgs, told, delivered>>
    BY <1>3 DEF Blind
  <2>2. WatchTyped' /\ FileBehind'
    BY <2>1 DEF WatchTyped, FileBehind
  <2>3. DueInHand'
    BY <2>1 DEF DueInHand
  <2>4. QED
    BY <2>2, <2>3
<1>4. CASE SendMessage
  BY <1>4, SentIsDelivered
<1>5. CASE SendFails
  <2>1. /\ RunEnds /\ UNCHANGED told /\ msgs # <<>>
        /\ ReachesOwner(Head(msgs)) \/ UNCHANGED delivered
    BY <1>5 DEF SendFails, Kept
  <2>2. delivered' \in [Keys -> Int] /\ \A k \in Keys : delivered'[k] = delivered[k] \/ delivered'[k] = run
    BY <2>1 DEF ReachesOwner, WatchTyped
  <2>3. told' = NewState => \A k \in wrong : Due(k) => delivered[k] = run
    <3>1. told' = told
      BY <2>1
    <3>2. ASSUME told = NewState, NEW k \in wrong, Due(k) PROVE delivered[k] = run
      <4>1. k \in Keys /\ told[k] = run
        BY <3>2 DEF NewState, WatchTyped
      <4>2. QED
        BY <4>1 DEF FileBehind, WatchTyped
    <3>3. QED
      BY <3>1, <3>2
  <2>4. QED
    BY <2>1, <2>2, <2>3, OverIsRight
<1>6. CASE Finish
  <2>1. RunEnds /\ told' = NewState /\ UNCHANGED delivered /\ busy /\ msgs = <<>>
    BY <1>6 DEF Finish
  <2>2. \A k \in wrong : Due(k) => delivered[k] = run
    BY <2>1 DEF DueInHand, InHand, Held
  <2>3. delivered' \in [Keys -> Int] /\ \A k \in Keys : delivered'[k] = delivered[k] \/ delivered'[k] = run
    BY <2>1 DEF WatchTyped
  <2>4. QED
    BY <2>1, <2>2, <2>3, OverIsRight
<1>7. CASE RunDies
  <2>1. RunEnds /\ UNCHANGED delivered /\ (UNCHANGED told \/ told' = [k \in Keys |-> Never])
    BY <1>7 DEF RunDies
  <2>2. delivered' \in [Keys -> Int] /\ \A k \in Keys : delivered'[k] = delivered[k] \/ delivered'[k] = run
    BY <2>1 DEF WatchTyped
  <2>3. told' = NewState => \A k \in wrong : Due(k) => delivered[k] = run
    <3>1. ASSUME told' = NewState, NEW k \in wrong, Due(k) PROVE delivered[k] = run
      <4>1. k \in Keys /\ told'[k] = run /\ run \in Int
        BY <3>1 DEF NewState, WatchTyped
      <4>2. told'[k] = told[k] \/ told'[k] = Never
        BY <2>1, <4>1
      <4>3. QED
        BY <4>1, <4>2 DEF FileBehind, WatchTyped, Never
    <3>2. QED
      BY <3>1
  <2>4. QED
    BY <2>1, <2>2, <2>3, OverIsRight
<1>8. QED
  BY <1>1, <1>2, <1>3, <1>4, <1>5, <1>6, <1>7 DEF WatchNext

\* The invariant holds of the watchdog.
LEMMA WatchInvHolds == WatchSpec => []WatchInv
<1>1. QED
  BY WatchStarts, WatchStep, PTL DEF WatchSpec

\* For any period, any number of runs and whatever is not sent or half sent, a
\* run that comes to its end leaves no problem of which the owner was not told
\* within the last realert_minutes.
THEOREM AlertsAreRepeated == WatchSpec => AlertsRepeat
<1>1. WatchInv /\ [WatchNext]_watchVars =>
        [Finish => \A k \in wrong : delivered[k] # Never /\ run - delivered[k] < Realert]_watchVars
  <2>1. ASSUME WatchInv, Finish, NEW k \in wrong
        PROVE  delivered[k] # Never /\ run - delivered[k] < Realert
    <3>1. k \in Keys /\ run \in Nat /\ told[k] \in Int /\ delivered[k] \in Int /\ Realert \in Nat \ {0}
      BY <2>1, WatchAssumption DEF WatchInv, WatchTyped
    <3>2. Never <= told[k] /\ told[k] <= delivered[k] /\ delivered[k] <= run
      BY <2>1, <3>1 DEF WatchInv, FileBehind
    <3>3. CASE Due(k)
      <4>1. delivered[k] = run
        BY <2>1, <3>3 DEF WatchInv, DueInHand, InHand, Held, Finish
      <4>2. QED
        BY <3>1, <3>2, <4>1 DEF Never
    <3>4. CASE ~Due(k)
      BY <3>1, <3>2, <3>4 DEF Due, Never
    <3>5. QED
      BY <3>3, <3>4
  <2>2. QED
    BY <2>1
<1>2. QED
  BY <1>1, WatchInvHolds, PTL DEF WatchSpec, AlertsRepeat

-----------------------------------------------------------------------------
(* OrderCheck                                                              *)

\* What PassedIsClean rests on: what the script has sent so far and what it
\* knows of it when it can still pass.
BookTyped ==
  /\ doing \in Steps /\ key \in {"trade", "withdraw"}
  /\ book \in [{"A", "B", "S"} -> {"none", "open", "filled", "cancelled"}]

\* An order is sent once, at its own step.
SentSoFar ==
  /\ doing \in {"permission", "A.place"} => book["A"] = "none"
  /\ doing \in {"permission", "A.place", "A.read", "A.open", "A.cancel", "A.after", "B.buy"}
       => book["B"] = "none" /\ read = "none"
  /\ doing = "B.read" => read = "none"
  /\ doing \in {"permission", "A.place", "A.read", "A.open", "A.cancel", "A.after",
                "B.buy", "B.read", "B.sell"}
       => book["S"] = "none"

\* A script that is still good has cancelled order A before it buys, and a
\* status that was read as final is final.
KnownSoFar ==
  /\ doing \in {"B.buy", "B.read", "B.sell", "B.sell read"} /\ good => book["A"] = "cancelled"
  /\ read = "filled" => book["B"] = "filled"

\* A key that can withdraw does not get past the permission check.
KeyProven == key = "withdraw" => ~number /\ doing \in {"permission", "end"}

CheckInv ==
  /\ BookTyped /\ SentSoFar /\ KnownSoFar /\ KeyProven
  /\ doing # "end" => exit = "none"
  /\ PassedIsClean

\* Nothing is on the book at the start.
LEMMA CheckStarts == CheckInit => CheckInv
  BY DEF CheckInit, CheckInv, BookTyped, Steps, SentSoFar, KnownSoFar, KeyProven, PassedIsClean

\* With a key that can withdraw, nothing proves that it cannot.
LEMMA WithdrawSeen == key = "withdraw" => \A w \in Withdraw : ~Proven(w)
  BY DEF Withdraw, Proven

\* No step of the script, the exchange or the owner breaks it.
LEMMA CheckStep == CheckInv /\ [CheckNext]_checkVars => CheckInv'
<1> SUFFICES ASSUME CheckInv, [CheckNext]_checkVars PROVE CheckInv'
  OBVIOUS
<1> USE DEF CheckInv, BookTyped, SentSoFar, KnownSoFar, KeyProven, PassedIsClean, Steps
<1>1. CASE Permission
  BY <1>1, WithdrawSeen DEF Permission, CheckEnds
<1>2. CASE PlaceA \/ ReadA \/ CancelA
  BY <1>2 DEF PlaceA, ReadA, CancelA, Cancelled
<1>3. CASE AfterA
  BY <1>3 DEF AfterA, PassOrFail, CheckEnds
<1>4. CASE PlaceB
  BY <1>4 DEF PlaceB
<1>5. CASE ReadB
  <2>1. doing' = "B.sell" /\ read' = book["B"] /\ UNCHANGED <<key, good, number, book, exit>>
    BY <1>5 DEF ReadB
  <2>2. good' => good
    BY <2>1
  <2>3. QED
    BY <1>5, <2>1, <2>2 DEF ReadB
<1>6. CASE Sell
  <2>1. doing = "B.sell" /\ UNCHANGED <<key, number, read>>
    BY <1>6 DEF Sell
  <2>2. CASE (\E s \in {"open", "filled"} : book' = [book EXCEPT !.S = s])
               /\ doing' = "B.sell read" /\ UNCHANGED <<good, exit>>
    BY <2>1, <2>2
  <2>3. CASE doing' = "end" /\ UNCHANGED book
               /\ \/ exit' = "passed" /\ good /\ read = "filled"
                  \/ exit' = "failed"
    BY <2>1, <2>3
  <2>4. QED
    BY <1>6, <2>2, <2>3 DEF Sell, PassOrFail, CheckEnds, Confirmed
<1>7. CASE ReadS
  BY <1>7 DEF ReadS, PassOrFail, CheckEnds, Confirmed
<1>8. CASE Raises
  <2>1. /\ doing \in Calling /\ doing' = "cleanup" /\ UNCHANGED <<key, number, read, exit>>
        /\ good' = FALSE
    BY <1>8, Zenon DEF Raises
  <2>2. CASE UNCHANGED book
    BY <2>1, <2>2 DEF Calling
  <2>3. CASE doing = "A.place" /\ book' = [book EXCEPT !.A = "open"]
    BY <2>1, <2>3
  <2>4. CASE doing = "A.cancel" /\ Cancelled
    BY <2>1, <2>4 DEF Cancelled
  <2>5. CASE doing = "B.buy" /\ \E s \in {"open", "filled"} : book' = [book EXCEPT !.B = s]
    BY <2>1, <2>5
  <2>6. CASE doing = "B.sell" /\ \E s \in {"open", "filled"} : book' = [book EXCEPT !.S = s]
    BY <2>1, <2>6
  <2>7. QED
    BY <1>8, <2>2, <2>3, <2>4, <2>5, <2>6, Zenon DEF Raises
<1>9. CASE Cleanup \/ Killed
  BY <1>9 DEF Cleanup, Killed, Calling, Cancelled, CheckEnds
<1>10. CASE Filled
  <2>1. UNCHANGED <<key, doing, good, number, read, exit>>
    BY <1>10 DEF Filled
  <2>2. PICK o \in {"A", "B", "S"} : book[o] = "open" /\ book' = [book EXCEPT ![o] = "filled"]
    BY <1>10 DEF Filled
  <2>3. /\ BookTyped' /\ book[o] = "open" /\ book'[o] = "filled"
        /\ \A x \in {"A", "B", "S"} : x # o => book'[x] = book[x]
    BY <2>1, <2>2
  <2>4. SentSoFar' /\ KeyProven'
    BY <2>1, <2>3
  <2>5. KnownSoFar'
    BY <2>1, <2>3
  <2>6. PassedIsClean'
    BY <2>1, <2>3
  <2>7. QED
    BY <2>1, <2>3, <2>4, <2>5, <2>6, Zenon
<1>11. CASE CancelOrder \/ Recancel \/ StillOpen
  BY <1>11 DEF CancelOrder, Recancel, StillOpen, Cancelled, CheckEnds
<1>12. CASE Stays \/ UNCHANGED checkVars
  <2>1. UNCHANGED <<key, fill, doing, good, pending, number, read, book, exit>>
    BY <1>12 DEF Stays, checkVars
  <2>2. (doing = "end" <=> doing' = "end") /\ (good' <=> good) /\ (number' <=> number)
    BY <2>1, Zenon
  <2>3. QED
    BY <2>1, <2>2
<1>13. QED
  BY <1>1, <1>2, <1>3, <1>4, <1>5, <1>6, <1>7, <1>8, <1>9, <1>10, <1>11, <1>12 DEF CheckNext

\* The invariant of the check holds.
LEMMA CheckInvHolds == CheckSpec => []CheckInv
<1>1. QED
  BY CheckStarts, CheckStep, PTL DEF CheckSpec

\* A check that says PASSED, or that its order is not open any more, leaves no
\* order of its own on the book, however often it is run again with
\* --cancel-order; a key that can withdraw sends none.
THEOREM PassedChecksAreClean == CheckSpec => []PassedIsClean
<1>1. CheckInv => PassedIsClean
  BY DEF CheckInv
<1>2. QED
  BY CheckInvHolds, <1>1, PTL

-----------------------------------------------------------------------------
(* OrderNumbers                                                            *)

\* A quotient, multiplied again, is within one divisor of the number.
LEMMA Quotient ==
  ASSUME NEW n \in Int, NEW m \in Nat \ {0}
  PROVE  /\ n \div m \in Int
         /\ (n \div m) * m <= n /\ n < (n \div m) * m + m
         /\ n >= 0 => n \div m >= 0
  OBVIOUS

\* What a number divides without a remainder is a multiple of it.
LEMMA Multiple ==
  ASSUME NEW n \in Int, NEW m \in Nat \ {0}, n % m = 0
  PROVE  n = (n \div m) * m
  OBVIOUS

\* A factor more does not turn an order round.
LEMMA Scaled ==
  ASSUME NEW a \in Int, NEW b \in Int, NEW c \in Nat, a <= b
  PROVE  a * c <= b * c
  OBVIOUS

\* What one more of a factor makes of a product.
LEMMA OneStepMore == ASSUME NEW k \in Int, NEW m \in Int PROVE (k + 1) * m = k * m + m
  OBVIOUS

\* Floor is a number of steps, of which one more is above the fraction.
LEMMA FloorBounds ==
  ASSUME NEW num \in Int, NEW den \in Nat \ {0}, NEW unit \in Nat \ {0}
  PROVE  \E k \in Int :
           /\ Floor(num, den, unit) = k * unit
           /\ k * unit * den <= num /\ num < (k + 1) * unit * den
           /\ num >= 0 => k >= 0
<1> DEFINE k == num \div (den * unit)
<1>1. den * unit \in Nat \ {0}
  OBVIOUS
<1>2. k \in Int /\ k * (den * unit) <= num /\ num < k * (den * unit) + den * unit /\ (num >= 0 => k >= 0)
  BY <1>1, Quotient
<1> HIDE DEF k
<1>3. k * (den * unit) = k * unit * den /\ k * (den * unit) + den * unit = (k + 1) * unit * den
  BY <1>2
<1>4. Floor(num, den, unit) = k * unit
  BY DEF Floor, k
<1>5. QED
  BY <1>2, <1>3, <1>4

\* Ceil is a number of steps that reaches the fraction.
LEMMA CeilBounds ==
  ASSUME NEW num \in Int, NEW den \in Nat \ {0}, NEW unit \in Nat \ {0}
  PROVE  \E k \in Int :
           /\ Ceil(num, den, unit) = k * unit
           /\ num <= k * unit * den
           /\ num >= 0 => k >= 0
           /\ num > 0 => k > 0
<1> DEFINE top == num + den * unit - 1
           k == top \div (den * unit)
<1>1. den * unit \in Nat \ {0} /\ top \in Int
  OBVIOUS
<1>2. k \in Int /\ k * (den * unit) <= top /\ top < k * (den * unit) + den * unit /\ (top >= 0 => k >= 0)
  BY <1>1, Quotient
<1>3. Ceil(num, den, unit) = k * unit
  BY DEF Ceil
<1> HIDE DEF k
<1>4. num <= k * (den * unit) /\ (num >= 0 => k >= 0)
  BY <1>1, <1>2
<1>5. num > 0 => k > 0
  BY <1>1, <1>2, <1>4
<1>6. k * (den * unit) = k * unit * den
  BY <1>2
<1>7. QED
  BY <1>2, <1>3, <1>4, <1>5, <1>6

\* Of two factors to the same positive one, the smaller has the smaller product.
LEMMA Cancels ==
  ASSUME NEW a \in Int, NEW b \in Int, NEW c \in Nat \ {0}, a * c < b * c
  PROVE  a < b
<1>1. b <= a => b * c <= a * c
  BY Scaled
<1>2. QED
  BY <1>1

\* The greatest of two numbers is one of them.
LEMMA GreatestOfTwo ==
  ASSUME NEW a \in Int, NEW b \in Int
  PROVE  Max({a, b}) \in {a, b} /\ Max({a, b}) >= a /\ Max({a, b}) >= b
<1>1. \E x \in {a, b} : \A y \in {a, b} : x >= y
  OBVIOUS
<1>2. QED
  BY <1>1 DEF Max

\* The least of three numbers is one of them.
LEMMA LeastOfThree ==
  ASSUME NEW a \in Int, NEW b \in Int, NEW c \in Int
  PROVE  /\ Min({a, b, c}) \in {a, b, c}
         /\ Min({a, b, c}) <= a /\ Min({a, b, c}) <= b /\ Min({a, b, c}) <= c
<1>1. \E x \in {a, b, c} : \A y \in {a, b, c} : x <= y
  OBVIOUS
<1>2. QED
  BY <1>1 DEF Min

-----------------------------------------------------------------------------
(* What NumbersSound assumes of the market and the strategy.               *)

\* A step of the quantity costs at least two IDR, even at a tenth and a tick below
\* the bid, and at a stop the emergency exit has six ticks to lose.
StepCosts == \A b \in BestBids : LotSize * (9 * b - 10 * PriceTick) >= 20

Far(s) == s > 0 => s * (100 - ExitSlip) >= 600 * PriceTick
StopsFar ==
  /\ \A t \in Trails : Far(RoundPrice(t, 1, "buy"))
  /\ \A b \in BestBids, d \in Ranges : Far(RoundPrice(b + PriceTick - d, 1, "buy"))

-----------------------------------------------------------------------------
(* The orders that are submitted.                                          *)

InLots(n) == \E k \in Nat : n = k * LotSize

Priced == [side : {"buy", "sell"}, price : Nat, qty : Nat, stop : Nat]

Traded(o) ==
  /\ o \in Priced
  /\ o.side \in {"buy", "sell"}
  /\ o.price \in Nat \ {0} /\ LotSize * o.price >= 2
  /\ o.qty \in Nat \ {0} /\ InLots(o.qty)

\* What NumbersSound says of an order.
Sound(o) ==
  /\ Acceptable(o)
  /\ o.stop > 0 => o.qty * (o.price - o.stop) <= Budget /\ Acceptable(EmergencyExit(o))

\* The smallest quantity is large enough at its price.
LEMMA MinQtySuffices ==
  ASSUME NEW price \in Nat \ {0}, NEW margin \in Nat, margin >= 100
  PROVE  /\ MinQtyAt(price, margin) \in Nat \ {0} /\ InLots(MinQtyAt(price, margin))
         /\ MinQtyAt(price, margin) >= MinBase
         /\ price * MinQtyAt(price, margin) >= MinQuote
<1>1. /\ LotSize \in Nat \ {0} /\ MinQuote \in Nat \ {0} /\ MinBase \in Nat
      /\ MinQuote * margin \in Nat \ {0} /\ 100 * price \in Nat \ {0}
  BY NumAssumption
<1>2. PICK j \in Int : /\ Ceil(MinBase, 1, LotSize) = j * LotSize
                       /\ MinBase <= j * LotSize * 1 /\ j >= 0
  <2>1. MinBase \in Int /\ MinBase >= 0 /\ 1 \in Nat \ {0} /\ LotSize \in Nat \ {0}
    BY <1>1
  <2>2. QED
    BY <2>1, CeilBounds, Zenon
<1>a. PICK num \in Nat \ {0}, den \in Nat \ {0} : num = MinQuote * margin /\ den = 100 * price
  BY <1>1
<1>3. PICK k \in Int : /\ Ceil(num, den, LotSize) = k * LotSize
                       /\ num <= k * LotSize * den
                       /\ num >= 0 => k >= 0
                       /\ num > 0 => k > 0
  <2>1. num \in Int /\ den \in Nat \ {0} /\ LotSize \in Nat \ {0}
    BY <1>1
  <2>2. QED
    BY <2>1, CeilBounds, Zenon
<1>4. PICK b \in Nat : b = j * LotSize
  BY <1>1, <1>2
<1>5. PICK q \in Nat : q = k * LotSize /\ q > 0
  <2>1. PICK l \in Nat \ {0} : l = LotSize
    BY <1>1
  <2>2. k \in Nat \ {0}
    BY <1>3
  <2>3. k * l \in Nat /\ k * l > 0
    BY <2>1, <2>2
  <2>4. QED
    BY <2>1, <2>3
<1>6. MinQtyAt(price, margin) = Max({b, q})
  <2>1. Ceil(MinQuote * margin, 100 * price, LotSize) = q
    BY <1>3, <1>5, <1>a, Zenon
  <2>2. QED
    BY <1>2, <1>4, <2>1, Zenon DEF MinQtyAt
<1>7. PICK m \in Nat : m = Max({b, q}) /\ m \in {b, q} /\ m >= b /\ m >= q
  <2>1. b \in Int /\ q \in Int
    OBVIOUS
  <2>2. PICK m : m = Max({b, q}) /\ m \in {b, q} /\ m >= b /\ m >= q
    BY <2>1, GreatestOfTwo, Zenon
  <2>3. QED
    BY <2>2
<1>8. MinQuote * 100 <= MinQuote * margin
  BY <1>1
<1>9. MinQuote * 100 <= q * price * 100
  <2>1. q * (100 * price) = q * price * 100
    OBVIOUS
  <2>2. MinQuote * margin <= q * (100 * price)
    BY <1>3, <1>5, <1>a, Zenon
  <2>3. QED
    BY <1>1, <1>8, <2>1, <2>2
<1>10. MinQuote <= q * price
  BY <1>1, <1>9
<1>11. q * price <= m * price
  BY <1>7, Scaled
<1>12. MinQuote <= price * m
  BY <1>1, <1>10, <1>11
<1>13. InLots(m)
  <2>1. j \in Nat /\ k \in Nat
    BY <1>2, <1>3
  <2>2. QED
    BY <1>4, <1>5, <1>7, <2>1 DEF InLots
<1>14. m >= MinBase
  BY <1>1, <1>2, <1>4, <1>7
<1>15. QED
  BY <1>5, <1>6, <1>7, <1>12, <1>13, <1>14

\* At a price that is not further below the bid a step costs two IDR.
LEMMA StepIsWorth ==
  ASSUME StepCosts, quote \in BestBids,
         NEW price \in Int, 9 * quote - 10 * PriceTick <= 10 * price
  PROVE  price \in Nat \ {0} /\ LotSize * price >= 2
<1>1. quote \in Nat /\ PriceTick \in Nat /\ LotSize \in Nat \ {0}
  BY NumAssumption
<1>2. PICK m \in Int : m = 9 * quote - 10 * PriceTick /\ LotSize * m >= 20 /\ m <= 10 * price
  <2>1. LotSize * (9 * quote - 10 * PriceTick) >= 20
    BY Zenon DEF StepCosts
  <2>2. 9 * quote - 10 * PriceTick \in Int
    BY <1>1
  <2>3. QED
    BY <2>1, <2>2
<1>3. m * LotSize <= (10 * price) * LotSize
  BY <1>1, <1>2, Scaled
<1>4. m * LotSize = LotSize * m /\ (10 * price) * LotSize = 10 * (LotSize * price)
  BY <1>1, <1>2
<1>5. LotSize * price >= 2
  BY <1>1, <1>2, <1>3, <1>4
<1>6. price <= 0 => price * LotSize <= 0 * LotSize
  BY <1>1, Scaled
<1>7. QED
  BY <1>1, <1>5, <1>6

\* Rounding down to a tick takes less than a tick.
LEMMA PriceDown ==
  ASSUME NEW num \in Int, NEW den \in Nat \ {0}
  PROVE  /\ RoundPrice(num, den, "buy") \in Int
         /\ num < RoundPrice(num, den, "buy") * den + den * PriceTick
<1>1. PriceTick \in Nat \ {0}
  BY NumAssumption
<1>2. PICK k \in Int : Floor(num, den, PriceTick) = k * PriceTick /\ num < (k + 1) * PriceTick * den
  BY <1>1, FloorBounds, Zenon
<1>3. PICK p \in Int : p = k * PriceTick
  BY <1>1
<1>4. (k + 1) * PriceTick * den = p * den + den * PriceTick
  BY <1>1, <1>3
<1>5. QED
  BY <1>1, <1>2, <1>3, <1>4 DEF RoundPrice

\* Rounding up takes nothing.
LEMMA PriceUp ==
  ASSUME NEW num \in Int, NEW den \in Nat \ {0}
  PROVE  RoundPrice(num, den, "sell") \in Int /\ num <= RoundPrice(num, den, "sell") * den
<1>1. PriceTick \in Nat \ {0}
  BY NumAssumption
<1>2. PICK k \in Int : Ceil(num, den, PriceTick) = k * PriceTick /\ num <= k * PriceTick * den
  BY <1>1, CeilBounds, Zenon
<1>3. QED
  BY <1>1, <1>2 DEF RoundPrice

\* The orders of the check.
LEMMA PlannedAreSound ==
  ASSUME StepCosts, quote \in BestBids, NEW o \in PlannedOrders
  PROVE  Traded(o) /\ Sound(o)
<1>1. quote \in Nat \ {0} /\ PriceTick \in Nat \ {0}
  BY NumAssumption
<1>2. PICK rest : rest = RestingPrice /\ rest \in Nat \ {0} /\ LotSize * rest >= 2
  <2>1. PICK p \in Int : p = RestingPrice /\ quote * 90 < p * 100 + 100 * PriceTick
    <3>1. quote * 90 \in Int /\ 100 \in Nat \ {0}
      BY <1>1
    <3>2. QED
      BY <3>1, PriceDown, Zenon DEF RestingPrice
  <2>2. 9 * quote - 10 * PriceTick <= 10 * p
    BY <1>1, <2>1
  <2>3. QED
    BY <2>1, <2>2, StepIsWorth
<1>3. PICK up : up = BuyPrice /\ up \in Nat \ {0} /\ LotSize * up >= 2
  <2>1. PICK p \in Int : p = BuyPrice /\ (quote + PriceTick) * 1002 <= p * 1000
    BY <1>1, PriceUp DEF BuyPrice, BestAsk
  <2>2. 9 * quote - 10 * PriceTick <= 10 * p
    BY <1>1, <2>1
  <2>3. QED
    BY <2>1, <2>2, StepIsWorth
<1>4. PICK down : down = SellPrice /\ down \in Nat \ {0} /\ LotSize * down >= 2
  <2>1. PICK p \in Int : p = SellPrice /\ quote * 998 < p * 1000 + 1000 * PriceTick
    <3>1. PICK num \in Int, den \in Nat \ {0} : num = quote * 998 /\ den = 1000
      BY <1>1
    <3>2. PICK p \in Int : p = RoundPrice(num, den, "buy") /\ num < p * den + den * PriceTick
      BY PriceDown, Zenon
    <3>3. QED
      BY <3>1, <3>2 DEF SellPrice
  <2>2. 9 * quote - 10 * PriceTick <= 10 * p
    BY <1>1, <2>1
  <2>3. QED
    BY <2>1, <2>2, StepIsWorth
<1>5. PICK r : /\ r = MinQtyAt(rest, 105) /\ r \in Nat \ {0} /\ InLots(r)
               /\ r >= MinBase /\ rest * r >= MinQuote
  BY <1>2, MinQtySuffices
<1>6. PICK b : /\ b = MinQtyAt(up, 105) /\ b \in Nat \ {0} /\ InLots(b)
               /\ b >= MinBase /\ up * b >= MinQuote
  BY <1>3, MinQtySuffices
<1>7. PICK c : /\ c = MinQtyAt(down, 115) /\ c \in Nat \ {0} /\ InLots(c)
               /\ c >= MinBase /\ down * c >= MinQuote
  BY <1>4, MinQtySuffices
<1>8. PICK q : q = Max({b, c}) /\ q \in {b, c} /\ q >= b /\ q >= c
  <2>1. b \in Int /\ c \in Int
    BY <1>6, <1>7
  <2>2. QED
    BY <2>1, GreatestOfTwo, Zenon
<1>9. q \in Nat \ {0} /\ InLots(q) /\ q >= MinBase
  BY <1>6, <1>7, <1>8
<1>10. up * q >= MinQuote /\ down * q >= MinQuote
  <2>1. MinQuote \in Nat
    BY NumAssumption
  <2>2. b * up <= q * up /\ c * down <= q * down
    BY <1>3, <1>4, <1>6, <1>7, <1>8, <1>9, Scaled
  <2>3. QED
    BY <1>3, <1>4, <1>6, <1>7, <1>9, <2>1, <2>2
<1>11. o \in {Order("buy", rest, r), Order("buy", up, q), Order("sell", down, q)}
  BY <1>2, <1>3, <1>4, <1>5, <1>6, <1>7, <1>8 DEF PlannedOrders
<1>12. ASSUME NEW side \in {"buy", "sell"}, NEW price \in Nat \ {0}, NEW n \in Nat \ {0},
              LotSize * price >= 2, InLots(n), n >= MinBase, price * n >= MinQuote
       PROVE  Traded(Order(side, price, n)) /\ Sound(Order(side, price, n))
  BY <1>12 DEF Traded, Sound, Acceptable, Order, Priced
<1>13. QED
  BY <1>2, <1>3, <1>4, <1>5, <1>9, <1>10, <1>11, <1>12

\* At a stop that is far enough, the price of the emergency exit keeps five
\* sixths of what slippage leaves.
LEMMA ExitPrice ==
  ASSUME NEW s \in Nat \ {0}, Far(s)
  PROVE  LET p == RoundPrice(s * (100 - ExitSlip), 100, "buy")
         IN p \in Nat \ {0} /\ 5 * (s * (100 - ExitSlip)) <= 600 * p
<1> DEFINE x == s * (100 - ExitSlip)
<1>1. PriceTick \in Nat \ {0} /\ ExitSlip \in 0..100
  BY NumAssumption
<1>2. x \in Nat /\ x >= 600 * PriceTick
  BY <1>1 DEF Far
<1> HIDE DEF x
<1>3. PICK p \in Int : p = RoundPrice(x, 100, "buy") /\ x < p * 100 + 100 * PriceTick
  <2>1. x \in Int /\ 100 \in Nat \ {0}
    BY <1>2
  <2>2. QED
    BY <2>1, PriceDown, Zenon
<1>4. p > 0 /\ 5 * x <= 600 * p
  BY <1>1, <1>2, <1>3
<1>5. QED
  BY <1>3, <1>4 DEF x

\* The quantity of an entry is in steps and loses no more than the budget.
LEMMA EntryLoses ==
  ASSUME quote \in BestBids, NEW s \in Nat \ {0}, s < BestAsk, NEW room \in Rooms
  PROVE  /\ InLots(EntryQty(s, room)) /\ EntryQty(s, room) \in Nat
         /\ EntryQty(s, room) * (BestAsk - s) <= Budget
<1>1. PICK ask : ask = BestAsk /\ ask \in Nat \ {0}
  BY NumAssumption DEF BestAsk
<1>2. PICK d : d = ask - s /\ d \in Nat \ {0}
  BY <1>1
<1>3. LotSize \in Nat \ {0} /\ Budget \in Int /\ Budget >= 0 /\ room \in Int /\ room >= 0
  BY NumAssumption
<1>4. PICK j \in Int : /\ Floor(Budget, d, LotSize) = j * LotSize
                       /\ j * LotSize * d <= Budget /\ j >= 0
  BY <1>2, <1>3, FloorBounds, Zenon
<1>5. PICK k \in Int : /\ Floor(room, ask, LotSize) = k * LotSize
                       /\ k * LotSize * ask <= room /\ k >= 0
  BY <1>1, <1>3, FloorBounds, Zenon
<1>6. PICK want \in Nat : want = j * LotSize
  BY <1>3, <1>4
<1>7. PICK less \in Nat : less = k * LotSize
  BY <1>3, <1>5
<1>8. EntryQty(s, room) = IF want * ask <= room THEN want ELSE less
  BY <1>1, <1>2, <1>4, <1>5, <1>6, <1>7 DEF EntryQty
<1>9. want * d <= Budget
  BY <1>4, <1>6
<1>10. ~(want * ask <= room) => less <= want
  <2>1. less * ask <= room
    BY <1>5, <1>7
  <2>2. less * ask \in Int /\ want * ask \in Int
    BY <1>1
  <2>3. ASSUME ~(want * ask <= room) PROVE less <= want
    <3>1. less * ask < want * ask
      BY <1>3, <2>1, <2>2, <2>3
    <3>2. QED
      BY <1>1, <3>1, Cancels
  <2>4. QED
    BY <2>3
<1>11. less <= want => less * d <= want * d
  BY <1>2, Scaled
<1>12. less * d \in Int /\ want * d \in Int
  BY <1>2
<1>13. InLots(want) /\ InLots(less)
  BY <1>4, <1>5, <1>6, <1>7 DEF InLots
<1>14. QED
  BY <1>1, <1>2, <1>3, <1>8, <1>9, <1>10, <1>11, <1>12, <1>13

\* The entries of the strategy.
LEMMA EntriesAreSound ==
  ASSUME StepCosts, StopsFar, quote \in BestBids, NEW o \in StrategyEntries
  PROVE  Traded(o) /\ Sound(o)
<1>1. PICK s \in StopLevels, room \in Rooms :
        /\ o = [Order("buy", BestAsk, EntryQty(s, room)) EXCEPT !.stop = s]
        /\ Acceptable(o) /\ StaysSellable(o)
  BY DEF StrategyEntries
<1>2. /\ PriceTick \in Nat \ {0} /\ quote \in Nat \ {0} /\ ExitSlip \in 0..100
      /\ MinQuote \in Nat /\ MinBase \in Nat /\ Budget \in Nat
  BY NumAssumption
<1>3. PICK ask : ask = BestAsk /\ ask \in Nat \ {0} /\ LotSize * ask >= 2
  <2>1. PICK p \in Int : p = BestAsk /\ 9 * quote - 10 * PriceTick <= 10 * p
    BY <1>2 DEF BestAsk
  <2>2. QED
    BY <2>1, StepIsWorth
<1>4. s > 0 /\ s < ask /\ s \in Int /\ Far(s)
  <2>1. PICK t \in Int : s = RoundPrice(t, 1, "buy") /\ 0 < s /\ s < BestAsk /\ Far(s)
    <3>1. s \in {RoundPrice(t, 1, "buy") : t \in Trails} \union RangeStops /\ 0 < s /\ s < BestAsk
      BY DEF StopLevels
    <3>2. CASE \E t \in Trails : s = RoundPrice(t, 1, "buy")
      BY <3>1, <3>2, NumAssumption DEF StopsFar
    <3>3. CASE \E d \in Ranges : s = RoundPrice(BestAsk - d, 1, "buy")
      <4>1. PICK d \in Ranges : s = RoundPrice(BestAsk - d, 1, "buy")
        BY <3>3
      <4>2. PICK t \in Int : t = BestAsk - d
        BY <1>3, NumAssumption
      <4>3. t = quote + PriceTick - d
        BY <1>2, <4>2, NumAssumption DEF BestAsk
      <4>4. Far(RoundPrice(t, 1, "buy"))
        BY <4>3 DEF StopsFar
      <4>5. QED
        BY <3>1, <4>1, <4>2, <4>4
    <3>4. QED
      BY <3>1, <3>2, <3>3 DEF RangeStops
  <2>2. s \in Int
    BY <2>1, PriceDown
  <2>3. QED
    BY <1>3, <2>1, <2>2
<1>5. PICK q : /\ q = EntryQty(s, room) /\ q \in Nat /\ InLots(q) /\ q * (ask - s) <= Budget
  BY <1>3, <1>4, EntryLoses
<1>6. o.side = "buy" /\ o.price = ask /\ o.qty = q /\ o.stop = s
  BY <1>1, <1>3, <1>5 DEF Order
<1>7. q > 0 /\ q >= MinBase /\ ask * q >= MinQuote
  BY <1>1, <1>6 DEF Acceptable
<1>8. q * s * (100 - ExitSlip) * 10 >= MinQuote * 12 * 100
  BY <1>1, <1>6 DEF StaysSellable
<1>9. PICK p : /\ p = RoundPrice(s * (100 - ExitSlip), 100, "buy") /\ p \in Nat \ {0}
               /\ 5 * (s * (100 - ExitSlip)) <= 600 * p
  BY <1>4, ExitPrice
<1>10. p * q >= MinQuote
  <2>1. PICK x : x = s * (100 - ExitSlip) /\ x \in Nat
    BY <1>2, <1>4
  <2>2. q * s * (100 - ExitSlip) * 10 = 10 * (q * x)
    BY <1>2, <1>4, <1>5, <2>1
  <2>3. (5 * x) * q <= (600 * p) * q
    BY <1>5, <1>9, <2>1, Scaled
  <2>4. (5 * x) * q = 5 * (q * x) /\ (600 * p) * q = 600 * (p * q)
    BY <1>5, <1>9, <2>1
  <2>5. PICK y : y = q * x /\ y \in Int
    BY <1>5, <2>1
  <2>6. PICK z : z = p * q /\ z \in Int
    BY <1>5, <1>9
  <2>7. QED
    BY <1>2, <1>8, <2>2, <2>3, <2>4, <2>5, <2>6
<1>11. Acceptable(EmergencyExit(o))
  <2>1. /\ EmergencyExit(o).price = p /\ EmergencyExit(o).qty = q
    BY <1>6, <1>9 DEF EmergencyExit, Order
  <2>2. QED
    BY <1>5, <1>7, <1>9, <1>10, <2>1 DEF Acceptable
<1>12. o \in Priced
  <2>1. s \in Nat
    BY <1>4
  <2>2. [Order("buy", ask, q) EXCEPT !.stop = s] \in Priced
    BY <1>3, <1>5, <2>1 DEF Order, Priced
  <2>3. QED
    BY <1>1, <1>3, <1>5, <2>2
<1>13. QED
  BY <1>1, <1>3, <1>5, <1>6, <1>7, <1>11, <1>12 DEF Traded, Sound

-----------------------------------------------------------------------------
(* What is read of an order.                                               *)

\* What is told of an amount is rounded down to whole IDR: as long as a step
\* costs two of them, the fraction that is gone is within a step of what was
\* executed, above and below.
LEMMA FractionIsNear ==
  ASSUME NEW a \in Nat, NEW q \in Nat \ {0}, NEW e \in Nat, e <= q, NEW L \in Nat \ {0}, L <= q,
         L * a >= 200,
         NEW t \in Int, NEW u \in Int,
         t * 100 <= q * a, q * a < t * 100 + 100,
         u * 100 <= (q - e) * a, (q - e) * a < u * 100 + 100
  PROVE  /\ t \in Nat \ {0}
         /\ q * (t - u) < (e + L) * t
         /\ (e - L) * t < q * (t - u)
<1>1. PICK r \in 0..99 : q * a = t * 100 + r
  <2>1. q * a - t * 100 \in 0..99
    OBVIOUS
  <2>2. QED
    BY <2>1
<1>2. PICK v \in 0..99 : (q - e) * a = u * 100 + v
  <2>1. (q - e) * a - u * 100 \in 0..99
    OBVIOUS
  <2>2. QED
    BY <2>1
<1>3. (L * a) * q >= 200 * q
  BY Scaled
<1>4. L * (q * a) = (L * a) * q
  OBVIOUS
<1>5. 100 * (L * t) = L * (q * a) - L * r
  <2>1. L * (q * a) = L * (t * 100 + r)
    BY <1>1
  <2>2. L * (t * 100 + r) = 100 * (L * t) + L * r
    OBVIOUS
  <2>3. QED
    BY <2>1, <2>2
<1>6. 0 <= L * r /\ L * r <= 99 * q
  <2>1. r * L <= 99 * L
    BY Scaled
  <2>2. QED
    BY <2>1
<1>7. 100 * (L * t) >= 101 * q
  BY <1>3, <1>4, <1>5, <1>6
<1>8. t > 0
  <2>1. L * t > 0
    BY <1>7
  <2>2. t <= 0 => t * L <= 0 * L
    BY Scaled
  <2>3. QED
    BY <2>1, <2>2
<1>9. 100 * (q * (t - u) - e * t) = q * v - q * r + e * r
  <2>1. q * (t * 100 + r) - q * (u * 100 + v) = q * (q * a) - q * ((q - e) * a)
    BY <1>1, <1>2
  <2>2. q * (q * a) - q * ((q - e) * a) = e * (q * a)
    OBVIOUS
  <2>3. e * (q * a) = e * (t * 100 + r)
    BY <1>1
  <2>4. q * (t * 100 + r) - q * (u * 100 + v) = 100 * (q * t - q * u) + q * r - q * v
    OBVIOUS
  <2>5. e * (t * 100 + r) = 100 * (e * t) + e * r
    OBVIOUS
  <2>6. q * (t - u) = q * t - q * u
    OBVIOUS
  <2>7. QED
    BY <2>1, <2>2, <2>3, <2>4, <2>5, <2>6
<1>10. /\ 0 <= q * v /\ q * v <= 99 * q
       /\ 0 <= e * r /\ e * r <= q * r /\ q * r <= 99 * q
  <2>1. v * q <= 99 * q /\ r * q <= 99 * q /\ e * r <= q * r
    BY Scaled
  <2>2. QED
    BY <2>1
<1>11. (e + L) * t = e * t + L * t /\ (e - L) * t = e * t - L * t
  OBVIOUS
<1>12. PICK A, B, C, X, Y, Z \in Int : /\ A = q * (t - u) /\ B = e * t /\ C = L * t
                                       /\ X = q * v /\ Y = q * r /\ Z = e * r
  OBVIOUS
<1>13. /\ 100 * (A - B) = X - Y + Z /\ 100 * C >= 101 * q
       /\ 0 <= X /\ X <= 99 * q /\ 0 <= Z /\ Z <= Y /\ Y <= 99 * q
  BY <1>7, <1>9, <1>10, <1>12
<1>14. A < B + C /\ B - C < A
  BY <1>13
<1>15. QED
  BY <1>8, <1>11, <1>12, <1>14

\* In whole steps it is what was executed, or a step less.
LEMMA FloorIsNear ==
  ASSUME NEW e \in Nat, InLots(e), NEW t \in Nat \ {0}, NEW x \in Int,
         x < (e + LotSize) * t, (e - LotSize) * t < x
  PROVE  Floor(x, t, LotSize) \in Int /\ Floor(x, t, LotSize) <= e /\ e - Floor(x, t, LotSize) <= LotSize
<1>1. LotSize \in Nat \ {0}
  BY NumAssumption
<1>2. PICK j \in Nat : e = j * LotSize
  BY DEF InLots
<1>3. PICK k \in Int : /\ Floor(x, t, LotSize) = k * LotSize
                       /\ k * LotSize * t <= x /\ x < (k + 1) * LotSize * t
  BY <1>1, FloorBounds, Zenon
<1>4. PICK f \in Int : f = k * LotSize
  BY <1>1
<1>5. PICK g \in Int : g = (k + 1) * LotSize /\ g = f + LotSize
  BY <1>1, <1>4, OneStepMore
<1>6. f * t \in Int /\ g * t \in Int /\ (e + LotSize) * t \in Int /\ (e - LotSize) * t \in Int
  BY <1>1
<1>7. f * t < (e + LotSize) * t /\ (e - LotSize) * t < g * t
  BY <1>3, <1>4, <1>5, <1>6
<1>8. f < e + LotSize /\ e - LotSize < g
  BY <1>1, <1>7, Cancels
<1>9. k < j + 1 /\ j - 1 < k + 1
  <2>1. (j + 1) * LotSize = e + LotSize /\ (j - 1) * LotSize = e - LotSize
    BY <1>1, <1>2
  <2>2. k * LotSize < (j + 1) * LotSize /\ (j - 1) * LotSize < (k + 1) * LotSize
    BY <1>4, <1>5, <1>8, <2>1
  <2>3. QED
    BY <1>1, <2>2, Cancels
<1>10. k * LotSize <= j * LotSize /\ (j - 1) * LotSize <= k * LotSize
  BY <1>1, <1>9, Scaled
<1>11. QED
  BY <1>1, <1>2, <1>3, <1>4, <1>10

\* filled_for, of an order that was submitted: never more than was executed, at
\* most a step less, and all of it once the order is filled.
LEMMA FilledIsNear ==
  ASSUME Traded(submitted), executed \in 0..submitted.qty, InLots(executed),
         state = "filled" => executed = submitted.qty,
         NEW received \in {0, executed},
         submitted.side = "sell" => received = 0
  PROVE  /\ FilledFor(received) \in Nat
         /\ FilledFor(received) <= executed /\ executed - FilledFor(received) <= LotSize
         /\ state = "filled" => FilledFor(received) = executed
<1>1. PICK q \in Nat \ {0} : q = submitted.qty /\ InLots(q)
  BY DEF Traded
<1>2. PICK price \in Nat \ {0} : price = submitted.price /\ LotSize * price >= 2
  BY DEF Traded
<1>3. PICK e \in Nat : e = executed /\ e <= q /\ InLots(e)
  BY <1>1
<1>4. LotSize \in Nat \ {0} /\ Reserve \in Nat
  BY NumAssumption
<1>5. LotSize <= q
  <2>1. PICK k \in Nat : q = k * LotSize
    BY <1>1 DEF InLots
  <2>2. k # 0
    BY <1>1, <1>4, <2>1
  <2>3. 1 * LotSize <= k * LotSize
    BY <1>4, <2>2, Scaled
  <2>4. QED
    BY <1>4, <2>1, <2>3
<1> DEFINE t == Told(q)
           u == Told(q - e)
           part == Floor(q * (t - u), t, LotSize)
<1>6. /\ t \in Nat \ {0} /\ u \in Int /\ u <= t
      /\ q * (t - u) < (e + LotSize) * t /\ (e - LotSize) * t < q * (t - u)
  <2>1. CASE submitted.side = "buy"
    <3>1. PICK a \in Nat : a = price * (100 + Reserve)
      BY <1>2, <1>4
    <3>2. LotSize * a >= 200
      <4>2. PICK w \in Int : w = LotSize * price /\ w >= 2
        BY <1>2, <1>4
      <4>3. LotSize * a = w * (100 + Reserve)
        BY <1>2, <1>4, <3>1, <4>2
      <4>4. 2 * (100 + Reserve) <= w * (100 + Reserve)
        BY <1>4, <4>2, Scaled
      <4>5. QED
        BY <1>4, <4>3, <4>4
    <3>3. ASSUME NEW n \in Nat
          PROVE  /\ Told(n) \in Int
                 /\ Told(n) * 100 <= n * a /\ n * a < Told(n) * 100 + 100
      <4>1. PICK b \in Int : b = n * price * (100 + Reserve) /\ b = n * a
        BY <1>2, <1>4, <3>1
      <4>2. Told(n) = b \div 100
        BY <1>2, <2>1, <4>1 DEF Told
      <4>3. b \div 100 \in Int /\ (b \div 100) * 100 <= b /\ b < (b \div 100) * 100 + 100
        BY <4>1
      <4>4. QED
        BY <4>1, <4>2, <4>3
    <3>4. q - e \in Nat
      BY <1>3
    <3>5. /\ t \in Int /\ t * 100 <= q * a /\ q * a < t * 100 + 100
          /\ u \in Int /\ u * 100 <= (q - e) * a /\ (q - e) * a < u * 100 + 100
      BY <3>3, <3>4
    <3> HIDE DEF t, u
    <3>6. u <= t
      <4>1. (q - e) * a <= q * a
        BY <1>3, <3>1, Scaled
      <4>2. u * 100 < t * 100 + 100
        BY <1>3, <3>1, <3>5, <4>1
      <4>3. QED
        BY <3>5, <4>2
    <3>7. QED
      BY <1>3, <1>4, <1>5, <3>1, <3>2, <3>5, <3>6, FractionIsNear
  <2>2. CASE submitted.side = "sell"
    <3>1. t = q /\ u = q - e
      BY <2>2 DEF Told
    <3>2. q * (t - u) = e * q
      BY <1>3, <3>1
    <3>3. (e + LotSize) * q = e * q + LotSize * q /\ (e - LotSize) * q = e * q - LotSize * q
      BY <1>4
    <3>4. 1 * q <= LotSize * q
      BY <1>4, Scaled
    <3>5. q \in Int /\ e * q \in Int /\ LotSize * q \in Int /\ q > 0
      BY <1>4
    <3>6. t = q /\ u \in Int /\ u <= t
      BY <1>3, <3>1
    <3> HIDE DEF t, u
    <3>7. QED
      BY <3>2, <3>3, <3>4, <3>5, <3>6
  <2>3. QED
    BY <2>1, <2>2 DEF Traded
<1> HIDE DEF t, u
<1>7. part \in Nat /\ part <= e /\ e - part <= LotSize
  <2>1. PICK x \in Nat : x = q * (t - u)
    BY <1>6
  <2>2. Floor(x, t, LotSize) \in Int /\ Floor(x, t, LotSize) <= e /\ e - Floor(x, t, LotSize) <= LotSize
    BY <1>3, <1>6, <2>1, FloorIsNear
  <2>3. PICK k \in Int : Floor(x, t, LotSize) = k * LotSize /\ k >= 0
    <3>1. x \in Int /\ x >= 0
      OBVIOUS
    <3>2. QED
      BY <1>4, <1>6, <3>1, FloorBounds, Zenon
  <2>4. k * LotSize \in Nat
    BY <1>4, <2>3
  <2>5. QED
    BY <2>1, <2>2, <2>3, <2>4
<1> DEFINE filled == IF state = "filled" THEN q ELSE part
<1>8. filled \in Nat /\ filled <= e /\ e - filled <= LotSize /\ (state = "filled" => filled = e)
  BY <1>1, <1>3, <1>4, <1>7
<1>9. FilledFor(received) = Min({filled, q} \union (IF received > 0 THEN {received} ELSE {}))
  BY <1>1, <1>3 DEF FilledFor, t, u
<1> HIDE DEF filled, part
<1>10. \E c \in {q, e} : FilledFor(received) = Min({filled, q, c})
  <2>1. CASE received > 0
    <3>1. received = e
      BY <1>3, <2>1
    <3>2. {filled, q} \union {e} = {filled, q, e}
      OBVIOUS
    <3>3. QED
      BY <1>9, <2>1, <3>1, <3>2
  <2>2. CASE ~(received > 0)
    <3>1. {filled, q} \union {} = {filled, q, q}
      OBVIOUS
    <3>2. QED
      BY <1>9, <2>2, <3>1
  <2>3. QED
    BY <2>1, <2>2
<1>11. PICK c \in {q, e} : FilledFor(received) = Min({filled, q, c})
  BY <1>10
<1>12. PICK m : m = Min({filled, q, c}) /\ m \in {filled, q, c} /\ m <= filled /\ m <= q /\ m <= c
  <2>1. filled \in Int /\ q \in Int /\ c \in Int
    BY <1>8
  <2>2. QED
    BY <2>1, LeastOfThree, Zenon
<1>13. m \in Nat /\ m <= e /\ e - m <= LotSize
  BY <1>1, <1>3, <1>4, <1>8, <1>11, <1>12
<1>14. state = "filled" => m = e
  <2>1. ASSUME state = "filled" PROVE m = e
    <3>1. q = e /\ filled = e
      BY <1>1, <1>3, <1>8, <2>1
    <3>2. QED
      BY <1>11, <1>12, <3>1
  <2>2. QED
    BY <2>1
<1>15. QED
  BY <1>3, <1>11, <1>12, <1>13, <1>14

-----------------------------------------------------------------------------
(* The theorem.                                                            *)

\* What NumbersSound rests on: an order that was submitted is traded in steps, a
\* filled one is executed in full, and what was read was executed.
NumInv ==
  /\ quote \in BestBids
  /\ IF submitted = Unsubmitted
     THEN executed = 0 /\ state = "none" /\ got = 0
     ELSE /\ Traded(submitted)
          /\ executed \in 0..submitted.qty /\ InLots(executed)
          /\ state = "filled" => executed = submitted.qty
          /\ got \in Nat /\ got <= executed
          /\ state \in {"open", "filled", "cancelled"}

\* What NumbersSound says of a step.
NumStep ==
  /\ got' <= executed'
  /\ ReadOrder => /\ executed - got' <= LotSize
                  /\ state = "filled" => got' = executed
  /\ submitted' # submitted => Acceptable(submitted')
  /\ submitted' # submitted /\ submitted'.stop > 0 =>
       /\ submitted'.qty * (submitted'.price - submitted'.stop) <= Budget
       /\ Acceptable(EmergencyExit(submitted'))

\* An order is submitted: by the check or by the strategy.
LEMMA SubmitIsSound ==
  ASSUME StepCosts, StopsFar, NumInv, SubmitPlanned \/ SubmitEntry
  PROVE  NumInv' /\ NumStep
<1>1. /\ submitted = Unsubmitted /\ quote \in BestBids /\ executed = 0 /\ got = 0
      /\ submitted' \in PlannedOrders \/ submitted' \in StrategyEntries
      /\ state' = "open" /\ UNCHANGED <<quote, executed, got>>
  BY DEF SubmitPlanned, SubmitEntry, NumInv
<1>2. PICK o : o = submitted' /\ Traded(o) /\ Sound(o)
  BY <1>1, PlannedAreSound, EntriesAreSound
<1>3. o # Unsubmitted
  BY <1>2 DEF Traded, Unsubmitted, Order
<1>4. InLots(0)
  <2>1. 0 = 0 * LotSize
    BY NumAssumption
  <2>2. QED
    BY <2>1 DEF InLots
<1>5. NumInv'
  <2>1. o.qty \in Nat
    BY <1>2 DEF Traded
  <2>2. Traded(submitted)' /\ (executed \in 0..submitted.qty)' /\ InLots(executed)'
    BY <1>1, <1>2, <1>4, <2>1 DEF Traded, InLots
  <2>3. submitted' # Unsubmitted' /\ state' = "open" /\ got' \in Nat /\ got' <= executed'
    BY <1>1, <1>2, <1>3 DEF Unsubmitted, Order
  <2>4. quote' \in BestBids
    BY <1>1
  <2>5. QED
    BY <2>2, <2>3, <2>4 DEF NumInv
<1>6. ~ReadOrder
  BY <1>1 DEF ReadOrder
<1>7. QED
  BY <1>1, <1>2, <1>5, <1>6 DEF NumStep, Sound

\* It is executed at the exchange, or cancelled there.
LEMMA ExchangeIsSound ==
  ASSUME NumInv, Executes \/ CancelledThere
  PROVE  NumInv' /\ NumStep
<1>1. /\ state = "open" /\ UNCHANGED <<quote, submitted, got>> /\ submitted # Unsubmitted
  BY DEF Executes, CancelledThere, NumInv
<1>2. /\ Traded(submitted) /\ executed \in 0..submitted.qty /\ InLots(executed)
      /\ got \in Nat /\ got <= executed /\ submitted.qty \in Nat /\ quote \in BestBids
  BY <1>1 DEF NumInv, Traded
<1>3. /\ executed' \in executed..submitted.qty /\ InLots(executed')
      /\ state' = "filled" => executed' = submitted.qty
      /\ state' \in {"open", "filled", "cancelled"}
  <2>1. CASE Executes
    <3>1. /\ executed' \in (executed + 1)..submitted.qty /\ executed' % LotSize = 0
          /\ state' = IF executed' = submitted.qty THEN "filled" ELSE "open"
      BY <2>1 DEF Executes
    <3>2. PICK n \in Nat : n = executed' /\ n % LotSize = 0
      BY <1>2, <3>1
    <3>3. n = (n \div LotSize) * LotSize /\ n \div LotSize \in Nat
      <4>1. LotSize \in Nat \ {0} /\ n \in Int
        BY NumAssumption
      <4>2. n \div LotSize \in Int /\ (n >= 0 => n \div LotSize >= 0)
        BY <4>1, Quotient
      <4>3. n = (n \div LotSize) * LotSize
        BY <3>2, <4>1, Multiple, Zenon
      <4>4. QED
        BY <4>2, <4>3
    <3>4. InLots(n)
      BY <3>3 DEF InLots
    <3>5. QED
      BY <1>2, <3>1, <3>2, <3>4
  <2>2. CASE CancelledThere
    BY <1>2, <2>2 DEF CancelledThere
  <2>3. QED
    BY <2>1, <2>2
<1>4. NumInv'
  <2>1. Traded(submitted)' /\ (executed \in 0..submitted.qty)' /\ InLots(executed)'
    BY <1>1, <1>2, <1>3 DEF Traded, InLots
  <2>2. got' \in Nat /\ got' <= executed'
    BY <1>1, <1>2, <1>3
  <2>3. QED
    BY <1>1, <1>2, <1>3, <2>1, <2>2 DEF NumInv
<1>5. ReadOrder => executed' = executed /\ state' = state
  BY DEF ReadOrder
<1>6. ~ReadOrder
  BY <1>1, <1>5 DEF Executes, CancelledThere, NumInv, Traded
<1>7. QED
  BY <1>1, <1>2, <1>3, <1>4, <1>6 DEF NumStep

\* It is read.
LEMMA ReadIsSound ==
  ASSUME NumInv, ReadOrder
  PROVE  NumInv' /\ NumStep
<1>1. submitted # Unsubmitted /\ UNCHANGED <<quote, submitted, executed, state>>
  BY DEF ReadOrder
<1>2. /\ Traded(submitted) /\ executed \in 0..submitted.qty /\ InLots(executed)
      /\ state = "filled" => executed = submitted.qty
      /\ quote \in BestBids /\ submitted.qty \in Nat /\ state \in {"open", "filled", "cancelled"}
  BY <1>1 DEF NumInv, Traded
<1>3. PICK received \in {0, executed} :
        got' = FilledFor(received) /\ (submitted.side = "sell" => received = 0)
  BY DEF ReadOrder
<1>4. /\ got' \in Nat /\ got' <= executed /\ executed - got' <= LotSize
      /\ state = "filled" => got' = executed
  BY <1>2, <1>3, FilledIsNear
<1>5. NumInv'
  <2>1. Traded(submitted)' /\ (executed \in 0..submitted.qty)' /\ InLots(executed)'
    BY <1>1, <1>2 DEF Traded, InLots
  <2>2. QED
    BY <1>1, <1>2, <1>4, <2>1 DEF NumInv
<1>6. QED
  BY <1>1, <1>4, <1>5 DEF NumStep

\* The invariant is kept, and every step is sound.
LEMMA NumHolds ==
  ASSUME StepCosts, StopsFar, NumInv, [NumNext]_numVars
  PROVE  NumInv' /\ [NumStep]_numVars
<1>1. ASSUME NumNext PROVE NumInv' /\ NumStep
  BY <1>1, SubmitIsSound, ExchangeIsSound, ReadIsSound DEF NumNext
<1>2. ASSUME UNCHANGED numVars PROVE NumInv'
  <2>1. UNCHANGED <<quote, submitted, executed, state, got>>
    BY <1>2 DEF numVars
  <2>2. QED
    BY <2>1 DEF NumInv, Traded, InLots
<1>3. QED
  BY <1>1, <1>2

\* While a step costs at least two IDR and a stop leaves the ticks that rounding
\* takes from the emergency exit: what is read of an order was executed, at most a step
\* less and all of a filled one; every order that is submitted is accepted by
\* the exchange; an entry loses at most the budget at its stop, and its emergency
\* exit there is accepted too.
THEOREM NumbersAreSound ==
  ASSUME StepCosts, StopsFar
  PROVE  NumSpec => NumbersSound
<1>1. NumInit => NumInv
  BY DEF NumInit, NumInv
<1>2. NumInv /\ [NumNext]_numVars => NumInv' /\ [NumStep]_numVars
  BY NumHolds
<1>3. [NumStep]_numVars =>
        [/\ got' <= executed'
         /\ ReadOrder => /\ executed - got' <= LotSize
                         /\ state = "filled" => got' = executed
         /\ submitted' # submitted => Acceptable(submitted')
         /\ submitted' # submitted /\ submitted'.stop > 0 =>
              /\ submitted'.qty * (submitted'.price - submitted'.stop) <= Budget
              /\ Acceptable(EmergencyExit(submitted'))]_numVars
  BY DEF NumStep
<1>4. QED
  BY <1>1, <1>2, <1>3, PTL DEF NumSpec, NumbersSound

-----------------------------------------------------------------------------
(* Types.                                                                  *)

\* What the proof of CommandsAreFresh leaves out: the settings, the Application,
\* the length of the inbox, the cycles and their errors.
ProcFramed ==
  /\ mode \in {"live", "paper"} /\ token \in BOOLEAN /\ net \in BOOLEAN
  /\ running \in BOOLEAN /\ Len(inbox) <= MaxInbox
  /\ cycles \subseteq {"first", "job"} /\ errors \in 0..Threshold + 1

\* Every step leaves them so.
LEMMA ProcFrameKept ==
  ASSUME ProcInv, ProcFramed, [ProcNext]_procVars
  PROVE  ProcFramed'
<1> USE ProcessAssumption DEF ProcFramed, telegram, jobs
<1>0. /\ inbox \in Seq(0..LastLife) /\ Len(inbox) \in Nat /\ life \in 0..LastLife
      /\ 0 \in 0..Threshold + 1 /\ \A e \in 0..Threshold + 1 : e <= Threshold => e + 1 \in 0..Threshold + 1
  BY DEF ProcInv, ProcTyped
<1>1. CASE Initialize
  BY <1>1 DEF Initialize
<1>2. CASE StartPolling
  <2>1. inbox' = <<>> \/ inbox' = inbox
    BY <1>2, Zenon DEF StartPolling, Dropped
  <2>2. Len(inbox') <= MaxInbox
    BY <2>1
  <2>3. QED
    BY <1>2, <2>2 DEF StartPolling
<1>3. CASE OwnerWrites
  BY <1>0, <1>3 DEF OwnerWrites
<1>4. CASE Take
  BY <1>0, <1>4 DEF Take
<1>5. CASE Handled \/ Repair \/ StopSignal \/ Boot
  BY <1>5 DEF Handled, Repair, StopSignal, Boot
<1>6. CASE NetChanges
  BY <1>6 DEF NetChanges
<1>7. CASE Linked
  BY <1>7 DEF Linked
<1>8. CASE PreflightEnds
  BY <1>8 DEF PreflightEnds
<1>9. CASE CycleJob \/ \E c \in cycles : CycleEnds(c)
  <2>1. UNCHANGED <<mode, token, net, running, inbox>>
    BY <1>9 DEF CycleJob, CycleEnds
  <2>2. cycles' \subseteq {"first", "job"}
    BY <1>9 DEF CycleJob, CycleEnds
  <2>3. errors' \in {errors, 0} \/ (errors <= Threshold /\ errors' = errors + 1)
    BY <1>9 DEF CycleJob, CycleEnds
  <2>4. errors' \in 0..Threshold + 1
    BY <1>0, <2>3
  <2>5. QED
    BY <2>1, <2>2, <2>4
<1>10. CASE ProcessEnds
  BY <1>0, <1>10, Zenon DEF ProcessEnds
<1>11. CASE UNCHANGED procVars
  BY <1>11 DEF procVars
<1>12. QED
  BY <1>1, <1>2, <1>3, <1>4, <1>5, <1>6, <1>7, <1>8, <1>9, <1>10, <1>11 DEF ProcNext

\* The types of AgentProcess hold.
LEMMA ProcTypesHold == ProcSpec => []ProcTypes
<1>1. ProcInit => ProcFramed
  <2>1. 0 \in 0..Threshold + 1 /\ Len(<<>>) = 0 /\ 0 <= MaxInbox
    BY ProcessAssumption
  <2>2. QED
    BY <2>1, Zenon DEF ProcInit, ProcFramed
<1>2. ProcInv /\ ProcFramed => ProcTypes
  BY DEF ProcInv, ProcTyped, DownIsQuiet, ProcFramed, ProcTypes
<1>3. QED
  BY ProcInvHolds, ProcFrameKept, <1>1, <1>2, PTL DEF ProcSpec

\* The least of a set of days that is not empty is one of them.
LEMMA LeastDay ==
  ASSUME NEW S \in SUBSET Entries, S # {}
  PROVE  Min(S) \in S
<1> DEFINE R == OpToRel(<, Nat)
<1>1. S \in SUBSET Nat
  BY CapitalAssumption DEF Entries
<1>2. \E d \in S : \A e \in S : ~ (<<e, d>> \in R)
  BY <1>1, NatLessThanWellFounded, WFMin
<1>3. \A d, e \in Nat : e < d => <<e, d>> \in R
  BY DEF OpToRel
<1> HIDE DEF R
<1>4. \E d \in S : \A e \in S : d <= e
  <2>1. PICK d \in S : \A e \in S : ~ (<<e, d>> \in R)
    BY <1>2
  <2>2. \A e \in S : e \in Nat /\ d \in Nat /\ ~ (e < d)
    BY <1>1, <1>3, <2>1, Zenon
  <2>3. \A e \in S : d <= e
    BY <2>2
  <2>4. QED
    BY <2>3
<1>5. QED
  BY <1>4 DEF Min

\* The types of CapitalRebase are inductive, of a start that is cut short too.
LEMMA CapTypesStep ==
  ASSUME CapTypes, [CapNext]_capVars
  PROVE  CapTypes'
<1>0. /\ (\A c \in Capitals : c \in Int) /\ (\A g \in Gains : g \in Int) /\ None \in Int /\ entry \in Entries
      /\ 0 \in Gains /\ capital \in Int /\ shift \in Int /\ pnl \in Int /\ peak \in Int
  BY CapitalAssumption DEF CapTypes, Gains, None
<1>1. CASE SetCapital
  <2>1. Old \in Int
    <3>1. CASE stored # None
      BY <1>0, <3>1 DEF Old, CapTypes
    <3>2. CASE Days # {}
      <4>1. Min(Days) \in Entries
        BY <3>2, LeastDay DEF Days
      <4>2. QED
        BY <1>0, <4>1 DEF Old, CapTypes
    <3>3. CASE stored = None /\ Days = {}
      BY <1>0, <3>3 DEF Old
    <3>4. QED
      BY <3>1, <3>2, <3>3
  <2>2. capital - Old \in Int
    BY <1>0, <2>1
  <2> HIDE DEF Old
  <2>3. booting' \in {"up", "peak"} /\ shift' = capital - Old /\ stored' = capital
        /\ UNCHANGED <<configured, capital, pnl, entry, peak, starts, best, opening, cut>>
    BY <1>1 DEF SetCapital
  <2>4. QED
    BY <2>2, <2>3 DEF CapTypes
<1>2. CASE ShiftPeak
  <2>1. Shifted \in Int
    <3>1. Max({peak + shift, 0}) \in Int
      BY <1>0, MaxOfTwo
    <3>2. QED
      BY <1>0, <3>1 DEF Shifted
  <2>2. QED
    BY <1>2, <2>1 DEF ShiftPeak, CapTypes
<1>3. CASE ShiftDay
  <2>1. starts' \in [Entries -> Int \cup {None}]
    BY <1>0, <1>3 DEF ShiftDay, CapTypes
  <2>2. QED
    BY <1>3, <2>1 DEF ShiftDay, CapTypes
<1>4. CASE Restart
  <2>1. cut' \in BOOLEAN
    BY <1>4 DEF Restart, CapTypes
  <2>2. QED
    BY <1>4, <2>1 DEF Restart, CapTypes, database
<1>5. CASE Configure
  BY <1>5 DEF Configure, CapTypes, database
<1>6. CASE Wins(1) \/ Wins(-1)
  BY <1>6 DEF Wins, CapTypes, database
<1>7. CASE NextDay
  <2>1. entry + 1 \in Entries
    <3>1. entry < LastEntry /\ entry \in 0..LastEntry /\ LastEntry \in Nat
      BY <1>0, <1>7, CapitalAssumption DEF NextDay, Entries
    <3>2. QED
      BY <3>1 DEF Entries
  <2>2. QED
    BY <1>7, <2>1 DEF NextDay, CapTypes, database
<1>8. CASE Cycle
  <2>1. capital + pnl \in Int
    BY <1>0
  <2>2. peak' \in Int
    BY <1>0, <1>8, <2>1, MaxOfTwo DEF Cycle
  <2>3. starts' \in [Entries -> Int \cup {None}]
    BY <1>0, <1>8, <2>1 DEF Cycle, CapTypes
  <2>4. best' \in Gains \cup {None} /\ opening' \in [Entries -> Gains \cup {None}]
    BY <1>0, <1>8 DEF Cycle, CapTypes
  <2>5. QED
    BY <1>8, <2>2, <2>3, <2>4 DEF Cycle, CapTypes
<1>9. CASE ResetPeak
  BY <1>0, <1>9 DEF ResetPeak, CapTypes
<1>10. CASE UNCHANGED capVars
  BY <1>10 DEF capVars, database, CapTypes
<1>11. QED
  BY <1>1, <1>2, <1>3, <1>4, <1>5, <1>6, <1>7, <1>8, <1>9, <1>10 DEF CapNext

\* The types of CapitalRebase hold.
LEMMA CapTypesHold == CapSpec => []CapTypes
<1>1. CapInit => CapTypes
  <2>1. 0 \in Entries /\ 1 \in Entries /\ 0 \in Gains /\ None \in Int /\ \A c \in Capitals : c \in Int
    BY CapitalAssumption DEF Entries, Gains, None
  <2>2. ASSUME CapInit PROVE /\ starts \in [Entries -> Int \cup {None}] /\ peak \in Int
                             /\ opening \in [Entries -> Gains \cup {None}]
                             /\ best \in Gains \cup {None} /\ entry \in Entries
    BY <2>1, <2>2 DEF CapInit
  <2>3. ASSUME CapInit PROVE /\ configured \in Capitals /\ capital \in Capitals /\ booting = "capital"
                             /\ shift \in Int /\ pnl \in Gains /\ stored = None /\ cut = FALSE
    BY <2>1, <2>3 DEF CapInit
  <2>4. QED
    BY <2>2, <2>3 DEF CapTypes
<1>2. QED
  BY CapTypesStep, <1>1, PTL DEF CapSpec

-----------------------------------------------------------------------------
\* What the proof of AlertsRepeat leaves out: what is read of each part, and that
\* a run in progress is not the last one.
WatchFramed ==
  /\ DOMAIN facts = Keys /\ \A k \in Keys : facts[k] \in Readings[k]
  /\ run \in Runs /\ busy \in BOOLEAN
  /\ busy => run < LastRun

\* Every step leaves them so.
LEMMA WatchFrameKept ==
  ASSUME WatchFramed, [WatchNext]_watchVars
  PROVE  WatchFramed'
<1>0. LastRun \in Nat /\ run \in Int /\ -1 <= run /\ (run < LastRun => run + 1 \in Runs)
  BY WatchAssumption DEF WatchFramed, Runs, Never
<1>1. CASE Changes
  <2>1. PICK k \in Troubled : \E r \in Readings[k] : facts' = [facts EXCEPT ![k] = r]
    BY <1>1 DEF Changes
  <2>2. PICK r \in Readings[k] : facts' = [facts EXCEPT ![k] = r]
    BY <2>1
  <2>3. DOMAIN facts' = Keys /\ \A j \in Keys : facts'[j] = IF j = k THEN r ELSE facts[j]
    BY <2>2 DEF WatchFramed
  <2>4. UNCHANGED <<run, busy>>
    BY <1>1 DEF Changes
  <2>5. QED
    BY <2>2, <2>3, <2>4 DEF WatchFramed
<1>2. CASE Look \/ SendMessage \/ UNCHANGED watchVars
  <2>1. facts' = facts /\ run' = run /\ (busy' = busy \/ (busy' = TRUE /\ run < LastRun))
    <3>1. CASE Look
      BY <3>1 DEF Look
    <3>2. CASE SendMessage
      <4>1. facts' = facts /\ run' = run /\ busy' = busy
        BY <3>2 DEF SendMessage
      <4>2. QED
        BY <4>1, Zenon
    <3>3. CASE UNCHANGED watchVars
      <4>1. facts' = facts /\ run' = run /\ busy' = busy
        BY <3>3 DEF watchVars
      <4>2. QED
        BY <4>1, Zenon
    <3>4. QED
      BY <1>2, <3>1, <3>2, <3>3
  <2>2. busy' \in BOOLEAN /\ (busy' => run < LastRun)
    <3>1. CASE busy' = busy
      BY <3>1 DEF WatchFramed
    <3>2. CASE busy' = TRUE /\ run < LastRun
      BY <3>2
    <3>3. QED
      BY <2>1, <3>1, <3>2
  <2>3. QED
    BY <2>1, <2>2 DEF WatchFramed
<1>3. CASE Blind
  BY <1>0, <1>3 DEF Blind, WatchFramed
<1>4. CASE SendFails \/ Finish \/ RunDies
  <2>1. busy /\ busy' = FALSE /\ run' = run + 1 /\ UNCHANGED facts
    BY <1>4 DEF SendFails, Finish, RunDies, RunEnds
  <2>2. QED
    BY <1>0, <2>1 DEF WatchFramed
<1>5. QED
  BY <1>1, <1>2, <1>3, <1>4 DEF WatchNext

\* The types of Watchdog hold.
LEMMA WatchTypesHold == WatchSpec => []WatchTypes
<1>1. WatchInit => WatchFramed
  <2>1. SUFFICES ASSUME WatchInit PROVE WatchFramed
    OBVIOUS
  <2>2. DOMAIN facts = Keys /\ \A k \in Keys : facts[k] \in Readings[k]
    BY <2>1 DEF WatchInit, Readings, Keys
  <2>3. run \in Runs /\ busy = FALSE
    BY <2>1, WatchAssumption DEF WatchInit, Runs, Never
  <2>4. QED
    BY <2>2, <2>3 DEF WatchFramed
<1>2. WatchInv /\ WatchFramed => WatchTypes
  <2>1. ASSUME WatchInv, WatchFramed PROVE \A k \in Keys : told[k] \in Runs /\ delivered[k] \in Runs
    BY <2>1, WatchAssumption DEF WatchInv, WatchTyped, FileBehind, WatchFramed, Runs, Never
  <2>2. QED
    BY <2>1 DEF WatchInv, WatchTyped, Letters, WatchFramed, WatchTypes
<1>3. QED
  BY WatchInvHolds, WatchFrameKept, <1>1, <1>2, PTL DEF WatchSpec

-----------------------------------------------------------------------------
\* What the proof of PassedIsClean leaves out: the flags of the script and how it
\* ended.
CheckFramed ==
  /\ fill \in BOOLEAN /\ good \in BOOLEAN /\ pending \in BOOLEAN /\ number \in BOOLEAN
  /\ read \in {"none", "open", "filled", "cancelled"}
  /\ exit \in {"none", "passed", "failed", "abort", "killed", "not open", "open"}

\* Every step leaves them so.
LEMMA CheckFrameKept ==
  ASSUME CheckInv, CheckFramed, [CheckNext]_checkVars
  PROVE  CheckFramed'
<1> USE DEF CheckFramed, PassOrFail, CheckEnds
<1>1. CASE Permission \/ PlaceA \/ CancelA \/ PlaceB
  BY <1>1 DEF Permission, PlaceA, CancelA, PlaceB
<1>a. CASE Raises \/ Cleanup \/ Killed \/ Filled
  BY <1>a DEF Raises, Cleanup, Killed, Filled
<1>2. CASE ReadA
  <2>1. good' \in BOOLEAN
    BY <1>2, Zenon DEF ReadA
  <2>2. QED
    BY <1>2, <2>1 DEF ReadA
<1>3. CASE AfterA \/ Sell \/ ReadS
  <2>1. UNCHANGED <<fill, pending, number, read>>
    BY <1>3 DEF AfterA, Sell, ReadS
  <2>2. good' \in BOOLEAN
    BY <1>3, Zenon DEF AfterA, Sell, ReadS
  <2>3. exit' = exit \/ exit' \in {"passed", "failed"}
    BY <1>3, Zenon DEF AfterA, Sell, ReadS
  <2>4. QED
    BY <2>1, <2>2, <2>3
<1>4. CASE ReadB
  BY <1>4 DEF ReadB, CheckInv, BookTyped
<1>5. CASE CancelOrder \/ Recancel \/ StillOpen
  BY <1>5 DEF CancelOrder, Recancel, StillOpen
<1>6. CASE Stays \/ UNCHANGED checkVars
  BY <1>6 DEF Stays, checkVars
<1>7. QED
  BY <1>1, <1>a, <1>2, <1>3, <1>4, <1>5, <1>6 DEF CheckNext

\* The types of OrderCheck hold.
LEMMA CheckTypesHold == CheckSpec => []CheckTypes
<1>1. CheckInit => CheckFramed
  BY DEF CheckInit, CheckFramed
<1>2. CheckInv /\ CheckFramed => CheckTypes
  BY DEF CheckInv, BookTyped, CheckFramed, CheckTypes
<1>3. QED
  BY CheckInvHolds, CheckFrameKept, <1>1, <1>2, PTL DEF CheckSpec

\* The types of Deadman hold, whether the times fit or not.
LEMMA DeadmanTypesHold == DeadmanSpec => []DeadmanTypes
<1>1. DeadmanInit => DeadmanTypes
  BY InitInv DEF DeadmanInv
<1>2. QED
  BY StepTypes, <1>1, PTL DEF DeadmanSpec

-----------------------------------------------------------------------------
\* What the proof of NoneTwiceNoneSkipped leaves out.
MessagesFramed ==
  /\ trend \in [Signalled -> [above : BOOLEAN, near : BOOLEAN]]
  /\ lacking \in BOOLEAN /\ available \in BOOLEAN /\ done \in BOOLEAN
  /\ sending \in BOOLEAN /\ deaths \in 0..MaxDeaths

\* Every step leaves them so.
LEMMA MessagesFrameKept ==
  ASSUME MessagesFramed, [BulNext]_bulVars
  PROVE  MessagesFramed'
<1> USE DEF MessagesFramed, world, marks, local
<1>1. CASE NewPlan \/ PriceMoves
  BY <1>1 DEF NewPlan, PriceMoves
<1>2. CASE Turns
  BY <1>2 DEF Turns
<1>3. ASSUME NEW c \in Writers,
             Begin(c) \/ Announce(c) \/ ReadAlerts(c) \/ Signal(c) \/ StoreAlerts(c)
      PROVE  MessagesFramed'
  BY <1>3 DEF Begin, Announce, ReadAlerts, Signal, StoreAlerts
<1>4. CASE Review
  BY <1>4 DEF Review
<1>5. CASE ReviewSent
  BY <1>5 DEF ReviewSent
<1>6. CASE ProcessDies
  <2>1. deaths' \in 0..MaxDeaths
    BY <1>6, BulletinAssumption DEF ProcessDies
  <2>2. QED
    BY <1>6, <2>1, Zenon DEF ProcessDies
<1>7. CASE UNCHANGED bulVars
  BY <1>7 DEF bulVars
<1>8. QED
  BY <1>1, <1>2, <1>3, <1>4, <1>5, <1>6, <1>7 DEF BulNext

\* The types of Bulletins hold.
LEMMA BulTypesHold == BulSpec => []BulTypes
<1>1. BulInit => MessagesFramed
  <2>1. 0 \in 0..MaxDeaths
    BY BulletinAssumption
  <2>2. QED
    <3>1. [above |-> FALSE, near |-> FALSE] \in [above : BOOLEAN, near : BOOLEAN]
      OBVIOUS
    <3>2. BulInit => trend \in [Signalled -> [above : BOOLEAN, near : BOOLEAN]]
      BY <3>1, Zenon DEF BulInit
    <3>3. BulInit => /\ lacking = TRUE /\ available = TRUE /\ done = FALSE /\ sending = FALSE
                     /\ deaths = 0
      BY Zenon DEF BulInit
    <3>4. QED
      BY <2>1, <3>2, <3>3, Zenon DEF MessagesFramed
<1>2. BulInv /\ MessagesFramed => BulTypes
  BY BulletinAssumption
  DEF BulInv, MarksTyped, Messages, Given, PlanCounts, ReviewCounts, MessagesFramed, BulTypes
<1>3. QED
  BY BulInvHolds, MessagesFrameKept, <1>1, <1>2, PTL DEF BulSpec

-----------------------------------------------------------------------------
\* The types of OrderNumbers hold, where NumbersSound does.
LEMMA NumTypesHold ==
  ASSUME StepCosts, StopsFar
  PROVE  NumSpec => []NumTypes
<1>1. NumInit => NumInv
  BY DEF NumInit, NumInv
<1>2. NumInv /\ [NumNext]_numVars => NumInv'
  BY NumHolds
<1>3. NumInv => NumTypes
  <2>1. ASSUME NumInv, submitted = Unsubmitted PROVE NumTypes
    BY <2>1 DEF NumInv, NumTypes, Unsubmitted, Order
  <2>2. ASSUME NumInv, submitted # Unsubmitted PROVE NumTypes
    BY <2>2 DEF NumInv, NumTypes, Traded, Priced
  <2>3. QED
    BY <2>1, <2>2
<1>4. QED
  BY <1>1, <1>2, <1>3, PTL DEF NumSpec

-----------------------------------------------------------------------------
(* The run of all parts.                                                   *)

suiteVars ==
  <<subject, graceVars, apiVars, deadmanVars, watchVars, checkVars, procVars, bulVars,
    capVars, numVars, feedVars>>

\* Whichever part moves, every part takes a step of its own or none.
LEMMA PartsMove ==
  ASSUME [SuiteNext]_suiteVars
  PROVE  /\ [GraceNext]_graceVars /\ [ApiNext]_apiVars /\ [DeadmanNext]_deadmanVars
         /\ [WatchNext]_watchVars /\ [CheckNext]_checkVars /\ [ProcNext]_procVars
         /\ [BulNext]_bulVars /\ [CapNext]_capVars /\ [NumNext]_numVars /\ [FeedNext]_feedVars
  BY Zenon DEF SuiteNext, suiteVars

\* The types of the parts hold together, whichever of them moves: for any tasks,
\* times, capitals, coins, plans, prices and bounds that the parts' assumptions
\* admit, where the prices leave room for rounding (StepCosts, StopsFar).
THEOREM ServicesTyped ==
  ASSUME StepCosts, StopsFar
  PROVE  SuiteSpec => []Types
<1>1. SuiteInit => /\ GraceInit /\ ApiInit /\ DeadmanInit /\ WatchInit /\ CheckInit
                   /\ ProcInit /\ BulInit /\ CapInit /\ NumInit /\ FeedInit
  BY DEF SuiteInit
<1>2. SuiteSpec => [][SuiteNext]_suiteVars
  BY PTL DEF SuiteSpec, suiteVars
<1>3. GraceInv => GraceTypes
  BY DEF GraceInv
<1>4. /\ GraceTypes /\ ApiTypes /\ DeadmanTypes /\ WatchTypes /\ CheckTypes
      /\ ProcTypes /\ BulTypes /\ CapTypes /\ NumTypes /\ FeedTypes
      => Types
  BY Zenon DEF Types
<1>5. NumSpec => []NumTypes
  BY NumTypesHold
<1>6. QED
  BY <1>1, <1>2, <1>3, <1>4, <1>5, PartsMove, GraceInvHolds, ApiTypesHold, DeadmanTypesHold,
     WatchTypesHold, CheckTypesHold, ProcTypesHold, BulTypesHold, CapTypesHold, FeedTypesHold, PTL
  DEF SuiteSpec, GraceSpec, ApiSpec, DeadmanSpec, WatchSpec, CheckSpec, ProcSpec, BulSpec,
      CapSpec, NumSpec, FeedSpec
=============================================================================
