--------------------------- MODULE CapitalRebase ---------------------------
(***************************************************************************)
(* The equity figures behind the kill switch and the daily loss: the peak  *)
(* equity and the start equity of each day in the database, what every     *)
(* cycle makes of them (engine.EquityTracker, runner._book_day), the reset *)
(* by /resume, and the shift at the start of the process when the owner    *)
(* has changed agent_capital_idr (runner._rebase_capital), which is        *)
(* several transactions.                                                   *)
(*                                                                         *)
(* Equity is the capital plus what was won and lost so far.                *)
(*                                                                         *)
(* A definition marked "mutant of" is a bug that the runs must catch, put  *)
(* in the place of the definition it names; nothing else uses it.          *)
(***************************************************************************)
EXTENDS Integers, FiniteSetsExt

CONSTANTS
  Capitals,   \* values the owner gives agent_capital_idr
  MaxLoss,    \* bound: what the agent loses or wins at most
  LastEntry,  \* bound: days
  MayCut      \* bound: a start can be cut short, once

\* The capital stays above the losses: the agent holds no debt.
ASSUME CapitalAssumption ==
  /\ MaxLoss \in Nat /\ LastEntry \in Nat \ {0} /\ MayCut \in BOOLEAN
  /\ \A c \in Capitals : c \in Nat /\ c > MaxLoss

None == -1 - MaxLoss   \* stands for a value that is not there

VARIABLES
  configured,  \* agent_capital_idr in the settings
  capital,     \* the capital of the running process
  booting,     \* the next transaction of the start, or "up"
  shift,       \* delta, while the start is in progress
  pnl,         \* won and lost since the first fill
  entry,       \* today
  stored,      \* "{mode}:capital", unknown in an old database
  peak,        \* "{mode}:peak_equity"
  starts,      \* start_equity of each day's row of daily_pnl
  best,        \* history: pnl at the peak
  opening,     \* history: pnl at the first cycle of each day
  cut          \* history: a start was cut short after the capital was stored

database == <<stored, peak, starts>>
capVars == <<configured, capital, booting, shift, pnl, entry, database, best, opening, cut>>

Gains == -MaxLoss..MaxLoss
Entries == 0..LastEntry

CapTypes ==
  /\ configured \in Capitals /\ capital \in Capitals
  /\ booting \in {"capital", "peak", "day", "up"} /\ shift \in Int
  /\ pnl \in Gains /\ entry \in Entries
  /\ stored \in Capitals \cup {None} /\ peak \in Int
  /\ starts \in [Entries -> Int \cup {None}]
  /\ best \in Gains \cup {None} /\ opening \in [Entries -> Gains \cup {None}]
  /\ cut \in BOOLEAN

\* A new database, or one from before the capital was recorded: its first day
\* is over, and began with the capital.
CapInit ==
  /\ configured \in Capitals /\ capital = configured
  /\ booting = "capital" /\ shift = 0 /\ pnl = 0 /\ cut = FALSE
  /\ stored = None
  /\ \/ /\ entry = 0 /\ peak = 0 /\ best = None
        /\ starts = [d \in Entries |-> None] /\ opening = [d \in Entries |-> None]
     \/ \E c \in Capitals :
          /\ entry = 1 /\ peak = c /\ best = 0
          /\ starts = [d \in Entries |-> IF d = 0 THEN c ELSE None]
          /\ opening = [d \in Entries |-> IF d = 0 THEN 0 ELSE None]

-----------------------------------------------------------------------------
(* The start of the process.                                               *)

\* The capital that the figures are based on.
Days == {d \in Entries : starts[d] # None}
Old ==
  IF stored # None THEN stored
  ELSE IF Days # {} /\ Min(Days) < entry THEN starts[Min(Days)] ELSE capital

SetCapital ==
  /\ booting = "capital"
  /\ stored' = capital
  /\ shift' = capital - Old
  /\ booting' = IF Old = capital THEN "up" ELSE "peak"
  /\ UNCHANGED <<configured, capital, pnl, entry, peak, starts, best, opening, cut>>

Unshifted == peak   \* mutant of Shifted
Shifted == IF best = None THEN peak ELSE Max({peak + shift, 0})

ShiftPeak ==
  /\ booting = "peak"
  /\ peak' = Shifted
  /\ booting' = "day"
  /\ UNCHANGED <<configured, capital, shift, pnl, entry, stored, starts, best, opening, cut>>

ShiftDay ==
  /\ booting = "day"
  /\ starts' = [starts EXCEPT ![entry] = IF @ = None THEN @ ELSE @ + shift]
  /\ booting' = "up"
  /\ UNCHANGED <<configured, capital, shift, pnl, entry, stored, peak, best, opening, cut>>

\* The process ends, wherever it is, and is started with the settings as they
\* are then.
Restart ==
  /\ booting \in {"peak", "day"} => MayCut /\ ~cut
  /\ capital' = configured
  /\ booting' = "capital" /\ shift' = 0
  /\ cut' = (cut \/ booting \in {"peak", "day"})
  /\ UNCHANGED <<configured, pnl, entry, database, best, opening>>

Configure ==
  /\ configured' \in Capitals \ {configured}
  /\ UNCHANGED <<capital, booting, shift, pnl, entry, database, best, opening, cut>>

-----------------------------------------------------------------------------
(* The running agent.                                                      *)

Wins(amount) ==
  /\ pnl + amount \in Gains
  /\ pnl' = pnl + amount
  /\ UNCHANGED <<configured, capital, booting, shift, entry, database, best, opening, cut>>

NextDay ==
  /\ booting = "up" /\ entry < LastEntry
  /\ entry' = entry + 1
  /\ UNCHANGED <<configured, capital, booting, shift, pnl, database, best, opening, cut>>

\* A cycle: the peak, and the first one of a day its row.
Cycle ==
  /\ booting = "up"
  /\ LET equity == capital + pnl
     IN /\ peak' = Max({peak, equity})
        /\ starts' = [starts EXCEPT ![entry] = IF @ = None THEN equity ELSE @]
  /\ best' = IF best = None \/ pnl > best THEN pnl ELSE best
  /\ opening' = [opening EXCEPT ![entry] = IF @ = None THEN pnl ELSE @]
  /\ UNCHANGED <<configured, capital, booting, shift, pnl, entry, stored, cut>>

\* /resume after the kill switch has tripped.
ResetPeak ==
  /\ booting = "up" /\ best # None /\ pnl < best
  /\ peak' = capital + pnl /\ best' = pnl
  /\ UNCHANGED <<configured, capital, booting, shift, pnl, entry, stored, starts, opening, cut>>

CapNext ==
  \/ SetCapital \/ ShiftPeak \/ ShiftDay \/ Restart \/ Configure
  \/ Wins(1) \/ Wins(-1) \/ NextDay \/ Cycle \/ ResetPeak

CapSpec == CapInit /\ [][CapNext]_capVars

-----------------------------------------------------------------------------
(* Properties                                                              *)

\* "Without this, lowering capital would read as a drawdown (kill switch) and
\* a daily loss; raising it would hide real ones" (runner.py:95): whatever the
\* owner makes of the capital between two starts, the agent that is up sees as
\* drawdown and as today's loss exactly what was lost, unless a start was cut
\* short between the transactions.
CapitalIsNoLoss ==
  booting = "up" /\ ~cut =>
    /\ best # None => peak - (capital + pnl) = best - pnl
    /\ opening[entry] # None => starts[entry] - (capital + pnl) = opening[entry] - pnl
=============================================================================
