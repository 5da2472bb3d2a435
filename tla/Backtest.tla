------------------------------ MODULE Backtest ------------------------------
(***************************************************************************)
(* The simulation loop of the backtester (agent/backtest/backtester.py,    *)
(* Backtester._run): one step per execution candle.  A step matches the    *)
(* orders left by the step before, applies stops and targets within the    *)
(* candle, runs the real decision engine at its close, and executes what   *)
(* was approved.  It keeps three accounts of the same trading, which are   *)
(* to agree: the orders and fills tables of its database (which the risk   *)
(* manager reads), the ledger, and the list of trades that the report and  *)
(* the walk-forward metrics are computed from.                             *)
(*                                                                         *)
(* Prices are left out: whether a candle crosses a price, what depth it    *)
(* offers, what the engine decides and whether the cash suffices are       *)
(* choices.  Candles have indices; a pair may lack a candle.               *)
(*                                                                         *)
(* A definition marked "mutant of" is a bug that the runs must catch, put  *)
(* in the place of the definition it names; nothing else uses it.          *)
(***************************************************************************)
EXTENDS Integers, Sequences, FiniteSetsExt

CONSTANTS
  BtPairs,     \* the whitelisted pairs with data
  Lots,        \* largest quantity of one order
  MaxLots,     \* bound: lots held of a pair
  MaxSteps,    \* bound: candles simulated
  MaxRows      \* bound: orders created

ASSUME BacktestAssumption ==
  Lots \in Nat /\ MaxLots \in Nat /\ MaxSteps \in Nat /\ MaxRows \in Nat

VARIABLES
  step,        \* index of the candle; its close is the time of the step
  barPhase,    \* where the loop is in its step
  bars,        \* pairs that have this candle
  todo,        \* pairs, or pending orders, this phase has still to look at
  btStatus,    \* RUNNING, PAUSED, HALTED
  pos,         \* pf.positions: quantity held of each pair
  openTrade,   \* open_trades: quantity of each; 0: no entry
  closedQty,   \* trades: total quantity of the closed trades of each pair
  btOrders,    \* table orders: row i is order bt-i
  btFills,     \* table fills: [order, qty, step]
  pending      \* ids of the passive orders placed at the last step

btBook == <<pos, openTrade, closedQty, btOrders, btFills>>
btVars == <<step, barPhase, bars, todo, btStatus, btBook, pending>>

OrderRow == [pair : BtPairs, side : {"buy", "sell"}, qty : 1..Lots + MaxLots,
             status : {"NEW", "FILLED", "CANCELLED"}, at : Nat]
FillRow == [order : 1..MaxRows, qty : Nat \ {0}, at : Nat]

BtTypes ==
  /\ step \in 0..MaxSteps
  /\ barPhase \in {"match", "intrabar", "day", "engine", "after", "done", "error"}
  /\ bars \subseteq BtPairs
  /\ todo \subseteq BtPairs \cup 1..MaxRows
  /\ btStatus \in {"RUNNING", "PAUSED", "HALTED"}
  /\ pos \in [BtPairs -> 0..MaxLots]
  /\ openTrade \in [BtPairs -> 0..MaxLots]
  /\ closedQty \in [BtPairs -> Nat]
  /\ btOrders \in Seq(OrderRow) /\ Len(btOrders) <= MaxRows
  /\ btFills \in Seq(FillRow)
  /\ pending \subseteq 1..Len(btOrders)

BtInit ==
  /\ step = 0
  /\ barPhase = "match"
  /\ bars \in SUBSET BtPairs
  /\ todo = {}
  /\ btStatus = "RUNNING"
  /\ pos = [p \in BtPairs |-> 0]
  /\ openTrade = [p \in BtPairs |-> 0]
  /\ closedQty = [p \in BtPairs |-> 0]
  /\ btOrders = <<>> /\ btFills = <<>>
  /\ pending = {}

-----------------------------------------------------------------------------
(* new_order and fill                                                      *)

Lesser(a, b) == IF a <= b THEN a ELSE b

Order(p, side, qty, status) ==
  [pair |-> p, side |-> side, qty |-> qty, status |-> status, at |-> step]

\* The position after a fill, and the trade of it that stays open.
NewPos(p, side, qty) == IF side = "buy" THEN pos[p] + qty ELSE pos[p] - qty
ClosedWhole(p, side, qty) ==   \* mutant of NewTrade: a partial sell ends the trade
  IF side = "buy" THEN openTrade[p] + qty ELSE 0
NewTrade(p, side, qty) ==
  LET left == IF side = "buy" THEN openTrade[p] + qty ELSE openTrade[p] - qty
  IN IF NewPos(p, side, qty) = 0 \/ left <= 0 THEN 0 ELSE left

\* fill of order i: the ledger, the fills table and the trades.
Book(p, side, qty, i) ==
  /\ NewPos(p, side, qty) \in 0..MaxLots
  /\ pos' = [pos EXCEPT ![p] = NewPos(p, side, qty)]
  /\ openTrade' = [openTrade EXCEPT ![p] = NewTrade(p, side, qty)]
  /\ closedQty' = IF side = "sell" THEN [closedQty EXCEPT ![p] = @ + qty] ELSE closedQty
  /\ btFills' = Append(btFills, [order |-> i, qty |-> qty, at |-> step])

\* A fill without an order of its own: it creates one, FILLED.
BookNew(p, side, qty) ==
  /\ Len(btOrders) < MaxRows
  /\ btOrders' = Append(btOrders, Order(p, side, qty, "FILLED"))
  /\ Book(p, side, qty, Len(btOrders) + 1)

-----------------------------------------------------------------------------
(* 1) The orders of the step before are valid for this candle only.        *)

Row(i) == btOrders[i]
WithStatus(i, s) == [btOrders EXCEPT ![i].status = s]

StartStep ==
  /\ barPhase = "match" /\ todo = {} /\ pending # {}
  /\ todo' = pending
  /\ pending' = {}
  /\ UNCHANGED <<step, barPhase, bars, btStatus, btBook>>

\* Crossed: as much as the volume offers, and as is held of a sell.
Offered(i) ==
  IF Row(i).side = "sell" THEN Lesser(Row(i).qty, pos[Row(i).pair]) ELSE Row(i).qty

FillPassive(i) ==
  /\ barPhase = "match" /\ i \in todo
  /\ Row(i).pair \in bars
  /\ \E qty \in 1..Offered(i) :
       /\ Book(Row(i).pair, Row(i).side, qty, i)
       /\ btOrders' = WithStatus(i, IF qty < Row(i).qty THEN "CANCELLED" ELSE "FILLED")
  /\ todo' = todo \ {i}
  /\ UNCHANGED <<step, barPhase, bars, btStatus, pending>>

\* Not crossed, no candle, or nothing to be had.
ExpirePassive(i) ==
  /\ barPhase = "match" /\ i \in todo
  /\ btOrders' = WithStatus(i, "CANCELLED")
  /\ todo' = todo \ {i}
  /\ UNCHANGED <<step, barPhase, bars, btStatus, pos, openTrade, closedQty, btFills, pending>>

\* apply_fill raises "buy exceeds agent cash": nothing catches it.
Raises ==
  /\ barPhase \in {"match", "engine"} /\ todo # {}
  /\ barPhase' = "error"
  /\ UNCHANGED <<step, bars, todo, btStatus, btBook, pending>>

-----------------------------------------------------------------------------
(* 2) Stop-loss or take-profit within the candle; 3) a new day.            *)

Matched ==
  /\ barPhase = "match" /\ todo = {} /\ pending = {}
  /\ barPhase' = "intrabar"
  /\ todo' = {p \in bars : pos[p] > 0}
  /\ UNCHANGED <<step, bars, btStatus, btBook, pending>>

\* Both sell the whole position.
HitsStopOrTarget(p) ==
  /\ barPhase = "intrabar" /\ p \in todo
  /\ BookNew(p, "sell", pos[p])
  /\ todo' = todo \ {p}
  /\ UNCHANGED <<step, barPhase, bars, btStatus, pending>>

NoHit(p) ==
  /\ barPhase = "intrabar" /\ p \in todo
  /\ todo' = todo \ {p}
  /\ UNCHANGED <<step, barPhase, bars, btStatus, btBook, pending>>

\* The daily stop lasts until the day changes, which it may at any candle.
Day ==
  /\ barPhase = "intrabar" /\ todo = {}
  /\ \/ UNCHANGED btStatus
     \/ btStatus = "PAUSED" /\ btStatus' = "RUNNING"
  /\ barPhase' = "day"
  /\ UNCHANGED <<step, bars, todo, btBook, pending>>

-----------------------------------------------------------------------------
(* 4) The decision engine at the close of the candle.                      *)

\* The pairs that have this candle and a closed one in each timeframe.  If a
\* position cannot be valued the step ends here.
Cycle ==
  /\ barPhase = "day"
  /\ \E markets \in SUBSET bars :
       IF {p \in BtPairs : pos[p] > 0} \subseteq markets
         THEN barPhase' = "engine" /\ todo' = markets
         ELSE barPhase' = "after" /\ todo' = {}
  /\ UNCHANGED <<step, bars, btStatus, btBook, pending>>

\* What the engine may approve: one order per pair; buys while RUNNING.
Proposals(p) ==
  {[side |-> "sell", qty |-> q] : q \in 1..pos[p]}
  \cup {[side |-> "buy", qty |-> q] : q \in IF btStatus = "RUNNING" THEN 1..Lots ELSE {}}

NothingApproved(p) ==
  /\ barPhase = "engine" /\ p \in todo
  /\ todo' = todo \ {p}
  /\ UNCHANGED <<step, barPhase, bars, btStatus, btBook, pending>>

\* A passive limit order waits for the next candle.
Rest(p) ==
  /\ barPhase = "engine" /\ p \in todo
  /\ Len(btOrders) < MaxRows
  /\ \E d \in Proposals(p) : btOrders' = Append(btOrders, Order(p, d.side, d.qty, "NEW"))
  /\ pending' = pending \cup {Len(btOrders) + 1}
  /\ todo' = todo \ {p}
  /\ UNCHANGED <<step, barPhase, bars, btStatus, pos, openTrade, closedQty, btFills>>

\* A marketable limit order that the book cannot take whole: a part of it is
\* filled, or nothing, and the rest is cancelled at once.
Thin(p) ==
  /\ barPhase = "engine" /\ p \in todo
  /\ Len(btOrders) < MaxRows
  /\ \E d \in Proposals(p) :
       /\ btOrders' = Append(btOrders, Order(p, d.side, d.qty, "CANCELLED"))
       /\ \/ UNCHANGED <<pos, openTrade, closedQty, btFills>>
          \/ \E qty \in 1..d.qty - 1 : Book(p, d.side, qty, Len(btOrders) + 1)
  /\ todo' = todo \ {p}
  /\ UNCHANGED <<step, barPhase, bars, btStatus, pending>>

\* A market order, or a marketable one that is filled whole.
Take(p) ==
  /\ barPhase = "engine" /\ p \in todo
  /\ \E d \in Proposals(p) : BookNew(p, d.side, d.qty)
  /\ todo' = todo \ {p}
  /\ UNCHANGED <<step, barPhase, bars, btStatus, pending>>

-----------------------------------------------------------------------------
(* The risk manager's triggers, and the next candle.                       *)

RowsCancelled ==
  [i \in 1..Len(btOrders) |->
     IF i \in pending THEN [Row(i) EXCEPT !.status = "CANCELLED"] ELSE Row(i)]

Halt ==
  /\ barPhase = "engine" /\ todo = {} /\ btStatus # "HALTED"
  /\ btStatus' = "HALTED"
  /\ btOrders' = RowsCancelled
  /\ pending' = {}
  /\ barPhase' = "after"
  /\ UNCHANGED <<step, bars, todo, pos, openTrade, closedQty, btFills>>

DailyStop ==
  /\ barPhase = "engine" /\ todo = {} /\ btStatus = "RUNNING"
  /\ btStatus' = "PAUSED"
  /\ barPhase' = "after"
  /\ UNCHANGED <<step, bars, todo, btBook, pending>>

NoTrigger ==
  /\ barPhase = "engine" /\ todo = {}
  /\ barPhase' = "after"
  /\ UNCHANGED <<step, bars, todo, btStatus, btBook, pending>>

NextCandle ==
  /\ barPhase = "after" /\ step < MaxSteps
  /\ step' = step + 1
  /\ barPhase' = "match"
  /\ bars' \in SUBSET BtPairs
  /\ UNCHANGED <<todo, btStatus, btBook, pending>>

\* After the last candle the open trades join the list as they are.
Finish ==
  /\ barPhase = "after"
  /\ barPhase' = "done"
  /\ UNCHANGED <<step, bars, todo, btStatus, btBook, pending>>

Over == barPhase \in {"done", "error"} /\ UNCHANGED btVars

BtNext ==
  \/ StartStep \/ Matched \/ Raises \/ Day \/ Cycle
  \/ \E i \in todo \cap 1..MaxRows : FillPassive(i) \/ ExpirePassive(i)
  \/ \E p \in todo \cap BtPairs :
       \/ HitsStopOrTarget(p) \/ NoHit(p)
       \/ NothingApproved(p) \/ Rest(p) \/ Thin(p) \/ Take(p)
  \/ Halt \/ DailyStop \/ NoTrigger \/ NextCandle \/ Finish \/ Over

BtSpec == BtInit /\ [][BtNext]_btVars

-----------------------------------------------------------------------------
(* Properties                                                              *)

FillsOf(p, side) ==
  {k \in 1..Len(btFills) : Row(btFills[k].order).pair = p /\ Row(btFills[k].order).side = side}
Qty(k) == btFills[k].qty

\* The trades list has closed what the fills table has sold, and the trade
\* still open is the position of the ledger, which is what was bought less
\* what was sold.
TradesAreFills ==
  \A p \in BtPairs :
    /\ closedQty[p] = MapThenSumSet(Qty, FillsOf(p, "sell"))
    /\ openTrade[p] = pos[p]
    /\ pos[p] = MapThenSumSet(Qty, FillsOf(p, "buy")) - closedQty[p]

\* When the engine runs, the orders the tables call open are those placed in
\* this very step: a passive order that missed its candle, or that a halt has
\* dropped, no longer counts as pending in the risk manager's context.
OpenRowsArePending ==
  barPhase \in {"day", "engine", "after"} =>
    {i \in 1..Len(btOrders) : Row(i).status = "NEW"} = pending

\* What the backtest reports is what it simulated: through partial fills,
\* stops within a candle, exits in parts and the end of the data, the tables,
\* the ledger and the trades of the report tell the same story.
BooksAgree == TradesAreFills /\ OpenRowsArePending
=============================================================================
