---------------------------- MODULE OrderNumbers ----------------------------
(***************************************************************************)
(* The arithmetic of an order: prices and quantities in steps of the pair  *)
(* and the exchange's minimum (exchange/models.py), the sizes of the order *)
(* check (scripts/live_order_check.py) and of the strategy's entries       *)
(* (strategy/strategy.py and the risk manager), and what is read of an     *)
(* order while it is filled (trade_client.parse_order,                     *)
(* OrderState.filled_for).                                                 *)
(*                                                                         *)
(* The exchange holds a buy in whole IDR, the reserve for its fee included,*)
(* and a sell in coins.  Prices are in IDR per unit of the coin; a         *)
(* fraction is a numerator and a denominator.                              *)
(*                                                                         *)
(* A definition marked "mutant of" is a bug that the runs must catch, put  *)
(* in the place of the definition it names; nothing else uses it.          *)
(***************************************************************************)
EXTENDS Integers, FiniteSetsExt

CONSTANTS
  PriceTick,  \* price_tick
  LotSize,    \* qty_step, in units of the coin
  MinQuote,   \* the smallest order in IDR
  MinBase,    \* and in units of the coin
  Reserve,    \* fee reserve of a buy, per cent
  BestBids,   \* prices at which the market can stand
  Budget,     \* IDR that an entry may lose: risk_per_trade_pct of the capital
  Trails,     \* levels of the Chandelier stop
  Ranges,     \* distances of a stop from the price, a multiple of the ATR
  Rooms,      \* IDR that the caps of the risk manager leave for a buy
  ExitSlip    \* emergency_exit_max_slippage_pct

ASSUME NumAssumption ==
  /\ PriceTick \in Nat \ {0} /\ LotSize \in Nat \ {0}
  /\ MinQuote \in Nat \ {0} /\ MinBase \in Nat /\ Reserve \in Nat
  /\ BestBids \subseteq Nat \ {0} /\ Budget \in Nat
  /\ Trails \subseteq Nat /\ Ranges \subseteq Nat /\ Rooms \subseteq Nat
  /\ ExitSlip \in 0..100

VARIABLES
  quote,      \* best bid of the market, a tick below the best ask
  submitted,  \* the order that was submitted
  executed,   \* units of it that were bought or sold
  state,      \* its status at the exchange
  got         \* what filled_for made of it at the last reading

numVars == <<quote, submitted, executed, state, got>>

\* The orders of the check have no stop-loss.
Order(side, price, qty) == [side |-> side, price |-> price, qty |-> qty, stop |-> 0]
Unsubmitted == Order("none", 0, 0)

NumTypes ==
  /\ quote \in BestBids
  /\ submitted \in [side : {"none", "buy", "sell"}, price : Nat, qty : Nat, stop : Nat]
  /\ executed \in 0..submitted.qty /\ got \in Nat
  /\ state \in {"none", "open", "filled", "cancelled"}

NumInit ==
  /\ quote \in BestBids
  /\ submitted = Unsubmitted /\ executed = 0 /\ state = "none" /\ got = 0

-----------------------------------------------------------------------------
(* Steps and minimum.                                                      *)

\* num / den in whole steps, rounded down and up.
Floor(num, den, step) == (num \div (den * step)) * step
Ceil(num, den, step) == ((num + den * step - 1) \div (den * step)) * step

\* Buys are rounded down, sells up.
RoundPrice(num, den, side) ==
  IF side = "buy" THEN Floor(num, den, PriceTick) ELSE Ceil(num, den, PriceTick)

\* min_order_violation has nothing to say.
Acceptable(o) ==
  /\ o.qty > 0 /\ o.price > 0
  /\ o.qty >= MinBase /\ o.price * o.qty >= MinQuote

\* The smallest quantity at this price, with a margin in per cent.
MinQtyAt(price, margin) ==
  Max({Ceil(MinBase, 1, LotSize), Ceil(MinQuote * margin, 100 * price, LotSize)})

RestingPrice == RoundPrice(quote * 90, 100, "buy")
BestAsk == quote + PriceTick
BuyPrice == RoundPrice(BestAsk * 1002, 1000, "sell")
SellPrice == RoundPrice(quote * 998, 1000, "buy")

\* plan_orders: a buy that rests, a buy at the market and the sell that follows.
PlannedOrders ==
  LET qty == Max({MinQtyAt(BuyPrice, 105), MinQtyAt(SellPrice, 115)})
  IN {Order("buy", RestingPrice, MinQtyAt(RestingPrice, 105)),
      Order("buy", BuyPrice, qty), Order("sell", SellPrice, qty)}

-----------------------------------------------------------------------------
(* An entry of the strategy, at the best ask.                              *)

\* A multiple of the ATR below the price: the stop of the short-term styles, and
\* of a breakout that left the Chandelier stop above the price.
RangeStops == {RoundPrice(BestAsk - d, 1, "buy") : d \in Ranges}

StopLevels ==
  {s \in {RoundPrice(t, 1, "buy") : t \in Trails} \union RangeStops : 0 < s /\ s < BestAsk}

\* The quantity that loses the budget at the stop, resized to the room.
EntryQty(stop, room) ==
  LET want == Floor(Budget, BestAsk - stop, LotSize)
  IN IF want * BestAsk <= room THEN want ELSE Floor(room, BestAsk, LotSize)

\* At the stop, less slippage, an entry is worth 1.2 times the minimum.
StaysSellable(o) == o.qty * o.stop * (100 - ExitSlip) * 10 >= MinQuote * 12 * 100

\* The entries that the risk manager approves, when the signals are there.
StrategyEntries ==
  {o \in {[Order("buy", BestAsk, EntryQty(s, room)) EXCEPT !.stop = s] :
             s \in StopLevels, room \in Rooms} :
     Acceptable(o) /\ StaysSellable(o)}

-----------------------------------------------------------------------------
(* An order at the exchange.                                               *)

SubmitPlanned ==
  /\ submitted = Unsubmitted
  /\ submitted' \in PlannedOrders /\ state' = "open"
  /\ UNCHANGED <<quote, executed, got>>

\* The exchange matches it, in lots, and may complete it.
Executes ==
  /\ state = "open"
  /\ executed' \in {n \in (executed + 1)..submitted.qty : n % LotSize = 0}
  /\ state' = IF executed' = submitted.qty THEN "filled" ELSE "open"
  /\ UNCHANGED <<quote, submitted, got>>

SubmitEntry ==
  /\ submitted = Unsubmitted
  /\ submitted' \in StrategyEntries /\ state' = "open"
  /\ UNCHANGED <<quote, executed, got>>

CancelledThere ==
  /\ state = "open"
  /\ state' = "cancelled"
  /\ UNCHANGED <<quote, submitted, executed, got>>

\* What it tells of an amount: order_rp and remain_rp, or order_ and remain_<coin>.
Told(units) ==
  IF submitted.side = "buy" THEN (units * submitted.price * (100 + Reserve)) \div 100 ELSE units

Inflated(received) ==   \* mutant of FilledFor: filled_qty, as it is told
  LET gone == Told(submitted.qty) - Told(submitted.qty - executed)
  IN IF submitted.side = "buy" THEN Floor(gone, submitted.price, LotSize) ELSE gone

\* filled_for: the fraction that is gone, of the quantity submitted; all of it
\* once the order is filled; no more than receive_<coin>, where that is told.
FilledFor(received) ==
  LET gone == Told(submitted.qty) - Told(submitted.qty - executed)
      filled == IF state = "filled" THEN submitted.qty
                ELSE Floor(submitted.qty * gone, Told(submitted.qty), LotSize)
  IN Min({filled, submitted.qty} \union (IF received > 0 THEN {received} ELSE {}))

ReadOrder ==
  /\ submitted # Unsubmitted
  /\ \E received \in IF submitted.side = "buy" THEN {0, executed} ELSE {0} :
       got' = FilledFor(received)
  /\ UNCHANGED <<quote, submitted, executed, state>>

NumNext == SubmitPlanned \/ SubmitEntry \/ Executes \/ CancelledThere \/ ReadOrder

NumSpec == NumInit /\ [][NumNext]_numVars

-----------------------------------------------------------------------------
(* Properties                                                              *)

\* The emergency exit of an entry that has been filled, at its stop.
EmergencyExit(o) == Order("sell", RoundPrice(o.stop * (100 - ExitSlip), 100, "buy"), o.qty)

\* "never book more coin than the exchange holds" (trade_client.filled_for):
\* what is read of an order, in whatever state and after whichever reading, is
\* never more than was executed, at most one step less when it is read, and
\* all of it once the order is filled.  Every order that is submitted is one
\* that the exchange takes.  An entry, resized or not, loses no more than the
\* budget at its stop, and "the stop-loss exit must stay sellable" there
\* (risk_manager._evaluate_buy): once the entry is filled the exchange takes the
\* emergency exit, slippage and rounding included.
NumbersSound ==
  [][/\ got' <= executed'
     /\ ReadOrder => /\ executed - got' <= LotSize
                     /\ state = "filled" => got' = executed
     /\ submitted' # submitted => Acceptable(submitted')
     /\ submitted' # submitted /\ submitted'.stop > 0 =>
          /\ submitted'.qty * (submitted'.price - submitted'.stop) <= Budget
          /\ Acceptable(EmergencyExit(submitted'))]_numVars
=============================================================================
