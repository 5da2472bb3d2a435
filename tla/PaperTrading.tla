---------------------------- MODULE PaperTrading ----------------------------
(***************************************************************************)
(* The trading cycle in mode paper: the decision engine (agent/engine.py)  *)
(* judges proposals one after another with the risk manager                *)
(* (agent/risk/risk_manager.py), and the paper broker                      *)
(* (agent/backtest/paper_broker.py) executes what was approved on a ledger *)
(* (agent/portfolio) that a restart rebuilds from the fills table.         *)
(*                                                                         *)
(* The broker never awaits, so only two things come between the steps of a *)
(* cycle: a crash, and a /kill while the engine awaits the LLM.  Whether   *)
(* the strategy or the portfolio manager proposes something, and every     *)
(* veto that rests on prices alone, are choices; a vetoed proposal changes *)
(* nothing.  The limits that count orders, positions and money are exact.  *)
(*                                                                         *)
(* Prices and quantities are small numbers; money is counted in 1/Den.     *)
(*                                                                         *)
(* A definition marked "mutant of" is a bug that the runs must catch, put  *)
(* in the place of the definition it names; nothing else uses it.          *)
(***************************************************************************)
EXTENDS Integers, Sequences, FiniteSetsExt

CONSTANTS
  Pairs,         \* the whitelist
  Modes,         \* who proposes: "strategy", "manager" (portfolio.enabled)
  Maker,         \* execution_style = "maker_first": the manager may rest orders
  Bids,          \* best bids of each pair; the best ask is one above
  Sizes,         \* quantities a proposal may ask for
  Capital,       \* agent_capital_idr
  Den,           \* denominator of fees
  Taker, Passive,\* fees of a marketable and of a resting order, in 1/Den
  MaxPosition,   \* max_position_pct of the capital
  MaxOpen,       \* max_open_positions
  MaxOrders,     \* max_orders_per_hour
  MaxDecisions,  \* bound on the approved decisions
  TornCrash,     \* may the process die between two transactions?
  MaxCrashes     \* bound on the number of crashes

ASSUME LimitsAssumption ==
  /\ Capital \in Nat /\ MaxPosition \in Nat /\ MaxOpen \in Nat /\ MaxOrders \in Nat
  /\ Den \in Nat \ {0} /\ Taker \in 0..Den /\ Passive \in 0..Den
  /\ IsFiniteSet(Pairs)
  /\ Bids \in [Pairs -> SUBSET (Nat \ {0})] /\ Sizes \subseteq Nat \ {0}
  /\ Modes \subseteq {"strategy", "manager"} /\ Maker \in BOOLEAN

ASSUME BoundsAssumption ==
  MaxDecisions \in Nat /\ MaxCrashes \in Nat /\ TornCrash \in BOOLEAN

VARIABLES
  mode,      \* fixed: whether the portfolio manager is enabled
  bid,       \* best bid of each pair, as the cycle fetched it
  decisions, \* table decisions: the approved ones, in order
  row,       \* table orders: status of each decision's order
  fills,     \* table fills: what is booked of each decision's order
  saved,     \* state "paper:stops"
  old,       \* orders created more than an hour ago
  cash, held, stop,  \* the ledger in memory; stop 0: none
  pc,        \* where the cycle is
  orders,    \* resting orders that check_resting has still to look at
  pairs,     \* pairs the engine has still to look at
  ctx,       \* the RiskContext: value of pending buys, orders in the last hour
  decided,   \* pairs with a decision in this cycle
  phase,     \* what the portfolio manager proposes in this cycle
  approved,  \* decisions the broker has still to execute
  work,      \* the fill in progress
  crashes

tables == <<decisions, row, fills, saved, old>>
ledger == <<cash, held, stop>>
local == <<pc, orders, pairs, ctx, decided, phase, approved, work>>
vars == <<mode, bid, tables, ledger, local, crashes>>

-----------------------------------------------------------------------------
(* Values                                                                  *)

Ids == 1..MaxDecisions
Prices == UNION {Bids[p] : p \in Pairs}
Stops == {b - 1 : b \in Prices} \cup Prices
Market == {b \in [Pairs -> Prices] : \A p \in Pairs : b[p] \in Bids[p]}
Decision == [pair : Pairs, side : {"buy", "sell"}, price : Nat, qty : Nat, stop : Nat,
             emergency : BOOLEAN]
Fill == [qty : Nat, fee : Nat]
NoFill == [qty |-> 0, fee |-> 0]
NoWork == [id |-> 0, qty |-> 0, fee |-> 0, status |-> "NONE", back |-> "idle"]
NoContext == [pending |-> [p \in Pairs |-> 0], count |-> 0]

\* Places where the cycle awaits; everywhere else it holds the loop.
Awaiting == {"idle", "entries"}

TypeOK ==
  /\ mode \in Modes
  /\ bid \in Market
  /\ decisions \in Seq(Decision) /\ Len(decisions) <= MaxDecisions
  /\ row \in [Ids -> {"NONE", "NEW", "FILLED", "CANCELLED"}]
  /\ fills \in [Ids -> Fill]
  /\ saved \in [Pairs -> Stops \cup {0}]
  /\ old \subseteq Ids
  /\ cash \in Nat
  /\ held \in [Pairs -> Nat]
  /\ stop \in [Pairs -> Stops \cup {0}]
  /\ pc \in {"idle", "resting", "exits", "trail", "entries", "manager", "execute", "walk",
             "filling", "saving", "closing"}
  /\ orders \subseteq Ids
  /\ pairs \subseteq Pairs
  /\ ctx \in [pending : [Pairs -> Nat], count : Nat]
  /\ decided \subseteq Pairs
  /\ phase \in {"none", "buy", "sell"}
  /\ approved \in Seq(Ids)
  /\ work \in [id : 0..MaxDecisions, qty : Nat, fee : Nat,
               status : {"NONE", "FILLED", "CANCELLED"}, back : {"idle", "resting", "execute"}]
  /\ crashes \in 0..MaxCrashes

-----------------------------------------------------------------------------
(* Helpers                                                                 *)

Least(a, b) == IF a <= b THEN a ELSE b
Greatest(a, b) == IF a >= b THEN a ELSE b

ask == [p \in Pairs |-> bid[p] + 1]
Known == 1..Len(decisions)
Of(side, p) == {i \in Known : decisions[i].side = side /\ decisions[i].pair = p}
Side(side) == {i \in Known : decisions[i].side = side}
Resting == {i \in Known : row[i] = "NEW"}
Notional(i) == decisions[i].price * decisions[i].qty
Positions == {p \in Pairs : held[p] > 0}

\* pending_buy_idr, and the orders count_orders_since counts.
PendingBuy(p) == MapThenSumSet(Notional, Resting \cap Of("buy", p))
Counted == {i \in Known : row[i] # "NONE" /\ ~decisions[i].emergency /\ i \notin old}

\* What the fills table says; rebuild_portfolio replays it.
Booked(i) == fills[i].qty
HeldByFills == [p \in Pairs |->
  MapThenSumSet(Booked, Of("buy", p)) - MapThenSumSet(Booked, Of("sell", p))]
Paid(i) == decisions[i].price * fills[i].qty * (Den + fills[i].fee)
Received(i) == decisions[i].price * fills[i].qty * (Den - fills[i].fee)
CashByFills == Capital * Den - MapThenSumSet(Paid, Side("buy")) + MapThenSumSet(Received, Side("sell"))

Init ==
  /\ mode \in Modes
  /\ bid \in Market
  /\ decisions = <<>>
  /\ row = [i \in Ids |-> "NONE"]
  /\ fills = [i \in Ids |-> NoFill]
  /\ saved = [p \in Pairs |-> 0]
  /\ old = {}
  /\ cash = Capital * Den
  /\ held = [p \in Pairs |-> 0]
  /\ stop = [p \in Pairs |-> 0]
  /\ pc = "idle" /\ orders = {} /\ pairs = {} /\ ctx = NoContext /\ decided = {}
  /\ phase = "none" /\ approved = <<>> /\ work = NoWork
  /\ crashes = 0

-----------------------------------------------------------------------------
(* The paper broker: resting orders                                        *)

CycleStart ==
  /\ pc = "idle"
  /\ bid' \in Market
  /\ pc' = "resting"
  /\ orders' = Resting
  /\ UNCHANGED <<mode, tables, ledger, pairs, ctx, decided, phase, approved, work, crashes>>

Touched(i) ==
  LET d == decisions[i]
  IN IF d.side = "buy" THEN ask[d.pair] <= d.price ELSE bid[d.pair] >= d.price

\* A sell fills for at most what is held.
WholeQty(i) == decisions[i].qty                          \* mutant of Fillable
Fillable(i) ==
  LET d == decisions[i]
  IN IF d.side = "sell" THEN Least(d.qty, held[d.pair]) ELSE d.qty

FillResting(i) ==
  /\ pc = "resting"
  /\ Touched(i) /\ Fillable(i) > 0
  /\ orders' = orders \ {i}
  /\ work' = [id |-> i, qty |-> Fillable(i), fee |-> Passive, status |-> "FILLED", back |-> "resting"]
  /\ pc' = "filling"
  /\ UNCHANGED <<mode, bid, tables, ledger, pairs, ctx, decided, phase, approved, crashes>>

\* Nothing is held any more, or the order has outlived resting_ttl_min.
CancelResting(i) ==
  /\ pc = "resting"
  /\ Touched(i) => Fillable(i) = 0
  /\ orders' = orders \ {i}
  /\ row' = [row EXCEPT ![i] = "CANCELLED"]
  /\ UNCHANGED <<mode, bid, decisions, fills, saved, old, ledger, pc, pairs, ctx, decided,
                 phase, approved, work, crashes>>

KeepResting(i) ==
  /\ pc = "resting"
  /\ ~Touched(i)
  /\ orders' = orders \ {i}
  /\ UNCHANGED <<mode, bid, tables, ledger, pc, pairs, ctx, decided, phase, approved, work, crashes>>

-----------------------------------------------------------------------------
(* The engine                                                              *)

\* build_context, from the ledger and the tables.
BuildContext ==
  /\ pc = "resting"
  /\ orders = {}
  /\ ctx' = [pending |-> [p \in Pairs |-> PendingBuy(p)], count |-> Cardinality(Counted)]
  /\ pairs' = Positions
  /\ decided' = {}
  /\ pc' = "exits"
  /\ UNCHANGED <<mode, bid, tables, ledger, orders, phase, approved, work, crashes>>

\* record: an approved decision changes what the later proposals see.
Unseen(d) == ctx                                         \* mutant of Updated
Updated(d) ==
  [pending |-> [ctx.pending EXCEPT ![d.pair] = @ + (IF d.side = "buy" THEN d.price * d.qty ELSE 0)],
   count |-> ctx.count + (IF d.emergency THEN 0 ELSE 1)]

Approve(d) ==
  /\ Len(decisions) < MaxDecisions
  /\ decisions' = Append(decisions, d)
  /\ approved' = Append(approved, Len(decisions) + 1)
  /\ ctx' = Updated(d)
  /\ decided' = decided \cup {d.pair}

Sell(p, price, qty, emergency) ==
  [pair |-> p, side |-> "sell", price |-> price, qty |-> qty, stop |-> 0, emergency |-> emergency]
Buy(p, price, qty, s) ==
  [pair |-> p, side |-> "buy", price |-> price, qty |-> qty, stop |-> s, emergency |-> FALSE]

RateAllows == ctx.count < MaxOrders

\* A stop that is hit is a market order, exempt from the order limits; a
\* take-profit or time exit is a limit order at the bid.
StopHit(p) == stop[p] > 0 /\ bid[p] <= stop[p]

ApproveExit(p) ==
  /\ pc = "exits" /\ p \in pairs
  /\ pairs' = pairs \ {p}
  /\ \/ StopHit(p) /\ Approve(Sell(p, bid[p], held[p], TRUE))
     \/ ~StopHit(p) /\ RateAllows /\ Approve(Sell(p, bid[p], held[p], FALSE))
  /\ UNCHANGED <<mode, bid, row, fills, saved, old, ledger, pc, orders, phase, work, crashes>>

\* No exit is proposed, or it is vetoed (a book too thin for the stop).
NoExit(p) ==
  /\ pc = "exits" /\ p \in pairs
  /\ pairs' = pairs \ {p}
  /\ decided' = IF StopHit(p) THEN decided \cup {p} ELSE decided
  /\ UNCHANGED <<mode, bid, tables, ledger, pc, orders, ctx, phase, approved, work, crashes>>

\* The manager proposes sells, or buys if no sell is open.
NeverWaits(side) == TRUE                                 \* mutant of ManagerMay
ManagerMay(side) == side = "buy" => Resting \cap Side("sell") = {}

ExitsDone ==
  /\ pc = "exits" /\ pairs = {}
  /\ IF mode = "manager"
       THEN /\ \E side \in {"buy", "sell"} : ManagerMay(side) /\ phase' = side
            /\ pc' = "manager"
            /\ pairs' = Pairs
       ELSE /\ pc' = "trail"
            /\ UNCHANGED <<phase, pairs>>
  /\ UNCHANGED <<mode, bid, tables, ledger, orders, ctx, decided, approved, work, crashes>>

\* trail_stop and raise_stop: the stops of positions that were not sold follow
\* the closed candles, upwards only.
SetStop(p, s) == s                                       \* mutant of RaiseStop
RaiseStop(p, s) == Greatest(s, stop[p])
Exited == {decisions[approved[k]].pair : k \in 1..Len(approved)}

Trail ==
  /\ pc = "trail"
  /\ \E s \in [Positions \ Exited -> Stops] :
       stop' = [p \in Pairs |-> IF p \in DOMAIN s THEN RaiseStop(p, s[p]) ELSE stop[p]]
  /\ pc' = "entries"
  /\ pairs' = {p \in Pairs \ decided : held[p] = 0 /\ ctx.pending[p] = 0}
  /\ UNCHANGED <<mode, bid, tables, cash, held, orders, ctx, decided, phase, approved, work, crashes>>

-----------------------------------------------------------------------------
(* The risk manager: buys                                                  *)

Value(p) == held[p] * bid[p]
Committed == MapThenSumSet(LAMBDA p : ctx.pending[p], Pairs)
Deployed == MapThenSumSet(Value, Pairs) + Committed

\* The caps of _evaluate_buy: the notional still allowed for a pair.
WithoutPending(p) ==                                     \* mutant of Room
  Min({MaxPosition - Value(p), Capital - MapThenSumSet(Value, Pairs), cash \div (Den + Taker)})
Room(p) ==
  Min({MaxPosition - Value(p) - ctx.pending[p],
       Capital - Deployed,
       (cash - Committed * Den) \div (Den + Taker)})

OpenPairs == Positions \cup {p \in Pairs : ctx.pending[p] > 0}
SlotFree(p) == p \in OpenPairs \/ Cardinality(OpenPairs) < MaxOpen

\* The quantity that is approved: as proposed, or resized to the room.
Sized(p, price, want) == IF want * price <= Room(p) THEN want ELSE Room(p) \div price

ApproveBuy(p, price) ==
  /\ RateAllows
  /\ SlotFree(p)
  /\ Room(p) > 0
  /\ \E want \in Sizes, s \in Stops \ {0} :
       /\ s < price
       /\ Sized(p, price, want) > 0
       /\ Approve(Buy(p, price, Sized(p, price, want), s))

\* The strategy's entries: the engine awaits the LLM before each verdict.
Entry(p) ==
  /\ pc = "entries" /\ p \in pairs
  /\ pairs' = pairs \ {p}
  /\ ApproveBuy(p, ask[p])
  /\ UNCHANGED <<mode, bid, row, fills, saved, old, ledger, pc, orders, phase, work, crashes>>

-----------------------------------------------------------------------------
(* The portfolio manager's proposals                                       *)

Passives == IF Maker THEN {0, 1} ELSE {0}

\* A sell waits for a resting sell of its pair; it trims or exits.
ManagerSells(p) ==
  /\ phase = "sell"
  /\ held[p] > 0
  /\ Resting \cap Of("sell", p) = {}
  /\ RateAllows
  /\ \E qty \in 1..held[p], passive \in Passives :
       Approve(Sell(p, bid[p] + passive, qty, FALSE))

ManagerBuys(p) ==
  /\ phase = "buy"
  /\ ctx.pending[p] = 0
  /\ \E passive \in Passives : ApproveBuy(p, ask[p] - passive)

ManagerProposes(p) ==
  /\ pc = "manager" /\ p \in pairs \ decided
  /\ pairs' = pairs \ {p}
  /\ ManagerSells(p) \/ ManagerBuys(p)
  /\ UNCHANGED <<mode, bid, row, fills, saved, old, ledger, pc, orders, phase, work, crashes>>

ProposalsDone ==
  /\ pc \in {"entries", "manager"}
  /\ pc' = "execute"
  /\ pairs' = {}
  /\ phase' = "none"
  /\ UNCHANGED <<mode, bid, tables, ledger, orders, ctx, decided, approved, work, crashes>>

-----------------------------------------------------------------------------
(* The paper broker: execution                                             *)

Marketable(i) ==
  LET d == decisions[i]
  IN d.emergency \/ (IF d.side = "buy" THEN d.price >= ask[d.pair] ELSE d.price <= bid[d.pair])

RecordOrder ==
  /\ pc = "execute" /\ approved # <<>>
  /\ row' = [row EXCEPT ![Head(approved)] = "NEW"]
  /\ pc' = IF Marketable(Head(approved)) THEN "walk" ELSE "execute"
  /\ work' = IF Marketable(Head(approved)) THEN [NoWork EXCEPT !.id = Head(approved)] ELSE work
  /\ approved' = Tail(approved)
  /\ UNCHANGED <<mode, bid, decisions, fills, saved, old, ledger, orders, pairs, ctx, decided, phase, crashes>>

\* Immediate or cancel: the book fills any part of a limit order, and all of
\* an emergency exit, whose depth the risk manager has checked.
Unfilled(qty, filled) == IF filled >= qty THEN "FILLED" ELSE "CANCELLED"

Walk ==
  LET i == work.id
      qty == Fillable(i)
  IN /\ pc = "walk"
     /\ \E filled \in (IF decisions[i].emergency THEN {qty} ELSE 0..qty) :
          IF filled = 0
            THEN /\ row' = [row EXCEPT ![i] = "CANCELLED"]
                 /\ work' = NoWork
                 /\ pc' = "execute"
            ELSE /\ work' = [id |-> i, qty |-> filled, fee |-> Taker,
                             status |-> Unfilled(qty, filled), back |-> "execute"]
                 /\ pc' = "filling"
                 /\ UNCHANGED row
     /\ UNCHANGED <<mode, bid, decisions, fills, saved, old, ledger, orders, pairs, ctx, decided,
                    phase, approved, crashes>>

-----------------------------------------------------------------------------
(* _fill: the ledger and its tables                                        *)

Payable ==
  LET d == decisions[work.id]
  IN d.side = "buy" => d.price * work.qty * (Den + work.fee) <= cash

\* apply_fill and record_fill, which ignores a trade_id it knows.
ApplyFill ==
  LET i == work.id
      d == decisions[i]
      p == d.pair
  IN /\ pc = "filling"
     /\ Payable
     /\ IF d.side = "buy"
          THEN /\ cash' = cash - d.price * work.qty * (Den + work.fee)
               /\ held' = [held EXCEPT ![p] = @ + work.qty]
               /\ stop' = [stop EXCEPT ![p] = Greatest(@, d.stop)]
          ELSE /\ cash' = cash + d.price * work.qty * (Den - work.fee)
               /\ held' = [held EXCEPT ![p] = @ - work.qty]
               /\ stop' = IF held[p] = work.qty THEN [stop EXCEPT ![p] = 0] ELSE stop
     /\ fills' = IF fills[i] = NoFill THEN [fills EXCEPT ![i] = [qty |-> work.qty, fee |-> work.fee]]
                                      ELSE fills
     /\ pc' = "saving"
     /\ UNCHANGED <<mode, bid, decisions, row, saved, old, orders, pairs, ctx, decided, phase,
                    approved, work, crashes>>

\* "buy exceeds agent cash": run_cycle catches the exception and the cycle
\* ends here; the order stays NEW.
Overdrawn ==
  /\ pc = "filling"
  /\ ~Payable
  /\ pc' = "idle" /\ orders' = {} /\ pairs' = {} /\ ctx' = NoContext /\ decided' = {}
  /\ approved' = <<>> /\ work' = NoWork
  /\ UNCHANGED <<mode, bid, tables, ledger, phase, crashes>>

SaveStops ==
  /\ pc = "saving"
  /\ saved' = stop
  /\ pc' = "closing"
  /\ UNCHANGED <<mode, bid, decisions, row, fills, old, ledger, orders, pairs, ctx, decided, phase,
                 approved, work, crashes>>

StillNew(i) == "NEW"                                     \* mutant of ClosedAs
ClosedAs(i) == work.status
CloseOrder ==
  /\ pc = "closing"
  /\ row' = [row EXCEPT ![work.id] = ClosedAs(work.id)]
  /\ pc' = work.back
  /\ work' = NoWork
  /\ UNCHANGED <<mode, bid, decisions, fills, saved, old, ledger, orders, pairs, ctx, decided, phase,
                 approved, crashes>>

\* The end of _cycle saves the stops the engine has raised.
CycleEnd ==
  /\ pc = "execute" /\ approved = <<>>
  /\ saved' = stop
  /\ pc' = "idle" /\ ctx' = NoContext /\ decided' = {}
  /\ UNCHANGED <<mode, bid, decisions, row, fills, old, ledger, orders, pairs, phase, approved, work, crashes>>

-----------------------------------------------------------------------------
(* Between the steps                                                       *)

\* /kill, and the kill switch at the end of a cycle: cancel_all.
CancelAll ==
  /\ pc \in Awaiting
  /\ Resting # {}
  /\ row' = [i \in Ids |-> IF i \in Resting THEN "CANCELLED" ELSE row[i]]
  /\ UNCHANGED <<mode, bid, decisions, fills, saved, old, ledger, local, crashes>>

\* An hour passes; orders age in the order they were created.
Age(i) ==
  /\ pc = "idle"
  /\ i \in Known \ old
  /\ \A k \in 1..(i - 1) : k \in old
  /\ old' = old \cup {i}
  /\ UNCHANGED <<mode, bid, decisions, row, fills, saved, ledger, local, crashes>>

\* The process dies and is started again: the ledger is rebuilt from the fills
\* table, the stops from the stored ones.
Crash ==
  /\ crashes < MaxCrashes
  /\ TornCrash \/ pc \in Awaiting
  /\ crashes' = crashes + 1
  /\ cash' = CashByFills
  /\ held' = HeldByFills
  /\ stop' = [p \in Pairs |-> IF HeldByFills[p] > 0 THEN saved[p] ELSE 0]
  /\ pc' = "idle" /\ orders' = {} /\ pairs' = {} /\ ctx' = NoContext /\ decided' = {}
  /\ phase' = "none" /\ approved' = <<>> /\ work' = NoWork
  /\ UNCHANGED <<mode, bid, tables>>

Next ==
  \/ CycleStart
  \/ \E i \in orders : FillResting(i) \/ CancelResting(i) \/ KeepResting(i)
  \/ BuildContext
  \/ \E p \in Pairs : ApproveExit(p) \/ NoExit(p) \/ Entry(p) \/ ManagerProposes(p)
  \/ ExitsDone \/ Trail \/ ProposalsDone
  \/ RecordOrder \/ Walk
  \/ ApplyFill \/ Overdrawn \/ SaveStops \/ CloseOrder
  \/ CycleEnd
  \/ CancelAll \/ (\E i \in Ids : Age(i)) \/ Crash

Spec == Init /\ [][Next]_vars

-----------------------------------------------------------------------------
(* Properties                                                              *)

\* The ledger in memory is what a restart would rebuild: no fill is booked
\* twice or only half, across resting orders, cycles that fail in the middle
\* and restarts (persistence.py, "The fills table is the source of truth").
LedgerIsFills == cash = CashByFills /\ held = HeldByFills

\* max_open_positions bounds the pairs that are held or may come to be held
\* through a resting buy, at every moment and not only when it is tested.
OpenPositionsBounded ==
  Cardinality(Positions \cup {p \in Pairs : PendingBuy(p) > 0}) <= MaxOpen

\* max_orders_per_hour bounds the orders that were really created, although
\* it is tested before any order of the cycle exists.
OrderRateBounded == Cardinality(Counted) <= MaxOrders

\* The two counts the risk manager keeps (risk_manager.py), tested on proposals
\* one after the other, hold of what exists: proposals of one cycle cannot
\* together exceed what each of them keeps.
CountsBounded == OpenPositionsBounded /\ OrderRateBounded

\* When a buy reaches the broker, the position and the whole book still are
\* within their limits at the prices of the cycle: what was approved for the
\* sum of the decisions holds for each execution.
BuysWithinLimits ==
  [][\A i \in Known :
       decisions[i].side = "buy" /\ row[i] = "NONE" /\ row'[i] = "NEW" =>
         LET p == decisions[i].pair
             pending == MapThenSumSet(Notional, (Resting \cup {i}) \cap Side("buy"))
         IN /\ Value(p) + MapThenSumSet(Notional, (Resting \cup {i}) \cap Of("buy", p)) <= MaxPosition
            /\ MapThenSumSet(Value, Pairs) + pending <= Capital]_vars

\* "a buy never relies on cash that is not there yet" (manager.py:9): when an
\* order of the portfolio manager to buy is created, no sell is open.
SellsSettleFirst ==
  [][\A i \in Known :
       mode = "manager" /\ decisions[i].side = "buy" /\ row[i] = "NONE" /\ row'[i] = "NEW" =>
         Resting \cap Side("sell") = {}]_vars

\* A position's stop is never loosened and never lost, and a restart loses at
\* most what was raised since the stops were stored.
StopsOnlyRise ==
  [][\A p \in Pairs : held[p] > 0 /\ held'[p] > 0 =>
       stop'[p] >= (IF crashes' = crashes THEN stop[p] ELSE saved[p])]_vars
=============================================================================
