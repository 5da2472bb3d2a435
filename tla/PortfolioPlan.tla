--------------------------- MODULE PortfolioPlan ---------------------------
(***************************************************************************)
(* The portfolio manager over the days (agent/portfolio/manager.py), with  *)
(* the candle cache it reads (agent/data/market_data.py) and the orders    *)
(* that carry a plan out (agent/execution/executor.py).                    *)
(*                                                                         *)
(* Once per new daily close the manager examines which coins are in trend, *)
(* and replaces its plan when the recommendation has changed; it also does *)
(* so when the plan is due.  The candles of a coin are cached for a day    *)
(* and may lag, a coin may be missing from a cycle, orders rest between    *)
(* cycles, and the process may fail between two writes of its state.       *)
(*                                                                         *)
(* Time is counted in days; a plan on its last day may expire during it,   *)
(* which shows as a cycle without orders.  An order rests for as long as   *)
(* its cancellation may fail.  Money is counted in lots: prices do not     *)
(* drift, the band of trades not worth making is below a lot, and the      *)
(* coins in trend share the capital alike.  A coin that is in trend and    *)
(* too small to trade, and the stop-loss exits, are left out.              *)
(* react_to_changes is on, as in every settings file.                      *)
(*                                                                         *)
(* A definition marked "mutant of" is a bug that the runs must catch, put  *)
(* in the place of the definition it names; nothing else uses it.          *)
(***************************************************************************)
EXTENDS Integers, FiniteSetsExt

CONSTANTS
  Coins,     \* the whitelist
  Lots,      \* the agent's capital
  Weekly,    \* rebalance_days
  Valid,     \* plan_valid_hours, in full days
  MaxLag,    \* days the candles of a coin may be behind
  Failures   \* what may go wrong: "late", "restart", "fetch", "torn"

ASSUME PlanAssumption ==
  /\ IsFiniteSet(Coins) /\ Coins # {}
  /\ Lots \in Nat /\ Cardinality(Coins) <= Lots
  /\ Weekly \in Nat \ {0} /\ Valid \in Nat /\ MaxLag \in Nat

VARIABLES
  lag,       \* days the cached candles of each coin are behind
  seen,      \* the last close in them: above, within (near) or below the trend buffer
  planned,   \* state "pm:plan": whether there is one,
  covered,   \*   the coins it has a target weight for,
  weight,    \*   that weight, in lots; 0 for a coin it does not cover,
  eligible,  \*   the coins that were in trend when it was last examined,
  made,      \*   the days since it was made
  validated, \*   and since it was last examined
  checked,   \* state "pm:last_check": days the examined close is behind
  held,      \* the ledger, in lots
  order,     \* the open order of each coin
  torn       \* history: the last examination did not come to its end

market == <<lag, seen>>
plan == <<planned, covered, weight, eligible, made, validated>>
book == <<held, order>>
vars == <<market, plan, checked, book, torn>>

-----------------------------------------------------------------------------
(* Values                                                                  *)

Sides == {"above", "near", "below"}
\* A sell waits that is passive, or not known to be placed.
NoOrder == [side |-> "none", qty |-> 0, waits |-> FALSE]
Order == [side : {"none", "buy", "sell"}, qty : 0..Lots, waits : BOOLEAN]
Least(a, b) == IF a <= b THEN a ELSE b

TypeOK ==
  /\ lag \in [Coins -> 0..MaxLag]
  /\ seen \in [Coins -> Sides]
  /\ planned \in BOOLEAN
  /\ covered \subseteq Coins
  /\ weight \in [Coins -> 0..Lots]
  /\ eligible \subseteq Coins
  /\ made \in 0..Weekly
  /\ validated \in 0..(Valid + 1)
  /\ checked \in 0..(MaxLag + 1)
  /\ held \in [Coins -> 0..Lots]
  /\ order \in [Coins -> Order]
  /\ torn \in BOOLEAN

Init ==
  /\ lag = [c \in Coins |-> 0]
  /\ seen \in [Coins -> Sides]
  /\ planned = FALSE
  /\ covered = {}
  /\ weight = [c \in Coins |-> 0]
  /\ eligible = {}
  /\ made = 0 /\ validated = 0
  /\ checked = MaxLag + 1
  /\ held = [c \in Coins |-> 0]
  /\ order = [c \in Coins |-> NoOrder]
  /\ torn = FALSE

-----------------------------------------------------------------------------
(* target_weights                                                          *)

\* Above the trend line, or within the buffer below it and so far eligible.
InTrend(c) == seen[c] = "above" \/ (seen[c] = "near" /\ c \in eligible)

Trending(present) == {c \in present : InTrend(c)}

Weights(coins) == [c \in Coins |-> IF c \in coins THEN Lots \div Cardinality(coins) ELSE 0]

-----------------------------------------------------------------------------
(* Planning                                                                *)

Held == {c \in Coins : held[c] > 0}

\* The engine does not go on without a held coin, nor the manager unless the
\* coins it has end in the same close.
Complete(present) ==
  /\ present # {}
  /\ Held \subseteq present
  /\ \A c, d \in present : lag[c] = lag[d]

LastClose(present) == lag[CHOOSE c \in present : TRUE]

Due == ~planned \/ made = Weekly
OnlyNewer(present) == checked > LastClose(present) + 1   \* mutant of NewClose
NewClose(present) == checked # LastClose(present)

Recommended(present) == Weights(Trending(present))
OnlyEntries(present) ==                                  \* mutant of Changed
  \E c \in Coins : weight[c] = 0 /\ Recommended(present)[c] > 0
Changed(present) == weight # Recommended(present)

\* _make_plan, as far as the plan itself goes.
MakePlan(present) ==
  /\ planned' = TRUE
  /\ covered' = present
  /\ weight' = Recommended(present)
  /\ eligible' = Trending(present)
  /\ made' = 0
  /\ validated' = 0

\* The same recommendation: the plan is valid again, not newer.
Revalidate(present) ==
  /\ validated' = 0
  /\ eligible' = Trending(present)
  /\ UNCHANGED <<planned, covered, weight, made>>

\* The first part of propose: what becomes of the plan.
Plan(present) ==
  IF Due \/ NewClose(present)
    THEN /\ IF Due \/ Changed(present) THEN MakePlan(present) ELSE Revalidate(present)
         /\ checked' = LastClose(present)
         /\ torn' = FALSE
    ELSE UNCHANGED <<plan, checked, torn>>

-----------------------------------------------------------------------------
(* Proposals                                                               *)

Open(side) == {c \in Coins : order[c].side = side}
Pending(c) == IF order[c].side = "buy" THEN order[c].qty ELSE 0
Delta(c) == weight'[c] - held[c] - Pending(c)

\* A sell waits for a passive or unresolved sell of the coin.
Sells(present) ==
  {c \in present \cap covered' : Delta(c) < 0 /\ held[c] > 0 /\ ~(order[c].side = "sell" /\ order[c].waits)}
SellQty(c) == IF weight'[c] = 0 THEN held[c] ELSE Least(held[c], - Delta(c))

\* Buys wait until no sell is proposed or open; what they may cost is the
\* risk manager's cap agent_capital.
Invested == MapThenSumSet(LAMBDA c : held[c], Coins)     \* mutant of Deployed
Deployed == MapThenSumSet(LAMBDA c : held[c] + Pending(c), Coins)
Buys(present) ==
  IF Sells(present) # {} \/ Open("sell") # {} THEN {}
  ELSE {c \in present : Delta(c) > 0 /\ Pending(c) = 0}

\* The orders of a cycle.  Any of them may be vetoed, resized or fail; a new
\* sell has cancelled the older orders of its coin.
Quantities(c, present) == IF c \in Sells(present) THEN {SellQty(c)} ELSE 1..Delta(c)

Trade(present, placed) ==
  IF validated' > Valid
    THEN placed = {} /\ UNCHANGED order
    ELSE \E qty \in [placed -> 1..Lots], waits \in BOOLEAN :
           /\ placed \subseteq Sells(present) \cup Buys(present)
           /\ \A c \in placed : qty[c] \in Quantities(c, present)
           /\ placed \subseteq Buys(present) =>
                MapThenSumSet(LAMBDA c : qty[c], placed) + Deployed <= Lots
           /\ order' = [c \in Coins |->
                IF c \notin placed THEN order[c]
                ELSE IF c \in Sells(present)
                  THEN [side |-> "sell", qty |-> qty[c], waits |-> waits]
                  ELSE [side |-> "buy", qty |-> qty[c], waits |-> FALSE]]

Present == IF "fetch" \in Failures THEN SUBSET Coins ELSE {Coins}

\* A trading cycle with complete data; with incomplete data nothing changes.
Cycle(present, placed) ==
  /\ Complete(present)
  /\ Plan(present)
  /\ Trade(present, placed)
  /\ UNCHANGED <<market, held>>

\* The examination of a new close marks it before the targets are computed.
TornCheck(present) ==
  /\ "torn" \in Failures
  /\ Complete(present)
  /\ ~Due /\ NewClose(present)
  /\ checked' = LastClose(present)
  /\ torn' = TRUE
  /\ UNCHANGED <<market, plan, book>>

\* A plan that was due is stored before the close it examined is marked.
TornPlan(present) ==
  /\ "torn" \in Failures
  /\ Complete(present)
  /\ Due
  /\ MakePlan(present)
  /\ torn' = TRUE
  /\ UNCHANGED <<market, checked, book>>

-----------------------------------------------------------------------------
(* Orders                                                                  *)

\* An order is filled, whole or in part; no more is sold than is held.  A sell
\* that waits still does when it is passive, and not when it is now known.
Fill(c, qty) ==
  /\ order[c].side # "none"
  /\ qty \in 1..order[c].qty
  /\ IF order[c].side = "buy"
       THEN held' = [held EXCEPT ![c] = @ + qty]
       ELSE held' = [held EXCEPT ![c] = @ - Least(qty, @)]
  /\ \E waits \in {FALSE, order[c].waits} :
       order' = [order EXCEPT ![c] =
         IF qty = @.qty THEN NoOrder
                        ELSE [side |-> @.side, qty |-> @.qty - qty, waits |-> waits]]
  /\ UNCHANGED <<market, plan, checked, torn>>

\* entry_ttl_s, or an order that never reached the exchange.
OnlyBuys(c) == order[c].side = "buy"                     \* mutant of Expires
Expires(c) == order[c].side = "buy" \/ order[c].waits

Expire(c) ==
  /\ Expires(c)
  /\ order' = [order EXCEPT ![c] = NoOrder]
  /\ UNCHANGED <<market, plan, checked, held, torn>>

-----------------------------------------------------------------------------
(* Time and the candle cache                                               *)

\* A daily close.  The first fetch of the day is kept until the next: a coin
\* whose candle is late stays a day further behind.
NewDay(late) ==
  /\ \A c \in late : lag[c] < MaxLag
  /\ lag' = [c \in Coins |-> IF c \in late THEN lag[c] + 1 ELSE 0]
  /\ \E close \in [Coins -> Sides] :
       seen' = [c \in Coins |-> IF c \in late THEN seen[c] ELSE close[c]]
  /\ checked' = Least(checked + 1, MaxLag + 1)
  /\ made' = IF planned THEN Least(made + 1, Weekly) ELSE 0
  /\ validated' = IF planned THEN Least(validated + 1, Valid + 1) ELSE 0
  /\ UNCHANGED <<planned, covered, weight, eligible, book, torn>>

Late == IF "late" \in Failures THEN SUBSET Coins ELSE {{}}

\* A restart forgets the cache, and fetches candles that have arrived since.
Restart ==
  /\ "restart" \in Failures
  /\ \E fresh \in (SUBSET {c \in Coins : lag[c] > 0}) \ {{}}, close \in [Coins -> Sides] :
       /\ lag' = [c \in Coins |-> IF c \in fresh THEN 0 ELSE lag[c]]
       /\ seen' = [c \in Coins |-> IF c \in fresh THEN close[c] ELSE seen[c]]
  /\ UNCHANGED <<plan, checked, book, torn>>

Next ==
  \/ \E present \in Present :
       \/ \E placed \in SUBSET present : Cycle(present, placed)
       \/ TornCheck(present)
       \/ TornPlan(present)
  \/ \E c \in Coins : Expire(c) \/ \E qty \in 1..Lots : Fill(c, qty)
  \/ \E late \in Late : NewDay(late)
  \/ Restart

\* A cycle sells the coin at the bid; such an order is filled.
Sell(c) == \E placed \in SUBSET Coins :
  c \in placed /\ Cycle(Coins, placed) /\ order'[c].side = "sell" /\ ~order'[c].waits
Sold(c) == order[c].side = "sell" /\ ~order[c].waits /\ Fill(c, order[c].qty)

\* Days pass and old orders expire.  Days on which every candle is in time
\* recur.  Of the cycles that may sell a coin not all fail, are vetoed or only
\* try a passive price (that is tried once per plan), and of the sells at the
\* bid, which each cycle renews, not all stay unfilled.
Fairness ==
  /\ WF_vars(\E late \in Late : NewDay(late))
  /\ SF_vars(NewDay({}))
  /\ \A c \in Coins : SF_vars(Sell(c)) /\ SF_vars(Sold(c)) /\ WF_vars(Expire(c))

Spec == Init /\ [][Next]_vars
FairSpec == Spec /\ Fairness

-----------------------------------------------------------------------------
(* Properties                                                              *)

Places(c, side) == order[c].side # side /\ order'[c].side = side

\* A buy is sent only for a coin that was in trend at the last close of its
\* own candles: across late candles, coins missing from cycles, examinations
\* of an older close than the last, and restarts.  Only a plan whose
\* examination was cut short may be out of date.
BuysFollowTrend ==
  [][\A c \in Coins : Places(c, "buy") =>
       torn' \/ seen[c] = "above" \/ (seen[c] = "near" /\ c \in eligible')]_vars

\* "never plan without data for a held coin (it would get weight 0 and be
\* sold by mistake)" (manager.py:268): the manager gives up a coin only when
\* it left its trend at the last close of its candles.
NoMistakenSell ==
  [][\A c \in Coins : Places(c, "sell") /\ weight'[c] = 0 => torn' \/ ~InTrend(c)]_vars

\* "at every new daily close the recommendation is computed again; when a coin
\* enters or leaves the trend [...] a new plan is made at once"
\* (docs/portfolio_manager.md:70): the examination of a close gives every held
\* coin that is out of trend a target of zero.
Examined == checked' # checked /\ planned' /\ validated' = 0 /\ ~torn'

ExitsPlanned ==
  [][\A c \in Coins :
       Examined /\ held[c] > 0 /\ ~InTrend(c) => c \in covered' /\ weight'[c] = 0]_vars

\* Plans that follow one another never commit more than the capital, although
\* the buys of an older plan are still open when the next one buys.
Affordable ==
  MapThenSumSet(LAMBDA c : held[c], Coins)
    + MapThenSumSet(LAMBDA c : order[c].qty, Open("buy")) <= Lots

\* A coin that stays below its trend line is in the end no longer held.
ExitsHappen ==
  \A c \in Coins : <>[](seen[c] = "below") => <>[](held[c] = 0)
=============================================================================
