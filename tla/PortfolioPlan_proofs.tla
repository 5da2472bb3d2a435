------------------------ MODULE PortfolioPlan_proofs ------------------------
(***************************************************************************)
(* For every whitelist, every schedule and every failure, the manager buys *)
(* only what is in trend at the last close of the coin's own candles; and  *)
(* as long as no coin that is not held is missing from a cycle, it gives   *)
(* up a coin only when that left its trend, and then always.               *)
(*                                                                         *)
(* A plan is read long after it was made, so the invariants relate it to   *)
(* the candles of now: a coin's eligibility is that of the close which was *)
(* examined, and candles that are as old as that close are those that were *)
(* examined.                                                               *)
(***************************************************************************)
EXTENDS PortfolioPlan, SetSums, FiniteSetTheorems, TLAPS

USE PlanAssumption

-----------------------------------------------------------------------------
(* Target weights                                                          *)

\* A share of the capital is positive and no more than all of it.
LEMMA Share ==
  ASSUME NEW n \in Nat, 1 <= n, n <= Lots
  PROVE  Lots \div n \in 1..Lots
<1> DEFINE q == Lots \div n
<1>1. q \in Int /\ n * q <= Lots /\ Lots < n * (q + 1)
  BY SMT
<1>2. q >= 1
  BY <1>1, SMT
<1>3. q <= Lots
  BY <1>1, <1>2, SMT
<1> QED
  BY <1>1, <1>2, <1>3, SMT

\* Exactly the coins in trend have a weight.
LEMMA WeightsShared ==
  ASSUME NEW coins \in SUBSET Coins
  PROVE  /\ Weights(coins) \in [Coins -> 0..Lots]
         /\ \A c \in Coins : Weights(coins)[c] > 0 <=> c \in coins
<1>1. IsFiniteSet(coins) /\ Cardinality(coins) \in Nat /\ Cardinality(coins) <= Lots
  BY FS_Subset, FS_CardinalityType
<1>2. ASSUME NEW c \in coins
      PROVE  Lots \div Cardinality(coins) \in 1..Lots
  BY <1>1, FS_EmptySet, Share
<1> QED
  BY <1>2 DEF Weights

\* A recommended plan shares out the slots.
LEMMA RecommendedShared ==
  ASSUME NEW present \in SUBSET Coins
  PROVE  /\ Trending(present) \in SUBSET Coins
         /\ Recommended(present) \in [Coins -> 0..Lots]
         /\ \A c \in Coins : Recommended(present)[c] > 0 <=> c \in Trending(present)
<1>1. Trending(present) \in SUBSET Coins
  BY DEF Trending
<1> QED
  BY <1>1, WeightsShared DEF Recommended

\* The close that is examined is the last one of every coin that is present.
LEMMA SameClose ==
  ASSUME TypeOK, NEW present \in SUBSET Coins, Complete(present)
  PROVE  /\ LastClose(present) \in 0..MaxLag
         /\ \A c \in present : lag[c] = LastClose(present)
<1>1. (CHOOSE c \in present : TRUE) \in present
  BY DEF Complete
<1> QED
  BY <1>1 DEF Complete, LastClose, TypeOK

-----------------------------------------------------------------------------
(* Type correctness                                                        *)

\* What a buy may still bring fits into the capital.
BuysFit == \A c \in Coins : order[c].side = "buy" => held[c] + order[c].qty <= Lots

TypeInv == TypeOK /\ BuysFit

\* The plan of a cycle is well typed.
LEMMA PlanTyped ==
  ASSUME TypeOK, NEW present \in SUBSET Coins, Complete(present), Plan(present)
  PROVE  /\ planned' \in BOOLEAN /\ covered' \subseteq Coins /\ weight' \in [Coins -> 0..Lots]
         /\ eligible' \subseteq Coins /\ made' \in 0..Weekly /\ validated' \in 0..(Valid + 1)
         /\ checked' \in 0..(MaxLag + 1) /\ torn' \in BOOLEAN
<1>1. CASE Due \/ NewClose(present)
  <2>1. IF Due \/ Changed(present) THEN MakePlan(present) ELSE Revalidate(present)
    BY <1>1, Zenon DEF Plan
  <2>2. checked' = LastClose(present) /\ torn' = FALSE
    BY <1>1, Zenon DEF Plan
  <2>3. checked' \in 0..(MaxLag + 1) /\ torn' \in BOOLEAN
    <3>1. checked' \in 0..(MaxLag + 1)
      BY <2>2, SameClose
    <3>2. torn' \in BOOLEAN
      BY <2>2, Zenon
    <3> QED
      BY <3>1, <3>2
  <2>4. CASE Due \/ Changed(present)
    <3>1. MakePlan(present)
      BY <2>1, <2>4
    <3> QED
      BY <2>3, <3>1, RecommendedShared DEF MakePlan
  <2>5. CASE ~(Due \/ Changed(present))
    <3>1. Revalidate(present)
      BY <2>1, <2>5
    <3> QED
      BY <2>3, <3>1, RecommendedShared DEF Revalidate, TypeOK
  <2> QED
    BY <2>4, <2>5
<1>2. CASE ~(Due \/ NewClose(present))
  BY <1>2 DEF Plan, plan, TypeOK
<1> QED
  BY <1>1, <1>2

\* The orders of a cycle: a sell takes no more than is held, a buy no more
\* than is missing.
LEMMA OrdersTyped ==
  ASSUME TypeInv, NEW present \in SUBSET Coins, NEW placed \in SUBSET present,
         Trade(present, placed), weight' \in [Coins -> 0..Lots], held' = held
  PROVE  order' \in [Coins -> Order] /\ BuysFit'
<1> USE DEF TypeInv, BuysFit
<1>1. CASE validated' > Valid
  BY <1>1 DEF Trade, TypeOK
<1>2. CASE ~(validated' > Valid)
  <2>1. PICK qty \in [placed -> 1..Lots], waits \in BOOLEAN :
          /\ placed \subseteq Sells(present) \cup Buys(present)
          /\ \A c \in placed : qty[c] \in Quantities(c, present)
          /\ order' = [c \in Coins |->
               IF c \notin placed THEN order[c]
               ELSE IF c \in Sells(present)
                 THEN [side |-> "sell", qty |-> qty[c], waits |-> waits]
                 ELSE [side |-> "buy", qty |-> qty[c], waits |-> FALSE]]
    BY <1>2 DEF Trade
  <2>2. ASSUME NEW c \in Coins
        PROVE  /\ order'[c] \in Order
               /\ order'[c].side = "buy" => held[c] + order'[c].qty <= Lots
    <3>1. CASE c \notin placed
      BY <2>1, <3>1 DEF TypeOK
    <3>2. CASE c \in placed /\ c \in Sells(present)
      BY <2>1, <3>2 DEF Order
    <3>3. CASE c \in placed /\ c \notin Sells(present)
      <4>1. qty[c] \in 1..Delta(c) /\ qty[c] \in 1..Lots
        BY <2>1, <3>3 DEF Quantities
      <4>2. Pending(c) \in 0..Lots /\ held[c] \in 0..Lots /\ weight'[c] \in 0..Lots
        BY DEF Pending, TypeOK, Order
      <4>3. held[c] + qty[c] <= Lots
        BY <4>1, <4>2 DEF Delta
      <4> QED
        BY <2>1, <3>3, <4>1, <4>3 DEF Order
    <3> QED
      BY <3>1, <3>2, <3>3
  <2> QED
    BY <2>1, <2>2
<1> QED
  BY <1>1, <1>2

\* A cycle keeps the types.
LEMMA CycleTyped ==
  ASSUME TypeInv, NEW present \in SUBSET Coins, NEW placed \in SUBSET present,
         Cycle(present, placed)
  PROVE  TypeInv'
<1>1. Complete(present) /\ Plan(present) /\ Trade(present, placed) /\ UNCHANGED <<market, held>>
  BY DEF Cycle
<1>2. TypeOK
  BY DEF TypeInv
<1>3. /\ planned' \in BOOLEAN /\ covered' \subseteq Coins /\ weight' \in [Coins -> 0..Lots]
      /\ eligible' \subseteq Coins /\ made' \in 0..Weekly /\ validated' \in 0..(Valid + 1)
      /\ checked' \in 0..(MaxLag + 1) /\ torn' \in BOOLEAN
  BY <1>1, <1>2, PlanTyped
<1>4. order' \in [Coins -> Order] /\ BuysFit'
  BY <1>1, <1>3, OrdersTyped
<1> QED
  BY <1>1, <1>2, <1>3, <1>4 DEF TypeInv, TypeOK, market

\* A fill keeps the types.
LEMMA FillTyped ==
  ASSUME TypeInv, NEW c \in Coins, NEW qty \in 1..Lots, Fill(c, qty)
  PROVE  TypeInv'
<1> USE DEF TypeInv, BuysFit, TypeOK, Fill
<1>1. held[c] \in 0..Lots /\ order[c].qty \in 0..Lots /\ qty <= order[c].qty /\ order[c] \in Order
  BY DEF Order
<1>2. PICK waits \in BOOLEAN :
        order'[c] = IF qty = order[c].qty THEN NoOrder
                    ELSE [side |-> order[c].side, qty |-> order[c].qty - qty, waits |-> waits]
  <2>1. PICK waits \in {FALSE, order[c].waits} :
          order' = [order EXCEPT ![c] = IF qty = @.qty THEN NoOrder
                                        ELSE [side |-> @.side, qty |-> @.qty - qty, waits |-> waits]]
    BY Zenon
  <2>2. waits \in BOOLEAN
    BY <1>1 DEF Order
  <2>3. order \in [Coins -> Order]
    OBVIOUS
  <2> HIDE DEF TypeInv, BuysFit, TypeOK, Fill
  <2>4. order'[c] = IF qty = order[c].qty THEN NoOrder
                    ELSE [side |-> order[c].side, qty |-> order[c].qty - qty, waits |-> waits]
    BY <2>1, <2>3
  <2>5. QED
    BY <2>2, <2>4, Zenon
<1>3. order'[c] \in Order
  <2>1. CASE qty = order[c].qty
    BY <1>2, <2>1 DEF Order, NoOrder
  <2>2. CASE qty # order[c].qty
    <3>1. order[c].qty - qty \in 0..Lots /\ order[c].side \in {"none", "buy", "sell"}
      BY <1>1 DEF Order
    <3> QED
      BY <1>2, <2>2, <3>1 DEF Order
  <2> QED
    BY <2>1, <2>2
<1>4. CASE order[c].side = "buy"
  <2>1. held' = [held EXCEPT ![c] = @ + qty] /\ held[c] + qty \in 0..Lots
    BY <1>1, <1>4
  <2>2. order'[c].side = "buy" => held'[c] + order'[c].qty <= Lots
    <3>1. held'[c] = held[c] + qty
      BY <2>1
    <3>2. order'[c].side = "buy" => order'[c].qty = order[c].qty - qty
      BY <1>2 DEF NoOrder
    <3> QED
      BY <1>1, <1>4, <3>1, <3>2
  <2> QED
    BY <1>3, <2>1, <2>2 DEF market, plan
<1>5. CASE order[c].side # "buy"
  <2>1. held' = [held EXCEPT ![c] = @ - Least(qty, @)] /\ held[c] - Least(qty, held[c]) \in 0..Lots
    BY <1>1, <1>5 DEF Least
  <2>2. order'[c].side # "buy"
    BY <1>5, <1>2 DEF NoOrder
  <2> QED
    BY <1>3, <2>1, <2>2 DEF market, plan
<1> QED
  BY <1>4, <1>5

\* Every step keeps the types.
LEMMA TypeStep ==
  ASSUME TypeInv, [Next]_vars
  PROVE  TypeInv'
<1> USE DEF TypeInv, BuysFit
<1>1. ASSUME NEW present \in Present, NEW placed \in SUBSET present, Cycle(present, placed)
      PROVE  TypeInv'
  BY <1>1, CycleTyped DEF Present
<1>2. ASSUME NEW present \in Present, TornCheck(present)
      PROVE  TypeInv'
  <2>1. present \in SUBSET Coins /\ Complete(present) /\ TypeOK
    BY <1>2 DEF Present, TornCheck
  <2>2. LastClose(present) \in 0..MaxLag
    BY <2>1, SameClose
  <2>3. checked' \in 0..(MaxLag + 1)
    BY <1>2, <2>2 DEF TornCheck
  <2> QED
    BY <1>2, <2>3 DEF TornCheck, TypeOK, market, plan, book
<1>3. ASSUME NEW present \in Present, TornPlan(present)
      PROVE  TypeInv'
  <2>1. present \in SUBSET Coins
    BY DEF Present
  <2>2. Trending(present) \in SUBSET Coins /\ Recommended(present) \in [Coins -> 0..Lots]
    BY <2>1, RecommendedShared
  <2> QED
    BY <1>3, <2>1, <2>2 DEF TornPlan, MakePlan, TypeOK, market, book
<1>4. ASSUME NEW c \in Coins, Expire(c)
      PROVE  TypeInv'
  BY <1>4 DEF Expire, TypeOK, Order, NoOrder, market, plan
<1>5. ASSUME NEW c \in Coins, NEW qty \in 1..Lots, Fill(c, qty)
      PROVE  TypeInv'
  BY <1>5, FillTyped
<1>6. ASSUME NEW late \in Late, NewDay(late)
      PROVE  TypeInv'
  BY <1>6 DEF NewDay, Late, Least, TypeOK, book
<1>7. CASE Restart
  BY <1>7 DEF Restart, TypeOK, plan, book
<1>8. CASE UNCHANGED vars
  BY <1>8 DEF vars, market, plan, book, TypeOK
<1> QED
  BY <1>1, <1>2, <1>3, <1>4, <1>5, <1>6, <1>7, <1>8 DEF Next

\* The types hold at the start.
LEMMA TypeInit == Init => TypeInv
<1> SUFFICES ASSUME Init PROVE TypeInv
  OBVIOUS
<1>1. NoOrder \in Order /\ NoOrder.side # "buy"
  BY DEF Order, NoOrder
<1>2. planned \in BOOLEAN /\ torn \in BOOLEAN
  BY Zenon DEF Init
<1> QED
  BY <1>1, <1>2 DEF Init, TypeInv, TypeOK, BuysFit

\* Every reachable state is well typed, and no buy that is open can take a
\* coin's holding beyond the capital.
THEOREM TypeCorrect == Spec => []TypeInv
<1>1. TypeInv /\ [Next]_vars => TypeInv'
  BY TypeStep
<1> QED
  BY <1>1, TypeInit, PTL DEF Spec

-----------------------------------------------------------------------------
(* The plan and the candles of now                                         *)

\* Only coins that were in trend have a weight.
WeightKnown == \A c \in Coins : weight[c] > 0 => c \in eligible

\* Candles that are as old as the close that was examined are the candles
\* that were examined; those of an eligible coin are not older.
EligibleKnown ==
  ~torn => \A c \in eligible : lag[c] <= checked /\ (lag[c] = checked => seen[c] # "below")

FollowInv == TypeInv /\ WeightKnown /\ EligibleKnown

\* The two outcomes of the first part of propose.
LEMMA PlanCases ==
  ASSUME NEW present \in SUBSET Coins, Plan(present)
  PROVE  \/ /\ Due \/ NewClose(present)
            /\ MakePlan(present) \/ (weight = Recommended(present) /\ Revalidate(present))
            /\ checked' = LastClose(present)
            /\ torn' = FALSE
         \/ /\ planned /\ checked = LastClose(present)
            /\ UNCHANGED <<plan, checked, torn>>
<1>1. CASE Due \/ NewClose(present)
  <2>1. CASE Due \/ Changed(present)
    BY <1>1, <2>1, Zenon DEF Plan
  <2>2. CASE ~(Due \/ Changed(present))
    BY <1>1, <2>2, Zenon DEF Plan, Changed
  <2> QED
    BY <2>1, <2>2
<1>2. CASE ~(Due \/ NewClose(present))
  BY <1>2, Zenon DEF Plan, Due, NewClose
<1> QED
  BY <1>1, <1>2

\* What an examination leaves behind.
LEMMA ExaminedPlan ==
  ASSUME NEW present \in SUBSET Coins, WeightKnown,
         MakePlan(present) \/ (weight = Recommended(present) /\ Revalidate(present))
  PROVE  /\ eligible' = Trending(present)
         /\ \A c \in Coins : weight'[c] > 0 <=> c \in Trending(present)
<1>1. CASE MakePlan(present)
  BY <1>1, RecommendedShared DEF MakePlan
<1>2. CASE weight = Recommended(present) /\ Revalidate(present)
  BY <1>2, RecommendedShared DEF Revalidate
<1> QED
  BY <1>1, <1>2

\* A cycle keeps what buys rely on.
LEMMA CycleFollow ==
  ASSUME FollowInv, NEW present \in SUBSET Coins, NEW placed \in SUBSET present,
         Cycle(present, placed)
  PROVE  WeightKnown' /\ EligibleKnown'
<1>1. Complete(present) /\ Plan(present) /\ UNCHANGED <<lag, seen>> /\ TypeOK /\ WeightKnown
  BY DEF Cycle, market, FollowInv, TypeInv
<1>2. CASE /\ MakePlan(present) \/ (weight = Recommended(present) /\ Revalidate(present))
           /\ checked' = LastClose(present)
  <2>1. /\ eligible' = Trending(present)
        /\ \A c \in Coins : weight'[c] > 0 <=> c \in Trending(present)
    BY <1>1, <1>2, ExaminedPlan
  <2>2. \A c \in present : lag[c] = checked' /\ lag[c] \in 0..MaxLag
    BY <1>1, <1>2, SameClose
  <2> QED
    BY <1>1, <2>1, <2>2 DEF Trending, InTrend, WeightKnown, EligibleKnown
<1>3. CASE UNCHANGED <<plan, checked, torn>>
  BY <1>1, <1>3 DEF FollowInv, WeightKnown, EligibleKnown, plan
<1> QED
  BY <1>1, <1>2, <1>3, PlanCases

\* A day makes every candle and the examined close a day older.
LEMMA DayFollow ==
  ASSUME TypeOK, EligibleKnown, NEW late \in Late, NewDay(late)
  PROVE  EligibleKnown'
<1>1. SUFFICES ASSUME ~torn, NEW c \in eligible
               PROVE  lag'[c] <= checked' /\ (lag'[c] = checked' => seen'[c] # "below")
  BY DEF NewDay, EligibleKnown
<1>2. c \in Coins /\ lag[c] \in 0..MaxLag /\ checked \in 0..(MaxLag + 1)
  BY DEF TypeOK
<1>3. lag[c] <= checked /\ (lag[c] = checked => seen[c] # "below")
  BY <1>1 DEF EligibleKnown
<1>4. CASE c \in late
  BY <1>2, <1>3, <1>4 DEF NewDay, Least
<1>5. CASE c \notin late
  BY <1>2, <1>5 DEF NewDay, Least
<1> QED
  BY <1>4, <1>5

\* Every step keeps it.
LEMMA FollowStep ==
  ASSUME FollowInv, [Next]_vars
  PROVE  FollowInv'
<1>1. TypeInv'
  BY TypeStep DEF FollowInv
<1>2. WeightKnown' /\ EligibleKnown'
  <2> USE DEF FollowInv, TypeInv
  <2>1. ASSUME NEW present \in Present, NEW placed \in SUBSET present, Cycle(present, placed)
        PROVE  WeightKnown' /\ EligibleKnown'
    BY <2>1, CycleFollow DEF Present
  <2>2. ASSUME NEW present \in Present, TornCheck(present)
        PROVE  WeightKnown' /\ EligibleKnown'
    BY <2>2 DEF TornCheck, WeightKnown, EligibleKnown, plan
  <2>3. ASSUME NEW present \in Present, TornPlan(present)
        PROVE  WeightKnown' /\ EligibleKnown'
    BY <2>3, ExaminedPlan DEF TornPlan, WeightKnown, EligibleKnown, Present
  <2>4. ASSUME NEW c \in Coins, Expire(c)
        PROVE  WeightKnown' /\ EligibleKnown'
    BY <2>4 DEF Expire, WeightKnown, EligibleKnown, market, plan
  <2>5. ASSUME NEW c \in Coins, NEW qty \in 1..Lots, Fill(c, qty)
        PROVE  WeightKnown' /\ EligibleKnown'
    BY <2>5 DEF Fill, WeightKnown, EligibleKnown, market, plan
  <2>6. ASSUME NEW late \in Late, NewDay(late)
        PROVE  WeightKnown' /\ EligibleKnown'
    BY <2>6, DayFollow DEF NewDay, WeightKnown
  <2>7. CASE Restart
    BY <2>7 DEF Restart, WeightKnown, EligibleKnown, TypeOK, plan
  <2>8. CASE UNCHANGED vars
    BY <2>8 DEF vars, market, plan, WeightKnown, EligibleKnown
  <2> QED
    BY <2>1, <2>2, <2>3, <2>4, <2>5, <2>6, <2>7, <2>8 DEF Next
<1> QED
  BY <1>1, <1>2 DEF FollowInv

\* It holds at the start.
LEMMA FollowInit == Init => FollowInv
BY TypeInit DEF Init, FollowInv, WeightKnown, EligibleKnown

\* A buy is for a coin with a weight.
LEMMA BuyWeighed ==
  ASSUME TypeOK, NEW present \in SUBSET Coins, NEW placed \in SUBSET present,
         Trade(present, placed), weight' \in [Coins -> 0..Lots],
         NEW c \in Coins, Places(c, "buy")
  PROVE  c \in present /\ weight'[c] > 0
<1>1. c \in placed /\ c \in Buys(present)
  <2>1. ~(validated' > Valid)
    BY DEF Trade, Places
  <2>2. PICK qty \in [placed -> 1..Lots], waits \in BOOLEAN :
          /\ placed \subseteq Sells(present) \cup Buys(present)
          /\ order' = [d \in Coins |->
               IF d \notin placed THEN order[d]
               ELSE IF d \in Sells(present)
                 THEN [side |-> "sell", qty |-> qty[d], waits |-> waits]
                 ELSE [side |-> "buy", qty |-> qty[d], waits |-> FALSE]]
    BY <2>1 DEF Trade
  <2>3. c \in placed
    BY <2>2 DEF Places
  <2>4. c \notin Sells(present)
    BY <2>2, <2>3 DEF Places
  <2> QED
    BY <2>2, <2>3, <2>4
<1>2. Delta(c) > 0
  BY <1>1 DEF Buys
<1>3. held[c] \in Nat /\ Pending(c) \in Nat /\ weight'[c] \in Nat
  BY DEF TypeOK, Pending, Order
<1> QED
  BY <1>1, <1>2, <1>3 DEF Delta

\* A step that places an order is a cycle's.
LEMMA OnlyCyclesPlace ==
  ASSUME [Next]_vars, NEW c \in Coins, NEW side \in {"buy", "sell"}, Places(c, side)
  PROVE  \E present \in Present : \E placed \in SUBSET present : Cycle(present, placed)
<1>1. ASSUME NEW present \in Present, TornCheck(present) \/ TornPlan(present)
      PROVE  FALSE
  BY <1>1 DEF TornCheck, TornPlan, book, Places
<1>2. ASSUME NEW d \in Coins, Expire(d)
      PROVE  FALSE
  BY <1>2 DEF Expire, NoOrder, Places
<1>3. ASSUME NEW d \in Coins, NEW qty \in 1..Lots, Fill(d, qty)
      PROVE  FALSE
  BY <1>3 DEF Fill, NoOrder, Places
<1>4. ASSUME NEW late \in Late, NewDay(late)
      PROVE  FALSE
  BY <1>4 DEF NewDay, book, Places
<1>5. CASE Restart \/ UNCHANGED vars
  BY <1>5 DEF Restart, vars, book, Places
<1> QED
  BY <1>1, <1>2, <1>3, <1>4, <1>5 DEF Next

\* A buy is sent only for a coin that was in trend at the last close of its
\* own candles, with every failure but an examination cut short.
THEOREM BuysFollowTheTrend == Spec => BuysFollowTrend
<1>1. ASSUME FollowInv, [Next]_vars, NEW c \in Coins, Places(c, "buy")
      PROVE  torn' \/ seen[c] = "above" \/ (seen[c] = "near" /\ c \in eligible')
  <2>1. PICK present \in Present : \E placed \in SUBSET present : Cycle(present, placed)
    BY <1>1, OnlyCyclesPlace
  <2>2. PICK placed \in SUBSET present : Cycle(present, placed)
    BY <2>1
  <2>3. /\ present \in SUBSET Coins /\ Complete(present) /\ Plan(present) /\ Trade(present, placed)
        /\ TypeOK /\ WeightKnown /\ EligibleKnown
    BY <1>1, <2>2 DEF Cycle, Present, FollowInv, TypeInv
  <2>4. c \in present /\ weight'[c] > 0
    BY <1>1, <2>3, PlanTyped, BuyWeighed
  <2>5. CASE MakePlan(present) \/ (weight = Recommended(present) /\ Revalidate(present))
    BY <2>3, <2>4, <2>5, ExaminedPlan DEF Trending, InTrend
  <2>6. CASE /\ checked = LastClose(present)
             /\ UNCHANGED <<plan, checked, torn>>
    <3>1. c \in eligible /\ eligible' = eligible
      BY <2>3, <2>4, <2>6 DEF WeightKnown, plan
    <3>2. lag[c] = checked
      BY <2>3, <2>4, <2>6, SameClose
    <3>3. seen[c] \in Sides
      BY <2>3 DEF TypeOK
    <3> QED
      BY <2>3, <2>6, <3>1, <3>2, <3>3 DEF EligibleKnown, Sides
  <2> QED
    BY <2>3, <2>5, <2>6, PlanCases
<1>2. FollowInv /\ [Next]_vars => FollowInv'
  BY FollowStep
<1>3. FollowInv /\ [Next]_vars =>
        [\A c \in Coins : Places(c, "buy") =>
           torn' \/ seen[c] = "above" \/ (seen[c] = "near" /\ c \in eligible')]_vars
  BY <1>1
<1> QED
  BY <1>2, <1>3, FollowInit, PTL DEF Spec, BuysFollowTrend

-----------------------------------------------------------------------------
(* Without coins missing from a cycle                                      *)

\* The plan covers the whitelist, and what it says of a coin is complete.
CoverKnown == (planned => covered = Coins) /\ (\A c \in eligible : weight[c] > 0)

\* Candles as old as the examined close are those that were examined, of a
\* coin that was not in trend too; no candles are older.
CandlesKnown ==
  planned /\ ~torn =>
    \A c \in Coins : lag[c] <= checked /\ (lag[c] = checked /\ c \notin eligible => seen[c] # "above")

ExitInv == FollowInv /\ CoverKnown /\ CandlesKnown

\* A cycle keeps what exits rely on.
LEMMA CycleExit ==
  ASSUME ExitInv, NEW placed \in SUBSET Coins, Cycle(Coins, placed)
  PROVE  CoverKnown' /\ CandlesKnown'
<1>1. /\ Complete(Coins) /\ Plan(Coins) /\ UNCHANGED <<lag, seen>>
      /\ TypeOK /\ WeightKnown /\ CoverKnown /\ CandlesKnown
  BY DEF Cycle, market, ExitInv, FollowInv, TypeInv
<1>2. CASE /\ Due \/ NewClose(Coins)
           /\ MakePlan(Coins) \/ (weight = Recommended(Coins) /\ Revalidate(Coins))
           /\ checked' = LastClose(Coins)
  <2>1. /\ eligible' = Trending(Coins)
        /\ \A c \in Coins : weight'[c] > 0 <=> c \in Trending(Coins)
    BY <1>1, <1>2, ExaminedPlan
  <2>2. \A c \in Coins : lag[c] = checked' /\ lag[c] \in 0..MaxLag
    BY <1>1, <1>2, SameClose
  <2>3. planned' => covered' = Coins
    BY <1>1, <1>2 DEF MakePlan, Revalidate, CoverKnown
  <2>4. CoverKnown'
    BY <2>1, <2>3 DEF CoverKnown, Trending
  <2>5. CandlesKnown'
    BY <1>1, <2>1, <2>2 DEF CandlesKnown, Trending, InTrend
  <2> QED
    BY <2>4, <2>5
<1>3. CASE UNCHANGED <<plan, checked, torn>>
  BY <1>1, <1>3 DEF CoverKnown, CandlesKnown, plan
<1> QED
  BY <1>1, <1>2, <1>3, PlanCases

\* A new day keeps it.
LEMMA DayExit ==
  ASSUME TypeOK, CandlesKnown, NEW late \in Late, NewDay(late)
  PROVE  CandlesKnown'
<1>1. SUFFICES ASSUME planned, ~torn, NEW c \in Coins
               PROVE  /\ lag'[c] <= checked'
                      /\ lag'[c] = checked' /\ c \notin eligible => seen'[c] # "above"
  BY DEF NewDay, CandlesKnown
<1>2. lag[c] \in 0..MaxLag /\ checked \in 0..(MaxLag + 1)
  BY DEF TypeOK
<1>3. lag[c] <= checked /\ (lag[c] = checked /\ c \notin eligible => seen[c] # "above")
  BY <1>1 DEF CandlesKnown
<1>4. CASE c \in late
  BY <1>2, <1>3, <1>4 DEF NewDay, Least
<1>5. CASE c \notin late
  BY <1>2, <1>5 DEF NewDay, Least
<1> QED
  BY <1>4, <1>5

\* Every step keeps it.
LEMMA ExitStep ==
  ASSUME "fetch" \notin Failures, ExitInv, [Next]_vars
  PROVE  ExitInv'
<1>1. FollowInv'
  BY FollowStep DEF ExitInv
<1>2. CoverKnown' /\ CandlesKnown'
  <2> USE DEF ExitInv, FollowInv, TypeInv
  <2>1. ASSUME NEW present \in Present, NEW placed \in SUBSET present, Cycle(present, placed)
        PROVE  CoverKnown' /\ CandlesKnown'
    BY <2>1, CycleExit DEF Present
  <2>2. ASSUME NEW present \in Present, TornCheck(present)
        PROVE  CoverKnown' /\ CandlesKnown'
    BY <2>2 DEF TornCheck, CoverKnown, CandlesKnown, plan
  <2>3. ASSUME NEW present \in Present, TornPlan(present)
        PROVE  CoverKnown' /\ CandlesKnown'
    <3>1. present = Coins
      BY DEF Present
    <3>2. /\ eligible' = Trending(Coins)
          /\ \A c \in Coins : weight'[c] > 0 <=> c \in Trending(Coins)
      BY <2>3, <3>1, ExaminedPlan DEF TornPlan
    <3> QED
      BY <2>3, <3>1, <3>2 DEF TornPlan, MakePlan, CoverKnown, CandlesKnown, Trending
  <2>4. ASSUME NEW c \in Coins, Expire(c)
        PROVE  CoverKnown' /\ CandlesKnown'
    BY <2>4 DEF Expire, CoverKnown, CandlesKnown, market, plan
  <2>5. ASSUME NEW c \in Coins, NEW qty \in 1..Lots, Fill(c, qty)
        PROVE  CoverKnown' /\ CandlesKnown'
    BY <2>5 DEF Fill, CoverKnown, CandlesKnown, market, plan
  <2>6. ASSUME NEW late \in Late, NewDay(late)
        PROVE  CoverKnown' /\ CandlesKnown'
    BY <2>6, DayExit DEF NewDay, CoverKnown
  <2>7. CASE Restart
    BY <2>7 DEF Restart, CoverKnown, CandlesKnown, TypeOK, plan
  <2>8. CASE UNCHANGED vars
    BY <2>8 DEF vars, market, plan, CoverKnown, CandlesKnown
  <2> QED
    BY <2>1, <2>2, <2>3, <2>4, <2>5, <2>6, <2>7, <2>8 DEF Next
<1> QED
  BY <1>1, <1>2 DEF ExitInv

\* It holds at the start.
LEMMA ExitInit == Init => ExitInv
BY FollowInit DEF Init, ExitInv, CoverKnown, CandlesKnown

\* While no coin is missing from a cycle, the manager gives up a coin only
\* when it left its trend at the last close of its candles.
THEOREM NothingSoldByMistake == ASSUME "fetch" \notin Failures PROVE Spec => NoMistakenSell
<1>1. ASSUME ExitInv, [Next]_vars, NEW c \in Coins, Places(c, "sell"), weight'[c] = 0
      PROVE  torn' \/ ~InTrend(c)
  <2>1. PICK present \in Present : \E placed \in SUBSET present : Cycle(present, placed)
    BY <1>1, OnlyCyclesPlace
  <2>2. PICK placed \in SUBSET Coins : Cycle(Coins, placed)
    BY <2>1 DEF Present
  <2>3. /\ Complete(Coins) /\ Plan(Coins)
        /\ TypeOK /\ WeightKnown /\ CoverKnown /\ CandlesKnown
    BY <1>1, <2>2 DEF Cycle, ExitInv, FollowInv, TypeInv
  <2>4. CASE MakePlan(Coins) \/ (weight = Recommended(Coins) /\ Revalidate(Coins))
    BY <1>1, <2>3, <2>4, ExaminedPlan DEF Trending
  <2>5. CASE /\ planned /\ checked = LastClose(Coins)
             /\ UNCHANGED <<plan, checked, torn>>
    <3>1. c \notin eligible
      BY <1>1, <2>3, <2>5 DEF CoverKnown, plan
    <3>2. lag[c] = checked
      BY <2>3, <2>5, SameClose
    <3> QED
      BY <2>3, <2>5, <3>1, <3>2 DEF CandlesKnown, InTrend
  <2> QED
    BY <2>3, <2>4, <2>5, PlanCases
<1>2. ExitInv /\ [Next]_vars => ExitInv'
  BY ExitStep
<1>3. ExitInv /\ [Next]_vars =>
        [\A c \in Coins : Places(c, "sell") /\ weight'[c] = 0 => torn' \/ ~InTrend(c)]_vars
  BY <1>1
<1> QED
  BY <1>2, <1>3, ExitInit, PTL DEF Spec, NoMistakenSell

\* While no coin is missing from a cycle, the examination of a close gives
\* every held coin that left its trend a target of zero.
THEOREM ExitsArePlanned == ASSUME "fetch" \notin Failures PROVE Spec => ExitsPlanned
<1>1. ASSUME ExitInv, [Next]_vars, NEW c \in Coins, Examined, held[c] > 0, ~InTrend(c)
      PROVE  c \in covered' /\ weight'[c] = 0
  <2> USE DEF ExitInv, FollowInv, TypeInv
  <2>1. ASSUME NEW placed \in SUBSET Coins, Cycle(Coins, placed)
        PROVE  c \in covered' /\ weight'[c] = 0
    <3>1. Complete(Coins) /\ Plan(Coins) /\ UNCHANGED <<lag, seen, held>>
      BY <2>1 DEF Cycle, market
    <3>2. MakePlan(Coins) \/ (weight = Recommended(Coins) /\ Revalidate(Coins))
      BY <1>1, <3>1, PlanCases DEF Examined
    <3>3. \A d \in Coins : weight'[d] > 0 <=> d \in Trending(Coins)
      BY <1>1, <3>2, ExaminedPlan
    <3>4. ExitInv'
      BY <1>1, ExitStep
    <3>5. weight'[c] \in Nat
      BY <3>4 DEF TypeOK
    <3>6. covered' = Coins
      BY <1>1, <3>4 DEF Examined, CoverKnown
    <3> QED
      BY <1>1, <3>3, <3>5, <3>6 DEF Trending
  <2>2. ASSUME NEW present \in Present, TornCheck(present) \/ TornPlan(present)
        PROVE  FALSE
    BY <1>1, <2>2 DEF TornCheck, TornPlan, Examined
  <2>3. ASSUME NEW late \in Late, NewDay(late)
        PROVE  FALSE
    BY <1>1, <2>3 DEF NewDay, Examined, TypeOK, Least
  <2>4. CASE \/ \E d \in Coins : Expire(d) \/ \E qty \in 1..Lots : Fill(d, qty)
             \/ Restart \/ UNCHANGED vars
    BY <1>1, <2>4 DEF Expire, Fill, Restart, vars, Examined
  <2> QED
    BY <1>1, <2>1, <2>2, <2>3, <2>4 DEF Next, Present
<1>2. ExitInv /\ [Next]_vars => ExitInv'
  BY ExitStep
<1>3. ExitInv /\ [Next]_vars =>
        [\A c \in Coins :
           Examined /\ held[c] > 0 /\ ~InTrend(c) => c \in covered' /\ weight'[c] = 0]_vars
  BY <1>1
<1> QED
  BY <1>2, <1>3, ExitInit, PTL DEF Spec, ExitsPlanned

-----------------------------------------------------------------------------
(* What the plans commit                                                   *)

\* What each coin takes of the capital: what is held and what a buy may add.
PendingOf(o) == IF o.side = "buy" THEN o.qty ELSE 0
Load(h, o) == [c \in Coins |-> h[c] + PendingOf(o[c])]

\* Unlike the two sums of Affordable this one does not change with a fill.
CommitInv == TypeInv /\ SumOver(Load(held, order), Coins) <= Lots

\* The sums of the model are sums of functions: what is deployed,
LEMMA DeployedSum == Deployed = SumOver(Load(held, order), Coins)
<1> DEFINE w == Load(held, order)
           Here(g) == g = [T \in SUBSET Coins |->
             IF T = {} THEN 0 ELSE held[Chosen(T)] + Pending(Chosen(T)) + g[T \ {Chosen(T)}]]
<1>1. \A T \in SUBSET Coins : T # {} => w[Chosen(T)] = held[Chosen(T)] + Pending(Chosen(T))
  BY ChosenIn DEF Load, PendingOf, Pending
<1>2. ASSUME NEW g PROVE Sums(g, w, Coins) <=> Here(g)
  BY <1>1 DEF Sums
<1>3. (CHOOSE g : Sums(g, w, Coins)) = (CHOOSE g : Here(g))
  BY <1>2
<1>4. SumOver(w, Coins) = (CHOOSE g : Sums(g, w, Coins))[Coins]
  BY DEF SumOver, MapThenSumSet, MapThenFoldSet, Sums, Chosen
<1>5. Deployed = (CHOOSE g : Here(g))[Coins]
  BY DEF Deployed, MapThenSumSet, MapThenFoldSet, Chosen
<1>6. QED
  BY <1>3, <1>4, <1>5

\* and what the open buys may cost.
LEMMA OpenSum ==
  ASSUME NEW S \in SUBSET Coins, NEW w, \A c \in S : w[c] = order[c].qty
  PROVE  MapThenSumSet(LAMBDA c : order[c].qty, S) = SumOver(w, S)
<1> DEFINE Here(g) == g = [T \in SUBSET S |-> IF T = {} THEN 0 ELSE order[Chosen(T)].qty + g[T \ {Chosen(T)}]]
<1>1. \A T \in SUBSET S : T # {} => w[Chosen(T)] = order[Chosen(T)].qty
  BY ChosenIn
<1>2. ASSUME NEW g PROVE Sums(g, w, S) <=> Here(g)
  BY <1>1 DEF Sums
<1>3. (CHOOSE g : Sums(g, w, S)) = (CHOOSE g : Here(g))
  BY <1>2
<1>4. SumOver(w, S) = (CHOOSE g : Sums(g, w, S))[S]
  BY DEF SumOver, MapThenSumSet, MapThenFoldSet, Sums, Chosen
<1>5. MapThenSumSet(LAMBDA c : order[c].qty, S) = (CHOOSE g : Here(g))[S]
  BY DEF MapThenSumSet, MapThenFoldSet, Chosen
<1>6. QED
  BY <1>3, <1>4, <1>5

\* Loads are numbers.
LEMMA LoadTyped ==
  ASSUME NEW h \in [Coins -> 0..Lots], NEW o \in [Coins -> Order]
  PROVE  \A c \in Coins : Load(h, o)[c] = h[c] + PendingOf(o[c]) /\ PendingOf(o[c]) \in Nat /\ h[c] \in Nat
BY DEF Load, PendingOf, Order

\* When no coin takes more than before, neither do all.
LEMMA LoadsFall ==
  ASSUME CommitInv, TypeInv',
         \A c \in Coins : held'[c] + PendingOf(order'[c]) <= held[c] + PendingOf(order[c])
  PROVE  CommitInv'
<1>1. PICK v, w : v = Load(held, order) /\ w = Load(held', order')
  OBVIOUS
<1>2. \A c \in Coins : v[c] \in Int /\ w[c] \in Int /\ w[c] <= v[c]
  BY <1>1, LoadTyped DEF CommitInv, TypeInv, TypeOK
<1>3. SumOver(w, Coins) <= SumOver(v, Coins)
  BY <1>2, SumMonotone
<1>4. SumOver(v, Coins) \in Int /\ SumOver(w, Coins) \in Int
  BY <1>2, SumInt
<1>5. QED
  BY <1>1, <1>3, <1>4 DEF CommitInv

\* Buys fit into what is not deployed; a sell takes the place of a buy.
LEMMA TradeCommits ==
  ASSUME CommitInv, TypeInv', UNCHANGED held,
         NEW present \in SUBSET Coins, NEW placed \in SUBSET present, Trade(present, placed)
  PROVE  CommitInv'
<1>1. /\ held \in [Coins -> 0..Lots] /\ order \in [Coins -> Order] /\ order' \in [Coins -> Order]
      /\ SumOver(Load(held, order), Coins) <= Lots /\ held' = held
  BY DEF CommitInv, TypeInv, TypeOK
<1>2. CASE validated' > Valid
  <2>1. order' = order
    BY <1>2 DEF Trade
  <2>2. QED
    BY <1>1, <2>1 DEF CommitInv
<1>3. CASE ~(validated' > Valid)
  <2>1. PICK qty \in [placed -> 1..Lots], waits \in BOOLEAN :
          /\ placed \subseteq Sells(present) \cup Buys(present)
          /\ \A c \in placed : qty[c] \in Quantities(c, present)
          /\ placed \subseteq Buys(present) =>
               MapThenSumSet(LAMBDA c : qty[c], placed) + Deployed <= Lots
          /\ order' = [c \in Coins |->
               IF c \notin placed THEN order[c]
               ELSE IF c \in Sells(present)
                 THEN [side |-> "sell", qty |-> qty[c], waits |-> waits]
                 ELSE [side |-> "buy", qty |-> qty[c], waits |-> FALSE]]
    BY <1>3 DEF Trade
  <2>2. CASE placed \subseteq Buys(present)
    <3>1. PICK q : q = [c \in Coins |-> IF c \in placed THEN qty[c] ELSE 0]
      OBVIOUS
    <3>2. PICK v, w : v = Load(held, order) /\ w = Load(held', order')
      OBVIOUS
    <3>3. /\ \A c \in Coins : q[c] \in Int /\ (c \notin placed => q[c] = 0)
          /\ \A c \in placed : q[c] = qty[c]
      BY <3>1
    <3>4. \A c \in Coins : v[c] \in Int /\ w[c] = v[c] + q[c]
      <4>1. SUFFICES ASSUME NEW c \in Coins PROVE v[c] \in Int /\ w[c] = v[c] + q[c]
        OBVIOUS
      <4>2. /\ v[c] = held[c] + PendingOf(order[c]) /\ w[c] = held[c] + PendingOf(order'[c])
            /\ held[c] \in Nat /\ PendingOf(order[c]) \in Nat /\ PendingOf(order'[c]) \in Nat
        BY <1>1, <3>2, LoadTyped
      <4>3. CASE c \notin placed
        <5>1. order'[c] = order[c] /\ q[c] = 0
          BY <2>1, <3>3, <4>3
        <5>2. QED
          BY <4>2, <5>1
      <4>4. CASE c \in placed
        <5>1. c \in Buys(present)
          BY <2>2, <4>4
        <5>2. Sells(present) = {} /\ Pending(c) = 0
          BY <5>1 DEF Buys
        <5>3. PendingOf(order[c]) = 0
          BY <5>2 DEF Pending, PendingOf
        <5>4. PendingOf(order'[c]) = qty[c]
          BY <2>1, <4>4, <5>2 DEF PendingOf
        <5>5. QED
          BY <3>3, <4>2, <4>4, <5>3, <5>4
      <4>5. QED
        BY <4>3, <4>4
    <3>5. SumOver(w, Coins) = SumOver(v, Coins) + SumOver(q, Coins)
      BY <3>3, <3>4, SumPlus
    <3>6. SumOver(q, Coins) = SumOver(qty, placed)
      <4>1. placed \in SUBSET Coins /\ IsFiniteSet(placed) /\ \A c \in Coins \ placed : q[c] = 0
        BY <3>3, FS_Subset
      <4>2. SumOver(q, Coins) = SumOver(q, placed)
        BY <3>3, <4>1, SumWithin
      <4>3. SumOver(q, placed) = SumOver(qty, placed)
        BY <3>3, <4>1, SumSame
      <4>4. QED
        BY <4>2, <4>3
    <3>7. SumOver(qty, placed) + SumOver(v, Coins) <= Lots
      <4>1. MapThenSumSet(LAMBDA c : qty[c], placed) + Deployed <= Lots
        BY <2>1, <2>2
      <4>2. QED
        BY <3>2, <4>1, DeployedSum DEF SumOver
    <3>8. SumOver(v, Coins) \in Int /\ SumOver(q, Coins) \in Int
      BY <3>3, <3>4, SumInt
    <3>9. SumOver(w, Coins) <= Lots
      BY <3>5, <3>6, <3>7, <3>8
    <3>10. QED
      BY <3>2, <3>9 DEF CommitInv
  <2>3. CASE ~(placed \subseteq Buys(present))
    <3>1. placed \subseteq Sells(present)
      BY <2>1, <2>3 DEF Buys
    <3>2. ASSUME NEW c \in Coins
          PROVE  held'[c] + PendingOf(order'[c]) <= held[c] + PendingOf(order[c])
      <4>1. held[c] \in Nat /\ PendingOf(order[c]) \in Nat
        BY <1>1, LoadTyped
      <4>2. CASE c \notin placed
        <5>1. order'[c] = order[c]
          BY <2>1, <4>2
        <5>2. QED
          BY <1>1, <4>1, <5>1
      <4>3. CASE c \in placed
        <5>1. PendingOf(order'[c]) = 0
          BY <2>1, <3>1, <4>3 DEF PendingOf
        <5>2. QED
          BY <1>1, <4>1, <5>1
      <4>4. QED
        BY <4>2, <4>3
    <3>3. QED
      BY <3>2, LoadsFall
  <2>4. QED
    BY <2>2, <2>3
<1>4. QED
  BY <1>2, <1>3

\* A fill turns a pending buy into a holding, or sells one.
LEMMA FillCommits ==
  ASSUME CommitInv, TypeInv', NEW c \in Coins, NEW qty \in 1..Lots, Fill(c, qty)
  PROVE  CommitInv'
<1>1. /\ held \in [Coins -> 0..Lots] /\ order \in [Coins -> Order]
      /\ held[c] \in Nat /\ order[c] \in Order /\ order[c].qty \in Nat
  BY DEF CommitInv, TypeInv, TypeOK, Order
<1>2. /\ qty <= order[c].qty
      /\ IF order[c].side = "buy" THEN held' = [held EXCEPT ![c] = @ + qty]
                                  ELSE held' = [held EXCEPT ![c] = @ - Least(qty, @)]
      /\ \E waits \in {FALSE, order[c].waits} :
            order' = [order EXCEPT ![c] =
              IF qty = @.qty THEN NoOrder ELSE [side |-> @.side, qty |-> @.qty - qty, waits |-> waits]]
  <2>1. qty <= order[c].qty
    BY <1>1 DEF Fill
  <2>2. QED
    BY <2>1, Zenon DEF Fill
<1>3. \A d \in Coins : d # c => held'[d] = held[d] /\ order'[d] = order[d]
  BY <1>1, <1>2
<1>4. /\ order'[c].side = "buy" => order[c].side = "buy" /\ order'[c].qty = order[c].qty - qty
      /\ order[c].side = "buy" /\ order'[c].side # "buy" => qty = order[c].qty
  BY <1>1, <1>2 DEF NoOrder
<1>5. held'[c] + PendingOf(order'[c]) <= held[c] + PendingOf(order[c])
  <2>1. CASE order[c].side = "buy"
    <3>1. held'[c] = held[c] + qty
      BY <1>1, <1>2, <2>1
    <3>2. QED
      BY <1>1, <1>2, <1>4, <2>1, <3>1 DEF PendingOf
  <2>2. CASE order[c].side # "buy"
    <3>1. held'[c] = held[c] - Least(qty, held[c])
      BY <1>1, <1>2, <2>2
    <3>2. Least(qty, held[c]) \in Nat
      BY <1>1 DEF Least
    <3>3. QED
      BY <1>1, <1>4, <2>2, <3>1, <3>2 DEF PendingOf
  <2>3. QED
    BY <2>1, <2>2
<1>6. ASSUME NEW d \in Coins
      PROVE  held'[d] + PendingOf(order'[d]) <= held[d] + PendingOf(order[d])
  <2>1. held[d] + PendingOf(order[d]) \in Int
    BY <1>1, LoadTyped
  <2>2. QED
    BY <1>3, <1>5, <2>1
<1>7. QED
  BY <1>6, LoadsFall

\* Plans that follow one another never commit more than the capital, whatever
\* is late, missing, torn or restarted in between.
THEOREM PlansAreAffordable == Spec => []Affordable
<1>1. Init => CommitInv
  <2>1. SUFFICES ASSUME Init PROVE CommitInv
    OBVIOUS
  <2>2. PICK v : v = Load(held, order)
    OBVIOUS
  <2>3. \A c \in Coins : v[c] = 0
    BY <2>1, <2>2 DEF Init, Load, PendingOf, NoOrder
  <2>4. SumOver(v, Coins) = 0
    BY <2>3, SumZero
  <2>5. QED
    BY <2>1, <2>2, <2>4, TypeInit DEF CommitInv
<1>2. CommitInv /\ [Next]_vars => CommitInv'
  <2>1. SUFFICES ASSUME CommitInv, [Next]_vars PROVE CommitInv'
    OBVIOUS
  <2>2. TypeInv'
    BY <2>1, TypeStep DEF CommitInv
  <2>3. ASSUME NEW present \in Present, NEW placed \in SUBSET present, Cycle(present, placed)
        PROVE  CommitInv'
    BY <2>1, <2>2, <2>3, TradeCommits DEF Cycle, Present
  <2>4. ASSUME NEW c \in Coins, Expire(c)
        PROVE  CommitInv'
    <3>1. held' = held /\ order' = [order EXCEPT ![c] = NoOrder]
      BY <2>4 DEF Expire
    <3>2. ASSUME NEW d \in Coins
          PROVE  held'[d] + PendingOf(order'[d]) <= held[d] + PendingOf(order[d])
      <4>1. held[d] \in Nat /\ PendingOf(order[d]) \in Nat /\ order \in [Coins -> Order]
        BY <2>1, LoadTyped DEF CommitInv, TypeInv, TypeOK
      <4>2. order'[d] = (IF d = c THEN NoOrder ELSE order[d]) /\ PendingOf(NoOrder) = 0
        BY <3>1, <4>1 DEF PendingOf, NoOrder
      <4>3. QED
        BY <3>1, <4>1, <4>2
    <3>3. QED
      BY <2>1, <2>2, <3>2, LoadsFall
  <2>5. ASSUME NEW c \in Coins, NEW qty \in 1..Lots, Fill(c, qty)
        PROVE  CommitInv'
    BY <2>1, <2>2, <2>5, FillCommits
  <2>6. ASSUME UNCHANGED book
        PROVE  CommitInv'
    BY <2>1, <2>2, <2>6 DEF CommitInv, book
  <2>7. QED
    BY <2>1, <2>3, <2>4, <2>5, <2>6 DEF Next, TornCheck, TornPlan, NewDay, Restart, vars
<1>3. CommitInv => Affordable
  <2>1. SUFFICES ASSUME CommitInv PROVE Affordable
    OBVIOUS
  <2>2. PICK u : u = [c \in Coins |-> PendingOf(order[c])]
    OBVIOUS
  <2>3. PICK w : w = Load(held, order)
    OBVIOUS
  <2>4. \A c \in Coins : held[c] \in Int /\ u[c] \in Int /\ w[c] = held[c] + u[c]
    BY <2>1, <2>2, <2>3, LoadTyped DEF CommitInv, TypeInv, TypeOK
  <2>5. SumOver(w, Coins) = SumOver(held, Coins) + SumOver(u, Coins)
    BY <2>4, SumPlus
  <2>6. Open("buy") \in SUBSET Coins /\ \A c \in Coins \ Open("buy") : u[c] = 0
    BY <2>2 DEF Open, PendingOf
  <2>7. SumOver(u, Coins) = SumOver(u, Open("buy"))
    BY <2>4, <2>6, SumWithin
  <2>8. \A c \in Open("buy") : u[c] = order[c].qty
    BY <2>2 DEF Open, PendingOf
  <2>9. MapThenSumSet(LAMBDA c : order[c].qty, Open("buy")) = SumOver(u, Open("buy"))
    BY <2>6, <2>8, OpenSum
  <2>10. QED
    BY <2>1, <2>3, <2>5, <2>7, <2>9 DEF Affordable, CommitInv, SumOver
<1>4. QED
  BY <1>1, <1>2, <1>3, PTL DEF Spec
=============================================================================
