------------------------ MODULE PaperTrading_proofs -------------------------
(***************************************************************************)
(* What holds of trading on paper for any whitelist, prices, sizes, fees   *)
(* and limits, where the process dies at an await only (~TornCrash, as in  *)
(* the run).                                                               *)
(*                                                                         *)
(* Core: types, what is in progress and queued (BookInv), and the books    *)
(* (Books): the ledger is the sum of the fills.  From it StopsOnlyRise.    *)
(* RateInv and OpenInv: what the context of a cycle counts is never less   *)
(* than what exists and waits, from which the two counts are bounded.      *)
(* SettleInv: what a buy of the manager finds when it is created.          *)
(* LimitInv: the value held and pending, as far as the context of the      *)
(* cycle promises it, from which every single execution is within limits.  *)
(* At the end, the types of all parts of the run of MCPaperTrading.        *)
(***************************************************************************)
EXTENDS MCPaperTrading, Backtest_proofs, SetSums, SequenceTheorems, TLAPS

-----------------------------------------------------------------------------
(* The inductive invariant: what is in progress and what is queued.        *)

Filling == {"filling", "saving", "closing"}
Deciding == {"exits", "trail", "entries", "manager"}

\* The approved orders that the broker has still to create.
Waiting == {approved[k] : k \in 1..Len(approved)}

\* The order in progress was created, and is booked once: between the walk of
\* the book and the ledger nothing of it is in the table.
WorkHolds ==
  /\ pc \in {"walk"} \cup Filling => work.id \in Known /\ row[work.id] = "NEW"
  /\ pc \in {"walk", "filling"} => fills[work.id] = NoFill
  /\ pc \in Filling => work.status # "NONE" /\ work.back # "idle"
  /\ pc = "walk" \/ (pc \in Filling /\ work.back = "execute") => Marketable(work.id)
  /\ pc = "filling" =>
       /\ work.qty > 0 /\ work.fee <= Den
       /\ decisions[work.id].side = "sell" => work.qty <= held[decisions[work.id].pair]
       /\ decisions[work.id].side = "buy" => work.qty <= decisions[work.id].qty

\* Each approved decision waits once and is not an order yet; the orders that
\* check_resting has still to look at rest, and one of them at a time is filled.
QueuesHold ==
  /\ Waiting \subseteq Known /\ \A i \in Waiting : row[i] = "NONE"
  /\ \A k, l \in 1..Len(approved) : approved[k] = approved[l] => k = l
  /\ pc \in {"idle", "resting"} \/ (pc \in Filling /\ work.back = "resting") => approved = <<>>
  /\ orders \subseteq Resting
  /\ orders # {} => pc = "resting" \/ (pc \in Filling /\ work.back = "resting")
  /\ pc \in Filling => work.id \notin orders

\* Nothing is booked of an order before its fill, which closes it.
FillsHold ==
  /\ \A i \in Ids \ Known : row[i] = "NONE"
  /\ \A i \in Ids : row[i] = "NONE" => fills[i] = NoFill
  /\ \A i \in Ids : row[i] = "NEW" /\ ~(pc \in {"saving", "closing"} /\ work.id = i) => fills[i] = NoFill
  /\ \A i \in Ids : fills[i].fee <= Den

DecisionsHold ==
  \A i \in Known :
    /\ decisions[i].stop \in Stops \cup {0}
    /\ decisions[i].side = "buy" =>
         decisions[i].qty > 0 /\ decisions[i].price > 0 /\ ~decisions[i].emergency

BookInv == WorkHolds /\ QueuesHold /\ FillsHold /\ DecisionsHold

\* What each order adds to the books.
Spent == [i \in Ids |-> IF i \in Side("buy") THEN Paid(i) ELSE 0]
Earned == [i \in Ids |-> IF i \in Side("sell") THEN Received(i) ELSE 0]
Bought(p) == [i \in Ids |-> IF i \in Of("buy", p) THEN Booked(i) ELSE 0]
Sold(p) == [i \in Ids |-> IF i \in Of("sell", p) THEN Booked(i) ELSE 0]

Books ==
  /\ cash = Capital * Den - SumOver(Spent, Ids) + SumOver(Earned, Ids)
  /\ \A p \in Pairs : held[p] = SumOver(Bought(p), Ids) - SumOver(Sold(p), Ids)

-----------------------------------------------------------------------------
(* Sums over decisions and over pairs                                      *)

\* The sums run over finite sets.
LEMMA IdsFinite == IsFiniteSet(Ids) /\ Ids \subseteq Nat /\ IsFiniteSet(Pairs)
  BY BoundsAssumption, LimitsAssumption, FS_Interval DEF Ids

\* The table of decisions is bounded.
LEMMA KnownIds == ASSUME TypeOK PROVE Known \subseteq Ids /\ Len(decisions) \in Nat
  BY BoundsAssumption DEF TypeOK, Known, Ids

\* What a row of the decisions table holds.
LEMMA DecisionTypes ==
  ASSUME TypeOK, NEW i \in Known
  PROVE  /\ decisions[i] \in Decision
         /\ decisions[i].pair \in Pairs /\ decisions[i].side \in {"buy", "sell"}
         /\ decisions[i].price \in Nat /\ decisions[i].qty \in Nat /\ decisions[i].stop \in Nat
         /\ decisions[i].emergency \in BOOLEAN
<1>1. decisions \in Seq(Decision) /\ i \in 1..Len(decisions)
  BY DEF TypeOK, Known
<1>2. decisions[i] \in Decision
  BY <1>1, ElementOfSeq
<1>3. QED
  BY <1>2 DEF Decision

\* What a row of the fills table holds.
LEMMA FillTypes ==
  ASSUME TypeOK, NEW i \in Ids
  PROVE  fills[i] \in Fill /\ fills[i].qty \in Nat /\ fills[i].fee \in Nat
  BY DEF TypeOK, Fill

\* The sums of the model are sums of functions: quantities booked,
LEMMA BookedSum ==
  ASSUME NEW S \in SUBSET Ids, NEW w, \A x \in S : w[x] = Booked(x)
  PROVE  MapThenSumSet(Booked, S) = SumOver(w, S)
<1>1. \A T \in SUBSET S : T # {} => w[Chosen(T)] = Booked(Chosen(T))
  BY ChosenIn
<1> DEFINE Here(g) == g = [T \in SUBSET S |-> IF T = {} THEN 0 ELSE Booked(Chosen(T)) + g[T \ {Chosen(T)}]]
<1>2. ASSUME NEW g PROVE Sums(g, w, S) <=> Here(g)
  BY <1>1 DEF Sums
<1>3. (CHOOSE g : Sums(g, w, S)) = (CHOOSE g : Here(g))
  BY <1>2
<1>4. SumOver(w, S) = (CHOOSE g : Sums(g, w, S))[S]
  BY DEF SumOver, MapThenSumSet, MapThenFoldSet, Sums, Chosen
<1>5. MapThenSumSet(Booked, S) = (CHOOSE g : Here(g))[S]
  BY DEF MapThenSumSet, MapThenFoldSet, Chosen
<1>6. QED
  BY <1>3, <1>4, <1>5

\* IDR paid for what was bought,
LEMMA PaidSum ==
  ASSUME NEW S \in SUBSET Ids, NEW w, \A x \in S : w[x] = Paid(x)
  PROVE  MapThenSumSet(Paid, S) = SumOver(w, S)
<1>1. \A T \in SUBSET S : T # {} => w[Chosen(T)] = Paid(Chosen(T))
  BY ChosenIn
<1> DEFINE Here(g) == g = [T \in SUBSET S |-> IF T = {} THEN 0 ELSE Paid(Chosen(T)) + g[T \ {Chosen(T)}]]
<1>2. ASSUME NEW g PROVE Sums(g, w, S) <=> Here(g)
  BY <1>1 DEF Sums
<1>3. (CHOOSE g : Sums(g, w, S)) = (CHOOSE g : Here(g))
  BY <1>2
<1>4. SumOver(w, S) = (CHOOSE g : Sums(g, w, S))[S]
  BY DEF SumOver, MapThenSumSet, MapThenFoldSet, Sums, Chosen
<1>5. MapThenSumSet(Paid, S) = (CHOOSE g : Here(g))[S]
  BY DEF MapThenSumSet, MapThenFoldSet, Chosen
<1>6. QED
  BY <1>3, <1>4, <1>5

\* IDR received for what was sold,
LEMMA ReceivedSum ==
  ASSUME NEW S \in SUBSET Ids, NEW w, \A x \in S : w[x] = Received(x)
  PROVE  MapThenSumSet(Received, S) = SumOver(w, S)
<1>1. \A T \in SUBSET S : T # {} => w[Chosen(T)] = Received(Chosen(T))
  BY ChosenIn
<1> DEFINE Here(g) == g = [T \in SUBSET S |-> IF T = {} THEN 0 ELSE Received(Chosen(T)) + g[T \ {Chosen(T)}]]
<1>2. ASSUME NEW g PROVE Sums(g, w, S) <=> Here(g)
  BY <1>1 DEF Sums
<1>3. (CHOOSE g : Sums(g, w, S)) = (CHOOSE g : Here(g))
  BY <1>2
<1>4. SumOver(w, S) = (CHOOSE g : Sums(g, w, S))[S]
  BY DEF SumOver, MapThenSumSet, MapThenFoldSet, Sums, Chosen
<1>5. MapThenSumSet(Received, S) = (CHOOSE g : Here(g))[S]
  BY DEF MapThenSumSet, MapThenFoldSet, Chosen
<1>6. QED
  BY <1>3, <1>4, <1>5

\* the value of orders,
LEMMA NotionalSum ==
  ASSUME NEW S \in SUBSET Ids, NEW w, \A x \in S : w[x] = Notional(x)
  PROVE  MapThenSumSet(Notional, S) = SumOver(w, S)
<1>1. \A T \in SUBSET S : T # {} => w[Chosen(T)] = Notional(Chosen(T))
  BY ChosenIn
<1> DEFINE Here(g) == g = [T \in SUBSET S |-> IF T = {} THEN 0 ELSE Notional(Chosen(T)) + g[T \ {Chosen(T)}]]
<1>2. ASSUME NEW g PROVE Sums(g, w, S) <=> Here(g)
  BY <1>1 DEF Sums
<1>3. (CHOOSE g : Sums(g, w, S)) = (CHOOSE g : Here(g))
  BY <1>2
<1>4. SumOver(w, S) = (CHOOSE g : Sums(g, w, S))[S]
  BY DEF SumOver, MapThenSumSet, MapThenFoldSet, Sums, Chosen
<1>5. MapThenSumSet(Notional, S) = (CHOOSE g : Here(g))[S]
  BY DEF MapThenSumSet, MapThenFoldSet, Chosen
<1>6. QED
  BY <1>3, <1>4, <1>5

\* the value of positions.
LEMMA ValueSum ==
  ASSUME NEW S \in SUBSET Pairs, NEW w, \A x \in S : w[x] = Value(x)
  PROVE  MapThenSumSet(Value, S) = SumOver(w, S)
<1>1. \A T \in SUBSET S : T # {} => w[Chosen(T)] = Value(Chosen(T))
  BY ChosenIn
<1> DEFINE Here(g) == g = [T \in SUBSET S |-> IF T = {} THEN 0 ELSE Value(Chosen(T)) + g[T \ {Chosen(T)}]]
<1>2. ASSUME NEW g PROVE Sums(g, w, S) <=> Here(g)
  BY <1>1 DEF Sums
<1>3. (CHOOSE g : Sums(g, w, S)) = (CHOOSE g : Here(g))
  BY <1>2
<1>4. SumOver(w, S) = (CHOOSE g : Sums(g, w, S))[S]
  BY DEF SumOver, MapThenSumSet, MapThenFoldSet, Sums, Chosen
<1>5. MapThenSumSet(Value, S) = (CHOOSE g : Here(g))[S]
  BY DEF MapThenSumSet, MapThenFoldSet, Chosen
<1>6. QED
  BY <1>3, <1>4, <1>5

\* The ledger of Books is the one the fills table yields.
LEMMA BooksAreFills == ASSUME TypeOK, Books PROVE LedgerIsFills
<1>1. \A p \in Pairs : Of("buy", p) \in SUBSET Ids /\ Of("sell", p) \in SUBSET Ids
  BY KnownIds DEF Of
<1>2. Side("buy") \in SUBSET Ids /\ Side("sell") \in SUBSET Ids
  BY KnownIds DEF Side
<1>7. /\ \A i \in Ids : fills[i].qty \in Nat /\ fills[i].fee \in Nat
      /\ \A i \in Known : decisions[i].price \in Nat
      /\ Den \in Nat
  BY LimitsAssumption, DecisionTypes, FillTypes
<1>8. Side("buy") \subseteq Known /\ Side("sell") \subseteq Known
  BY DEF Side
<1>3. ASSUME NEW p \in Pairs
      PROVE  MapThenSumSet(Booked, Of("buy", p)) = SumOver(Bought(p), Ids)
  <2>1. \A i \in Ids : Bought(p)[i] \in Int
    BY <1>7 DEF Bought, Booked
  <2>2. SumOver(Bought(p), Ids) = SumOver(Bought(p), Of("buy", p))
    <3>1. \A i \in Ids \ Of("buy", p) : Bought(p)[i] = 0
      BY DEF Bought
    <3>2. QED
      BY <1>1, <2>1, <3>1, IdsFinite, SumWithin
  <2>3. \A i \in Of("buy", p) : Bought(p)[i] = Booked(i)
    BY <1>1 DEF Bought
  <2>4. QED
    BY <1>1, <2>2, <2>3, BookedSum
<1>4. ASSUME NEW p \in Pairs
      PROVE  MapThenSumSet(Booked, Of("sell", p)) = SumOver(Sold(p), Ids)
  <2>1. \A i \in Ids : Sold(p)[i] \in Int
    BY <1>7 DEF Sold, Booked
  <2>2. SumOver(Sold(p), Ids) = SumOver(Sold(p), Of("sell", p))
    <3>1. \A i \in Ids \ Of("sell", p) : Sold(p)[i] = 0
      BY DEF Sold
    <3>2. QED
      BY <1>1, <2>1, <3>1, IdsFinite, SumWithin
  <2>3. \A i \in Of("sell", p) : Sold(p)[i] = Booked(i)
    BY <1>1 DEF Sold
  <2>4. QED
    BY <1>1, <2>2, <2>3, BookedSum
<1>5. MapThenSumSet(Paid, Side("buy")) = SumOver(Spent, Ids)
  <2>1. \A i \in Ids : Spent[i] \in Int
    BY <1>7, <1>8 DEF Spent, Paid
  <2>2. SumOver(Spent, Ids) = SumOver(Spent, Side("buy"))
    <3>1. \A i \in Ids \ Side("buy") : Spent[i] = 0
      BY DEF Spent
    <3>2. QED
      BY <1>2, <2>1, <3>1, IdsFinite, SumWithin
  <2>3. \A i \in Side("buy") : Spent[i] = Paid(i)
    BY <1>2 DEF Spent
  <2>4. QED
    BY <1>2, <2>2, <2>3, PaidSum
<1>6. MapThenSumSet(Received, Side("sell")) = SumOver(Earned, Ids)
  <2>1. \A i \in Ids : Earned[i] \in Int
    BY <1>7, <1>8 DEF Earned, Received
  <2>2. SumOver(Earned, Ids) = SumOver(Earned, Side("sell"))
    <3>1. \A i \in Ids \ Side("sell") : Earned[i] = 0
      BY DEF Earned
    <3>2. QED
      BY <1>2, <2>1, <3>1, IdsFinite, SumWithin
  <2>3. \A i \in Side("sell") : Earned[i] = Received(i)
    BY <1>2 DEF Earned
  <2>4. QED
    BY <1>2, <2>2, <2>3, ReceivedSum
<1>9. held = HeldByFills
  <2>1. \A p \in Pairs : held[p] = MapThenSumSet(Booked, Of("buy", p)) - MapThenSumSet(Booked, Of("sell", p))
    BY <1>3, <1>4 DEF Books
  <2>2. held = [p \in Pairs |-> held[p]]
    BY DEF TypeOK
  <2>3. QED
    BY <2>1, <2>2 DEF HeldByFills
<1>10. QED
  BY <1>5, <1>6, <1>9 DEF LedgerIsFills, CashByFills, Books

-----------------------------------------------------------------------------
(* What a step that approves a decision has in common.                     *)

\* The least of three numbers, as Room takes it.
LEMMA LeastOfThree ==
  ASSUME NEW a \in Int, NEW b \in Int, NEW c \in Int
  PROVE  /\ Min({a, b, c}) \in Int
         /\ Min({a, b, c}) <= a /\ Min({a, b, c}) <= b /\ Min({a, b, c}) <= c
<1>1. \E x \in {a, b, c} : \A y \in {a, b, c} : x =< y
  <2>1. CASE a <= b /\ a <= c
    BY <2>1
  <2>2. CASE b <= a /\ b <= c
    BY <2>2
  <2>3. CASE c <= a /\ c <= b
    BY <2>3
  <2>4. QED
    BY <2>1, <2>2, <2>3
<1>2. Min({a, b, c}) \in {a, b, c} /\ \A y \in {a, b, c} : Min({a, b, c}) =< y
  BY <1>1 DEF Min
<1>3. QED
  BY <1>2

\* Sizing a buy rounds down.
LEMMA DivisionBelow ==
  ASSUME NEW r \in Int, NEW k \in Nat, k > 0
  PROVE  r \div k \in Int /\ k * (r \div k) <= r
  BY SMT

\* What is held and what is promised has a value.
LEMMA ValueTypes ==
  ASSUME TypeOK
  PROVE  /\ \A p \in Pairs : bid[p] \in Nat /\ bid[p] > 0 /\ Value(p) \in Nat /\ ctx.pending[p] \in Nat
         /\ MapThenSumSet(Value, Pairs) \in Nat /\ Committed \in Nat /\ Deployed \in Nat
<1>1. \A p \in Pairs : bid[p] \in Bids[p] /\ Bids[p] \subseteq Nat \ {0} /\ held[p] \in Nat
  BY LimitsAssumption DEF TypeOK, Market
<1>2. ctx.pending \in [Pairs -> Nat]
  BY DEF TypeOK
<1>3. \A p \in Pairs : bid[p] \in Nat /\ bid[p] > 0 /\ Value(p) \in Nat /\ ctx.pending[p] \in Nat
  BY <1>1, <1>2 DEF Value
<1> DEFINE w == [p \in Pairs |-> Value(p)]
<1>4. SumOver(w, Pairs) \in Nat
  BY <1>3, IdsFinite, SumNat
<1>5. MapThenSumSet(Value, Pairs) = SumOver(w, Pairs)
  <2>1. \A p \in Pairs : w[p] = Value(p)
    OBVIOUS
  <2> HIDE DEF w
  <2>2. QED
    BY <2>1, ValueSum
<1>6. SumOver(ctx.pending, Pairs) \in Nat
  BY <1>3, IdsFinite, SumNat
<1>7. Committed = SumOver(ctx.pending, Pairs)
  BY DEF Committed, SumOver
<1>8. QED
  BY <1>3, <1>4, <1>5, <1>6, <1>7 DEF Deployed

\* The room of a buy respects the position and the capital.
LEMMA RoomIs ==
  ASSUME TypeOK, NEW p \in Pairs
  PROVE  /\ Room(p) \in Int
         /\ Room(p) <= MaxPosition - Value(p) - ctx.pending[p]
         /\ Room(p) <= Capital - Deployed
<1>1. /\ MaxPosition - Value(p) - ctx.pending[p] \in Int
      /\ Capital - Deployed \in Int
      /\ (cash - Committed * Den) \in Int
      /\ Den + Taker \in Nat /\ Den + Taker > 0
  <2>1. cash \in Nat
    BY DEF TypeOK
  <2>2. /\ Value(p) \in Nat /\ ctx.pending[p] \in Nat /\ Deployed \in Nat /\ Committed \in Nat
        /\ MaxPosition \in Nat /\ Capital \in Nat /\ Den \in Nat \ {0} /\ Taker \in 0..Den
    BY ValueTypes, LimitsAssumption
  <2>3. QED
    BY <2>1, <2>2
<1>2. (cash - Committed * Den) \div (Den + Taker) \in Int
  <2>1. \A r \in Int, k \in Nat : k > 0 => r \div k \in Int
    BY DivisionBelow
  <2>2. QED
    BY <1>1, <2>1
<1>3. QED
  BY <1>1, <1>2, LeastOfThree DEF Room

\* A step that approves d: its guards and what it leaves alone.
Approval(d) ==
  /\ d \in Decision /\ d.stop \in Stops \cup {0} /\ Approve(d)
  /\ pc \in {"exits", "entries", "manager"}
  /\ d.emergency \/ RateAllows
  /\ IF d.side = "buy"
       THEN /\ pc = "entries" \/ (pc = "manager" /\ phase = "buy")
            /\ d.price > 0 /\ d.qty > 0 /\ ~d.emergency
            /\ SlotFree(d.pair)
            /\ d.price * d.qty <= Room(d.pair)
       ELSE \/ pc = "exits" /\ (d.emergency \/ d.price <= bid[d.pair])
            \/ pc = "manager" /\ phase = "sell"
  /\ pairs' \subseteq pairs
  /\ UNCHANGED <<mode, bid, row, fills, saved, old, ledger, pc, orders, phase, work, crashes>>

\* A buy that passes the risk manager is approved within its room.
LEMMA BuyApproval ==
  ASSUME TypeOK, NEW p \in Pairs, NEW price \in Nat, price > 0, ApproveBuy(p, price),
         pc = "entries" \/ (pc = "manager" /\ phase = "buy"),
         pairs' \subseteq pairs,
         UNCHANGED <<mode, bid, row, fills, saved, old, ledger, pc, orders, phase, work, crashes>>
  PROVE  \E d : Approval(d)
<1>1. PICK want \in Sizes, s \in Stops \ {0} :
        Sized(p, price, want) > 0 /\ Approve(Buy(p, price, Sized(p, price, want), s))
  BY DEF ApproveBuy
<1> DEFINE q == Sized(p, price, want)
           d == Buy(p, price, q, s)
<1>2. q \in Int /\ price * q <= Room(p)
  <2>1. want \in Nat /\ Room(p) \in Int
    BY LimitsAssumption, RoomIs
  <2>2. CASE want * price <= Room(p)
    BY <2>1, <2>2 DEF Sized
  <2>3. CASE ~(want * price <= Room(p))
    <3>1. q = Room(p) \div price
      BY <2>3 DEF Sized
    <3>2. QED
      BY <2>1, <3>1, DivisionBelow
  <2>4. QED
    BY <2>2, <2>3
<1>3. q \in Nat /\ q > 0 /\ s \in Nat
  <2>1. \A x \in Prices : x \in Nat /\ x - 1 \in Nat
    BY LimitsAssumption DEF Prices
  <2>2. QED
    BY <1>1, <1>2, <2>1 DEF Stops
<1> HIDE DEF q
<1>4. /\ d \in Decision /\ d.side = "buy" /\ d.pair = p /\ d.price = price /\ d.qty = q /\ ~d.emergency
      /\ d.stop \in Stops \cup {0}
  BY <1>3 DEF Buy, Decision
<1>5. Approve(d)
  BY <1>1 DEF q
<1> HIDE DEF d
<1>6. Approval(d)
  BY <1>2, <1>3, <1>4, <1>5, Zenon DEF Approval, ApproveBuy
<1>7. QED
  BY <1>6

\* So is a sell of an exit or of the portfolio manager.
LEMMA SellApproval ==
  ASSUME TypeOK, NEW p \in Pairs, NEW price \in Nat, NEW qty \in Nat, NEW e \in BOOLEAN,
         Approve(Sell(p, price, qty, e)), e \/ RateAllows,
         (pc = "exits" /\ (e \/ price <= bid[p])) \/ (pc = "manager" /\ phase = "sell"),
         pairs' \subseteq pairs,
         UNCHANGED <<mode, bid, row, fills, saved, old, ledger, pc, orders, phase, work, crashes>>
  PROVE  \E d : Approval(d)
<1> DEFINE d == Sell(p, price, qty, e)
<1>1. /\ d \in Decision /\ d.side = "sell" /\ d.side # "buy" /\ d.pair = p /\ d.price = price
      /\ d.emergency = e /\ d.stop \in Stops \cup {0}
  BY DEF Sell, Decision
<1>2. Approve(d)
  OBVIOUS
<1> HIDE DEF d
<1>3. Approval(d)
  BY <1>1, <1>2 DEF Approval
<1>4. QED
  BY <1>3

\* Exits, entries and the portfolio manager approve that way.
LEMMA Approvals ==
  ASSUME TypeOK, NEW p \in Pairs, ApproveExit(p) \/ Entry(p) \/ ManagerProposes(p)
  PROVE  \E d : Approval(d)
<1>1. bid[p] \in Nat /\ bid[p] > 0 /\ held[p] \in Nat /\ ask[p] = bid[p] + 1
  BY ValueTypes DEF TypeOK, ask
<1>2. CASE ApproveExit(p)
  <2>0. /\ pc = "exits" /\ pairs' \subseteq pairs /\ bid[p] <= bid[p]
        /\ UNCHANGED <<mode, bid, row, fills, saved, old, ledger, pc, orders, phase, work, crashes>>
    BY <1>1, <1>2 DEF ApproveExit
  <2>1. ASSUME NEW e \in BOOLEAN, Approve(Sell(p, bid[p], held[p], e)), e \/ RateAllows
        PROVE  \E d : Approval(d)
    <3>1. PICK price \in Nat, qty \in Nat : price = bid[p] /\ qty = held[p]
      BY <1>1
    <3>2. /\ Approve(Sell(p, price, qty, e))
          /\ (pc = "exits" /\ (e \/ price <= bid[p])) \/ (pc = "manager" /\ phase = "sell")
      BY <2>0, <2>1, <3>1
    <3>3. e \/ RateAllows
      BY <2>1
    <3>4. QED
      BY <2>0, <3>2, <3>3, SellApproval, SMTT(60)
  <2>2. \E e \in BOOLEAN : Approve(Sell(p, bid[p], held[p], e)) /\ (e \/ RateAllows)
    BY <1>2, Zenon DEF ApproveExit
  <2>3. QED
    BY <2>1, <2>2
<1>3. CASE Entry(p)
  BY <1>1, <1>3, BuyApproval DEF Entry
<1>4. CASE ManagerProposes(p)
  <2>1. CASE ManagerSells(p)
    <3>1. PICK qty \in 1..held[p], passive \in Passives : Approve(Sell(p, bid[p] + passive, qty, FALSE))
      BY <2>1 DEF ManagerSells
    <3>2. qty \in Nat /\ bid[p] + passive \in Nat
      BY <1>1 DEF Passives
    <3>3. QED
      BY <1>4, <2>1, <3>1, <3>2, SellApproval DEF ManagerProposes, ManagerSells
  <2>2. CASE ManagerBuys(p)
    <3>1. PICK passive \in Passives : ApproveBuy(p, ask[p] - passive)
      BY <2>2 DEF ManagerBuys
    <3>2. ask[p] - passive \in Nat /\ ask[p] - passive > 0
      BY <1>1 DEF Passives
    <3>3. QED
      BY <1>4, <2>2, <3>1, <3>2, BuyApproval DEF ManagerProposes, ManagerBuys
  <2>3. QED
    BY <1>4, <2>1, <2>2 DEF ManagerProposes
<1>5. QED
  BY <1>2, <1>3, <1>4

\* An approval adds one decision, at the end of the table and of the queue.
LEMMA Appended ==
  ASSUME TypeOK, QueuesHold, NEW d, Approval(d), NEW n, n = Len(decisions) + 1
  PROVE  /\ n \in Ids \ Known /\ Known' = Known \cup {n}
         /\ decisions' \in Seq(Decision) /\ Len(decisions') <= MaxDecisions
         /\ decisions'[n] = d /\ \A i \in Known : decisions'[i] = decisions[i]
         /\ approved' \in Seq(Ids) /\ approved' # <<>> /\ Waiting' = Waiting \cup {n} /\ n \notin Waiting
         /\ \A k, l \in 1..Len(approved') : approved'[k] = approved'[l] => k = l
<1>1. /\ decisions \in Seq(Decision) /\ d \in Decision /\ decisions' = Append(decisions, d)
      /\ Len(decisions) < MaxDecisions /\ MaxDecisions \in Nat
      /\ approved \in Seq(Ids) /\ approved' = Append(approved, n)
  BY BoundsAssumption DEF Approval, Approve, TypeOK
<1>2. /\ decisions' \in Seq(Decision) /\ Len(decisions') = Len(decisions) + 1
      /\ \A i \in 1..Len(decisions) : decisions'[i] = decisions[i]
      /\ decisions'[Len(decisions) + 1] = d /\ Len(decisions) \in Nat
  BY <1>1, AppendProperties, LenProperties
<1>3. n \in Ids \ Known /\ Known' = Known \cup {n}
  BY <1>1, <1>2 DEF Ids, Known
<1>4. /\ approved' \in Seq(Ids) /\ Len(approved') = Len(approved) + 1
      /\ \A k \in 1..Len(approved) : approved'[k] = approved[k]
      /\ approved'[Len(approved) + 1] = n /\ Len(approved) \in Nat
  BY <1>1, <1>3, AppendProperties, LenProperties
<1>5. 1..Len(approved') = 1..Len(approved) \cup {Len(approved) + 1}
  BY <1>4
<1>6. n \notin Waiting
  BY <1>3 DEF QueuesHold
<1>7. Waiting' = Waiting \cup {n}
  BY <1>4, <1>5 DEF Waiting
<1>8. \A k, l \in 1..Len(approved') : approved'[k] = approved'[l] => k = l
  <2>1. \A k, l \in 1..Len(approved) : approved[k] = approved[l] => k = l
    BY DEF QueuesHold
  <2>2. \A k \in 1..Len(approved) : approved[k] # n
    BY <1>6 DEF Waiting
  <2>3. QED
    BY <1>4, <1>5, <2>1, <2>2
<1>9. approved' # <<>>
  BY <1>4, EmptySeq
<1>10. Len(decisions') <= MaxDecisions
  BY <1>1, <1>2
<1>11. decisions'[n] = d /\ \A i \in Known : decisions'[i] = decisions[i]
  BY <1>2 DEF Known
<1>12. QED
  BY <1>2, <1>3, <1>4, <1>6, <1>7, <1>8, <1>9, <1>10, <1>11, Zenon

\* RecordOrder takes the first decision off the queue.
LEMMA Recorded ==
  ASSUME TypeOK, QueuesHold, RecordOrder, NEW h, h = Head(approved)
  PROVE  /\ h \in Waiting /\ h \in Known /\ row[h] = "NONE" /\ Waiting' = Waiting \ {h}
         /\ approved' \in Seq(Ids)
         /\ \A k, l \in 1..Len(approved') : approved'[k] = approved'[l] => k = l
<1>1. approved \in Seq(Ids) /\ approved # <<>> /\ approved' = Tail(approved)
  BY DEF RecordOrder, TypeOK
<1>2. /\ approved' \in Seq(Ids) /\ Len(approved') = Len(approved) - 1
      /\ \A k \in 1..Len(approved') : approved'[k] = approved[k + 1]
      /\ Len(approved) \in Nat /\ Len(approved) > 0
  BY <1>1, HeadTailProperties, EmptySeq
<1>3. h = approved[1]
  BY <1>1
<1>4. h \in Waiting
  BY <1>2, <1>3 DEF Waiting
<1>5. \A k, l \in 1..Len(approved) : approved[k] = approved[l] => k = l
  BY DEF QueuesHold
<1>6. \A k \in 1..Len(approved') : k + 1 \in 1..Len(approved) /\ approved[k + 1] # h
  BY <1>2, <1>3, <1>5
<1>7. \A k \in 1..Len(approved) : k # 1 => k - 1 \in 1..Len(approved') /\ approved'[k - 1] = approved[k]
  <2>1. ASSUME NEW k \in 1..Len(approved), k # 1
        PROVE  k - 1 \in 1..Len(approved') /\ approved'[k - 1] = approved[k]
    <3>1. PICK j \in Int : j = k - 1
      OBVIOUS
    <3>2. j \in 1..Len(approved') /\ j + 1 = k
      BY <1>2, <2>1, <3>1
    <3>3. QED
      BY <1>2, <3>1, <3>2
  <2>2. QED
    BY <2>1, Zenon
<1>8. Waiting' = Waiting \ {h}
  <2>1. \A x \in Waiting' : x \in Waiting /\ x # h
    BY <1>2, <1>6 DEF Waiting
  <2>2. \A x \in Waiting : x # h => x \in Waiting'
    BY <1>3, <1>7 DEF Waiting
  <2>3. QED
    BY <2>1, <2>2
<1>9. \A k, l \in 1..Len(approved') : approved'[k] = approved'[l] => k = l
  BY <1>2, <1>5, <1>6
<1>10. QED
  BY <1>2, <1>4, <1>8, <1>9 DEF QueuesHold

-----------------------------------------------------------------------------
(* Types, queues and books: one induction.                                 *)

\* The value of the orders of S, order by order.
Worth(S) == [i \in Ids |-> IF i \in S THEN Notional(i) ELSE 0]

\* Values of orders are natural.
LEMMA WorthTypes ==
  ASSUME TypeOK, NEW S
  PROVE  S \subseteq Known => \A i \in Ids : Worth(S)[i] \in Nat
<1>1. SUFFICES ASSUME S \subseteq Known, NEW i \in Ids PROVE Worth(S)[i] \in Nat
  OBVIOUS
<1>2. CASE i \in S
  <2>1. decisions[i].price \in Nat /\ decisions[i].qty \in Nat
    BY <1>1, <1>2, DecisionTypes
  <2>2. QED
    BY <1>2, <2>1 DEF Worth, Notional
<1>3. CASE i \notin S
  BY <1>3 DEF Worth
<1>4. QED
  BY <1>2, <1>3

\* The value of a set of orders, as the sum over all of the table.
LEMMA WorthSum ==
  ASSUME TypeOK, NEW S \in SUBSET Known
  PROVE  MapThenSumSet(Notional, S) = SumOver(Worth(S), Ids) /\ SumOver(Worth(S), Ids) \in Nat
<1>1. \A i \in Ids : Worth(S)[i] \in Nat /\ Worth(S)[i] \in Int
  BY WorthTypes
<1>2. S \in SUBSET Ids
  BY KnownIds
<1>3. SumOver(Worth(S), Ids) = SumOver(Worth(S), S)
  <2>1. \A i \in Ids \ S : Worth(S)[i] = 0
    BY DEF Worth
  <2>2. QED
    BY <1>1, <1>2, <2>1, IdsFinite, SumWithin
<1>4. \A i \in S : Worth(S)[i] = Notional(i)
  BY <1>2 DEF Worth
<1>5. MapThenSumSet(Notional, S) = SumOver(Worth(S), S)
  BY <1>2, <1>4, NotionalSum
<1>6. SumOver(Worth(S), Ids) \in Nat
  BY <1>1, IdsFinite, SumNat
<1>7. QED
  BY <1>3, <1>5, <1>6

\* More orders are worth more.
LEMMA WorthGrows ==
  ASSUME TypeOK, NEW S \in SUBSET Known, NEW T \in SUBSET S
  PROVE  SumOver(Worth(T), Ids) <= SumOver(Worth(S), Ids)
<1>1. \A i \in Ids : Worth(S)[i] \in Nat /\ Worth(T)[i] \in Nat
  BY WorthTypes
<1>2. \A i \in Ids : Worth(T)[i] <= Worth(S)[i]
  BY <1>1 DEF Worth
<1>3. QED
  <2>1. \A i \in Ids : Worth(T)[i] \in Int /\ Worth(S)[i] \in Int /\ Worth(T)[i] <= Worth(S)[i]
    BY <1>1, <1>2
  <2>2. QED
    BY <2>1, IdsFinite, SumMonotone

\* What a buy that rests or that fills can be.
LEMMA FillableIs ==
  ASSUME TypeOK, NEW i \in Known
  PROVE  /\ Fillable(i) \in Nat
         /\ decisions[i].side = "sell" => Fillable(i) <= held[decisions[i].pair]
         /\ decisions[i].side = "buy" => Fillable(i) <= decisions[i].qty
<1>1. /\ decisions[i].pair \in Pairs /\ decisions[i].side \in {"buy", "sell"}
      /\ decisions[i].qty \in Nat
  BY DecisionTypes
<1>2. held[decisions[i].pair] \in Nat
  BY <1>1 DEF TypeOK
<1>3. QED
  BY <1>1, <1>2 DEF Fillable, Least

\* The orders of the last hour can be counted.
LEMMA CountedTypes ==
  ASSUME TypeOK
  PROVE  Cardinality(Counted) \in Nat /\ \A p \in Pairs : PendingBuy(p) \in Nat
<1>1. Counted \subseteq Ids
  BY KnownIds DEF Counted
<1>2. Cardinality(Counted) \in Nat
  BY <1>1, IdsFinite, FS_Subset, FS_CardinalityType
<1>3. ASSUME NEW p \in Pairs PROVE PendingBuy(p) \in Nat
  <2>1. Resting \cap Of("buy", p) \in SUBSET Known
    BY DEF Of
  <2>2. QED
    BY <2>1, WorthSum DEF PendingBuy
<1>4. QED
  BY <1>2, <1>3

\* Stop levels are natural.
LEMMA StopTypes == Stops \subseteq Nat
<1>1. \A x \in Prices : x \in Nat /\ x - 1 \in Nat
  BY LimitsAssumption DEF Prices
<1>2. QED
  BY <1>1 DEF Stops


\* The parts of TypeOK by themselves; what a crash finds is what was held.
LEMMA TypeStep ==
  ASSUME TypeOK, BookInv, Books, Next \/ UNCHANGED vars
  PROVE  TypeOK'
<1>1. CASE CycleStart
  BY <1>1, KnownIds, SMTT(60)
     DEF CycleStart, TypeOK, Resting, tables, ledger, local
<1>2. ASSUME NEW i \in orders, FillResting(i)
       PROVE  TypeOK'
  <2>1. i \in Known /\ i \in Ids
    BY KnownIds DEF BookInv, QueuesHold, Resting
  <2>2. Fillable(i) \in Nat /\ Passive \in Nat
    BY <2>1, FillableIs, LimitsAssumption
  <2>3. QED
    BY <1>2, <2>1, <2>2, BoundsAssumption DEF FillResting, TypeOK, Ids, tables, ledger
<1>3. ASSUME NEW i \in orders, CancelResting(i)
       PROVE  TypeOK'
  BY <1>3, SMTT(60)
     DEF CancelResting, TypeOK, tables, ledger, local
<1>4. ASSUME NEW i \in orders, KeepResting(i)
       PROVE  TypeOK'
  BY <1>4, SMTT(60)
     DEF KeepResting, TypeOK, tables, ledger, local
<1>5. CASE BuildContext
  BY <1>5, CountedTypes, SMTT(60)
     DEF BuildContext, TypeOK, Positions, tables, ledger
<1>6. ASSUME NEW d, Approval(d)
       PROVE  TypeOK'
  <2>1. PICK n : n = Len(decisions) + 1
    OBVIOUS
  <2>2. /\ decisions' \in Seq(Decision) /\ Len(decisions') <= MaxDecisions /\ approved' \in Seq(Ids)
    BY <1>6, <2>1, Appended DEF BookInv
  <2>3. ctx' \in [pending : [Pairs -> Nat], count : Nat]
    <3>1. d.pair \in Pairs /\ d.price * d.qty \in Nat /\ d.emergency \in BOOLEAN
      BY <1>6 DEF Approval, Decision
    <3>2. ctx \in [pending : [Pairs -> Nat], count : Nat] /\ ctx' = Updated(d)
      BY <1>6 DEF TypeOK, Approval, Approve
    <3>3. QED
      BY <3>1, <3>2 DEF Updated
  <2>4. decided' \subseteq Pairs
    BY <1>6 DEF TypeOK, Approval, Approve, Decision
  <2>5. QED
    BY <1>6, <2>2, <2>3, <2>4 DEF Approval, TypeOK, ledger
<1>7. ASSUME NEW p \in Pairs, NoExit(p)
       PROVE  TypeOK'
  BY <1>7, SMTT(60)
     DEF NoExit, TypeOK, tables, ledger, local
<1>8. CASE ExitsDone
  BY <1>8, SMTT(60)
     DEF ExitsDone, TypeOK, ManagerMay, tables, ledger, local
<1>9. CASE Trail
  <2>1. PICK s \in [Positions \ Exited -> Stops] :
          stop' = [p \in Pairs |-> IF p \in DOMAIN s THEN RaiseStop(p, s[p]) ELSE stop[p]]
    BY <1>9 DEF Trail
  <2>2. \A p \in Pairs : p \in DOMAIN s => RaiseStop(p, s[p]) \in Stops \cup {0}
    BY <2>1 DEF RaiseStop, Greatest, TypeOK
  <2>3. stop' \in [Pairs -> Stops \cup {0}]
    BY <2>1, <2>2 DEF TypeOK
  <2>4. QED
    BY <1>9, <2>3 DEF Trail, TypeOK, tables
<1>10. CASE ProposalsDone
  BY <1>10, SMTT(60)
     DEF ProposalsDone, TypeOK, tables, ledger, local
<1>11. CASE RecordOrder
  <2>1. PICK h : h = Head(approved)
    OBVIOUS
  <2>2. approved' \in Seq(Ids) /\ h \in Ids
    BY <1>11, <2>1, Recorded, KnownIds DEF BookInv
  <2>3. work' \in [id : 0..MaxDecisions, qty : Nat, fee : Nat,
                    status : {"NONE", "FILLED", "CANCELLED"}, back : {"idle", "resting", "execute"}]
    BY <1>11, <2>1, <2>2, BoundsAssumption DEF RecordOrder, TypeOK, NoWork, Ids
  <2>4. row' \in [Ids -> {"NONE", "NEW", "FILLED", "CANCELLED"}]
    BY <1>11 DEF RecordOrder, TypeOK
  <2>5. QED
    BY <1>11, <2>2, <2>3, <2>4 DEF RecordOrder, TypeOK, ledger
<1>12. CASE Walk
  <2>1. work.id \in Known /\ work.id \in Ids
    BY <1>12, KnownIds DEF BookInv, WorkHolds, Walk
  <2>2. Fillable(work.id) \in Nat /\ Taker \in Nat
    BY <2>1, FillableIs, LimitsAssumption
  <2>3. PICK got \in (IF decisions[work.id].emergency THEN {Fillable(work.id)} ELSE 0..Fillable(work.id)) :
          IF got = 0
            THEN row' = [row EXCEPT ![work.id] = "CANCELLED"] /\ work' = NoWork /\ pc' = "execute"
            ELSE /\ work' = [id |-> work.id, qty |-> got, fee |-> Taker,
                             status |-> Unfilled(Fillable(work.id), got), back |-> "execute"]
                 /\ pc' = "filling" /\ row' = row
    BY <1>12 DEF Walk
  <2>4. got \in Nat
    BY <2>2
  <2>5. row' \in [Ids -> {"NONE", "NEW", "FILLED", "CANCELLED"}] /\ pc' \in {"execute", "filling"}
    BY <2>1, <2>3 DEF TypeOK
  <2>6. work' \in [id : 0..MaxDecisions, qty : Nat, fee : Nat,
                    status : {"NONE", "FILLED", "CANCELLED"}, back : {"idle", "resting", "execute"}]
    BY <2>1, <2>2, <2>3, <2>4, BoundsAssumption DEF NoWork, Unfilled, Ids
  <2>7. QED
    BY <1>12, <2>5, <2>6 DEF Walk, TypeOK, ledger
<1>13. CASE ApplyFill
  <2>1. PICK i : i = work.id
    OBVIOUS
  <2>2. PICK e : e = decisions[i]
    OBVIOUS
  <2>3. /\ i \in Known /\ i \in Ids /\ pc = "filling"
        /\ e.pair \in Pairs /\ e.side \in {"buy", "sell"} /\ e.price \in Nat
        /\ e.stop \in Stops \cup {0}
    BY <1>13, <2>1, <2>2, KnownIds, DecisionTypes
    DEF BookInv, WorkHolds, DecisionsHold, ApplyFill, Filling
  <2>4. PICK q \in Nat, fee \in Nat : q = work.qty /\ fee = work.fee
    BY DEF TypeOK
  <2>5. fee <= Den /\ (e.side = "sell" => q <= held[e.pair]) /\ Den \in Nat
    BY <2>1, <2>2, <2>3, <2>4, LimitsAssumption DEF BookInv, WorkHolds
  <2>6. cash \in Nat /\ held \in [Pairs -> Nat] /\ stop \in [Pairs -> Stops \cup {0}] /\ fills \in [Ids -> Fill]
    BY DEF TypeOK
  <2>7. IF e.side = "buy"
          THEN /\ e.price * q * (Den + fee) <= cash
               /\ cash' = cash - e.price * q * (Den + fee)
               /\ held' = [held EXCEPT ![e.pair] = @ + q]
               /\ stop' = [stop EXCEPT ![e.pair] = Greatest(@, e.stop)]
          ELSE /\ cash' = cash + e.price * q * (Den - fee)
               /\ held' = [held EXCEPT ![e.pair] = @ - q]
               /\ stop' = IF held[e.pair] = q THEN [stop EXCEPT ![e.pair] = 0] ELSE stop
    BY <1>13, <2>1, <2>2, <2>4, Zenon DEF ApplyFill, Payable
  <2>8. fills' \in [Ids -> Fill]
    BY <1>13, <2>1, <2>3, <2>4, <2>6 DEF ApplyFill, Fill
  <2>9. cash' \in Nat
    <3>1. e.price * q * (Den + fee) \in Nat /\ e.price * q * (Den - fee) \in Nat
      <4>1. PICK a \in Nat, b \in Nat, c \in Nat : a = e.price * q /\ b = Den + fee /\ c = Den - fee
        <5>1. Den + fee \in Nat /\ Den - fee \in Nat
          BY <2>4, <2>5
        <5>2. e.price * q \in Nat
          BY <2>3, <2>4
        <5>3. QED
          BY <5>1, <5>2
      <4>2. a * b \in Nat /\ a * c \in Nat
        OBVIOUS
      <4>3. QED
        BY <4>1, <4>2
    <3>2. QED
      BY <2>6, <2>7, <3>1
  <2>10. held' \in [Pairs -> Nat]
    BY <2>3, <2>4, <2>5, <2>6, <2>7
  <2>11. stop' \in [Pairs -> Stops \cup {0}]
    BY <2>3, <2>4, <2>6, <2>7 DEF Greatest
  <2>12. QED
    BY <1>13, <2>8, <2>9, <2>10, <2>11 DEF ApplyFill, TypeOK
<1>14. CASE Overdrawn
  <2>1. ctx' \in [pending : [Pairs -> Nat], count : Nat] /\ approved' \in Seq(Ids)
    BY <1>14 DEF Overdrawn, NoContext, TypeOK
  <2>2. QED
    BY <1>14, <2>1, BoundsAssumption DEF Overdrawn, TypeOK, NoWork, tables, ledger
<1>15. CASE SaveStops
  BY <1>15, SMTT(60)
     DEF SaveStops, TypeOK, tables, ledger, local
<1>16. CASE CloseOrder
  <2>1. PICK i : i = work.id
    OBVIOUS
  <2>2. /\ i \in Ids /\ work.status \in {"NONE", "FILLED", "CANCELLED"}
        /\ work.back \in {"idle", "resting", "execute"}
    BY <1>16, <2>1, KnownIds DEF CloseOrder, BookInv, WorkHolds, Filling, TypeOK
  <2>3. row' \in [Ids -> {"NONE", "NEW", "FILLED", "CANCELLED"}]
    BY <1>16, <2>1, <2>2 DEF CloseOrder, ClosedAs, TypeOK
  <2>4. QED
    BY <1>16, <2>2, <2>3, BoundsAssumption DEF CloseOrder, TypeOK, NoWork, ledger
<1>17. CASE CycleEnd
  <2>1. ctx' \in [pending : [Pairs -> Nat], count : Nat] /\ approved' \in Seq(Ids)
    BY <1>17 DEF CycleEnd, NoContext, TypeOK
  <2>2. QED
    BY <1>17, <2>1, BoundsAssumption DEF CycleEnd, TypeOK, NoWork, tables, ledger
<1>18. CASE CancelAll
  BY <1>18, SMTT(60)
     DEF CancelAll, TypeOK, tables, ledger, local
<1>19. ASSUME NEW i \in Ids, Age(i)
       PROVE  TypeOK'
  BY <1>19, SMTT(60)
     DEF Age, TypeOK, tables, ledger, local
<1>20. CASE Crash
  <2>1. cash' = cash /\ held' = held
    BY <1>20, BooksAreFills DEF Crash, LedgerIsFills
  <2>2. stop' \in [Pairs -> Stops \cup {0}]
    BY <1>20 DEF Crash, TypeOK
  <2>3. crashes' \in 0..MaxCrashes
    BY <1>20, BoundsAssumption DEF Crash, TypeOK
  <2>4. ctx' \in [pending : [Pairs -> Nat], count : Nat] /\ approved' \in Seq(Ids)
    BY <1>20 DEF Crash, NoContext
  <2>5. QED
    BY <1>20, <2>1, <2>2, <2>3, <2>4, BoundsAssumption DEF Crash, TypeOK, NoWork, tables
<1>21. CASE UNCHANGED vars
  BY <1>21, SMTT(60)
     DEF vars, TypeOK, tables, ledger, local
<1>22. QED
  BY <1>1, <1>2, <1>3, <1>4, <1>5, <1>6, <1>7, <1>8, <1>9, <1>10, <1>11, <1>12, <1>13, <1>14, <1>15,
     <1>16, <1>17, <1>18, <1>19, <1>20, <1>21,
     Approvals DEF Next


\* What is not booked adds nothing; a decision yet unknown neither.
LEMMA BookTypes ==
  ASSUME TypeOK
  PROVE  /\ \A i \in Ids : Spent[i] \in Int /\ Earned[i] \in Int
         /\ \A p \in Pairs, i \in Ids : Bought(p)[i] \in Int /\ Sold(p)[i] \in Int
<1>1. /\ \A i \in Ids : fills[i].qty \in Nat /\ fills[i].fee \in Nat
      /\ \A i \in Known : decisions[i].price \in Nat
      /\ Den \in Nat
  BY LimitsAssumption, DecisionTypes, FillTypes
<1>2. Side("buy") \subseteq Known /\ Side("sell") \subseteq Known
  BY DEF Side
<1>3. ASSUME NEW i \in Ids PROVE Spent[i] \in Int /\ Earned[i] \in Int
  BY <1>1, <1>2 DEF Spent, Earned, Paid, Received
<1>4. QED
  BY <1>1, <1>3 DEF Bought, Sold, Booked

\* A fill adds its price and its fee once, to the table as to the ledger.
LEMMA BooksStep ==
  ASSUME TypeOK, BookInv, Books, Next \/ UNCHANGED vars
  PROVE  Books'
<1>0. ASSUME UNCHANGED <<decisions, fills, cash, held>> PROVE Books'
  BY <1>0 DEF Books, Spent, Earned, Bought, Sold, Side, Of, Known, Paid, Received, Booked, Ids
<1>1. CASE CycleStart
  BY <1>0, <1>1 DEF CycleStart, tables, ledger
<1>2. ASSUME NEW i \in orders, FillResting(i)
       PROVE  Books'
  BY <1>0, <1>2 DEF FillResting, tables, ledger
<1>3. ASSUME NEW i \in orders, CancelResting(i)
       PROVE  Books'
  BY <1>0, <1>3 DEF CancelResting, tables, ledger
<1>4. ASSUME NEW i \in orders, KeepResting(i)
       PROVE  Books'
  BY <1>0, <1>4 DEF KeepResting, tables, ledger
<1>5. CASE BuildContext
  BY <1>0, <1>5 DEF BuildContext, tables, ledger
<1>6. ASSUME NEW d, Approval(d)
       PROVE  Books'
  <2>1. PICK n : n = Len(decisions) + 1
    OBVIOUS
  <2>2. /\ n \in Ids \ Known /\ Known' = Known \cup {n}
        /\ \A i \in Known : decisions'[i] = decisions[i]
    BY <1>6, <2>1, Appended DEF BookInv
  <2>3. fills' = fills /\ cash' = cash /\ held' = held /\ fills[n] = NoFill
    BY <1>6, <2>2 DEF Approval, ledger, BookInv, FillsHold
  <2>4. decisions'[n].price \in Nat /\ decisions'[n] = d /\ Den \in Nat
    BY <1>6, <2>1, Appended, LimitsAssumption DEF BookInv, Approval, Decision
  <2>5. \A i \in Ids : i = n \/ i \in Known \/ i \notin Known'
    BY <2>2
  <2>6. Spent' = Spent /\ Earned' = Earned
    BY <2>2, <2>3, <2>4 DEF Spent, Earned, Side, Paid, Received, NoFill
  <2>7. ASSUME NEW p \in Pairs PROVE Bought(p)' = Bought(p) /\ Sold(p)' = Sold(p)
    BY <2>2, <2>3 DEF Bought, Sold, Of, Booked, NoFill
  <2>8. QED
    BY <2>3, <2>6, <2>7 DEF Books
<1>7. ASSUME NEW p \in Pairs, NoExit(p)
       PROVE  Books'
  BY <1>0, <1>7 DEF NoExit, tables, ledger
<1>8. CASE ExitsDone
  BY <1>0, <1>8 DEF ExitsDone, tables, ledger
<1>9. CASE Trail
  BY <1>0, <1>9 DEF Trail, tables, ledger
<1>10. CASE ProposalsDone
  BY <1>0, <1>10 DEF ProposalsDone, tables, ledger
<1>11. CASE RecordOrder
  BY <1>0, <1>11 DEF RecordOrder, tables, ledger
<1>12. CASE Walk
  BY <1>0, <1>12 DEF Walk, tables, ledger
<1>13. CASE ApplyFill
  <2>1. PICK i : i = work.id
    OBVIOUS
  <2>2. PICK e : e = decisions[i]
    OBVIOUS
  <2>3. /\ i \in Known /\ i \in Ids /\ pc = "filling" /\ fills[i] = NoFill
        /\ e.pair \in Pairs /\ e.side \in {"buy", "sell"} /\ e.price \in Nat
    BY <1>13, <2>1, <2>2, KnownIds, DecisionTypes DEF BookInv, WorkHolds, ApplyFill, Filling
  <2>4. PICK q \in Nat, fee \in Nat : q = work.qty /\ fee = work.fee
    BY DEF TypeOK
  <2>5. /\ decisions' = decisions /\ Known' = Known
        /\ fills' = [fills EXCEPT ![i] = [qty |-> q, fee |-> fee]]
    BY <1>13, <2>1, <2>3, <2>4 DEF ApplyFill, Known
  <2>6. IF e.side = "buy"
          THEN /\ cash' = cash - e.price * q * (Den + fee)
               /\ held' = [held EXCEPT ![e.pair] = @ + q]
          ELSE /\ cash' = cash + e.price * q * (Den - fee)
               /\ held' = [held EXCEPT ![e.pair] = @ - q]
    BY <1>13, <2>1, <2>2, <2>4, Zenon DEF ApplyFill
  <2>7. fills'[i].qty = q /\ fills'[i].fee = fee /\ \A j \in Ids : j # i => fills'[j] = fills[j]
    BY <2>3, <2>5 DEF TypeOK
  <2>8. Den \in Nat /\ cash \in Nat /\ held \in [Pairs -> Nat] /\ Capital * Den \in Int
    BY LimitsAssumption DEF TypeOK
  <2>9. e.price * q * (Den + fee) \in Int /\ e.price * q * (Den - fee) \in Int
    <3>1. PICK a \in Int, b \in Int, c \in Int : a = e.price * q /\ b = Den + fee /\ c = Den - fee
      BY <2>3, <2>8
    <3>2. QED
      BY <3>1
  <2>10. /\ \A j \in Ids : Spent[j] \in Int /\ Earned[j] \in Int
         /\ \A p \in Pairs, j \in Ids : Bought(p)[j] \in Int /\ Sold(p)[j] \in Int
    BY BookTypes
  <2>11. /\ \A j \in Ids : j # i => Spent'[j] = Spent[j] /\ Earned'[j] = Earned[j]
         /\ \A p \in Pairs, j \in Ids : j # i => Bought(p)'[j] = Bought(p)[j] /\ Sold(p)'[j] = Sold(p)[j]
    BY <2>5, <2>7 DEF Spent, Earned, Bought, Sold, Side, Of, Paid, Received, Booked
  <2>12. Spent[i] = 0 /\ Spent'[i] = IF e.side = "buy" THEN e.price * q * (Den + fee) ELSE 0
    BY <2>2, <2>3, <2>5, <2>7, <2>8 DEF Spent, Side, Paid, NoFill
  <2>13. Earned[i] = 0 /\ Earned'[i] = IF e.side = "sell" THEN e.price * q * (Den - fee) ELSE 0
    BY <2>2, <2>3, <2>5, <2>7, <2>8 DEF Earned, Side, Received, NoFill
  <2>14. ASSUME NEW p \in Pairs
         PROVE  /\ Bought(p)[i] = 0 /\ Bought(p)'[i] = IF e.side = "buy" /\ e.pair = p THEN q ELSE 0
                /\ Sold(p)[i] = 0 /\ Sold(p)'[i] = IF e.side = "sell" /\ e.pair = p THEN q ELSE 0
    BY <2>2, <2>3, <2>5, <2>7 DEF Bought, Sold, Of, Booked, NoFill
  <2>15. ASSUME NEW v, NEW w, \A j \in Ids : v[j] \in Int, w[i] \in Int,
                \A j \in Ids : j # i => v[j] = w[j], v[i] \in {0}
         PROVE  SumOver(w, Ids) = SumOver(v, Ids) + w[i] /\ SumOver(v, Ids) \in Int
    <3>1. /\ IsFiniteSet(Ids) /\ i \in Ids /\ \A j \in Ids : v[j] \in Int
          /\ w[i] \in Int /\ v[i] \in {0} /\ \A j \in Ids : j # i => v[j] = w[j]
      BY <2>3, <2>15, IdsFinite, Zenon
    <3>2. QED
      BY <3>1, SumOneMore, Zenon
  <2>16. SumOver(Spent', Ids) = SumOver(Spent, Ids) + Spent'[i] /\ SumOver(Spent, Ids) \in Int
    BY <2>9, <2>10, <2>11, <2>12, <2>15
  <2>17. SumOver(Earned', Ids) = SumOver(Earned, Ids) + Earned'[i] /\ SumOver(Earned, Ids) \in Int
    BY <2>9, <2>10, <2>11, <2>13, <2>15
  <2>18. ASSUME NEW p \in Pairs
         PROVE  SumOver(Bought(p)', Ids) = SumOver(Bought(p), Ids) + Bought(p)'[i] /\ SumOver(Bought(p), Ids) \in Int
    BY <2>4, <2>10, <2>11, <2>14, <2>15
  <2>19. ASSUME NEW p \in Pairs
         PROVE  SumOver(Sold(p)', Ids) = SumOver(Sold(p), Ids) + Sold(p)'[i] /\ SumOver(Sold(p), Ids) \in Int
    BY <2>4, <2>10, <2>11, <2>14, <2>15
  <2>20. Ids' = Ids
    BY DEF Ids
  <2>21. cash' = Capital * Den - SumOver(Spent', Ids) + SumOver(Earned', Ids)
    <3>1. cash = Capital * Den - SumOver(Spent, Ids) + SumOver(Earned, Ids)
      BY DEF Books
    <3>2. QED
      BY <2>3, <2>6, <2>8, <2>9, <2>12, <2>13, <2>16, <2>17, <3>1
  <2>22. ASSUME NEW p \in Pairs
         PROVE  held'[p] = SumOver(Bought(p)', Ids) - SumOver(Sold(p)', Ids)
    <3>1. held[p] = SumOver(Bought(p), Ids) - SumOver(Sold(p), Ids)
      BY DEF Books
    <3>2. held'[p] = held[p] + (IF e.side = "buy" /\ e.pair = p THEN q ELSE 0)
                             - (IF e.side = "sell" /\ e.pair = p THEN q ELSE 0)
      <4>1. CASE e.side = "buy"
        <5>1. held' = [held EXCEPT ![e.pair] = @ + q] /\ e.side # "sell"
          BY <2>6, <4>1
        <5>2. held'[p] = IF e.pair = p THEN held[p] + q ELSE held[p]
          BY <2>3, <2>8, <5>1
        <5>3. QED
          BY <2>8, <4>1, <5>1, <5>2
      <4>2. CASE e.side = "sell"
        <5>1. held' = [held EXCEPT ![e.pair] = @ - q] /\ e.side # "buy"
          BY <2>6, <4>2
        <5>2. held'[p] = IF e.pair = p THEN held[p] - q ELSE held[p]
          BY <2>3, <2>8, <5>1
        <5>3. QED
          BY <2>8, <4>2, <5>1, <5>2
      <4>3. QED
        BY <2>3, <4>1, <4>2
    <3>3. QED
      BY <2>8, <2>14, <2>18, <2>19, <3>1, <3>2
  <2>23. QED
    BY <2>20, <2>21, <2>22 DEF Books
<1>14. CASE Overdrawn
  BY <1>0, <1>14 DEF Overdrawn, tables, ledger
<1>15. CASE SaveStops
  BY <1>0, <1>15 DEF SaveStops, tables, ledger
<1>16. CASE CloseOrder
  BY <1>0, <1>16 DEF CloseOrder, ClosedAs, tables, ledger
<1>17. CASE CycleEnd
  BY <1>0, <1>17 DEF CycleEnd, tables, ledger
<1>18. CASE CancelAll
  BY <1>0, <1>18 DEF CancelAll, tables, ledger
<1>19. ASSUME NEW i \in Ids, Age(i)
       PROVE  Books'
  BY <1>0, <1>19 DEF Age, tables, ledger
<1>20. CASE Crash
  BY <1>0, <1>20, BooksAreFills DEF Crash, LedgerIsFills, tables
<1>21. CASE UNCHANGED vars
  BY <1>0, <1>21 DEF vars, tables, ledger, local
<1>22. QED
  BY <1>1, <1>2, <1>3, <1>4, <1>5, <1>6, <1>7, <1>8, <1>9, <1>10, <1>11, <1>12, <1>13, <1>14, <1>15,
     <1>16, <1>17, <1>18, <1>19, <1>20, <1>21,
     Approvals DEF Next


\* The broker's work in progress, step by step.
LEMMA NothingWaits == approved = <<>> => Waiting = {}
  BY DEF Waiting

\* The same after a step.
LEMMA NothingWillWait == approved' = <<>> => Waiting' = {}
  BY DEF Waiting

\* Steps that leave the queue or the table alone.
LEMMA SameQueue == (approved' = approved => Waiting' = Waiting) /\ (decisions' = decisions => Known' = Known)
  BY DEF Waiting, Known

\* What is in progress was created and not yet booked.
LEMMA WorkStep ==
  ASSUME TypeOK, BookInv, ~TornCrash, Next \/ UNCHANGED vars
  PROVE  WorkHolds'
<1>1. CASE CycleStart
  BY <1>1 DEF CycleStart, WorkHolds, Filling, Awaiting, tables, ledger, local, BookInv, TypeOK
<1>2. ASSUME NEW i \in orders, FillResting(i)
       PROVE  WorkHolds'
  <2>1. i \in Known /\ row[i] = "NEW" /\ i \in Ids /\ pc = "resting"
    BY <1>2, KnownIds DEF FillResting, BookInv, QueuesHold, Resting
  <2>2. fills[i] = NoFill
    BY <2>1 DEF BookInv, FillsHold
  <2>3. /\ Fillable(i) \in Nat /\ Fillable(i) > 0
        /\ decisions[i].side = "sell" => Fillable(i) <= held[decisions[i].pair]
        /\ decisions[i].side = "buy" => Fillable(i) <= decisions[i].qty
    BY <1>2, <2>1, FillableIs DEF FillResting
  <2>4. Passive <= Den
    BY LimitsAssumption
  <2>5. /\ work'.id = i /\ work'.qty = Fillable(i) /\ work'.fee = Passive
        /\ work'.status = "FILLED" /\ work'.back = "resting" /\ pc' = "filling"
        /\ decisions' = decisions /\ Known' = Known /\ row' = row /\ fills' = fills /\ held' = held
    BY <1>2 DEF FillResting, tables, ledger, Known
  <2>6. QED
    BY <2>1, <2>2, <2>3, <2>4, <2>5 DEF WorkHolds, Filling
<1>3. ASSUME NEW i \in orders, CancelResting(i)
       PROVE  WorkHolds'
  BY <1>3 DEF CancelResting, WorkHolds, Filling, Awaiting, tables, ledger, local, BookInv, TypeOK
<1>4. ASSUME NEW i \in orders, KeepResting(i)
       PROVE  WorkHolds'
  BY <1>4 DEF KeepResting, WorkHolds, Filling, Awaiting, tables, ledger, local, BookInv, TypeOK
<1>5. CASE BuildContext
  BY <1>5 DEF BuildContext, WorkHolds, Filling, Awaiting, tables, ledger, local, BookInv, TypeOK
<1>6. ASSUME NEW d, Approval(d)
       PROVE  WorkHolds'
  BY <1>6 DEF Approval, WorkHolds, Filling
<1>7. ASSUME NEW p \in Pairs, NoExit(p)
       PROVE  WorkHolds'
  BY <1>7 DEF NoExit, WorkHolds, Filling, Awaiting, tables, ledger, local, BookInv, TypeOK
<1>8. CASE ExitsDone
  BY <1>8 DEF ExitsDone, WorkHolds, Filling, Awaiting, tables, ledger, local, BookInv, TypeOK
<1>9. CASE Trail
  BY <1>9 DEF Trail, WorkHolds, Filling, Awaiting, tables, ledger, local, BookInv, TypeOK
<1>10. CASE ProposalsDone
  BY <1>10 DEF ProposalsDone, WorkHolds, Filling, Awaiting, tables, ledger, local, BookInv, TypeOK
<1>11. CASE RecordOrder
  <2>1. PICK h : h = Head(approved)
    OBVIOUS
  <2>2. h \in Known /\ row[h] = "NONE" /\ h \in Ids
    BY <1>11, <2>1, Recorded, KnownIds DEF BookInv
  <2>3. fills[h] = NoFill
    BY <2>2 DEF BookInv, FillsHold
  <2>4. row' = [row EXCEPT ![h] = "NEW"] /\ row'[h] = "NEW" /\ Known' = Known
    BY <1>11, <2>1, <2>2 DEF RecordOrder, TypeOK, Known
  <2>5. Marketable(h)' = Marketable(h)
    BY <1>11 DEF RecordOrder, Marketable, ask
  <2>6. CASE Marketable(h)
    <3>1. work'.id = h /\ pc' = "walk" /\ fills' = fills
      BY <1>11, <2>1, <2>6 DEF RecordOrder, NoWork
    <3>2. Marketable(work.id)'
      BY <2>5, <2>6, <3>1
    <3>3. QED
      BY <2>2, <2>3, <2>4, <3>1, <3>2 DEF WorkHolds, Filling
  <2>7. CASE ~Marketable(h)
    BY <1>11, <2>1, <2>7 DEF RecordOrder, WorkHolds, Filling
  <2>8. QED
    BY <2>6, <2>7
<1>12. CASE Walk
  <2>1. PICK i : i = work.id
    OBVIOUS
  <2>2. /\ i \in Known /\ row[i] = "NEW" /\ i \in Ids /\ pc = "walk" /\ fills[i] = NoFill /\ Marketable(i)
    BY <1>12, <2>1, KnownIds DEF Walk, BookInv, WorkHolds
  <2>3. /\ Fillable(i) \in Nat
        /\ decisions[i].side = "sell" => Fillable(i) <= held[decisions[i].pair]
        /\ decisions[i].side = "buy" => Fillable(i) <= decisions[i].qty
    BY <2>2, FillableIs
  <2>4. PICK got \in (IF decisions[i].emergency THEN {Fillable(i)} ELSE 0..Fillable(i)) :
          IF got = 0
            THEN pc' = "execute"
            ELSE /\ work' = [id |-> i, qty |-> got, fee |-> Taker,
                             status |-> Unfilled(Fillable(i), got), back |-> "execute"]
                 /\ pc' = "filling" /\ row' = row
    BY <1>12, <2>1 DEF Walk
  <2>5. CASE got = 0
    BY <2>4, <2>5 DEF WorkHolds, Filling
  <2>6. CASE got # 0
    <3>1. got \in Nat /\ got > 0 /\ got <= Fillable(i)
      BY <2>3, <2>6
    <3>2. /\ work'.id = i /\ work'.qty = got /\ work'.fee = Taker
          /\ work'.status # "NONE" /\ work'.back = "execute" /\ pc' = "filling" /\ row' = row
      BY <2>4, <2>6 DEF Unfilled
    <3>3. decisions' = decisions /\ Known' = Known /\ fills' = fills /\ held' = held /\ bid' = bid
      BY <1>12 DEF Walk, ledger, Known
    <3>4. Marketable(work.id)'
      BY <2>2, <3>2, <3>3 DEF Marketable, ask
    <3>5. Taker <= Den
      BY LimitsAssumption
    <3>6. /\ decisions[i].side = "sell" => got <= held[decisions[i].pair]
          /\ decisions[i].side = "buy" => got <= decisions[i].qty
      <4>1. decisions[i].pair \in Pairs /\ decisions[i].qty \in Nat
        BY <2>2, DecisionTypes
      <4>2. held[decisions[i].pair] \in Nat
        BY <4>1 DEF TypeOK
      <4>3. QED
        BY <2>3, <3>1, <4>1, <4>2
    <3>7. QED
      BY <2>2, <3>1, <3>2, <3>3, <3>4, <3>5, <3>6 DEF WorkHolds, Filling
  <2>7. QED
    BY <2>5, <2>6
<1>13. CASE ApplyFill
  <2>1. /\ work' = work /\ decisions' = decisions /\ Known' = Known /\ row' = row /\ bid' = bid
        /\ pc \in Filling /\ pc' \in {"saving", "closing"}
    BY <1>13 DEF ApplyFill, Known, Filling
  <2>2. Marketable(work.id)' = Marketable(work.id)
    BY <2>1 DEF Marketable, ask
  <2>3. QED
    BY <2>1, <2>2 DEF BookInv, WorkHolds, Filling
<1>14. CASE Overdrawn
  BY <1>14 DEF Overdrawn, WorkHolds, Filling, Awaiting, tables, ledger, local, BookInv, TypeOK
<1>15. CASE SaveStops
  <2>1. /\ work' = work /\ decisions' = decisions /\ Known' = Known /\ row' = row /\ bid' = bid
        /\ pc \in Filling /\ pc' \in {"saving", "closing"}
    BY <1>15 DEF SaveStops, Known, Filling
  <2>2. Marketable(work.id)' = Marketable(work.id)
    BY <2>1 DEF Marketable, ask
  <2>3. QED
    BY <2>1, <2>2 DEF BookInv, WorkHolds, Filling
<1>16. CASE CloseOrder
  BY <1>16 DEF CloseOrder, BookInv, WorkHolds, Filling, TypeOK
<1>17. CASE CycleEnd
  BY <1>17 DEF CycleEnd, WorkHolds, Filling, Awaiting, tables, ledger, local, BookInv, TypeOK
<1>18. CASE CancelAll
  BY <1>18 DEF CancelAll, WorkHolds, Filling, Awaiting, tables, ledger, local, BookInv, TypeOK
<1>19. ASSUME NEW i \in Ids, Age(i)
       PROVE  WorkHolds'
  BY <1>19 DEF Age, WorkHolds, Filling, Awaiting, tables, ledger, local, BookInv, TypeOK
<1>20. CASE Crash
  BY <1>20 DEF Crash, WorkHolds, Filling, Awaiting, tables, ledger, local, BookInv, TypeOK
<1>21. CASE UNCHANGED vars
  BY <1>21 DEF vars, tables, ledger, local, BookInv, WorkHolds, Marketable, ask, Known
<1>22. QED
  BY <1>1, <1>2, <1>3, <1>4, <1>5, <1>6, <1>7, <1>8, <1>9, <1>10, <1>11, <1>12, <1>13, <1>14, <1>15,
     <1>16, <1>17, <1>18, <1>19, <1>20, <1>21,
     Approvals DEF Next

\* What waits is not an order yet, what check_resting has still to see rests.
LEMMA QueueStep ==
  ASSUME TypeOK, BookInv, ~TornCrash, Next \/ UNCHANGED vars
  PROVE  QueuesHold'
<1>1. CASE CycleStart
  BY <1>1, SameQueue, NothingWaits, NothingWillWait, KnownIds, SMTT(60)
     DEF CycleStart, Resting, BookInv, QueuesHold, WorkHolds, Filling, Awaiting, tables, ledger, local, TypeOK
<1>2. ASSUME NEW i \in orders, FillResting(i)
       PROVE  QueuesHold'
  BY <1>2, SameQueue, NothingWaits, NothingWillWait, KnownIds, SMTT(60)
     DEF FillResting, Resting, BookInv, QueuesHold, WorkHolds, Filling, Awaiting, tables, ledger, local, TypeOK
<1>3. ASSUME NEW i \in orders, CancelResting(i)
       PROVE  QueuesHold'
  BY <1>3, SameQueue, NothingWaits, NothingWillWait, KnownIds, SMTT(60)
     DEF CancelResting, Resting, BookInv, QueuesHold, WorkHolds, Filling, Awaiting, tables, ledger, local, TypeOK
<1>4. ASSUME NEW i \in orders, KeepResting(i)
       PROVE  QueuesHold'
  BY <1>4, SameQueue, NothingWaits, NothingWillWait, KnownIds, SMTT(60)
     DEF KeepResting, Resting, BookInv, QueuesHold, WorkHolds, Filling, Awaiting, tables, ledger, local, TypeOK
<1>5. CASE BuildContext
  BY <1>5, SameQueue, NothingWaits, NothingWillWait, KnownIds, SMTT(60)
     DEF BuildContext, Resting, BookInv, QueuesHold, WorkHolds, Filling, Awaiting, tables, ledger, local, TypeOK
<1>6. ASSUME NEW d, Approval(d)
       PROVE  QueuesHold'
  <2>1. PICK n : n = Len(decisions) + 1
    OBVIOUS
  <2>2. /\ n \in Ids \ Known /\ Known' = Known \cup {n} /\ Waiting' = Waiting \cup {n}
        /\ \A k, l \in 1..Len(approved') : approved'[k] = approved'[l] => k = l
    BY <1>6, <2>1, Appended DEF BookInv
  <2>3. row' = row /\ pc' = pc /\ work' = work /\ orders' = orders /\ pc \in {"exits", "entries", "manager"}
    BY <1>6 DEF Approval
  <2>4. Waiting \subseteq Known /\ (\A i \in Waiting : row[i] = "NONE") /\ orders \subseteq Resting /\ row[n] = "NONE"
    BY <2>2 DEF BookInv, QueuesHold, FillsHold
  <2>5. orders = {}
    BY <2>3 DEF BookInv, QueuesHold, Filling
  <2>6. QED
    BY <2>2, <2>3, <2>4, <2>5 DEF QueuesHold, Filling
<1>7. ASSUME NEW p \in Pairs, NoExit(p)
       PROVE  QueuesHold'
  BY <1>7, SameQueue, NothingWaits, NothingWillWait, KnownIds, SMTT(60)
     DEF NoExit, Resting, BookInv, QueuesHold, WorkHolds, Filling, Awaiting, tables, ledger, local, TypeOK
<1>8. CASE ExitsDone
  BY <1>8, SameQueue, NothingWaits, NothingWillWait, KnownIds, SMTT(60)
     DEF ExitsDone, Resting, BookInv, QueuesHold, WorkHolds, Filling, Awaiting, tables, ledger, local, TypeOK
<1>9. CASE Trail
  BY <1>9, SameQueue, NothingWaits, NothingWillWait, KnownIds, SMTT(60)
     DEF Trail, Resting, BookInv, QueuesHold, WorkHolds, Filling, Awaiting, tables, ledger, local, TypeOK
<1>10. CASE ProposalsDone
  BY <1>10, SameQueue, NothingWaits, NothingWillWait, KnownIds, SMTT(60)
     DEF ProposalsDone, Resting, BookInv, QueuesHold, WorkHolds, Filling, Awaiting, tables, ledger, local, TypeOK
<1>11. CASE RecordOrder
  <2>1. PICK h : h = Head(approved)
    OBVIOUS
  <2>2. /\ h \in Known /\ row[h] = "NONE" /\ Waiting' = Waiting \ {h}
        /\ \A k, l \in 1..Len(approved') : approved'[k] = approved'[l] => k = l
    BY <1>11, <2>1, Recorded DEF BookInv
  <2>3. /\ row' = [row EXCEPT ![h] = "NEW"] /\ Known' = Known /\ orders' = orders
        /\ pc = "execute" /\ pc' \in {"walk", "execute"}
    BY <1>11, <2>1 DEF RecordOrder, Known
  <2>4. Waiting \subseteq Known /\ (\A i \in Waiting : row[i] = "NONE") /\ orders = {}
    BY <2>3 DEF BookInv, QueuesHold, Filling
  <2>5. \A i \in Waiting' : row'[i] = "NONE"
    <3>1. \A i \in Waiting' : i \in Ids /\ i # h /\ row[i] = "NONE"
      BY <2>2, <2>4, KnownIds
    <3>2. QED
      BY <2>3, <3>1 DEF TypeOK
  <2>6. QED
    BY <2>2, <2>3, <2>4, <2>5 DEF QueuesHold, Filling
<1>12. CASE Walk
  BY <1>12, SameQueue, NothingWaits, NothingWillWait, KnownIds, SMTT(60)
     DEF Walk, Resting, BookInv, QueuesHold, WorkHolds, Filling, Awaiting, tables, ledger, local, TypeOK
<1>13. CASE ApplyFill
  BY <1>13, SameQueue, NothingWaits, NothingWillWait, KnownIds, SMTT(60)
     DEF ApplyFill, Resting, BookInv, QueuesHold, WorkHolds, Filling, Awaiting, tables, ledger, local, TypeOK
<1>14. CASE Overdrawn
  BY <1>14, SameQueue, NothingWaits, NothingWillWait, KnownIds, SMTT(60)
     DEF Overdrawn, Resting, BookInv, QueuesHold, WorkHolds, Filling, Awaiting, tables, ledger, local, TypeOK
<1>15. CASE SaveStops
  BY <1>15, SameQueue, NothingWaits, NothingWillWait, KnownIds, SMTT(60)
     DEF SaveStops, Resting, BookInv, QueuesHold, WorkHolds, Filling, Awaiting, tables, ledger, local, TypeOK
<1>16. CASE CloseOrder
  BY <1>16, SameQueue, NothingWaits, NothingWillWait, KnownIds, SMTT(60)
     DEF CloseOrder, ClosedAs, Resting, BookInv, QueuesHold, WorkHolds, Filling, Awaiting, tables, ledger, local, TypeOK
<1>17. CASE CycleEnd
  BY <1>17, SameQueue, NothingWaits, NothingWillWait, KnownIds, SMTT(60)
     DEF CycleEnd, Resting, BookInv, QueuesHold, WorkHolds, Filling, Awaiting, tables, ledger, local, TypeOK
<1>18. CASE CancelAll
  BY <1>18, SameQueue, NothingWaits, NothingWillWait, KnownIds, SMTT(60)
     DEF CancelAll, Resting, BookInv, QueuesHold, WorkHolds, Filling, Awaiting, tables, ledger, local, TypeOK
<1>19. ASSUME NEW i \in Ids, Age(i)
       PROVE  QueuesHold'
  BY <1>19, SameQueue, NothingWaits, NothingWillWait, KnownIds, SMTT(60)
     DEF Age, Resting, BookInv, QueuesHold, WorkHolds, Filling, Awaiting, tables, ledger, local, TypeOK
<1>20. CASE Crash
  BY <1>20, SameQueue, NothingWaits, NothingWillWait, KnownIds, SMTT(60)
     DEF Crash, Resting, BookInv, QueuesHold, WorkHolds, Filling, Awaiting, tables, ledger, local, TypeOK
<1>21. CASE UNCHANGED vars
  BY <1>21, SameQueue, NothingWaits, NothingWillWait, KnownIds, SMTT(60)
     DEF vars, Resting, BookInv, QueuesHold, WorkHolds, Filling, Awaiting, tables, ledger, local, TypeOK
<1>22. QED
  BY <1>1, <1>2, <1>3, <1>4, <1>5, <1>6, <1>7, <1>8, <1>9, <1>10, <1>11, <1>12, <1>13, <1>14, <1>15,
     <1>16, <1>17, <1>18, <1>19, <1>20, <1>21,
     Approvals DEF Next

\* An order is booked at most once, in the step that closes it.
LEMMA FillsStep ==
  ASSUME TypeOK, BookInv, ~TornCrash, Next \/ UNCHANGED vars
  PROVE  FillsHold'
<1>1. CASE CycleStart
  BY <1>1, SameQueue, SMTT(60)
     DEF CycleStart, BookInv, FillsHold, WorkHolds, Filling, Awaiting, tables, ledger, local, TypeOK
<1>2. ASSUME NEW i \in orders, FillResting(i)
       PROVE  FillsHold'
  BY <1>2, SameQueue, SMTT(60)
     DEF FillResting, BookInv, FillsHold, WorkHolds, Filling, Awaiting, tables, ledger, local, TypeOK
<1>3. ASSUME NEW i \in orders, CancelResting(i)
       PROVE  FillsHold'
  BY <1>3, SameQueue, KnownIds, SMTT(60)
     DEF CancelResting, BookInv, QueuesHold, Resting, FillsHold, TypeOK
<1>4. ASSUME NEW i \in orders, KeepResting(i)
       PROVE  FillsHold'
  BY <1>4, SameQueue, SMTT(60)
     DEF KeepResting, BookInv, FillsHold, WorkHolds, Filling, Awaiting, tables, ledger, local, TypeOK
<1>5. CASE BuildContext
  BY <1>5, SameQueue, SMTT(60)
     DEF BuildContext, BookInv, FillsHold, WorkHolds, Filling, Awaiting, tables, ledger, local, TypeOK
<1>6. ASSUME NEW d, Approval(d)
       PROVE  FillsHold'
  <2>1. PICK n : n = Len(decisions) + 1
    OBVIOUS
  <2>2. n \in Ids \ Known /\ Known' = Known \cup {n}
    BY <1>6, <2>1, Appended DEF BookInv
  <2>3. row' = row /\ fills' = fills /\ pc' = pc /\ work' = work
    BY <1>6 DEF Approval
  <2>4. QED
    BY <2>2, <2>3 DEF BookInv, FillsHold, Ids
<1>7. ASSUME NEW p \in Pairs, NoExit(p)
       PROVE  FillsHold'
  BY <1>7, SameQueue, SMTT(60)
     DEF NoExit, BookInv, FillsHold, WorkHolds, Filling, Awaiting, tables, ledger, local, TypeOK
<1>8. CASE ExitsDone
  BY <1>8, SameQueue, SMTT(60)
     DEF ExitsDone, BookInv, FillsHold, WorkHolds, Filling, Awaiting, tables, ledger, local, TypeOK
<1>9. CASE Trail
  BY <1>9, SameQueue, SMTT(60)
     DEF Trail, BookInv, FillsHold, WorkHolds, Filling, Awaiting, tables, ledger, local, TypeOK
<1>10. CASE ProposalsDone
  BY <1>10, SameQueue, SMTT(60)
     DEF ProposalsDone, BookInv, FillsHold, WorkHolds, Filling, Awaiting, tables, ledger, local, TypeOK
<1>11. CASE RecordOrder
  <2>1. PICK h : h = Head(approved)
    OBVIOUS
  <2>2. h \in Known /\ row[h] = "NONE" /\ h \in Ids
    BY <1>11, <2>1, Recorded, KnownIds DEF BookInv
  <2>3. /\ row' = [row EXCEPT ![h] = "NEW"] /\ Known' = Known /\ fills' = fills
        /\ pc = "execute" /\ pc' \in {"walk", "execute"}
    BY <1>11, <2>1 DEF RecordOrder, Known
  <2>4. \A i \in Ids : row'[i] = IF i = h THEN "NEW" ELSE row[i]
    BY <2>3 DEF TypeOK
  <2>5. QED
    BY <2>2, <2>3, <2>4 DEF BookInv, FillsHold, Ids
<1>12. CASE Walk
  BY <1>12, SameQueue, SMTT(60)
     DEF Walk, BookInv, FillsHold, WorkHolds, Filling, Awaiting, tables, ledger, local, TypeOK
<1>13. CASE ApplyFill
  <2>1. PICK i : i = work.id
    OBVIOUS
  <2>2. i \in Known /\ i \in Ids /\ row[i] = "NEW" /\ fills[i] = NoFill /\ work.fee <= Den /\ pc = "filling"
    BY <1>13, <2>1, KnownIds DEF ApplyFill, BookInv, WorkHolds, Filling
  <2>3. /\ row' = row /\ Known' = Known /\ work' = work /\ pc' = "saving"
        /\ fills' = [fills EXCEPT ![i] = [qty |-> work.qty, fee |-> work.fee]]
    BY <1>13, <2>1, <2>2 DEF ApplyFill, Known
  <2>4. fills'[i].fee = work.fee /\ \A j \in Ids : j # i => fills'[j] = fills[j]
    BY <2>2, <2>3 DEF TypeOK
  <2>5. QED
    BY <2>1, <2>2, <2>3, <2>4 DEF BookInv, FillsHold, Ids
<1>14. CASE Overdrawn
  BY <1>14, SameQueue, SMTT(60)
     DEF Overdrawn, BookInv, FillsHold, WorkHolds, Filling, Awaiting, tables, ledger, local, TypeOK
<1>15. CASE SaveStops
  BY <1>15, SameQueue, SMTT(60)
     DEF SaveStops, BookInv, FillsHold, WorkHolds, Filling, Awaiting, tables, ledger, local, TypeOK
<1>16. CASE CloseOrder
  <2>1. PICK i : i = work.id
    OBVIOUS
  <2>2. /\ i \in Known /\ i \in Ids /\ work.status \notin {"NONE", "NEW"} /\ pc = "closing"
        /\ work.back \in {"resting", "execute"}
    BY <1>16, <2>1, KnownIds DEF CloseOrder, BookInv, WorkHolds, Filling, TypeOK
  <2>3. /\ row' = [row EXCEPT ![i] = work.status] /\ Known' = Known /\ fills' = fills /\ pc' = work.back
    BY <1>16, <2>1 DEF CloseOrder, ClosedAs, Known
  <2>4. \A j \in Ids : row'[j] = IF j = i THEN work.status ELSE row[j]
    BY <2>3 DEF TypeOK
  <2>5. QED
    BY <2>1, <2>2, <2>3, <2>4 DEF BookInv, FillsHold, Ids
<1>17. CASE CycleEnd
  BY <1>17, SameQueue, SMTT(60)
     DEF CycleEnd, BookInv, FillsHold, WorkHolds, Filling, Awaiting, tables, ledger, local, TypeOK
<1>18. CASE CancelAll
  <2>1. /\ \A i \in Ids : row'[i] = IF i \in Resting THEN "CANCELLED" ELSE row[i]
        /\ Known' = Known /\ fills' = fills /\ pc' = pc /\ work' = work
    BY <1>18, SameQueue DEF CancelAll, local
  <2>2. \A i \in Ids : row'[i] \in {"NONE", "NEW"} => row'[i] = row[i]
    BY <2>1
  <2>3. Resting \subseteq Known
    BY DEF Resting
  <2>4. QED
    BY <2>1, <2>2, <2>3 DEF BookInv, FillsHold, Ids
<1>19. ASSUME NEW i \in Ids, Age(i)
       PROVE  FillsHold'
  BY <1>19, SameQueue, SMTT(60)
     DEF Age, BookInv, FillsHold, WorkHolds, Filling, Awaiting, tables, ledger, local, TypeOK
<1>20. CASE Crash
  BY <1>20, SameQueue, SMTT(60)
     DEF Crash, BookInv, FillsHold, WorkHolds, Filling, Awaiting, tables, ledger, local, TypeOK
<1>21. CASE UNCHANGED vars
  BY <1>21, SameQueue, SMTT(60)
     DEF vars, BookInv, FillsHold, WorkHolds, Filling, Awaiting, tables, ledger, local, TypeOK
<1>22. QED
  BY <1>1, <1>2, <1>3, <1>4, <1>5, <1>6, <1>7, <1>8, <1>9, <1>10, <1>11, <1>12, <1>13, <1>14, <1>15,
     <1>16, <1>17, <1>18, <1>19, <1>20, <1>21,
     Approvals DEF Next

\* Buys have a price and a quantity.
LEMMA DecisionsStep ==
  ASSUME TypeOK, BookInv, ~TornCrash, Next \/ UNCHANGED vars
  PROVE  DecisionsHold'
<1>0. ASSUME UNCHANGED decisions PROVE DecisionsHold'
  BY <1>0 DEF BookInv, DecisionsHold, Known, Stops, Prices
<1>1. CASE CycleStart
  BY <1>0, <1>1 DEF CycleStart, tables, local
<1>2. ASSUME NEW i \in orders, FillResting(i)
       PROVE  DecisionsHold'
  BY <1>0, <1>2 DEF FillResting, tables, local
<1>3. ASSUME NEW i \in orders, CancelResting(i)
       PROVE  DecisionsHold'
  BY <1>0, <1>3 DEF CancelResting, tables, local
<1>4. ASSUME NEW i \in orders, KeepResting(i)
       PROVE  DecisionsHold'
  BY <1>0, <1>4 DEF KeepResting, tables, local
<1>5. CASE BuildContext
  BY <1>0, <1>5 DEF BuildContext, tables, local
<1>6. ASSUME NEW d, Approval(d)
       PROVE  DecisionsHold'
  <2>1. PICK n : n = Len(decisions) + 1
    OBVIOUS
  <2>2. /\ Known' = Known \cup {n} /\ decisions'[n] = d /\ \A i \in Known : decisions'[i] = decisions[i]
    BY <1>6, <2>1, Appended DEF BookInv
  <2>3. /\ d.stop \in Stops \cup {0}
        /\ d.side = "buy" => d.qty > 0 /\ d.price > 0 /\ ~d.emergency
    BY <1>6 DEF Approval
  <2>4. QED
    BY <2>2, <2>3 DEF BookInv, DecisionsHold, Stops, Prices
<1>7. ASSUME NEW p \in Pairs, NoExit(p)
       PROVE  DecisionsHold'
  BY <1>0, <1>7 DEF NoExit, tables, local
<1>8. CASE ExitsDone
  BY <1>0, <1>8 DEF ExitsDone, tables, local
<1>9. CASE Trail
  BY <1>0, <1>9 DEF Trail, tables, local
<1>10. CASE ProposalsDone
  BY <1>0, <1>10 DEF ProposalsDone, tables, local
<1>11. CASE RecordOrder
  BY <1>0, <1>11 DEF RecordOrder, tables, local
<1>12. CASE Walk
  BY <1>0, <1>12 DEF Walk, tables, local
<1>13. CASE ApplyFill
  BY <1>0, <1>13 DEF ApplyFill, tables, local
<1>14. CASE Overdrawn
  BY <1>0, <1>14 DEF Overdrawn, tables, local
<1>15. CASE SaveStops
  BY <1>0, <1>15 DEF SaveStops, tables, local
<1>16. CASE CloseOrder
  BY <1>0, <1>16 DEF CloseOrder, ClosedAs, tables, local
<1>17. CASE CycleEnd
  BY <1>0, <1>17 DEF CycleEnd, tables, local
<1>18. CASE CancelAll
  BY <1>0, <1>18 DEF CancelAll, tables, local
<1>19. ASSUME NEW i \in Ids, Age(i)
       PROVE  DecisionsHold'
  BY <1>0, <1>19 DEF Age, tables, local
<1>20. CASE Crash
  BY <1>0, <1>20 DEF Crash, tables, local
<1>21. CASE UNCHANGED vars
  BY <1>0, <1>21 DEF vars, tables, local
<1>22. QED
  BY <1>1, <1>2, <1>3, <1>4, <1>5, <1>6, <1>7, <1>8, <1>9, <1>10, <1>11, <1>12, <1>13, <1>14, <1>15,
     <1>16, <1>17, <1>18, <1>19, <1>20, <1>21,
     Approvals DEF Next


-----------------------------------------------------------------------------
(* What the restarts rest on: the ledger is what the fills table says.     *)

Core == TypeOK /\ BookInv /\ Books

\* Types and books hold at the start,
LEMMA CoreStart == Init => Core
<1>1. SUFFICES ASSUME Init PROVE Core
  OBVIOUS
<1>2. Known = {} /\ Waiting = {}
  BY <1>1 DEF Init, Known, Waiting
<1>3. TypeOK
  <2>1. Capital * Den \in Nat
    <3>1. Capital \in Nat /\ Den \in Nat
      BY LimitsAssumption
    <3>2. QED
      BY <3>1
  <2>2. decisions \in Seq(Decision) /\ Len(decisions) <= MaxDecisions /\ approved \in Seq(Ids)
    BY <1>1, BoundsAssumption DEF Init
  <2>3. /\ ctx \in [pending : [Pairs -> Nat], count : Nat]
        /\ work \in [id : 0..MaxDecisions, qty : Nat, fee : Nat,
                     status : {"NONE", "FILLED", "CANCELLED"}, back : {"idle", "resting", "execute"}]
        /\ fills \in [Ids -> Fill]
    BY <1>1, BoundsAssumption DEF Init, NoContext, NoWork, NoFill, Fill
  <2>4. QED
    BY <1>1, <2>1, <2>2, <2>3, BoundsAssumption DEF Init, TypeOK
<1>4. BookInv
  <2>1. WorkHolds
    BY <1>1 DEF Init, WorkHolds, Filling
  <2>2. QueuesHold
    <3>1. Len(approved) = 0
      BY <1>1 DEF Init
    <3>2. QED
      BY <1>1, <1>2, <3>1 DEF Init, QueuesHold
  <2>3. FillsHold
    BY <1>1, LimitsAssumption DEF Init, FillsHold, NoFill
  <2>4. DecisionsHold
    BY <1>2 DEF DecisionsHold
  <2>5. QED
    BY <2>1, <2>2, <2>3, <2>4 DEF BookInv
<1>5. Books
  <2>1. Side("buy") = {} /\ Side("sell") = {} /\ \A p \in Pairs : Of("buy", p) = {} /\ Of("sell", p) = {}
    BY <1>2 DEF Side, Of
  <2>2. SumOver(Spent, Ids) = 0
    <3>1. \A i \in Ids : Spent[i] = 0
      BY <2>1 DEF Spent
    <3>2. QED
      BY <3>1, IdsFinite, SumZero
  <2>3. SumOver(Earned, Ids) = 0
    <3>1. \A i \in Ids : Earned[i] = 0
      BY <2>1 DEF Earned
    <3>2. QED
      BY <3>1, IdsFinite, SumZero
  <2>4. ASSUME NEW p \in Pairs PROVE SumOver(Bought(p), Ids) = 0 /\ SumOver(Sold(p), Ids) = 0
    <3>1. (\A i \in Ids : Bought(p)[i] = 0) /\ (\A i \in Ids : Sold(p)[i] = 0)
      BY <2>1 DEF Bought, Sold
    <3>2. QED
      BY <3>1, IdsFinite, SumZero
  <2>5. Capital * Den \in Nat /\ cash = Capital * Den /\ \A p \in Pairs : held[p] = 0
    BY <1>1, <1>3 DEF Init, TypeOK
  <2>6. QED
    BY <2>2, <2>3, <2>4, <2>5 DEF Books
<1>6. QED
  BY <1>3, <1>4, <1>5 DEF Core

\* and every step keeps them.
LEMMA CoreStep == ASSUME ~TornCrash PROVE Core /\ [Next]_vars => Core'
<1>1. SUFFICES ASSUME Core, Next \/ UNCHANGED vars PROVE Core'
  OBVIOUS
<1>2. TypeOK' /\ Books'
  BY <1>1, TypeStep, BooksStep DEF Core
<1>3. WorkHolds' /\ QueuesHold' /\ FillsHold' /\ DecisionsHold'
  BY <1>1, WorkStep, QueueStep, FillsStep, DecisionsStep DEF Core
<1>4. QED
  BY <1>2, <1>3 DEF Core, BookInv

\* Where the process dies at an await only, the types hold: what is sold
\* was held and what is bought was paid for, so that neither the quantities
\* nor the cash of the ledger (apply_fill) become negative.
THEOREM PaperTypes == ASSUME ~TornCrash PROVE Spec => [](TypeOK /\ BookInv)
<1>1. Core => TypeOK /\ BookInv
  BY DEF Core
<1>2. QED
  BY CoreStart, CoreStep, <1>1, PTL DEF Spec

\* The ledger in memory is what a restart rebuilds from the fills table
\* (rebuild_portfolio): no fill is booked twice or by half, whatever rests,
\* fails in the middle of a cycle or is killed between two steps.
THEOREM PaperLedgerIsFills == ASSUME ~TornCrash PROVE Spec => []LedgerIsFills
<1>1. Core => LedgerIsFills
  BY BooksAreFills DEF Core
<1>2. QED
  BY CoreStart, CoreStep, <1>1, PTL DEF Spec

\* No step lowers the stop of a position that stays open, and a restart loses
\* at most what was raised since the stops were stored (trail_stop, raise_stop,
\* apply_fill, load_stops).
LEMMA StopsStep ==
  ASSUME Core, ~TornCrash, Next \/ UNCHANGED vars
  PROVE  \A p \in Pairs : held[p] > 0 /\ held'[p] > 0 =>
           stop'[p] >= (IF crashes' = crashes THEN stop[p] ELSE saved[p])
<1> USE DEF Core
<1>1. \A p \in Pairs : stop[p] \in Nat /\ saved[p] \in Nat
  <2>1. \A p \in Pairs : stop[p] \in Stops \cup {0} /\ saved[p] \in Stops \cup {0}
    BY Zenon DEF TypeOK
  <2>2. \A x \in Stops \cup {0} : x \in Nat
    BY StopTypes
  <2>3. QED
    BY <2>1, <2>2, Zenon
<1>2. crashes \in Nat
  BY BoundsAssumption DEF TypeOK
<1>3. CASE UNCHANGED <<stop, crashes>>
  BY <1>1, <1>3
<1>4. CASE Trail
  <2>1. PICK s \in [Positions \ Exited -> Stops] :
          stop' = [p \in Pairs |-> IF p \in DOMAIN s THEN RaiseStop(p, s[p]) ELSE stop[p]]
    BY <1>4 DEF Trail
  <2>2. crashes' = crashes
    BY <1>4 DEF Trail
  <2>3. \A p \in Pairs : p \in DOMAIN s => s[p] \in Nat
    BY <2>1, StopTypes
  <2>4. QED
    BY <1>1, <2>1, <2>2, <2>3 DEF RaiseStop, Greatest
<1>5. CASE ApplyFill
  <2>1. PICK e : e = decisions[work.id]
    OBVIOUS
  <2>2. e.pair \in Pairs /\ e.stop \in Nat /\ e.side \in {"buy", "sell"} /\ crashes' = crashes
    BY <1>5, <2>1, DecisionTypes DEF ApplyFill, BookInv, WorkHolds, Filling
  <2>3. IF e.side = "buy"
          THEN stop' = [stop EXCEPT ![e.pair] = Greatest(@, e.stop)]
          ELSE /\ held' = [held EXCEPT ![e.pair] = @ - work.qty]
               /\ stop' = IF held[e.pair] = work.qty THEN [stop EXCEPT ![e.pair] = 0] ELSE stop
    BY <1>5, <2>1, Zenon DEF ApplyFill
  <2>4. held \in [Pairs -> Nat] /\ stop \in [Pairs -> Stops \cup {0}] /\ work.qty \in Nat
    BY DEF TypeOK
  <2>5. CASE e.side = "buy"
    BY <1>1, <2>2, <2>3, <2>4, <2>5 DEF Greatest
  <2>6. CASE e.side = "sell" /\ held[e.pair] # work.qty
    BY <1>1, <2>2, <2>3, <2>4, <2>6
  <2>7. CASE e.side = "sell" /\ held[e.pair] = work.qty
    <3>1. held'[e.pair] = 0 /\ \A p \in Pairs : p # e.pair => stop'[p] = stop[p]
      BY <2>2, <2>3, <2>4, <2>7
    <3>2. QED
      BY <1>1, <2>2, <3>1
  <2>8. QED
    BY <2>2, <2>5, <2>6, <2>7
<1>6. CASE Crash
  <2>1. crashes' # crashes /\ held' = HeldByFills
    BY <1>2, <1>6 DEF Crash
  <2>2. \A p \in Pairs : held'[p] > 0 => stop'[p] = saved[p]
    BY <1>6, <2>1 DEF Crash
  <2>3. QED
    BY <1>1, <2>1, <2>2
<1>7. CASE \E d : Approval(d)
  BY <1>3, <1>7 DEF Approval, ledger
<1>8. QED
  <2>1. ASSUME NEW i \in orders, FillResting(i) \/ CancelResting(i) \/ KeepResting(i)
        PROVE UNCHANGED <<stop, crashes>>
    BY <2>1 DEF FillResting, CancelResting, KeepResting, ledger
  <2>2. ASSUME NEW p \in Pairs, NoExit(p) PROVE UNCHANGED <<stop, crashes>>
    BY <2>2 DEF NoExit, ledger
  <2>3. ASSUME NEW i \in Ids, Age(i) PROVE UNCHANGED <<stop, crashes>>
    BY <2>3 DEF Age, ledger
  <2>4. ASSUME CycleStart \/ BuildContext \/ ExitsDone \/ ProposalsDone \/ RecordOrder \/ Walk \/ Overdrawn
        PROVE UNCHANGED <<stop, crashes>>
    BY <2>4 DEF CycleStart, BuildContext, ExitsDone, ProposalsDone, RecordOrder, Walk, Overdrawn, ledger
  <2>5. ASSUME SaveStops \/ CloseOrder \/ CycleEnd \/ CancelAll \/ UNCHANGED vars
        PROVE UNCHANGED <<stop, crashes>>
    BY <2>5 DEF SaveStops, CloseOrder, CycleEnd, CancelAll, vars, ledger
  <2>6. QED
    BY <1>3, <1>4, <1>5, <1>6, <1>7, <2>1, <2>2, <2>3, <2>4, <2>5, Approvals DEF Next

\* A stop is never loosened and never lost.
THEOREM StopsAreKept == ASSUME ~TornCrash PROVE Spec => StopsOnlyRise
<1>1. Core /\ [Next]_vars => [\A p \in Pairs : held[p] > 0 /\ held'[p] > 0 =>
       stop'[p] >= (IF crashes' = crashes THEN stop[p] ELSE saved[p])]_vars
  <2>1. SUFFICES ASSUME Core, Next \/ UNCHANGED vars
                 PROVE  \A p \in Pairs : held[p] > 0 /\ held'[p] > 0 =>
                          stop'[p] >= (IF crashes' = crashes THEN stop[p] ELSE saved[p])
    OBVIOUS
  <2>2. QED
    BY <2>1, StopsStep, Zenon
<1>2. QED
  BY CoreStart, CoreStep, <1>1, PTL DEF Spec, StopsOnlyRise


-----------------------------------------------------------------------------
(* What is still to come: orders that rest or wait.                        *)

\* The order whose fill is in the ledger but which is not closed yet.
Closing == IF pc \in {"saving", "closing"} THEN {work.id} ELSE {}

\* Orders that may still be filled: the resting ones and those to be created.
Due == (Resting \ Closing) \cup Waiting

\* A step that neither approves nor fills: no order is added, and the prices
\* change only when nothing waits.
NothingCounts ==
  /\ decisions' = decisions /\ held' = held /\ mode' = mode
  /\ Waiting' \subseteq Waiting /\ Resting' \subseteq Resting \cup Waiting
  /\ Due' \subseteq Due /\ old \subseteq old'
  /\ bid' = bid \/ Waiting = {}
  /\ \A i \in Known : row'[i] # "NONE" => row[i] # "NONE" \/ i \in Waiting
  /\ pc' \in Deciding => (pc \in Deciding /\ ctx' = ctx) \/ BuildContext

\* What is to come was decided.
LEMMA DueKnown == ASSUME TypeOK, BookInv PROVE Due \subseteq Known /\ Waiting \subseteq Known /\ Resting \subseteq Known
  BY DEF BookInv, QueuesHold, Due, Resting

\* Steps that leave the orders and the queue alone.
LEMMA QuietIf ==
  ASSUME UNCHANGED <<decisions, held, mode, bid, row, approved, old>>,
         Closing' = Closing,
         pc' \in Deciding => (pc \in Deciding /\ ctx' = ctx) \/ BuildContext
  PROVE  NothingCounts
<1>1. Waiting' = Waiting /\ Known' = Known /\ Resting' = Resting
  BY DEF Waiting, Known, Resting
<1>2. Due' = Due
  BY <1>1 DEF Due
<1>3. QED
  BY <1>1, <1>2 DEF NothingCounts

\* Steps that close or cancel orders.
LEMMA QuietCancel ==
  ASSUME UNCHANGED <<decisions, held, mode, bid, approved, old>>,
         Resting' \ Closing' \subseteq Resting \ Closing,
         \A i \in Known : (row'[i] # "NONE" => row[i] # "NONE") /\ (row'[i] = "NEW" => row[i] = "NEW"),
         pc' \in Deciding => (pc \in Deciding /\ ctx' = ctx) \/ BuildContext
  PROVE  NothingCounts
<1>1. Waiting' = Waiting
  BY DEF Waiting
<1>2. Due' \subseteq Due
  BY <1>1 DEF Due
<1>3. Resting' \subseteq Resting
  BY SameQueue DEF Resting
<1>4. QED
  BY <1>1, <1>2, <1>3 DEF NothingCounts

\* A step approves, fills, or is quiet.
LEMMA QuietStep ==
  ASSUME Core, ~TornCrash, Next \/ UNCHANGED vars
  PROVE  (\E d : Approval(d)) \/ ApplyFill \/ NothingCounts
<1> DEFINE Goal == (\E d : Approval(d)) \/ ApplyFill \/ NothingCounts
<1>1. CASE CycleStart
  <2>1. Waiting = {} /\ Waiting' = {} /\ Resting' = Resting /\ Closing = {} /\ Closing' = {}
    BY <1>1, NothingWaits, SameQueue
    DEF CycleStart, Core, BookInv, QueuesHold, Resting, Known, Closing, tables
  <2>2. Due' = Due
    BY <2>1 DEF Due
  <2>3. QED
    BY <1>1, <2>1, <2>2 DEF CycleStart, NothingCounts, Deciding, tables, ledger
<1>2. ASSUME NEW i \in orders, FillResting(i)
       PROVE  Goal
  BY <1>2, QuietIf DEF FillResting, Closing, Deciding, tables, ledger, local
<1>3. ASSUME NEW i \in orders, CancelResting(i)
       PROVE  Goal
  <2>1. i \in Ids /\ i \in Known /\ row[i] = "NEW"
    BY KnownIds DEF Core, BookInv, QueuesHold, Resting
  <2>2. /\ row' = [row EXCEPT ![i] = "CANCELLED"] /\ pc = "resting" /\ pc' = pc
        /\ UNCHANGED <<decisions, held, mode, bid, approved, old>>
    BY <1>3 DEF CancelResting, ledger
  <2>3. \A j \in Ids : row'[j] = IF j = i THEN "CANCELLED" ELSE row[j]
    BY <2>2 DEF Core, TypeOK
  <2>4. \A j \in Known : (row'[j] # "NONE" => row[j] # "NONE") /\ (row'[j] = "NEW" => row[j] = "NEW")
    BY <2>1, <2>3, KnownIds DEF Core
  <2>5. Resting' \ Closing' \subseteq Resting \ Closing
    BY <2>2, <2>4, SameQueue DEF Resting, Closing
  <2>6. QED
    BY <2>2, <2>4, <2>5, QuietCancel DEF Deciding
<1>4. ASSUME NEW i \in orders, KeepResting(i)
       PROVE  Goal
  BY <1>4, QuietIf DEF KeepResting, Closing, Deciding, tables, ledger, local
<1>5. CASE BuildContext
  BY <1>5, QuietIf DEF BuildContext, Closing, Deciding, tables, ledger, local
<1>6. ASSUME NEW d, Approval(d)
       PROVE  Goal
  BY <1>6
<1>7. ASSUME NEW p \in Pairs, NoExit(p)
       PROVE  Goal
  BY <1>7, QuietIf DEF NoExit, Closing, Deciding, tables, ledger, local
<1>8. CASE ExitsDone
  BY <1>8, QuietIf DEF ExitsDone, Closing, Deciding, tables, ledger, local
<1>9. CASE Trail
  BY <1>9, QuietIf DEF Trail, Closing, Deciding, tables, ledger, local
<1>10. CASE ProposalsDone
  BY <1>10, QuietIf DEF ProposalsDone, Closing, Deciding, tables, ledger, local
<1>11. CASE RecordOrder
  <2>1. PICK h : h = Head(approved)
    OBVIOUS
  <2>2. h \in Waiting /\ h \in Known /\ h \in Ids /\ Waiting' = Waiting \ {h}
    BY <1>11, <2>1, Recorded, KnownIds DEF Core, BookInv
  <2>3. /\ row' = [row EXCEPT ![h] = "NEW"] /\ pc = "execute" /\ pc' \in {"walk", "execute"}
        /\ UNCHANGED <<decisions, held, mode, bid, old>> /\ Known' = Known
    BY <1>11, <2>1, SameQueue DEF RecordOrder, ledger
  <2>4. \A j \in Ids : row'[j] = IF j = h THEN "NEW" ELSE row[j]
    BY <2>3 DEF Core, TypeOK
  <2>5. Resting' = Resting \cup {h}
    BY <2>2, <2>3, <2>4, KnownIds DEF Resting, Core
  <2>6. Due' \subseteq Due
    BY <2>2, <2>3, <2>5 DEF Due, Closing
  <2>7. \A j \in Known : row'[j] # "NONE" => row[j] # "NONE" \/ j \in Waiting
    BY <2>2, <2>4, KnownIds DEF Core
  <2>8. QED
    BY <2>2, <2>3, <2>5, <2>6, <2>7 DEF NothingCounts, Deciding
<1>12. CASE Walk
  <2>1. PICK i : i = work.id
    OBVIOUS
  <2>2. /\ i \in Ids /\ row[i] = "NEW" /\ pc = "walk" /\ pc' \in {"execute", "filling"}
        /\ row' = [row EXCEPT ![i] = "CANCELLED"] \/ row' = row
        /\ UNCHANGED <<decisions, held, mode, bid, approved, old>>
    BY <1>12, <2>1, KnownIds DEF Walk, Core, BookInv, WorkHolds, ledger
  <2>3. \A j \in Ids : (row'[j] # "NONE" => row[j] # "NONE") /\ (row'[j] = "NEW" => row[j] = "NEW")
    BY <2>2 DEF Core, TypeOK
  <2>4. \A j \in Known : (row'[j] # "NONE" => row[j] # "NONE") /\ (row'[j] = "NEW" => row[j] = "NEW")
    BY <2>3, KnownIds DEF Core
  <2>5. Resting' \ Closing' \subseteq Resting \ Closing
    BY <2>2, <2>4, SameQueue DEF Resting, Closing
  <2>6. QED
    BY <2>2, <2>4, <2>5, QuietCancel DEF Deciding
<1>13. CASE ApplyFill
  BY <1>13
<1>14. CASE Overdrawn
  <2>1. /\ UNCHANGED <<decisions, held, mode, bid, row, old>> /\ pc = "filling" /\ pc' = "idle" /\ approved' = <<>>
    BY <1>14 DEF Overdrawn, tables, ledger
  <2>2. Waiting' = {} /\ Resting' = Resting /\ Closing = {} /\ Closing' = {}
    BY <2>1, NothingWillWait DEF Resting, Known, Closing
  <2>3. QED
    BY <2>1, <2>2 DEF NothingCounts, Due, Deciding
<1>15. CASE SaveStops
  BY <1>15, QuietIf DEF SaveStops, Closing, Deciding, tables, ledger, local
<1>16. CASE CloseOrder
  <2>1. PICK i : i = work.id
    OBVIOUS
  <2>2. /\ i \in Ids /\ row[i] = "NEW" /\ pc = "closing" /\ pc' \in {"execute", "resting"}
        /\ work.status \notin {"NONE", "NEW"} /\ row' = [row EXCEPT ![i] = work.status]
        /\ UNCHANGED <<decisions, held, mode, bid, approved, old>>
    BY <1>16, <2>1, KnownIds DEF CloseOrder, ClosedAs, Core, BookInv, WorkHolds, Filling, TypeOK, ledger
  <2>3. \A j \in Ids : row'[j] = IF j = i THEN work.status ELSE row[j]
    BY <2>2 DEF Core, TypeOK
  <2>4. \A j \in Known : (row'[j] # "NONE" => row[j] # "NONE") /\ (row'[j] = "NEW" => row[j] = "NEW" /\ j # i)
    BY <2>2, <2>3, KnownIds DEF Core
  <2>5. Closing = {i}
    BY <2>1, <2>2 DEF Closing
  <2>6. Resting' \ Closing' \subseteq Resting \ Closing
    BY <2>2, <2>4, <2>5, SameQueue DEF Resting
  <2>7. QED
    BY <2>2, <2>4, <2>6, QuietCancel DEF Deciding
<1>17. CASE CycleEnd
  BY <1>17, QuietIf DEF CycleEnd, Closing, Deciding, tables, ledger, local
<1>18. CASE CancelAll
  <2>1. /\ UNCHANGED <<decisions, held, mode, bid, approved, old>> /\ pc' = pc /\ ctx' = ctx /\ Known' = Known
        /\ \A i \in Ids : row'[i] = IF i \in Resting THEN "CANCELLED" ELSE row[i]
    BY <1>18, SameQueue DEF CancelAll, ledger, local
  <2>2. \A j \in Known : (row'[j] # "NONE" => row[j] # "NONE") /\ (row'[j] = "NEW" => row[j] = "NEW") /\ row'[j] # "NEW"
    BY <2>1, KnownIds DEF Core, Resting
  <2>3. Resting' = {}
    BY <2>1, <2>2 DEF Resting
  <2>4. QED
    BY <2>1, <2>2, <2>3, QuietCancel
<1>19. ASSUME NEW i \in Ids, Age(i)
       PROVE  Goal
  <2>1. Waiting' = Waiting /\ Resting' = Resting /\ Closing' = Closing
    BY <1>19, SameQueue DEF Age, Resting, Closing, local
  <2>2. QED
    BY <1>19, <2>1 DEF Age, NothingCounts, Due, ledger, local
<1>20. CASE Crash
  <2>1. held' = held
    BY <1>20, BooksAreFills DEF Core, LedgerIsFills, Crash
  <2>2. /\ UNCHANGED <<decisions, mode, bid, row, old>> /\ pc \in Awaiting /\ pc' = "idle" /\ approved' = <<>>
    BY <1>20 DEF Crash, tables
  <2>3. Waiting' = {} /\ Resting' = Resting /\ Closing = {} /\ Closing' = {}
    BY <2>2, NothingWillWait DEF Resting, Known, Closing, Awaiting
  <2>4. QED
    BY <2>1, <2>2, <2>3 DEF NothingCounts, Due, Deciding
<1>21. CASE UNCHANGED vars
  BY <1>21, QuietIf DEF vars, Closing, Deciding, tables, ledger, local
<1>22. QED
  BY <1>1, <1>2, <1>3, <1>4, <1>5, <1>6, <1>7, <1>8, <1>9, <1>10, <1>11, <1>12, <1>13, <1>14, <1>15,
     <1>16, <1>17, <1>18, <1>19, <1>20, <1>21,
     Approvals DEF Next, Core


\* Only RecordOrder turns a decision into an order, and always the first of
\* the queue.
LEMMA Creates ==
  ASSUME Core, ~TornCrash, Next \/ UNCHANGED vars, NEW i \in Known, row[i] = "NONE", row'[i] = "NEW"
  PROVE  RecordOrder /\ i = Head(approved) /\ i \in Waiting
<1> USE DEF Core
<1>1. i \in Ids
  BY KnownIds
<1>2. CASE RecordOrder
  <2>1. PICK h : h = Head(approved)
    OBVIOUS
  <2>2. h \in Waiting /\ h \in Ids /\ row' = [row EXCEPT ![h] = "NEW"]
    BY <1>2, <2>1, Recorded, KnownIds DEF BookInv, RecordOrder
  <2>3. i = h
    BY <1>1, <2>2 DEF TypeOK
  <2>4. QED
    BY <1>2, <2>1, <2>2, <2>3
<1>3. CASE row' = row
  BY <1>3
<1>4. CASE CloseOrder \/ Walk
  <2>1. work.status # "NEW"
    BY DEF TypeOK
  <2>2. row' = [row EXCEPT ![work.id] = work.status] \/ row' = [row EXCEPT ![work.id] = "CANCELLED"] \/ row' = row
    BY <1>4 DEF CloseOrder, ClosedAs, Walk
  <2>3. QED
    BY <1>1, <2>1, <2>2 DEF TypeOK
<1>5. CASE CancelAll
  BY <1>1, <1>5 DEF CancelAll
<1>6. CASE \E k \in orders : CancelResting(k)
  BY <1>1, <1>6 DEF CancelResting, TypeOK
<1>7. QED
  <2>1. ASSUME NEW k \in orders, FillResting(k) \/ KeepResting(k) PROVE row' = row
    BY <2>1 DEF FillResting, KeepResting, tables
  <2>2. ASSUME NEW p \in Pairs, NoExit(p) PROVE row' = row
    BY <2>2 DEF NoExit, tables
  <2>3. ASSUME NEW k \in Ids, Age(k) PROVE row' = row
    BY <2>3 DEF Age
  <2>4. ASSUME CycleStart \/ BuildContext \/ ExitsDone \/ Trail \/ ProposalsDone \/ Overdrawn
        PROVE row' = row
    BY <2>4 DEF CycleStart, BuildContext, ExitsDone, Trail, ProposalsDone, Overdrawn, tables
  <2>5. ASSUME ApplyFill \/ SaveStops \/ CycleEnd \/ Crash \/ UNCHANGED vars
        PROVE row' = row
    BY <2>5 DEF ApplyFill, SaveStops, CycleEnd, Crash, vars, tables
  <2>6. ASSUME NEW d, Approval(d) PROVE row' = row
    BY <2>6 DEF Approval
  <2>7. QED
    BY <1>2, <1>3, <1>4, <1>5, <1>6, <2>1, <2>2, <2>3, <2>4, <2>5, <2>6, Approvals DEF Next

-----------------------------------------------------------------------------
(* max_orders_per_hour: what is approved counts at once, in the context of  *)
(* the cycle, so that the orders of the cycle cannot exceed the limit       *)
(* together.                                                               *)

Ordinary(S) == {i \in S : ~decisions[i].emergency}

\* The orders of the last hour and those that will be.
Pledged == Counted \cup Ordinary(Waiting)

RateInv ==
  /\ Cardinality(Pledged) <= MaxOrders
  /\ pc \in Deciding => Cardinality(Pledged) <= ctx.count

\* What counts against the hourly limit can be counted.
LEMMA PledgedTypes ==
  ASSUME Core
  PROVE  Pledged \subseteq Known /\ IsFiniteSet(Pledged) /\ Cardinality(Pledged) \in Nat
<1>1. Pledged \subseteq Known
  BY DueKnown DEF Core, Pledged, Counted, Ordinary
<1>2. QED
  BY <1>1, KnownIds, IdsFinite, FS_Subset, FS_CardinalityType DEF Core

\* Every step keeps the hourly limit: an approval is counted when it is given.
LEMMA RateStep == ASSUME Core, RateInv, ~TornCrash, Next \/ UNCHANGED vars PROVE RateInv'
<1> USE DEF Core
<1>1. ctx.count \in Nat /\ MaxOrders \in Nat
  BY LimitsAssumption DEF TypeOK
<1>2. IsFiniteSet(Pledged) /\ Cardinality(Pledged) \in Nat /\ Cardinality(Pledged) <= MaxOrders
  BY PledgedTypes DEF RateInv
<1>3. ASSUME NEW d, Approval(d) PROVE RateInv'
  <2>1. PICK n : n = Len(decisions) + 1
    OBVIOUS
  <2>2. /\ n \in Ids \ Known /\ Known' = Known \cup {n} /\ Waiting' = Waiting \cup {n}
        /\ decisions'[n] = d /\ \A i \in Known : decisions'[i] = decisions[i]
    BY <1>3, <2>1, Appended DEF BookInv
  <2>3. row' = row /\ old' = old /\ pc' = pc /\ pc \in Deciding /\ row[n] = "NONE"
    BY <1>3, <2>2 DEF Approval, Deciding, BookInv, FillsHold
  <2>4. Waiting \subseteq Known
    BY DueKnown
  <2>5. Counted' = Counted
    BY <2>2, <2>3 DEF Counted
  <2>6. ctx'.count = ctx.count + (IF d.emergency THEN 0 ELSE 1) /\ d.emergency \in BOOLEAN
    BY <1>3 DEF Approval, Approve, Updated, Decision
  <2>7. CASE d.emergency
    <3>1. Pledged' = Pledged
      BY <2>2, <2>4, <2>5, <2>7 DEF Pledged, Ordinary
    <3>2. ctx'.count = ctx.count
      BY <1>1, <2>6, <2>7
    <3>3. QED
      BY <2>3, <3>1, <3>2 DEF RateInv
  <2>8. CASE ~d.emergency
    <3>1. Pledged' = Pledged \cup {n}
      BY <2>2, <2>4, <2>5, <2>8 DEF Pledged, Ordinary
    <3>2. Cardinality(Pledged') <= Cardinality(Pledged) + 1 /\ Cardinality(Pledged') \in Nat
      <4>1. /\ IsFiniteSet(Pledged \cup {n})
            /\ Cardinality(Pledged \cup {n}) = IF n \in Pledged THEN Cardinality(Pledged) ELSE Cardinality(Pledged) + 1
        BY <1>2, FS_AddElement
      <4>2. QED
        BY <1>2, <3>1, <4>1
    <3>3. Cardinality(Pledged) <= ctx.count /\ ctx.count < MaxOrders /\ ctx'.count = ctx.count + 1
      BY <1>1, <1>3, <2>3, <2>6, <2>8 DEF RateInv, Approval, RateAllows
    <3>4. QED
      BY <1>1, <1>2, <3>2, <3>3 DEF RateInv
  <2>9. QED
    BY <2>6, <2>7, <2>8
<1>4. CASE ApplyFill
  <2>1. pc' \notin Deciding /\ UNCHANGED <<decisions, row, old, approved>>
    BY <1>4 DEF ApplyFill, Deciding
  <2>2. Pledged' = Pledged
    BY <2>1, SameQueue DEF Pledged, Counted, Ordinary
  <2>3. QED
    BY <2>1, <2>2 DEF RateInv
<1>5. CASE NothingCounts
  <2>1. Pledged' \subseteq Pledged
    BY <1>5, SameQueue DEF NothingCounts, Pledged, Counted, Ordinary
  <2>2. Cardinality(Pledged') <= Cardinality(Pledged) /\ Cardinality(Pledged') \in Nat
    BY <1>2, <2>1, FS_Subset, FS_CardinalityType
  <2>3. CASE BuildContext
    <3>1. Waiting' = {} /\ ctx'.count = Cardinality(Counted) /\ UNCHANGED <<decisions, row, old>>
      BY <2>3, NothingWillWait DEF BuildContext, BookInv, QueuesHold, tables
    <3>2. Pledged' = Counted
      BY <3>1, SameQueue DEF Pledged, Counted, Ordinary
    <3>3. QED
      BY <1>1, <1>2, <2>2, <3>1, <3>2 DEF RateInv
  <2>4. CASE pc' \in Deciding => pc \in Deciding /\ ctx' = ctx
    BY <1>1, <1>2, <2>2, <2>4 DEF RateInv
  <2>5. QED
    BY <1>5, <2>3, <2>4 DEF NothingCounts
<1>6. QED
  BY <1>3, <1>4, <1>5, QuietStep

\* No order counts at the start.
LEMMA RateStart == Init => RateInv
<1>1. SUFFICES ASSUME Init PROVE RateInv
  OBVIOUS
<1>2. Known = {} /\ Waiting = {}
  BY <1>1 DEF Init, Known, Waiting
<1>3. Pledged = {}
  BY <1>2 DEF Pledged, Counted, Ordinary
<1>4. QED
  BY <1>1, <1>3, FS_EmptySet, LimitsAssumption DEF RateInv, Init, Deciding

-----------------------------------------------------------------------------
(* max_open_positions: a pair is exposed when it is held or an order to buy *)
(* it rests or waits; the context knows every exposed pair.                *)

Exposed == Positions \cup {p \in Pairs : (Resting \cup Waiting) \cap Of("buy", p) # {}}

OpenInv ==
  /\ Cardinality(Exposed) <= MaxOpen
  /\ pc \in Deciding => Exposed \subseteq OpenPairs /\ Cardinality(OpenPairs) <= MaxOpen

\* Sets of pairs can be counted.
LEMMA PairSets ==
  /\ Exposed \subseteq Pairs /\ IsFiniteSet(Exposed) /\ Cardinality(Exposed) \in Nat
  /\ OpenPairs \subseteq Pairs /\ IsFiniteSet(OpenPairs) /\ Cardinality(OpenPairs) \in Nat
<1>1. Exposed \subseteq Pairs /\ OpenPairs \subseteq Pairs
  BY DEF Exposed, OpenPairs, Positions
<1>2. QED
  BY <1>1, IdsFinite, FS_Subset, FS_CardinalityType

\* A resting buy has a value, so that the context sees its pair.
LEMMA PendingSeen ==
  ASSUME Core, NEW p \in Pairs
  PROVE  PendingBuy(p) > 0 <=> Resting \cap Of("buy", p) # {}
<1> DEFINE S == Resting \cap Of("buy", p)
<1>1. S \in SUBSET Known /\ \A i \in S : Notional(i) \in Nat /\ Notional(i) > 0
  <2>1. \A i \in S : i \in Known /\ decisions[i].side = "buy"
    BY DEF Of
  <2>2. \A i \in S : decisions[i].price \in Nat /\ decisions[i].qty \in Nat /\ decisions[i].price > 0 /\ decisions[i].qty > 0
    BY <2>1, DecisionTypes DEF Core, BookInv, DecisionsHold
  <2>3. \A a, b \in Nat : a > 0 /\ b > 0 => a * b \in Nat /\ a * b > 0
    OBVIOUS
  <2>4. QED
    BY <2>1, <2>2, <2>3 DEF Notional
<1>2. PendingBuy(p) = SumOver(Worth(S), Ids)
  BY <1>1, WorthSum DEF PendingBuy, Core
<1>3. CASE S = {}
  <2>1. \A i \in Ids : Worth(S)[i] = 0
    BY <1>3 DEF Worth
  <2>2. SumOver(Worth(S), Ids) = 0
    BY <2>1, IdsFinite, SumZero
  <2>3. QED
    BY <1>2, <1>3, <2>2
<1>4. CASE S # {}
  <2>1. PICK i : i \in S
    BY <1>4
  <2>2. i \in Ids /\ Worth(S)[i] = Notional(i) /\ \A j \in Ids : Worth(S)[j] \in Nat
    BY <1>1, <2>1, KnownIds, WorthTypes DEF Core, Worth
  <2>3. \A j \in Ids : Worth(S)[j] \in Int
    BY <2>2
  <2>4. SumOver(Worth(S), Ids) = Worth(S)[i] + SumOver(Worth(S), Ids \ {i})
    BY <2>2, <2>3, IdsFinite, SumRemove
  <2>5. SumOver(Worth(S), Ids \ {i}) \in Nat
    <3>1. IsFiniteSet(Ids \ {i}) /\ \A j \in Ids \ {i} : Worth(S)[j] \in Nat
      BY <2>2, IdsFinite, FS_Subset
    <3>2. QED
      BY <3>1, SumNat
  <2>6. QED
    BY <1>1, <1>2, <1>4, <2>1, <2>2, <2>4, <2>5
<1>5. QED
  BY <1>3, <1>4

\* Every step keeps the bound on open positions.
LEMMA OpenStep == ASSUME Core, OpenInv, ~TornCrash, Next \/ UNCHANGED vars PROVE OpenInv'
<1> USE DEF Core
<1>1. MaxOpen \in Nat /\ Cardinality(Exposed) <= MaxOpen
  BY LimitsAssumption DEF OpenInv
<1>2. ASSUME Exposed' \subseteq Exposed PROVE Cardinality(Exposed') <= MaxOpen
  <2>1. Cardinality(Exposed') <= Cardinality(Exposed) /\ Cardinality(Exposed') \in Nat /\ Cardinality(Exposed) \in Nat
    BY <1>2, PairSets, FS_Subset, FS_CardinalityType
  <2>2. QED
    BY <1>1, <2>1
<1>3. ASSUME NEW d, Approval(d) PROVE OpenInv'
  <2>1. PICK n : n = Len(decisions) + 1
    OBVIOUS
  <2>2. /\ n \in Ids \ Known /\ Known' = Known \cup {n} /\ Waiting' = Waiting \cup {n}
        /\ decisions'[n] = d /\ \A i \in Known : decisions'[i] = decisions[i]
    BY <1>3, <2>1, Appended DEF BookInv
  <2>3. /\ row' = row /\ pc' = pc /\ work' = work /\ held' = held /\ pc \in Deciding /\ row[n] = "NONE"
        /\ d.pair \in Pairs /\ d.side \in {"buy", "sell"} /\ d.price \in Nat /\ d.qty \in Nat
    BY <1>3, <2>2 DEF Approval, Deciding, BookInv, FillsHold, ledger, Decision
  <2> DEFINE Open == Resting \cup Waiting
  <2>4. Open \subseteq Known
    BY DueKnown
  <2>5. Open' = Open \cup {n} /\ Positions' = Positions
    BY <2>2, <2>3 DEF Resting, Positions
  <2>6. ctx' = Updated(d) /\ ctx.pending \in [Pairs -> Nat]
    BY <1>3 DEF Approval, Approve, TypeOK
  <2>7. CASE d.side = "sell"
    <3>1. \A p \in Pairs : Open' \cap Of("buy", p)' = Open \cap Of("buy", p)
      BY <2>2, <2>4, <2>5, <2>7 DEF Of
    <3>2. Exposed' = Exposed
      BY <2>5, <3>1 DEF Exposed
    <3>3. \A p \in Pairs : ctx'.pending[p] = ctx.pending[p]
      BY <2>3, <2>6, <2>7 DEF Updated
    <3>4. OpenPairs' = OpenPairs
      BY <2>5, <3>3 DEF OpenPairs
    <3>5. QED
      BY <2>3, <3>2, <3>4 DEF OpenInv
  <2>8. CASE d.side = "buy"
    <3>1. \A p \in Pairs : Open' \cap Of("buy", p)' = IF p = d.pair THEN (Open \cap Of("buy", p)) \cup {n} ELSE Open \cap Of("buy", p)
      BY <2>2, <2>4, <2>5, <2>8 DEF Of
    <3>2. Exposed' = Exposed \cup {d.pair}
      BY <2>3, <2>5, <3>1 DEF Exposed
    <3>3. d.price * d.qty > 0 /\ d.price * d.qty \in Nat
      <4>1. \A a, b \in Nat : a > 0 /\ b > 0 => a * b \in Nat /\ a * b > 0
        OBVIOUS
      <4>2. QED
        BY <1>3, <2>3, <2>8, <4>1 DEF Approval
    <3>4. ctx'.pending = [ctx.pending EXCEPT ![d.pair] = @ + d.price * d.qty]
      BY <2>6, <2>8 DEF Updated
    <3>5. \A p \in Pairs : ctx'.pending[p] > 0 <=> p = d.pair \/ ctx.pending[p] > 0
      BY <2>3, <2>6, <3>3, <3>4
    <3>6. OpenPairs' = OpenPairs \cup {d.pair}
      BY <2>3, <2>5, <3>5 DEF OpenPairs
    <3>7. Exposed \subseteq OpenPairs /\ Cardinality(OpenPairs) <= MaxOpen
      BY <2>3 DEF OpenInv
    <3>8. Cardinality(OpenPairs') <= MaxOpen
      <4>1. Cardinality(OpenPairs \cup {d.pair}) = IF d.pair \in OpenPairs THEN Cardinality(OpenPairs) ELSE Cardinality(OpenPairs) + 1
        BY PairSets, FS_AddElement
      <4>2. d.pair \in OpenPairs \/ Cardinality(OpenPairs) < MaxOpen
        BY <1>3, <2>8 DEF Approval, SlotFree
      <4>3. QED
        BY <1>1, <3>6, <3>7, <4>1, <4>2, PairSets
    <3>9. Exposed' \subseteq OpenPairs'
      BY <3>2, <3>6, <3>7
    <3>10. Cardinality(Exposed') <= MaxOpen
      <4>1. IsFiniteSet(OpenPairs')
        BY <3>6, PairSets, FS_AddElement
      <4>2. Cardinality(Exposed') <= Cardinality(OpenPairs') /\ Cardinality(OpenPairs') \in Nat /\ Cardinality(Exposed') \in Nat
        BY <3>9, <4>1, FS_Subset, FS_CardinalityType
      <4>3. QED
        BY <1>1, <3>8, <4>2
    <3>11. QED
      BY <3>8, <3>9, <3>10 DEF OpenInv
  <2>9. QED
    BY <2>3, <2>7, <2>8
<1>4. CASE ApplyFill
  <2>1. PICK i : i = work.id
    OBVIOUS
  <2>2. PICK e : e = decisions[i]
    OBVIOUS
  <2>3. /\ i \in Known /\ row[i] = "NEW" /\ pc = "filling" /\ e.pair \in Pairs /\ e.side \in {"buy", "sell"}
        /\ work.qty \in Nat
    BY <1>4, <2>1, <2>2, DecisionTypes DEF BookInv, WorkHolds, ApplyFill, Filling, TypeOK
  <2>4. /\ UNCHANGED <<decisions, row, approved>> /\ pc' = "saving"
        /\ IF e.side = "buy" THEN held' = [held EXCEPT ![e.pair] = @ + work.qty]
                             ELSE held' = [held EXCEPT ![e.pair] = @ - work.qty]
    BY <1>4, <2>1, <2>2, Zenon DEF ApplyFill
  <2>5. Resting' = Resting /\ Waiting' = Waiting /\ Known' = Known /\ i \in Resting
    BY <2>3, <2>4, SameQueue DEF Resting
  <2>6. held \in [Pairs -> Nat] /\ \A p \in Pairs : Of("buy", p)' = Of("buy", p)
    BY <2>4, <2>5 DEF TypeOK, Of
  <2>7. \A p \in Positions' : p \in Positions \/ (p = e.pair /\ e.side = "buy")
    BY <2>3, <2>4, <2>6 DEF Positions
  <2>8. e.side = "buy" => e.pair \in Exposed
    BY <2>2, <2>3, <2>5 DEF Exposed, Of
  <2>9. Exposed' \subseteq Exposed
    BY <2>5, <2>6, <2>7, <2>8 DEF Exposed
  <2>10. QED
    BY <1>2, <2>4, <2>9 DEF OpenInv, Deciding
<1>5. CASE NothingCounts
  <2>1. /\ held' = held /\ Positions' = Positions /\ Resting' \cup Waiting' \subseteq Resting \cup Waiting
        /\ \A p \in Pairs : Of("buy", p)' = Of("buy", p)
    BY <1>5, SameQueue DEF NothingCounts, Positions, Of
  <2>2. Exposed' \subseteq Exposed
    BY <2>1 DEF Exposed
  <2>3. CASE BuildContext
    <3>1. /\ Waiting = {} /\ pc = "resting" /\ pc' = "exits" /\ row' = row /\ decisions' = decisions
          /\ approved' = approved /\ ctx' = [pending |-> [p \in Pairs |-> PendingBuy(p)], count |-> Cardinality(Counted)]
      BY <2>3, NothingWaits DEF BuildContext, BookInv, QueuesHold, tables
    <3>2. Resting' = Resting /\ Waiting' = {}
      BY <3>1, SameQueue DEF Resting
    <3>3. Exposed' = Exposed
      BY <2>1, <3>1, <3>2 DEF Exposed
    <3>4. \A p \in Pairs : ctx'.pending[p] > 0 <=> Resting \cap Of("buy", p) # {}
      BY <3>1, PendingSeen
    <3>5. OpenPairs' = Exposed
      BY <2>1, <3>1, <3>4 DEF OpenPairs, Exposed
    <3>6. QED
      BY <1>1, <3>3, <3>5 DEF OpenInv
  <2>4. CASE pc' \in Deciding => pc \in Deciding /\ ctx' = ctx
    <3>1. pc' \in Deciding => OpenPairs' = OpenPairs
      BY <2>1, <2>4 DEF OpenPairs
    <3>2. QED
      BY <1>2, <2>2, <2>4, <3>1 DEF OpenInv
  <2>5. QED
    BY <1>5, <2>3, <2>4 DEF NothingCounts
<1>6. QED
  BY <1>3, <1>4, <1>5, QuietStep

\* No pair is exposed at the start.
LEMMA OpenStart == Init => OpenInv
<1>1. SUFFICES ASSUME Init PROVE OpenInv
  OBVIOUS
<1>2. Known = {} /\ Waiting = {}
  BY <1>1 DEF Init, Known, Waiting
<1>3. Exposed = {}
  BY <1>1, <1>2 DEF Exposed, Positions, Due, Resting, Init
<1>4. QED
  BY <1>1, <1>3, FS_EmptySet, LimitsAssumption DEF OpenInv, Init, Deciding

\* The counts the risk manager keeps hold of what exists: at no time are there
\* more orders of the last hour than max_orders_per_hour, nor more pairs held
\* or to be held through a resting buy than max_open_positions, although both
\* are tested on proposals one after the other (evaluate, RiskContext).
THEOREM PaperCountsBounded == ASSUME ~TornCrash PROVE Spec => []CountsBounded
<1>1. Core /\ RateInv /\ OpenInv => CountsBounded
  <2>1. SUFFICES ASSUME Core, RateInv, OpenInv PROVE CountsBounded
    OBVIOUS
  <2>2. OrderRateBounded
    <3>1. Counted \subseteq Pledged /\ IsFiniteSet(Pledged) /\ Cardinality(Pledged) \in Nat
      BY <2>1, PledgedTypes DEF Pledged
    <3>2. Cardinality(Counted) <= Cardinality(Pledged) /\ Cardinality(Counted) \in Nat
      BY <3>1, FS_Subset, FS_CardinalityType
    <3>3. QED
      BY <2>1, <3>1, <3>2, LimitsAssumption DEF RateInv, OrderRateBounded
  <2>3. OpenPositionsBounded
    <3> DEFINE Now == Positions \cup {p \in Pairs : PendingBuy(p) > 0}
    <3>1. \A p \in Pairs : PendingBuy(p) > 0 => p \in Exposed
      BY <2>1, PendingSeen DEF Exposed
    <3>2. Now \subseteq Exposed
      BY <3>1 DEF Exposed
    <3>3. Cardinality(Now) <= Cardinality(Exposed) /\ Cardinality(Now) \in Nat /\ Cardinality(Exposed) \in Nat
      BY <3>2, PairSets, FS_Subset, FS_CardinalityType
    <3>4. QED
      BY <2>1, <3>3, LimitsAssumption DEF OpenInv, OpenPositionsBounded
  <2>4. QED
    BY <2>2, <2>3 DEF CountsBounded
<1>2. Init => Core /\ RateInv /\ OpenInv
  BY CoreStart, RateStart, OpenStart
<1>3. (Core /\ RateInv /\ OpenInv) /\ [Next]_vars => (Core /\ RateInv /\ OpenInv)'
  BY CoreStep, RateStep, OpenStep
<1>4. QED
  BY <1>1, <1>2, <1>3, PTL DEF Spec


-----------------------------------------------------------------------------
(* Sells settle first.  While the manager's buys are proposed or wait, the *)
(* only sell that is open is the one in the broker's hands, and the sells  *)
(* that wait are marketable: they fill or are cancelled at once.           *)

Covering == (pc = "manager" /\ phase = "buy") \/ Waiting \cap Side("buy") # {}

SettleInv ==
  /\ pc = "exits" => Waiting \cap Side("buy") = {} /\ \A i \in Waiting : Marketable(i)
  /\ pc = "manager" => phase \in {"buy", "sell"} /\ (phase = "sell" => Waiting \cap Side("buy") = {})
  /\ pc \in {"trail", "entries"} => mode # "manager"
  /\ mode = "manager" /\ Covering =>
       /\ \A i \in Resting \cap Side("sell") : pc \in {"walk"} \cup Filling /\ work.id = i
       /\ \A i \in Waiting \cap Side("sell") : Marketable(i)

\* Steps that leave the decisions alone.
LEMMA SameSides ==
  ASSUME decisions' = decisions
  PROVE  /\ Known' = Known /\ Side("buy")' = Side("buy") /\ Side("sell")' = Side("sell")
         /\ (approved' = approved => Waiting' = Waiting) /\ (row' = row => Resting' = Resting)
         /\ bid' = bid => \A i : Marketable(i)' = Marketable(i)
  BY DEF Known, Side, Waiting, Resting, Marketable, ask

\* Every step keeps what the manager's buys rely on.
LEMMA SettleStep ==
  ASSUME TypeOK, BookInv, SettleInv, ~TornCrash, Next \/ UNCHANGED vars
  PROVE  SettleInv'
<1>1. CASE CycleStart
  BY <1>1, SameSides, NothingWaits, NothingWillWait
     DEF CycleStart, SettleInv, Covering, BookInv, QueuesHold, WorkHolds, Filling, TypeOK, tables, ledger, local
<1>2. ASSUME NEW i \in orders, FillResting(i)
       PROVE  SettleInv'
  BY <1>2, SameSides, NothingWaits, NothingWillWait
     DEF FillResting, SettleInv, Covering, BookInv, QueuesHold, WorkHolds, Filling, TypeOK, tables, ledger, local
<1>3. ASSUME NEW i \in orders, CancelResting(i)
       PROVE  SettleInv'
  BY <1>3, SameSides, NothingWaits DEF CancelResting, BookInv, QueuesHold, SettleInv, Covering
<1>4. ASSUME NEW i \in orders, KeepResting(i)
       PROVE  SettleInv'
  BY <1>4, SameSides, NothingWaits, NothingWillWait
     DEF KeepResting, SettleInv, Covering, BookInv, QueuesHold, WorkHolds, Filling, TypeOK, tables, ledger, local
<1>5. CASE BuildContext
  BY <1>5, SameSides, NothingWaits, NothingWillWait
     DEF BuildContext, SettleInv, Covering, BookInv, QueuesHold, WorkHolds, Filling, TypeOK, tables, ledger, local
<1>6. ASSUME NEW d, Approval(d)
       PROVE  SettleInv'
  <2>1. PICK n : n = Len(decisions) + 1
    OBVIOUS
  <2>2. /\ n \in Ids \ Known /\ Known' = Known \cup {n} /\ Waiting' = Waiting \cup {n}
        /\ decisions'[n] = d /\ \A i \in Known : decisions'[i] = decisions[i]
    BY <1>6, <2>1, Appended DEF BookInv
  <2>3. /\ UNCHANGED <<mode, row, bid, pc, phase, work>> /\ row[n] = "NONE"
        /\ d.side \in {"buy", "sell"} /\ d.emergency \in BOOLEAN
    BY <1>6, <2>2 DEF Approval, BookInv, FillsHold, Decision
  <2>4. /\ Waiting \subseteq Known /\ Resting' = Resting
        /\ Side("buy")' = (IF d.side = "buy" THEN Side("buy") \cup {n} ELSE Side("buy"))
        /\ Side("sell")' = (IF d.side = "sell" THEN Side("sell") \cup {n} ELSE Side("sell"))
    BY <2>2, <2>3, DueKnown DEF Resting, Side
  <2>5. \A i \in Known : Marketable(i)' = Marketable(i)
    BY <2>2, <2>3 DEF Marketable, ask
  <2>6. Side("buy") \subseteq Known /\ Side("sell") \subseteq Known /\ Resting \subseteq Known
    BY DEF Side, Resting
  <2>7. CASE d.side = "buy"
    <3>1. pc = "entries" \/ (pc = "manager" /\ phase = "buy")
      BY <1>6, <2>7 DEF Approval
    <3>2. Resting \cap Side("sell")' = Resting \cap Side("sell") /\ Waiting' \cap Side("sell")' = Waiting \cap Side("sell")
      BY <2>2, <2>4, <2>6, <2>7
    <3>3. QED
      BY <2>2, <2>3, <2>4, <2>5, <3>1, <3>2 DEF SettleInv, Covering
  <2>8. CASE d.side = "sell"
    <3>1. \/ pc = "exits" /\ (d.emergency \/ d.price <= bid[d.pair])
          \/ pc = "manager" /\ phase = "sell"
      BY <1>6, <2>8 DEF Approval
    <3>2. Waiting' \cap Side("buy")' = Waiting \cap Side("buy")
      BY <2>2, <2>4, <2>6, <2>8
    <3>3. pc = "exits" => Marketable(n)'
      BY <2>2, <2>3, <2>8, <3>1 DEF Marketable
    <3>4. QED
      BY <2>2, <2>3, <2>4, <2>5, <3>1, <3>2, <3>3 DEF SettleInv, Covering
  <2>9. QED
    BY <2>3, <2>7, <2>8
<1>7. ASSUME NEW p \in Pairs, NoExit(p)
       PROVE  SettleInv'
  BY <1>7, SameSides, NothingWaits, NothingWillWait
     DEF NoExit, SettleInv, Covering, BookInv, QueuesHold, WorkHolds, Filling, TypeOK, tables, ledger, local
<1>8. CASE ExitsDone
  <2>1. /\ UNCHANGED <<decisions, row, mode, bid, approved>> /\ pc = "exits"
        /\ (mode = "manager" /\ pc' = "manager" /\ \E side \in {"buy", "sell"} : ManagerMay(side) /\ phase' = side)
           \/ (mode # "manager" /\ pc' = "trail")
    BY <1>8 DEF ExitsDone, tables
  <2>2. phase' = "buy" /\ pc' = "manager" => Resting \cap Side("sell") = {}
    BY <2>1 DEF ManagerMay
  <2>3. QED
    BY <2>1, <2>2, SameSides DEF SettleInv, Covering
<1>9. CASE Trail
  BY <1>9, SameSides, NothingWaits, NothingWillWait
     DEF Trail, SettleInv, Covering, BookInv, QueuesHold, WorkHolds, Filling, TypeOK, tables, ledger, local
<1>10. CASE ProposalsDone
  BY <1>10, SameSides, NothingWaits, NothingWillWait
     DEF ProposalsDone, SettleInv, Covering, BookInv, QueuesHold, WorkHolds, Filling, TypeOK, tables, ledger, local
<1>11. CASE RecordOrder
  <2>1. PICK h : h = Head(approved)
    OBVIOUS
  <2>2. h \in Waiting /\ h \in Known /\ h \in Ids /\ Waiting' = Waiting \ {h}
    BY <1>11, <2>1, Recorded, KnownIds DEF BookInv
  <2>3. /\ row' = [row EXCEPT ![h] = "NEW"] /\ pc = "execute" /\ mode' = mode
        /\ UNCHANGED <<decisions, bid, phase>>
        /\ pc' = (IF Marketable(h) THEN "walk" ELSE "execute")
        /\ Marketable(h) => work'.id = h
    BY <1>11, <2>1 DEF RecordOrder, NoWork
  <2>4. Resting' = Resting \cup {h}
    <3>1. \A j \in Ids : row'[j] = IF j = h THEN "NEW" ELSE row[j]
      BY <2>3 DEF TypeOK
    <3>2. QED
      BY <2>2, <2>3, <3>1, SameSides, KnownIds DEF Resting
  <2>5. /\ Side("buy")' = Side("buy") /\ Side("sell")' = Side("sell")
        /\ \A i : Marketable(i)' = Marketable(i)
    BY <2>3, SameSides
  <2>6. ASSUME mode' = "manager", Covering'
        PROVE  /\ \A i \in Resting' \cap Side("sell")' : pc' \in {"walk"} \cup Filling /\ work'.id = i
               /\ \A i \in Waiting' \cap Side("sell")' : Marketable(i)'
    <3>1. Waiting \cap Side("buy") # {}
      BY <2>2, <2>3, <2>5, <2>6 DEF Covering
    <3>2. Resting \cap Side("sell") = {} /\ \A i \in Waiting \cap Side("sell") : Marketable(i)
      BY <2>3, <2>6, <3>1 DEF SettleInv, Covering, Filling
    <3>3. \A i \in Resting' \cap Side("sell")' : i = h /\ Marketable(h)
      BY <2>2, <2>4, <2>5, <3>2
    <3>4. QED
      BY <2>2, <2>3, <2>5, <3>2, <3>3
  <2>7. pc' \notin {"exits", "manager", "trail", "entries"}
    BY <2>3
  <2>8. QED
    BY <2>6, <2>7 DEF SettleInv
<1>12. CASE Walk
  <2>1. PICK i : i = work.id
    OBVIOUS
  <2>2. /\ UNCHANGED <<decisions, mode, bid, approved>> /\ pc = "walk" /\ pc' \in {"execute", "filling"}
        /\ IF pc' = "execute" THEN row' = [row EXCEPT ![i] = "CANCELLED"] ELSE row' = row /\ work'.id = i
    BY <1>12, <2>1 DEF Walk
  <2>3. /\ Side("buy")' = Side("buy") /\ Side("sell")' = Side("sell") /\ Waiting' = Waiting
        /\ \A j : Marketable(j)' = Marketable(j)
    BY <2>2, SameSides
  <2>4. Resting' \subseteq Resting /\ (pc' = "execute" => i \notin Resting')
    <3>1. \A j \in Ids : (row'[j] = "NEW" => row[j] = "NEW" /\ (pc' = "execute" => j # i))
      BY <2>2 DEF TypeOK
    <3>2. QED
      BY <2>2, <3>1, SameSides, KnownIds DEF Resting
  <2>5. QED
    BY <2>1, <2>2, <2>3, <2>4 DEF SettleInv, Covering, Filling
<1>13. CASE ApplyFill
  <2>1. /\ UNCHANGED <<decisions, row, mode, bid, approved, work>>
        /\ pc \in Filling /\ pc' \in {"saving", "closing"}
    BY <1>13 DEF ApplyFill, Filling
  <2>2. QED
    BY <2>1, SameSides DEF SettleInv, Covering, Filling
<1>14. CASE Overdrawn
  BY <1>14, SameSides, NothingWaits, NothingWillWait
     DEF Overdrawn, SettleInv, Covering, BookInv, QueuesHold, WorkHolds, Filling, TypeOK, tables, ledger, local
<1>15. CASE SaveStops
  <2>1. /\ UNCHANGED <<decisions, row, mode, bid, approved, work>>
        /\ pc \in Filling /\ pc' \in {"saving", "closing"}
    BY <1>15 DEF SaveStops, Filling
  <2>2. QED
    BY <2>1, SameSides DEF SettleInv, Covering, Filling
<1>16. CASE CloseOrder
  <2>1. PICK i : i = work.id
    OBVIOUS
  <2>2. /\ i \in Ids /\ pc = "closing" /\ pc' \in {"execute", "resting"}
        /\ work.status \notin {"NONE", "NEW"} /\ row' = [row EXCEPT ![i] = work.status]
        /\ UNCHANGED <<decisions, mode, bid, approved>>
    BY <1>16, <2>1, KnownIds DEF CloseOrder, ClosedAs, BookInv, WorkHolds, Filling, TypeOK
  <2>3. /\ Side("buy")' = Side("buy") /\ Side("sell")' = Side("sell") /\ Waiting' = Waiting
        /\ \A j : Marketable(j)' = Marketable(j)
    BY <2>2, SameSides
  <2>4. Resting' \subseteq Resting /\ i \notin Resting'
    <3>1. \A j \in Ids : (row'[j] = "NEW" => row[j] = "NEW" /\ j # i)
      BY <2>2 DEF TypeOK
    <3>2. QED
      BY <2>2, <3>1, SameSides, KnownIds DEF Resting
  <2>5. QED
    BY <2>1, <2>2, <2>3, <2>4 DEF SettleInv, Covering, Filling
<1>17. CASE CycleEnd
  BY <1>17, SameSides, NothingWaits, NothingWillWait
     DEF CycleEnd, SettleInv, Covering, BookInv, QueuesHold, WorkHolds, Filling, TypeOK, tables, ledger, local
<1>18. CASE CancelAll
  <2>1. /\ UNCHANGED <<decisions, mode, bid, approved, pc, phase>>
        /\ \A i \in Ids : row'[i] = IF i \in Resting THEN "CANCELLED" ELSE row[i]
    BY <1>18 DEF CancelAll, local
  <2>2. Resting' = {}
    BY <2>1, SameSides, KnownIds DEF Resting
  <2>3. QED
    BY <2>1, <2>2, SameSides DEF SettleInv, Covering
<1>19. ASSUME NEW i \in Ids, Age(i)
       PROVE  SettleInv'
  BY <1>19, SameSides, NothingWaits, NothingWillWait
     DEF Age, SettleInv, Covering, BookInv, QueuesHold, WorkHolds, Filling, TypeOK, tables, ledger, local
<1>20. CASE Crash
  BY <1>20, SameSides, NothingWaits, NothingWillWait
     DEF Crash, SettleInv, Covering, BookInv, QueuesHold, WorkHolds, Filling, TypeOK, tables, ledger, local
<1>21. CASE UNCHANGED vars
  BY <1>21, SameSides, NothingWaits, NothingWillWait
     DEF vars, SettleInv, Covering, BookInv, QueuesHold, WorkHolds, Filling, TypeOK, tables, ledger, local
<1>22. QED
  BY <1>1, <1>2, <1>3, <1>4, <1>5, <1>6, <1>7, <1>8, <1>9, <1>10, <1>11, <1>12, <1>13, <1>14, <1>15,
     <1>16, <1>17, <1>18, <1>19, <1>20, <1>21,
     Approvals DEF Next

\* Nothing is proposed at the start.
LEMMA SettleStart == Init => SettleInv
<1>1. SUFFICES ASSUME Init PROVE SettleInv
  OBVIOUS
<1>2. Waiting = {}
  BY <1>1 DEF Init, Waiting
<1>3. QED
  BY <1>1, <1>2 DEF Init, SettleInv, Covering

\* "A buy never relies on cash that is not there yet" (manager.py): when an
\* order of the portfolio manager to buy is created, no sell is open.
LEMMA SettlesFirst ==
  ASSUME Core, SettleInv, ~TornCrash, Next \/ UNCHANGED vars
  PROVE  \A i \in Known :
           mode = "manager" /\ decisions[i].side = "buy" /\ row[i] = "NONE" /\ row'[i] = "NEW" =>
             Resting \cap Side("sell") = {}
<1>1. SUFFICES ASSUME NEW i \in Known, mode = "manager", decisions[i].side = "buy",
                      row[i] = "NONE", row'[i] = "NEW"
               PROVE  Resting \cap Side("sell") = {}
  OBVIOUS
<1>2. i \in Waiting \cap Side("buy") /\ pc = "execute"
  BY <1>1, Creates DEF Side, RecordOrder
<1>3. QED
  BY <1>1, <1>2 DEF SettleInv, Covering, Filling

\* No buy of the portfolio manager is created while a sell is open
\* (rebalance, _sells_open).
THEOREM SellsSettle == ASSUME ~TornCrash PROVE Spec => SellsSettleFirst
<1>1. Core /\ SettleInv /\ [Next]_vars => (Core /\ SettleInv)'
  BY CoreStep, SettleStep DEF Core
<1>2. Core /\ SettleInv /\ [Next]_vars =>
        [\A i \in Known :
           mode = "manager" /\ decisions[i].side = "buy" /\ row[i] = "NONE" /\ row'[i] = "NEW" =>
             Resting \cap Side("sell") = {}]_vars
  <2>1. SUFFICES ASSUME Core, SettleInv, Next \/ UNCHANGED vars
                 PROVE  \A i \in Known :
                          mode = "manager" /\ decisions[i].side = "buy" /\ row[i] = "NONE" /\ row'[i] = "NEW" =>
                            Resting \cap Side("sell") = {}
    OBVIOUS
  <2>2. QED
    BY <2>1, SettlesFirst, Zenon
<1>3. QED
  BY CoreStart, SettleStart, <1>1, <1>2, PTL DEF Spec, SellsSettleFirst


-----------------------------------------------------------------------------
(* max_position_pct and the capital: the value held and the value of what  *)
(* rests or waits, of a pair and of all pairs.                             *)

\* The value of the orders S of a table D of decisions.
Amounts(D, S) == [i \in Ids |-> IF i \in S THEN D[i].price * D[i].qty ELSE 0]

PendOf(p) == SumOver(Amounts(decisions, Due \cap Of("buy", p)), Ids)
PendAll == SumOver(Amounts(decisions, Due \cap Side("buy")), Ids)
Values == [p \in Pairs |-> Value(p)]
ValueAll == SumOver(Values, Pairs)
Promised == SumOver(ctx.pending, Pairs)

\* The context promises at least what is pending; what it promises is within
\* the limits once it promises a buy, and so is what is pending until the last
\* buy of the cycle is created.
LimitInv ==
  /\ pc \in Deciding => (\A p \in Pairs : PendOf(p) <= ctx.pending[p]) /\ PendAll <= Promised
  /\ pc \in Deciding => \A i \in Waiting \cap Side("buy") :
       /\ Value(decisions[i].pair) + ctx.pending[decisions[i].pair] <= MaxPosition
       /\ ValueAll + Promised <= Capital
  /\ \A i \in Waiting \cap Side("buy") :
       /\ Value(decisions[i].pair) + PendOf(decisions[i].pair) <= MaxPosition
       /\ ValueAll + PendAll <= Capital

\* The value of a set of orders, as the model and as the proofs add it up.
LEMMA AmountsAre ==
  ASSUME TypeOK, NEW S \in SUBSET Known
  PROVE  /\ Worth(S) = Amounts(decisions, S)
         /\ \A i \in Ids : Amounts(decisions, S)[i] \in Nat /\ Amounts(decisions, S)[i] \in Int
         /\ SumOver(Amounts(decisions, S), Ids) \in Nat
         /\ MapThenSumSet(Notional, S) = SumOver(Amounts(decisions, S), Ids)
<1>1. Worth(S) = Amounts(decisions, S)
  BY DEF Worth, Amounts, Notional
<1>2. \A i \in Ids : Worth(S)[i] \in Nat
  BY WorthTypes
<1>3. QED
  BY <1>1, <1>2, WorthSum

\* What the limits are about is natural.
LEMMA LimitTypes ==
  ASSUME Core
  PROVE  /\ \A p \in Pairs : PendOf(p) \in Nat /\ Value(p) \in Nat /\ ctx.pending[p] \in Nat
         /\ PendAll \in Nat /\ ValueAll \in Nat /\ Promised \in Nat
         /\ Deployed = ValueAll + Promised
         /\ Due \subseteq Known /\ Known \subseteq Ids /\ Waiting \subseteq Known
<1>1. Due \subseteq Known /\ Known \subseteq Ids /\ Waiting \subseteq Known
  BY DueKnown, KnownIds DEF Core
<1>2. ASSUME NEW p \in Pairs PROVE PendOf(p) \in Nat
  <2>1. Due \cap Of("buy", p) \in SUBSET Known
    BY <1>1
  <2>2. QED
    BY <2>1, AmountsAre DEF PendOf, Core
<1>3. PendAll \in Nat
  <2>1. Due \cap Side("buy") \in SUBSET Known
    BY <1>1
  <2>2. QED
    BY <2>1, AmountsAre DEF PendAll, Core
<1>4. \A p \in Pairs : Value(p) \in Nat /\ ctx.pending[p] \in Nat
  BY ValueTypes DEF Core
<1>5. \A p \in Pairs : Values[p] = Value(p)
  BY DEF Values
<1>6. ValueAll = MapThenSumSet(Value, Pairs)
  BY <1>5, ValueSum DEF ValueAll
<1>7. Promised = Committed
  BY DEF Promised, Committed, SumOver
<1>8. QED
  BY <1>1, <1>2, <1>3, <1>4, <1>6, <1>7, ValueTypes DEF Core, Deployed

\* An approval adds the value of its order, to the sets that hold the order.
LEMMA AmountAdded ==
  ASSUME Core, NEW d, Approval(d), NEW n, n = Len(decisions) + 1, NEW S \in SUBSET Known
  PROVE  /\ SumOver(Amounts(decisions', S \cup {n}), Ids) = SumOver(Amounts(decisions, S), Ids) + d.price * d.qty
         /\ SumOver(Amounts(decisions', S), Ids) = SumOver(Amounts(decisions, S), Ids)
<1>1. /\ n \in Ids \ Known /\ decisions'[n] = d /\ \A i \in Known : decisions'[i] = decisions[i]
  BY Appended DEF Core, BookInv
<1>2. d.price * d.qty \in Int
  BY DEF Approval, Decision
<1>v. PICK v : v = Amounts(decisions, S)
  OBVIOUS
<1>w. PICK w : w = Amounts(decisions', S \cup {n})
  OBVIOUS
<1>3. \A i \in Ids : v[i] \in Int
  BY <1>v, AmountsAre DEF Core
<1>4. w[n] = d.price * d.qty /\ v[n] \in {0} /\ w[n] \in Int
  BY <1>1, <1>2, <1>v, <1>w DEF Amounts
<1>5. \A i \in Ids : i # n => v[i] = w[i]
  BY <1>1, <1>v, <1>w DEF Amounts
<1>6. Amounts(decisions', S) = Amounts(decisions, S)
  BY <1>1 DEF Amounts
<1>7. n \in Ids
  BY <1>1
<1>8. SumOver(w, Ids) = SumOver(v, Ids) + w[n]
  <2>1. PICK x \in Ids : x = n
    BY <1>7
  <2>2. w[x] \in Int /\ v[x] \in {0} /\ \A i \in Ids : i # x => v[i] = w[i]
    BY <1>4, <1>5, <2>1
  <2>3. SumOver(w, Ids) = SumOver(v, Ids) + w[x]
    BY <1>3, <2>2, IdsFinite, SumOneMore
  <2>4. QED
    BY <2>1, <2>3, Zenon
<1>9. SumOver(Amounts(decisions', S \cup {n}), Ids) = SumOver(Amounts(decisions, S), Ids) + d.price * d.qty
  BY <1>4, <1>8, <1>v, <1>w, Zenon
<1>10. SumOver(Amounts(decisions', S), Ids) = SumOver(Amounts(decisions, S), Ids)
  BY <1>6, Zenon
<1>11. QED
  BY <1>9, <1>10, Zenon

\* The order that is filled is pending no more.
LEMMA AmountTaken ==
  ASSUME Core, NEW S \in SUBSET Known, NEW i \in S
  PROVE  SumOver(Amounts(decisions, S), Ids)
           = SumOver(Amounts(decisions, S \ {i}), Ids) + decisions[i].price * decisions[i].qty
<1> DEFINE v == Amounts(decisions, S \ {i})
           w == Amounts(decisions, S)
<1>1. i \in Ids
  BY KnownIds DEF Core
<1>2. (\A j \in Ids : v[j] \in Int) /\ (\A j \in Ids : w[j] \in Int)
  <2>1. S \ {i} \in SUBSET Known
    OBVIOUS
  <2>2. QED
    BY <2>1, AmountsAre DEF Core
<1>3. w[i] = decisions[i].price * decisions[i].qty /\ v[i] \in {0} /\ w[i] \in Int
  BY <1>1, <1>2 DEF Amounts
<1>4. \A j \in Ids : j # i => v[j] = w[j]
  BY DEF Amounts
<1> HIDE DEF v, w
<1>5. SumOver(w, Ids) = SumOver(v, Ids) + w[i]
  BY <1>1, <1>2, <1>3, <1>4, IdsFinite, SumOneMore
<1>6. QED
  BY <1>3, <1>5 DEF v, w

\* Fewer orders, less pending.
LEMMA AmountsGrow ==
  ASSUME Core, NEW S \in SUBSET Known, NEW T \in SUBSET S
  PROVE  SumOver(Amounts(decisions, T), Ids) <= SumOver(Amounts(decisions, S), Ids)
<1>1. T \in SUBSET Known
  OBVIOUS
<1>2. Worth(S) = Amounts(decisions, S) /\ Worth(T) = Amounts(decisions, T)
  BY <1>1, AmountsAre DEF Core
<1>3. QED
  BY <1>2, WorthGrows DEF Core

\* What is pending altogether is the sum of what is pending of each pair.
LEMMA PendingShares ==
  ASSUME Core, NEW c, \A p \in Pairs : c[p] = PendOf(p)
  PROVE  SumOver(c, Pairs) = PendAll
<1> DEFINE S == Due \cap Side("buy")
           w == Amounts(decisions, S)
           f == [i \in S |-> decisions[i].pair]
           Part(p) == {i \in S : f[i] = p}
<1>1. S \in SUBSET Known /\ S \in SUBSET Ids /\ IsFiniteSet(S)
  BY LimitTypes, IdsFinite, FS_Subset
<1>2. \A i \in Ids : w[i] \in Int
  BY <1>1, AmountsAre DEF Core
<1>3. \A i \in S : f[i] \in Pairs
  BY <1>1, DecisionTypes DEF Core
<1>4. SumOver(w, Ids) = SumOver(w, S)
  <2>1. \A i \in Ids \ S : w[i] = 0
    BY DEF Amounts
  <2> HIDE DEF w
  <2>2. QED
    BY <1>1, <1>2, <2>1, IdsFinite, SumWithin
<1>5. SumOver(w, S) = SumOver(Shares(w, S, f, Pairs), Pairs)
  <2>1. \A i \in S : w[i] \in Int
    BY <1>1, <1>2
  <2> HIDE DEF w, S, f
  <2>2. QED
    BY <1>1, <1>3, <2>1, IdsFinite, SumOfShares
<1>6. ASSUME NEW p \in Pairs PROVE c[p] = SumOver(w, Part(p))
  <2>1. Part(p) = Due \cap Of("buy", p)
    BY <1>1 DEF Side, Of
  <2> DEFINE u == Amounts(decisions, Due \cap Of("buy", p))
  <2>2. Part(p) \in SUBSET Known /\ Part(p) \in SUBSET Ids /\ IsFiniteSet(Part(p))
    BY <1>1, FS_Subset
  <2>3. (\A i \in Ids : u[i] \in Int) /\ (\A i \in Ids \ Part(p) : u[i] = 0) /\ (\A i \in Part(p) : u[i] = w[i])
    <3>1. \A i \in Ids : u[i] \in Int
      BY <2>1, <2>2, AmountsAre DEF Core
    <3>2. QED
      BY <2>1, <2>2, <3>1 DEF Amounts
  <2>4. c[p] = SumOver(u, Ids)
    BY DEF PendOf
  <2> HIDE DEF u, w, Part
  <2>5. SumOver(u, Ids) = SumOver(u, Part(p))
    BY <2>2, <2>3, IdsFinite, SumWithin
  <2>6. SumOver(u, Part(p)) = SumOver(w, Part(p))
    BY <2>2, <2>3, SumSame
  <2>7. QED
    BY <2>4, <2>5, <2>6
<1>7. \A p \in Pairs : c[p] = Shares(w, S, f, Pairs)[p]
  BY <1>6 DEF Shares
<1> HIDE DEF w, S, f, Part
<1>8. SumOver(c, Pairs) = SumOver(Shares(w, S, f, Pairs), Pairs)
  BY <1>7, IdsFinite, SumSame
<1>9. QED
  BY <1>4, <1>5, <1>8 DEF PendAll, w, S

\* What is pending of orders that a step leaves alone.
LEMMA PendingIs ==
  /\ \A p \in Pairs : PendOf(p)' = SumOver(Amounts(decisions', Due' \cap Of("buy", p)'), Ids)
  /\ PendAll' = SumOver(Amounts(decisions', Due' \cap Side("buy")'), Ids)
  BY DEF PendOf, PendAll

\* Values change with the prices and with what is held.
LEMMA SameValues ==
  ASSUME held' = held, bid' = bid
  PROVE  (\A p \in Pairs : Value(p)' = Value(p)) /\ ValueAll' = ValueAll
<1>1. \A p \in Pairs : Value(p)' = Value(p)
  BY DEF Value
<1>2. Values' = Values
  BY <1>1 DEF Values
<1>3. QED
  BY <1>1, <1>2 DEF ValueAll

\* The risk manager approves a buy within the room that is left.
LEMMA LimitApproval == ASSUME Core, LimitInv, NEW d, Approval(d) PROVE LimitInv'
<1>1. PICK n : n = Len(decisions) + 1
  OBVIOUS
<1>2. /\ n \in Ids \ Known /\ Known' = Known \cup {n} /\ Waiting' = Waiting \cup {n}
      /\ decisions'[n] = d /\ \A i \in Known : decisions'[i] = decisions[i]
  BY <1>1, Appended DEF Core, BookInv
<1>3. /\ row' = row /\ pc' = pc /\ work' = work /\ held' = held /\ bid' = bid
      /\ pc \in Deciding /\ row[n] = "NONE"
      /\ d.pair \in Pairs /\ d.side \in {"buy", "sell"} /\ d.price \in Nat /\ d.qty \in Nat
  BY <1>2 DEF Core, Approval, Deciding, BookInv, FillsHold, ledger, Decision
<1>4. Due \subseteq Known /\ Known \subseteq Ids /\ Waiting \subseteq Known
  BY LimitTypes
<1>5. Due' = Due \cup {n}
  BY <1>2, <1>3 DEF Due, Resting, Closing
<1>6. PICK P \in [Pairs -> SUBSET Known] : \A p \in Pairs : P[p] = Due \cap Of("buy", p)
  <2>1. [p \in Pairs |-> Due \cap Of("buy", p)] \in [Pairs -> SUBSET Known]
    BY <1>4
  <2>2. QED
    BY <2>1
<1>7. PICK B \in SUBSET Known : B = Due \cap Side("buy")
  BY <1>4
<1>8. /\ \A p \in Pairs : PendOf(p) = SumOver(Amounts(decisions, P[p]), Ids)
      /\ PendAll = SumOver(Amounts(decisions, B), Ids)
  BY <1>6, <1>7 DEF PendOf, PendAll
<1>9. /\ \A p \in Pairs : SumOver(Amounts(decisions', P[p]), Ids) = PendOf(p)
      /\ \A p \in Pairs : SumOver(Amounts(decisions', P[p] \cup {n}), Ids) = PendOf(p) + d.price * d.qty
      /\ SumOver(Amounts(decisions', B), Ids) = PendAll
      /\ SumOver(Amounts(decisions', B \cup {n}), Ids) = PendAll + d.price * d.qty
  <2>1. ASSUME NEW S \in SUBSET Known
        PROVE  /\ SumOver(Amounts(decisions', S \cup {n}), Ids) = SumOver(Amounts(decisions, S), Ids) + d.price * d.qty
               /\ SumOver(Amounts(decisions', S), Ids) = SumOver(Amounts(decisions, S), Ids)
    BY <1>1, AmountAdded, Zenon
  <2>2. \A p \in Pairs : P[p] \in SUBSET Known
    BY <1>6
  <2>3. QED
    BY <1>7, <1>8, <2>1, <2>2, Zenon
<1>10. (\A p \in Pairs : Value(p)' = Value(p)) /\ ValueAll' = ValueAll
  BY <1>3, SameValues
<1>11. ctx' = Updated(d) /\ ctx.pending \in [Pairs -> Nat]
  BY DEF Approval, Approve, Core, TypeOK
<1>12. CASE d.side = "sell"
  <2>1. Due' \cap Side("buy")' = B /\ \A p \in Pairs : Due' \cap Of("buy", p)' = P[p]
    BY <1>2, <1>4, <1>5, <1>6, <1>7, <1>12 DEF Side, Of
  <2>2. PendAll' = PendAll /\ \A p \in Pairs : PendOf(p)' = PendOf(p)
    BY <1>9, <2>1, PendingIs
  <2>3. ctx'.pending = ctx.pending
    BY <1>3, <1>11, <1>12 DEF Updated
  <2>4. Promised' = Promised
    BY <2>3 DEF Promised
  <2>5. \A i \in (Waiting \cap Side("buy"))' : i \in Waiting \cap Side("buy") /\ decisions'[i] = decisions[i]
    BY <1>2, <1>4, <1>12 DEF Side
  <2>6. \A i \in Waiting \cap Side("buy") : decisions[i].pair \in Pairs
    BY <1>4, DecisionTypes DEF Core
  <2>7. QED
    BY <1>3, <1>10, <2>2, <2>3, <2>4, <2>5, <2>6 DEF LimitInv
<1>13. CASE d.side = "buy"
  <2>1. /\ Due' \cap Side("buy")' = B \cup {n}
        /\ \A p \in Pairs : Due' \cap Of("buy", p)' = IF p = d.pair THEN P[p] \cup {n} ELSE P[p]
    BY <1>2, <1>4, <1>5, <1>6, <1>7, <1>13 DEF Side, Of
  <2>2. PICK a \in Nat : a = d.price * d.qty
    <3>1. \A x, y \in Nat : x * y \in Nat
      OBVIOUS
    <3>2. QED
      BY <1>3, <3>1
  <2>3. /\ PendAll' = PendAll + a
        /\ PendOf(d.pair)' = PendOf(d.pair) + a
        /\ \A p \in Pairs : p # d.pair => PendOf(p)' = PendOf(p)
    <3>1. /\ PendAll' = SumOver(Amounts(decisions', B \cup {n}), Ids)
          /\ \A p \in Pairs : PendOf(p)' = SumOver(Amounts(decisions', IF p = d.pair THEN P[p] \cup {n} ELSE P[p]), Ids)
      BY <2>1, PendingIs
    <3>2. \A p \in Pairs : p # d.pair => PendOf(p)' = SumOver(Amounts(decisions', P[p]), Ids)
      BY <3>1
    <3>3. PICK p \in Pairs : p = d.pair
      BY <1>3
    <3>4. PendOf(p)' = SumOver(Amounts(decisions', P[p] \cup {n}), Ids)
      BY <3>1, <3>3
    <3>5. PendOf(p)' = PendOf(p) + a
      BY <1>9, <2>2, <3>4, Zenon
    <3>6. \A q \in Pairs : q # d.pair => PendOf(q)' = PendOf(q)
      BY <1>9, <3>2, Zenon
    <3>7. PendAll' = PendAll + a
      BY <1>9, <2>2, <3>1, Zenon
    <3>8. QED
      BY <3>3, <3>5, <3>6, <3>7, Zenon
  <2>4. ctx'.pending = [ctx.pending EXCEPT ![d.pair] = @ + a]
    BY <1>11, <1>13, <2>2 DEF Updated
  <2>5. /\ ctx'.pending[d.pair] = ctx.pending[d.pair] + a
        /\ \A p \in Pairs : p # d.pair => ctx'.pending[p] = ctx.pending[p]
        /\ \A p \in Pairs : ctx.pending[p] \in Nat /\ ctx'.pending[p] \in Nat
    BY <1>3, <1>11, <2>4
  <2>6. Promised' = Promised + a
    <3>v. PICK v : v = ctx.pending
      OBVIOUS
    <3>w. PICK w : w = ctx'.pending
      OBVIOUS
    <3>1. PICK p \in Pairs : p = d.pair
      BY <1>3
    <3>2. /\ \A q \in Pairs : v[q] \in Int /\ w[q] \in Int
          /\ \A q \in Pairs : q # p => v[q] = w[q]
          /\ w[p] = v[p] + a
      BY <2>5, <3>v, <3>w, <3>1
    <3>3. SumOver(w, Pairs) = SumOver(v, Pairs) + w[p] - v[p] /\ SumOver(v, Pairs) \in Int
      <4>1. SumOver(w, Pairs) = SumOver(v, Pairs) + w[p] - v[p]
        BY <3>2, IdsFinite, SumChange
      <4>2. SumOver(v, Pairs) \in Int
        BY <3>2, IdsFinite, SumInt
      <4>3. QED
        BY <4>1, <4>2
    <3>4. SumOver(w, Pairs) = SumOver(v, Pairs) + a
      BY <3>2, <3>3
    <3>5. Promised = SumOver(v, Pairs) /\ Promised' = SumOver(w, Pairs)
      BY <3>v, <3>w DEF Promised
    <3>6. QED
      BY <3>4, <3>5
  <2>7. /\ a <= Room(d.pair) /\ Room(d.pair) \in Int
        /\ Room(d.pair) <= MaxPosition - Value(d.pair) - ctx.pending[d.pair]
        /\ Room(d.pair) <= Capital - Deployed /\ Deployed = ValueAll + Promised
    BY <1>3, <1>13, <2>2, RoomIs, LimitTypes DEF Approval, Core
  <2>8. /\ \A p \in Pairs : PendOf(p) \in Nat /\ Value(p) \in Nat
        /\ PendAll \in Nat /\ ValueAll \in Nat /\ Promised \in Nat
        /\ MaxPosition \in Nat /\ Capital \in Nat
    BY LimitTypes, LimitsAssumption
  <2>9. /\ Value(d.pair) + ctx'.pending[d.pair] <= MaxPosition
        /\ ValueAll + Promised' <= Capital
    BY <1>3, <2>2, <2>5, <2>6, <2>7, <2>8
  <2>10. (\A p \in Pairs : PendOf(p)' <= ctx'.pending[p]) /\ PendAll' <= Promised'
    <3>1. (\A p \in Pairs : PendOf(p) <= ctx.pending[p]) /\ PendAll <= Promised
      BY <1>3 DEF LimitInv
    <3>2. QED
      BY <1>3, <2>2, <2>3, <2>5, <2>6, <2>8, <3>1
  <2>11. ASSUME NEW i \in (Waiting \cap Side("buy"))'
         PROVE  /\ decisions'[i].pair \in Pairs
                /\ Value(decisions'[i].pair) + ctx'.pending[decisions'[i].pair] <= MaxPosition
    <3>1. CASE i = n
      BY <1>2, <1>3, <2>9, <3>1
    <3>2. CASE i # n
      <4>1. i \in Waiting \cap Side("buy") /\ decisions'[i] = decisions[i]
        BY <1>2, <1>4, <3>2 DEF Side
      <4>2. PICK p \in Pairs : p = decisions[i].pair
        BY <1>4, <4>1, DecisionTypes DEF Core
      <4>3. Value(p) + ctx.pending[p] <= MaxPosition
        BY <1>3, <4>1, <4>2 DEF LimitInv
      <4>4. Value(p) + ctx'.pending[p] <= MaxPosition
        BY <2>5, <2>9, <4>2, <4>3
      <4>5. QED
        BY <4>1, <4>2, <4>4
    <3>3. QED
      BY <3>1, <3>2
  <2>12. ASSUME NEW i \in (Waiting \cap Side("buy"))'
         PROVE  /\ (Value(decisions[i].pair) + ctx.pending[decisions[i].pair] <= MaxPosition)'
                /\ (ValueAll + Promised <= Capital)'
                /\ (Value(decisions[i].pair) + PendOf(decisions[i].pair) <= MaxPosition)'
                /\ (ValueAll + PendAll <= Capital)'
    <3>1. PICK p \in Pairs : p = decisions'[i].pair
      BY <2>11
    <3>2. /\ Value(p) + ctx'.pending[p] <= MaxPosition /\ ValueAll + Promised' <= Capital
          /\ Value(p)' = Value(p) /\ ValueAll' = ValueAll
      BY <1>10, <2>9, <2>11, <3>1
    <3>3. PendOf(p)' <= ctx'.pending[p] /\ PendAll' <= Promised'
      BY <2>10
    <3>4. PendOf(p)' \in Nat /\ PendAll' \in Nat /\ ctx'.pending[p] \in Nat /\ Promised' \in Nat /\ Value(p) \in Nat
      BY <1>3, <2>2, <2>3, <2>5, <2>6, <2>8
    <3>5. /\ Value(p)' + PendOf(p)' <= MaxPosition /\ ValueAll' + PendAll' <= Capital
          /\ Value(p)' + ctx'.pending[p] <= MaxPosition /\ ValueAll' + Promised' <= Capital
      BY <2>8, <3>2, <3>3, <3>4
    <3>6. QED
      BY <3>1, <3>5
  <2>13. QED
    BY <2>10, <2>12 DEF LimitInv
<1>14. QED
  BY <1>3, <1>12, <1>13

\* A fill turns what was pending into what is held: a marketable buy is worth
\* no more at the bid than at its own price.
LEMMA LimitFill == ASSUME Core, LimitInv, ApplyFill PROVE LimitInv'
<1>1. PICK i : i = work.id
  OBVIOUS
<1>2. PICK e : e = decisions[i]
  OBVIOUS
<1>3. /\ i \in Known /\ row[i] = "NEW" /\ pc = "filling" /\ e.pair \in Pairs /\ e.side \in {"buy", "sell"}
      /\ e.price \in Nat /\ e.qty \in Nat /\ work.qty \in Nat
  BY <1>1, <1>2, DecisionTypes DEF Core, BookInv, WorkHolds, ApplyFill, Filling, TypeOK
<1>4. /\ UNCHANGED <<decisions, row, approved, bid, work>> /\ pc' = "saving"
      /\ IF e.side = "buy" THEN held' = [held EXCEPT ![e.pair] = @ + work.qty]
                           ELSE held' = [held EXCEPT ![e.pair] = @ - work.qty]
  BY <1>1, <1>2, Zenon DEF ApplyFill
<1>5. Resting' = Resting /\ Waiting' = Waiting /\ Known' = Known /\ i \in Resting /\ i \notin Waiting
  BY <1>3, <1>4, SameQueue DEF Resting, Core, BookInv, QueuesHold
<1>6. i \in Due /\ Due' = Due \ {i}
  BY <1>1, <1>3, <1>4, <1>5 DEF Due, Closing
<1>7. /\ Side("buy")' = Side("buy") /\ \A p \in Pairs : Of("buy", p)' = Of("buy", p)
  BY <1>4, <1>5 DEF Side, Of
<1>8. Due \subseteq Known /\ Known \subseteq Ids /\ Waiting \subseteq Known
  BY LimitTypes
<1>9. /\ \A p \in Pairs : PendOf(p) \in Nat /\ Value(p) \in Nat /\ bid[p] \in Nat /\ bid[p] > 0 /\ held[p] \in Nat
      /\ PendAll \in Nat /\ ValueAll \in Nat /\ MaxPosition \in Nat /\ Capital \in Nat
  BY LimitTypes, ValueTypes, LimitsAssumption DEF Core, TypeOK
<1>10. held \in [Pairs -> Nat] /\ \A p \in Pairs : Value(p) = held[p] * bid[p] /\ Value(p)' = held'[p] * bid[p]
  BY <1>4 DEF Core, TypeOK, Value
<1>11. SUFFICES ASSUME NEW j \in (Waiting \cap Side("buy"))'
                PROVE  /\ (Value(decisions[j].pair) + PendOf(decisions[j].pair) <= MaxPosition)'
                       /\ (ValueAll + PendAll <= Capital)'
  BY <1>4 DEF LimitInv, Deciding
<1>12. j \in Waiting \cap Side("buy")
  BY <1>5, <1>7
<1>13. PICK p \in Pairs : p = decisions[j].pair
  BY <1>8, <1>12, DecisionTypes DEF Core
<1>14. Value(p) + PendOf(p) <= MaxPosition /\ ValueAll + PendAll <= Capital
  BY <1>12, <1>13 DEF LimitInv
<1>15. SUFFICES Value(p)' + PendOf(p)' <= MaxPosition /\ ValueAll' + PendAll' <= Capital
  BY <1>4, <1>13
<1>16. Marketable(i)
  <2>1. approved # <<>>
    BY <1>12, NothingWaits
  <2>2. work.back \in {"idle", "resting", "execute"}
    BY DEF Core, TypeOK
  <2>3. QED
    BY <1>1, <1>3, <2>1, <2>2 DEF Core, BookInv, QueuesHold, WorkHolds, Filling
<1> DEFINE new == [q \in Pairs |-> Value(q)']
<1>17. Values' = new
  BY DEF Values
<1>18. CASE e.side = "buy"
  <2>1. e.price >= bid[e.pair] + 1 /\ work.qty <= e.qty
    BY <1>1, <1>2, <1>3, <1>16, <1>18 DEF Core, BookInv, WorkHolds, DecisionsHold, Marketable, ask
  <2>2. PICK c \in Pairs : c = e.pair
    BY <1>3
  <2>3. PICK g \in Nat : g = work.qty * bid[c]
    <3>1. \A x, y \in Nat : x * y \in Nat
      OBVIOUS
    <3>2. QED
      BY <1>3, <1>9, <3>1
  <2>4. PICK a \in Nat : a = e.price * e.qty
    <3>1. \A x, y \in Nat : x * y \in Nat
      OBVIOUS
    <3>2. QED
      BY <1>3, <3>1
  <2>5. g <= a
    <3>1. \A x, y, z, t \in Nat : x <= y /\ z <= t => x * z <= t * y
      OBVIOUS
    <3>2. work.qty \in Nat /\ e.qty \in Nat /\ bid[c] \in Nat /\ e.price \in Nat /\ work.qty <= e.qty /\ bid[c] <= e.price
      BY <1>3, <1>9, <2>1, <2>2
    <3>3. QED
      BY <2>3, <2>4, <3>1, <3>2
  <2>6. Value(c)' = Value(c) + g /\ \A q \in Pairs : q # c => Value(q)' = Value(q)
    <3>1. held'[c] = held[c] + work.qty /\ \A q \in Pairs : q # c => held'[q] = held[q]
      BY <1>4, <1>10, <1>18, <2>2
    <3>2. \A x, y, z \in Nat : (x + y) * z = x * z + y * z
      OBVIOUS
    <3>3. QED
      BY <1>3, <1>9, <1>10, <2>3, <3>1, <3>2
  <2>7. ValueAll' = ValueAll + g
    <3>v. PICK v : v = Values
      OBVIOUS
    <3>w. PICK w : w = new
      OBVIOUS
    <3>1. /\ \A q \in Pairs : v[q] \in Int /\ w[q] \in Int
          /\ \A q \in Pairs : q # c => v[q] = w[q]
          /\ w[c] = v[c] + g
      BY <1>9, <2>6, <3>v, <3>w DEF Values
    <3>2. SumOver(w, Pairs) = SumOver(v, Pairs) + w[c] - v[c]
      BY <3>1, IdsFinite, SumChange
    <3>3. SumOver(v, Pairs) \in Int
      BY <3>1, IdsFinite, SumInt
    <3>4. SumOver(w, Pairs) = SumOver(v, Pairs) + g
      BY <3>1, <3>2, <3>3
    <3>5. ValueAll = SumOver(v, Pairs) /\ ValueAll' = SumOver(w, Pairs)
      BY <1>17, <3>v, <3>w DEF ValueAll
    <3>6. QED
      BY <3>4, <3>5
  <2>8. PendAll = PendAll' + a
    <3>1. PICK S \in SUBSET Known : S = Due \cap Side("buy") /\ i \in S
      BY <1>2, <1>3, <1>6, <1>8, <1>18 DEF Side
    <3>2. Due' \cap Side("buy")' = S \ {i}
      BY <1>6, <1>7, <3>1
    <3>3. SumOver(Amounts(decisions, S), Ids) = SumOver(Amounts(decisions, S \ {i}), Ids) + a
      BY <1>2, <2>4, <3>1, AmountTaken
    <3>4. PendAll = SumOver(Amounts(decisions, S), Ids) /\ PendAll' = SumOver(Amounts(decisions, S \ {i}), Ids)
      BY <1>4, <3>1, <3>2, PendingIs DEF PendAll
    <3>5. QED
      BY <3>3, <3>4
  <2>9. PendOf(c) = PendOf(c)' + a
    <3>1. PICK S \in SUBSET Known : S = Due \cap Of("buy", c) /\ i \in S
      BY <1>2, <1>3, <1>6, <1>8, <1>18, <2>2 DEF Of
    <3>2. Due' \cap Of("buy", c)' = S \ {i}
      BY <1>6, <1>7, <3>1
    <3>3. SumOver(Amounts(decisions, S), Ids) = SumOver(Amounts(decisions, S \ {i}), Ids) + a
      BY <1>2, <2>4, <3>1, AmountTaken
    <3>4. PendOf(c) = SumOver(Amounts(decisions, S), Ids) /\ PendOf(c)' = SumOver(Amounts(decisions, S \ {i}), Ids)
      BY <1>4, <3>1, <3>2, PendingIs DEF PendOf
    <3>5. QED
      BY <3>3, <3>4
  <2>10. \A q \in Pairs : q # c => PendOf(q)' = PendOf(q)
    <3>1. \A q \in Pairs : q # c => Due' \cap Of("buy", q)' = Due \cap Of("buy", q)
      BY <1>2, <1>6, <1>7, <2>2 DEF Of
    <3>2. QED
      BY <1>4, <3>1, PendingIs DEF PendOf
  <2>11. PendAll' \in Int /\ \A q \in Pairs : PendOf(q)' \in Int
    <3>1. \A S \in SUBSET Known : SumOver(Amounts(decisions, S), Ids) \in Nat
      BY AmountsAre DEF Core
    <3>2. Due' \cap Side("buy")' \in SUBSET Known /\ \A q \in Pairs : Due' \cap Of("buy", q)' \in SUBSET Known
      BY <1>6, <1>8
    <3>3. PendAll' \in Nat /\ \A q \in Pairs : PendOf(q)' \in Nat
      BY <1>4, <3>1, <3>2, PendingIs
    <3>4. QED
      BY <3>3
  <2>12. ValueAll' + PendAll' <= Capital
    BY <1>9, <1>14, <2>5, <2>7, <2>8, <2>11
  <2>13. Value(p)' + PendOf(p)' <= MaxPosition
    <3>1. CASE p = c
      BY <1>9, <1>14, <2>5, <2>6, <2>9, <2>11, <3>1
    <3>2. CASE p # c
      BY <1>14, <2>6, <2>10, <3>2
    <3>3. QED
      BY <3>1, <3>2
  <2>14. QED
    BY <2>12, <2>13
<1>19. CASE e.side = "sell"
  <2>1. work.qty <= held[e.pair]
    BY <1>1, <1>2, <1>3, <1>19 DEF Core, BookInv, WorkHolds
  <2>2. \A q \in Pairs : held'[q] \in Nat /\ held'[q] <= held[q]
    BY <1>3, <1>4, <1>10, <1>19, <2>1
  <2>3. \A q \in Pairs : Value(q)' \in Nat /\ Value(q)' <= Value(q)
    <3>1. \A x, y, z \in Nat : x <= y => x * z \in Nat /\ x * z <= y * z
      OBVIOUS
    <3>2. QED
      BY <1>9, <1>10, <2>2, <3>1
  <2>4. ValueAll' <= ValueAll /\ ValueAll' \in Int
    <3>v. PICK v : v = Values
      OBVIOUS
    <3>w. PICK w : w = new
      OBVIOUS
    <3>1. \A q \in Pairs : v[q] \in Int /\ w[q] \in Int /\ w[q] <= v[q]
      BY <1>9, <2>3, <3>v, <3>w DEF Values
    <3>2. SumOver(w, Pairs) <= SumOver(v, Pairs)
      BY <3>1, IdsFinite, SumMonotone
    <3>3. SumOver(w, Pairs) \in Int
      BY <3>1, IdsFinite, SumInt
    <3>4. ValueAll = SumOver(v, Pairs) /\ ValueAll' = SumOver(w, Pairs)
      BY <1>17, <3>v, <3>w DEF ValueAll
    <3>5. QED
      BY <3>2, <3>3, <3>4
  <2>5. /\ Due' \cap Side("buy")' = Due \cap Side("buy")
        /\ \A q \in Pairs : Due' \cap Of("buy", q)' = Due \cap Of("buy", q)
    BY <1>2, <1>6, <1>7, <1>19 DEF Side, Of
  <2>6. PendAll' = PendAll /\ PendOf(p)' = PendOf(p)
    BY <1>4, <2>5, PendingIs DEF PendAll, PendOf
  <2>7. QED
    <3>1. /\ Value(p)' \in Nat /\ Value(p)' <= Value(p) /\ Value(p) \in Nat /\ PendOf(p) \in Nat
          /\ PendAll \in Nat /\ ValueAll \in Nat /\ MaxPosition \in Nat /\ Capital \in Nat
      BY <1>9, <2>3
    <3>2. Value(p)' + PendOf(p) <= MaxPosition
      BY <1>14, <3>1
    <3>3. ValueAll' + PendAll <= Capital
      <4>1. \A x, y, z, t \in Int : x <= y /\ y + z <= t => x + z <= t
        OBVIOUS
      <4>2. ValueAll \in Int /\ PendAll \in Int /\ Capital \in Int
        BY <3>1
      <4>3. QED
        BY <1>14, <2>4, <4>1, <4>2
    <3>4. QED
      BY <2>6, <3>2, <3>3
<1>20. QED
  BY <1>3, <1>18, <1>19

\* Where nothing is approved and nothing filled, no more is pending.
LEMMA LimitQuiet == ASSUME Core, LimitInv, NothingCounts PROVE LimitInv'
<1>1. /\ decisions' = decisions /\ held' = held /\ Waiting' \subseteq Waiting /\ Due' \subseteq Due
      /\ bid' = bid \/ Waiting = {}
      /\ pc' \in Deciding => (pc \in Deciding /\ ctx' = ctx) \/ BuildContext
  BY DEF NothingCounts
<1>2. Known' = Known /\ Side("buy")' = Side("buy") /\ \A p \in Pairs : Of("buy", p)' = Of("buy", p)
  BY <1>1 DEF Known, Side, Of
<1>3. Due \subseteq Known /\ Known \subseteq Ids /\ Waiting \subseteq Known
  BY LimitTypes
<1>4. /\ \A p \in Pairs : PendOf(p) \in Nat /\ Value(p) \in Nat /\ ctx.pending[p] \in Nat
      /\ PendAll \in Nat /\ ValueAll \in Nat /\ Promised \in Nat /\ MaxPosition \in Nat /\ Capital \in Nat
  BY LimitTypes, LimitsAssumption
<1>5. \A S, T \in SUBSET Known : T \subseteq S =>
        /\ SumOver(Amounts(decisions, T), Ids) <= SumOver(Amounts(decisions, S), Ids)
        /\ SumOver(Amounts(decisions, T), Ids) \in Nat
  BY AmountsGrow, AmountsAre DEF Core
<1>6. PendAll' <= PendAll /\ PendAll' \in Nat
  <2>s. PICK S : S = Due \cap Side("buy")
    OBVIOUS
  <2>t. PICK T : T = Due' \cap Side("buy")'
    OBVIOUS
  <2>1. S \in SUBSET Known /\ T \in SUBSET Known /\ T \subseteq S
    BY <1>1, <1>2, <1>3, <2>s, <2>t
  <2>2. PendAll = SumOver(Amounts(decisions, S), Ids) /\ PendAll' = SumOver(Amounts(decisions, T), Ids)
    BY <1>1, <2>s, <2>t, PendingIs DEF PendAll
  <2>3. QED
    BY <1>5, <2>1, <2>2, Zenon
<1>7. ASSUME NEW p \in Pairs PROVE PendOf(p)' <= PendOf(p) /\ PendOf(p)' \in Nat
  <2>s. PICK S : S = Due \cap Of("buy", p)
    OBVIOUS
  <2>t. PICK T : T = Due' \cap Of("buy", p)'
    OBVIOUS
  <2>1. S \in SUBSET Known /\ T \in SUBSET Known /\ T \subseteq S
    BY <1>1, <1>2, <1>3, <2>s, <2>t
  <2>2. PendOf(p) = SumOver(Amounts(decisions, S), Ids) /\ PendOf(p)' = SumOver(Amounts(decisions, T), Ids)
    BY <1>1, <2>s, <2>t, PendingIs DEF PendOf
  <2>3. QED
    BY <1>5, <2>1, <2>2, Zenon
<1>8. ASSUME NEW i \in (Waiting \cap Side("buy"))'
      PROVE  /\ i \in Waiting \cap Side("buy") /\ decisions[i].pair \in Pairs
             /\ (\A p \in Pairs : Value(p)' = Value(p)) /\ ValueAll' = ValueAll
  <2>1. i \in Waiting \cap Side("buy")
    BY <1>1, <1>2, <1>8
  <2>2. bid' = bid
    BY <1>1, <2>1
  <2>3. QED
    BY <1>1, <1>3, <2>1, <2>2, SameValues, DecisionTypes DEF Core
<1>9. ASSUME NEW i \in (Waiting \cap Side("buy"))'
      PROVE  (Value(decisions[i].pair) + PendOf(decisions[i].pair) <= MaxPosition /\ ValueAll + PendAll <= Capital)'
  <2>1. PICK p \in Pairs : p = decisions[i].pair
    BY <1>8, <1>9
  <2>2. Value(p) + PendOf(p) <= MaxPosition /\ ValueAll + PendAll <= Capital
    BY <1>8, <1>9, <2>1 DEF LimitInv
  <2>3. Value(p)' = Value(p) /\ ValueAll' = ValueAll
    BY <1>8, <1>9
  <2>4. Value(p)' + PendOf(p)' <= MaxPosition
    BY <1>4, <1>7, <2>2, <2>3
  <2>5. ValueAll' + PendAll' <= Capital
    <3>1. ValueAll \in Int /\ PendAll \in Int /\ PendAll' \in Int /\ Capital \in Int /\ PendAll' <= PendAll
      BY <1>4, <1>6
    <3>2. \A x, y, z, c \in Int : y <= z /\ x + z <= c => x + y <= c
      OBVIOUS
    <3>3. ValueAll + PendAll' <= Capital
      BY <2>2, <3>1, <3>2
    <3>4. QED
      BY <2>3, <3>3
  <2>6. QED
    BY <1>1, <2>1, <2>4, <2>5
<1>10. CASE pc' \notin Deciding
  BY <1>9, <1>10 DEF LimitInv
<1>11. CASE pc \in Deciding /\ ctx' = ctx
  <2>1. (\A p \in Pairs : PendOf(p) <= ctx.pending[p]) /\ PendAll <= Promised
    BY <1>11 DEF LimitInv
  <2>2. Promised' = Promised
    BY <1>11 DEF Promised
  <2>3. (\A p \in Pairs : PendOf(p)' <= ctx'.pending[p]) /\ PendAll' <= Promised'
    BY <1>4, <1>6, <1>7, <1>11, <2>1, <2>2
  <2>4. ASSUME NEW i \in (Waiting \cap Side("buy"))'
        PROVE  (Value(decisions[i].pair) + ctx.pending[decisions[i].pair] <= MaxPosition /\ ValueAll + Promised <= Capital)'
    <3>1. PICK p \in Pairs : p = decisions[i].pair
      BY <1>8, <2>4
    <3>2. Value(p) + ctx.pending[p] <= MaxPosition /\ ValueAll + Promised <= Capital
      BY <1>8, <1>11, <2>4, <3>1 DEF LimitInv
    <3>3. Value(p)' = Value(p) /\ ValueAll' = ValueAll
      BY <1>8, <2>4
    <3>4. QED
      BY <1>1, <1>11, <2>2, <3>1, <3>2, <3>3
  <2>5. QED
    BY <1>9, <2>3, <2>4 DEF LimitInv
<1>12. CASE BuildContext
  <2>1. /\ Waiting = {} /\ Waiting' = {} /\ pc = "resting" /\ pc' = "exits" /\ UNCHANGED <<decisions, row>>
        /\ ctx' = [pending |-> [p \in Pairs |-> PendingBuy(p)], count |-> Cardinality(Counted)]
    BY <1>12, <1>1, NothingWaits DEF BuildContext, Core, BookInv, QueuesHold, tables
  <2>2. Due = Resting /\ Due' = Resting
    BY <2>1, <1>2 DEF Due, Closing, Resting
  <2>3. ASSUME NEW p \in Pairs PROVE ctx'.pending[p] = PendOf(p) /\ PendOf(p)' = PendOf(p)
    <3>1. Resting \cap Of("buy", p) \in SUBSET Known
      BY <1>3, <2>2
    <3>2. PendingBuy(p) = PendOf(p)
      BY <2>2, <3>1, AmountsAre DEF PendingBuy, PendOf, Core
    <3>3. PendOf(p)' = PendOf(p)
      BY <1>2, <2>1, <2>2, PendingIs DEF PendOf
    <3>4. QED
      BY <2>1, <3>2, <3>3
  <2>4. PICK c : c = ctx'.pending
    OBVIOUS
  <2>5. SumOver(c, Pairs) = PendAll
    BY <2>3, <2>4, PendingShares
  <2>6. Promised' = PendAll
    BY <2>4, <2>5 DEF Promised
  <2>7. \A p \in Pairs : PendOf(p)' <= ctx'.pending[p]
    BY <1>4, <2>3
  <2>8. PendAll' <= Promised'
    BY <1>6, <2>6
  <2>9. QED
    BY <2>1, <2>7, <2>8 DEF LimitInv
<1>13. QED
  BY <1>1, <1>10, <1>11, <1>12

\* Every step keeps the limits.
LEMMA LimitStep == ASSUME Core, LimitInv, ~TornCrash, Next \/ UNCHANGED vars PROVE LimitInv'
  BY QuietStep, LimitApproval, LimitFill, LimitQuiet

\* Nothing waits at the start.
LEMMA LimitStart == Init => LimitInv
<1>1. SUFFICES ASSUME Init PROVE LimitInv
  OBVIOUS
<1>2. Waiting = {} /\ pc = "idle"
  BY <1>1 DEF Init, Waiting
<1>3. QED
  BY <1>2 DEF LimitInv, Deciding

\* When a buy is created, what is held and pending is within the limits.
LEMMA WithinLimits ==
  ASSUME Core, LimitInv, ~TornCrash, Next \/ UNCHANGED vars
  PROVE  \A i \in Known :
           decisions[i].side = "buy" /\ row[i] = "NONE" /\ row'[i] = "NEW" =>
             LET p == decisions[i].pair
                 toCome == MapThenSumSet(Notional, (Resting \cup {i}) \cap Side("buy"))
             IN /\ Value(p) + MapThenSumSet(Notional, (Resting \cup {i}) \cap Of("buy", p)) <= MaxPosition
                /\ MapThenSumSet(Value, Pairs) + toCome <= Capital
<1>1. SUFFICES ASSUME NEW i \in Known, decisions[i].side = "buy", row[i] = "NONE", row'[i] = "NEW",
                      NEW p, p = decisions[i].pair
               PROVE  /\ Value(p) + MapThenSumSet(Notional, (Resting \cup {i}) \cap Of("buy", p)) <= MaxPosition
                      /\ MapThenSumSet(Value, Pairs) + MapThenSumSet(Notional, (Resting \cup {i}) \cap Side("buy")) <= Capital
  OBVIOUS
<1>2. i \in Waiting \cap Side("buy") /\ pc = "execute"
  BY <1>1, Creates DEF Side, RecordOrder
<1>3. p \in Pairs
  BY <1>1, DecisionTypes DEF Core
<1>4. Value(p) + PendOf(p) <= MaxPosition /\ ValueAll + PendAll <= Capital
  BY <1>1, <1>2 DEF LimitInv
<1>5. Resting \cup {i} \subseteq Due
  BY <1>2 DEF Due, Closing
<1>6. Due \subseteq Known
  BY LimitTypes
<1>7. /\ \A q \in Pairs : PendOf(q) \in Nat /\ Value(q) \in Nat
      /\ PendAll \in Nat /\ ValueAll \in Nat /\ MaxPosition \in Nat /\ Capital \in Nat
  BY LimitTypes, LimitsAssumption
<1>8. \A S, T \in SUBSET Known : T \subseteq S =>
        /\ MapThenSumSet(Notional, T) <= SumOver(Amounts(decisions, S), Ids)
        /\ MapThenSumSet(Notional, T) \in Nat
  BY AmountsGrow, AmountsAre DEF Core
<1>9. MapThenSumSet(Notional, (Resting \cup {i}) \cap Of("buy", p)) \in Nat
      /\ MapThenSumSet(Notional, (Resting \cup {i}) \cap Of("buy", p)) <= PendOf(p)
  <2>s. PICK S : S = Due \cap Of("buy", p)
    OBVIOUS
  <2>t. PICK T : T = (Resting \cup {i}) \cap Of("buy", p)
    OBVIOUS
  <2>1. S \in SUBSET Known /\ T \in SUBSET Known /\ T \subseteq S
    BY <1>5, <1>6, <2>s, <2>t
  <2>2. PendOf(p) = SumOver(Amounts(decisions, S), Ids)
    BY <2>s DEF PendOf
  <2>3. QED
    BY <1>8, <2>t, <2>1, <2>2, Zenon
<1>10. MapThenSumSet(Notional, (Resting \cup {i}) \cap Side("buy")) \in Nat
      /\ MapThenSumSet(Notional, (Resting \cup {i}) \cap Side("buy")) <= PendAll
  <2>s. PICK S : S = Due \cap Side("buy")
    OBVIOUS
  <2>t. PICK T : T = (Resting \cup {i}) \cap Side("buy")
    OBVIOUS
  <2>1. S \in SUBSET Known /\ T \in SUBSET Known /\ T \subseteq S
    BY <1>5, <1>6, <2>s, <2>t
  <2>2. PendAll = SumOver(Amounts(decisions, S), Ids)
    BY <2>s DEF PendAll
  <2>3. QED
    BY <1>8, <2>t, <2>1, <2>2, Zenon
<1>11. MapThenSumSet(Value, Pairs) = ValueAll
  <2>1. \A q \in Pairs : Values[q] = Value(q)
    BY DEF Values
  <2>2. QED
    BY <2>1, ValueSum DEF ValueAll
<1>12. QED
  <2>1. Value(p) + MapThenSumSet(Notional, (Resting \cup {i}) \cap Of("buy", p)) <= MaxPosition
    BY <1>3, <1>4, <1>7, <1>9
  <2>2. MapThenSumSet(Value, Pairs) + MapThenSumSet(Notional, (Resting \cup {i}) \cap Side("buy")) <= Capital
    BY <1>4, <1>7, <1>10, <1>11
  <2>3. QED
    BY <2>1, <2>2

\* max_position_pct and the capital hold of each execution, although they were
\* tested on the proposals, one after the other, before any of them was
\* executed (_evaluate_buy, record).
THEOREM BuysStayWithinLimits == ASSUME ~TornCrash PROVE Spec => BuysWithinLimits
<1>1. Core /\ LimitInv /\ [Next]_vars => (Core /\ LimitInv)'
  BY CoreStep, LimitStep
<1>2. Core /\ LimitInv /\ [Next]_vars =>
        [\A i \in Known :
           decisions[i].side = "buy" /\ row[i] = "NONE" /\ row'[i] = "NEW" =>
             LET p == decisions[i].pair
                 toCome == MapThenSumSet(Notional, (Resting \cup {i}) \cap Side("buy"))
             IN /\ Value(p) + MapThenSumSet(Notional, (Resting \cup {i}) \cap Of("buy", p)) <= MaxPosition
                /\ MapThenSumSet(Value, Pairs) + toCome <= Capital]_vars
  <2>1. SUFFICES ASSUME Core, LimitInv, Next \/ UNCHANGED vars
                 PROVE  \A i \in Known :
                          decisions[i].side = "buy" /\ row[i] = "NONE" /\ row'[i] = "NEW" =>
                            LET p == decisions[i].pair
                                toCome == MapThenSumSet(Notional, (Resting \cup {i}) \cap Side("buy"))
                            IN /\ Value(p) + MapThenSumSet(Notional, (Resting \cup {i}) \cap Of("buy", p)) <= MaxPosition
                               /\ MapThenSumSet(Value, Pairs) + toCome <= Capital
    OBVIOUS
  <2>2. QED
    BY <2>1, WithinLimits, Zenon
<1>3. QED
  BY CoreStart, LimitStart, <1>1, <1>2, PTL DEF Spec, BuysWithinLimits

-----------------------------------------------------------------------------
(* The run of all parts.                                                   *)

paperSuiteVars == <<subject, vars, btVars, shareVars>>

\* Whichever part moves, every part takes a step of its own or none.
LEMMA PaperPartsMove ==
  ASSUME [SuiteNext]_paperSuiteVars
  PROVE  [Next]_vars /\ [BtNext]_btVars /\ [ShareNext]_shareVars
  BY Zenon DEF SuiteNext, paperSuiteVars

\* The types of the parts hold together, whichever of them moves: for any
\* whitelist, prices, sizes, candles, shares and bounds, where the process dies
\* at an await only.
THEOREM PaperSuiteTyped == ASSUME ~TornCrash PROVE SuiteSpec => []Types
<1>1. SuiteInit => Init /\ BtInit /\ ShareInit
  BY Zenon DEF SuiteInit
<1>2. SuiteSpec => [][SuiteNext]_paperSuiteVars
  BY PTL DEF SuiteSpec, paperSuiteVars
<1>3. TypeOK /\ BtTypes /\ ShareTypes => Types
  BY Zenon DEF Types
<1>4. Spec => [](TypeOK /\ BookInv)
  BY PaperTypes
<1>5. QED
  BY <1>1, <1>2, <1>3, <1>4, PaperPartsMove, BtTypesHold, ShareTypesHold, PTL
  DEF SuiteSpec, Spec, BtSpec, ShareSpec
=============================================================================
