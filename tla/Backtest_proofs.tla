-------------------------- MODULE Backtest_proofs ---------------------------
(***************************************************************************)
(* Proofs about the backtester and about the account that the live agent   *)
(* shares with the skills.                                                 *)
(*                                                                         *)
(* The three accounts of the backtester agree, for any pairs, quantities   *)
(* and candles: the fills table, the ledger and the trades of the report   *)
(* add up to the same, and the rows that are open are the orders of this   *)
(* step.                                                                   *)
(*                                                                         *)
(* The sums run over the fills of a pair and side, which are found through *)
(* the row of their order; so what is needed of a change of the rows is    *)
(* that it leaves pair and side alone (Agree).                             *)
(*                                                                         *)
(* SharedAccount: while no fill waits to be booked when the skills read,   *)
(* the agent's money is never in their fence.                              *)
(***************************************************************************)
EXTENDS Backtest, SharedAccount, SetSums, TLAPS

Rows == [pair : BtPairs, side : {"buy", "sell"}, qty : Nat,
         status : {"NEW", "FILLED", "CANCELLED"}, at : Nat]
Entries == [order : Nat, qty : Nat, at : Nat]

-----------------------------------------------------------------------------
(* Tables: O is a table of orders, F one of fills.                         *)

NewRows(O) == {i \in 1..Len(O) : O[i].status = "NEW"}

\* The rows of O are still there, with their pair and side.
Agree(O, O2) ==
  /\ Len(O) <= Len(O2)
  /\ \A i \in 1..Len(O) : O2[i].pair = O[i].pair /\ O2[i].side = O[i].side

FillQtys(F) == [k \in 1..Len(F) |-> F[k].qty]
KindOf(F, O, p, s) == {k \in 1..Len(F) : O[F[k].order].pair = p /\ O[F[k].order].side = s}
SumOf(F, O, p, s) == SumOver(FillQtys(F), KindOf(F, O, p, s))

\* A row more.
LEMMA RowAdded ==
  ASSUME NEW O \in Seq(Rows), NEW r \in Rows, NEW O2, O2 = Append(O, r)
  PROVE  /\ O2 \in Seq(Rows) /\ Len(O2) = Len(O) + 1 /\ Agree(O, O2) /\ O2[Len(O) + 1] = r
         /\ NewRows(O2) = IF r.status = "NEW" THEN NewRows(O) \cup {Len(O) + 1} ELSE NewRows(O)
<1>1. /\ O2 \in Seq(Rows) /\ Len(O2) = Len(O) + 1 /\ Len(O) \in Nat /\ O2[Len(O) + 1] = r
      /\ \A i \in 1..Len(O) : O2[i] = O[i]
  OBVIOUS
<1>2. Agree(O, O2)
  BY <1>1 DEF Agree
<1>3. 1..Len(O2) = 1..Len(O) \cup {Len(O) + 1}
  BY <1>1
<1>4. NewRows(O2) = IF r.status = "NEW" THEN NewRows(O) \cup {Len(O) + 1} ELSE NewRows(O)
  BY <1>1, <1>3 DEF NewRows
<1>5. QED
  BY <1>1, <1>2, <1>4

\* A row gets a status.
Changed(O, i, s) == [O EXCEPT ![i].status = s]

\* That row is new no longer, and the others stay as they are.
LEMMA RowChanged ==
  ASSUME NEW O \in Seq(Rows), NEW i \in 1..Len(O), NEW s \in {"FILLED", "CANCELLED"},
         NEW O2, O2 = Changed(O, i, s)
  PROVE  /\ O2 \in Seq(Rows) /\ Len(O2) = Len(O) /\ Agree(O, O2)
         /\ NewRows(O2) = NewRows(O) \ {i}
<1>1. PICK r : r = [O[i] EXCEPT !.status = s]
  OBVIOUS
<1>2. O[i] \in Rows
  OBVIOUS
<1>3. r \in Rows /\ r.pair = O[i].pair /\ r.side = O[i].side /\ r.status = s
  BY <1>1, <1>2 DEF Rows
<1>4. O2 = [O EXCEPT ![i] = r]
  BY <1>1 DEF Changed
<1>5. /\ O2 \in Seq(Rows) /\ Len(O2) = Len(O)
      /\ \A j \in 1..Len(O) : O2[j] = IF j = i THEN r ELSE O[j]
  BY <1>3, <1>4
<1>6. Agree(O, O2)
  BY <1>3, <1>5 DEF Agree
<1>7. NewRows(O2) = NewRows(O) \ {i}
  BY <1>3, <1>5 DEF NewRows
<1>8. QED
  BY <1>5, <1>6, <1>7

\* Some rows are cancelled.
LEMMA RowsDropped ==
  ASSUME NEW O \in Seq(Rows), NEW P, NEW O2,
         O2 = [i \in 1..Len(O) |-> IF i \in P THEN [O[i] EXCEPT !.status = "CANCELLED"] ELSE O[i]]
  PROVE  /\ O2 \in Seq(Rows) /\ Len(O2) = Len(O) /\ Agree(O, O2)
         /\ NewRows(O2) = NewRows(O) \ P
<1> DEFINE r(i) == [O[i] EXCEPT !.status = "CANCELLED"]
<1>1. ASSUME NEW i \in 1..Len(O)
      PROVE  r(i) \in Rows /\ r(i).pair = O[i].pair /\ r(i).side = O[i].side /\ r(i).status = "CANCELLED"
  <2>1. O[i] \in Rows
    OBVIOUS
  <2>2. QED
    BY <2>1 DEF Rows
<1>2. O2 = [i \in 1..Len(O) |-> IF i \in P THEN r(i) ELSE O[i]]
  OBVIOUS
<1> HIDE DEF r
<1>3. Len(O) \in Nat /\ \A i \in 1..Len(O) : O[i] \in Rows
  OBVIOUS
<1>4. \A i \in 1..Len(O) : O2[i] = (IF i \in P THEN r(i) ELSE O[i]) /\ O2[i] \in Rows
  BY <1>1, <1>2, <1>3
<1>5. O2 \in Seq(Rows) /\ Len(O2) = Len(O)
  BY <1>1, <1>2, <1>3
<1>6. Agree(O, O2)
  BY <1>1, <1>3, <1>4, <1>5 DEF Agree
<1>7. NewRows(O2) = NewRows(O) \ P
  BY <1>1, <1>4, <1>5 DEF NewRows
<1>8. QED
  BY <1>5, <1>6, <1>7

\* Every fill belongs to a row.
InTable(F, O) == \A k \in 1..Len(F) : F[k].order \in 1..Len(O)

\* What was filled does not depend on the status of the rows,
LEMMA SumKept ==
  ASSUME NEW F \in Seq(Entries), NEW O, NEW O2, Agree(O, O2), InTable(F, O), NEW p, NEW s
  PROVE  SumOf(F, O2, p, s) = SumOf(F, O, p, s)
<1>1. KindOf(F, O2, p, s) = KindOf(F, O, p, s)
  BY DEF KindOf, Agree, InTable
<1>2. QED
  BY <1>1 DEF SumOf

\* and a fill more adds its quantity to the sum of its pair and side.
LEMMA SumGrows ==
  ASSUME NEW F \in Seq(Entries), NEW O, NEW O2, Agree(O, O2), InTable(F, O),
         NEW e \in Entries, NEW p, NEW s,
         NEW q \in Int, q = IF O2[e.order].pair = p /\ O2[e.order].side = s THEN e.qty ELSE 0
  PROVE  SumOf(F, O, p, s) \in Int /\ SumOf(Append(F, e), O2, p, s) = SumOf(F, O, p, s) + q
<1>0. PICK F2 : F2 = Append(F, e)
  OBVIOUS
<1> DEFINE n == Len(F) + 1
           S == KindOf(F, O, p, s)
           hit == O2[e.order].pair = p /\ O2[e.order].side = s
<1>1. /\ Len(F) \in Nat /\ Len(F2) = n /\ F2[n] = e
      /\ \A k \in 1..Len(F) : F2[k] = F[k] /\ F[k] \in Entries
  BY <1>0
<1>2. 1..n = 1..Len(F) \cup {n} /\ n \notin 1..Len(F)
  BY <1>1
<1>3. \A k \in 1..Len(F) : O2[F[k].order].pair = O[F[k].order].pair /\ O2[F[k].order].side = O[F[k].order].side
  BY DEF Agree, InTable
<1>4. S \subseteq 1..Len(F) /\ KindOf(F2, O2, p, s) = IF hit THEN S \cup {n} ELSE S
  BY <1>1, <1>2, <1>3 DEF KindOf
<1>5. e.qty \in Nat /\ \A k \in 1..Len(F) : F[k].qty \in Nat
  BY <1>1 DEF Entries
<1>6. PICK v, w : v = FillQtys(F) /\ w = FillQtys(F2)
  OBVIOUS
<1>7. /\ \A k \in S : v[k] = w[k] /\ v[k] \in Int /\ w[k] \in Int
      /\ w[n] = e.qty /\ n \notin S
  BY <1>1, <1>2, <1>4, <1>5, <1>6 DEF FillQtys
<1>8. IsFiniteSet(S)
  <2>1. IsFiniteSet(1..Len(F)) /\ S \subseteq 1..Len(F)
    BY <1>1, <1>4, FS_Interval
  <2> HIDE DEF S
  <2>2. QED
    BY <2>1, FS_Subset
<1>9. SumOver(v, S) = SumOver(w, S) /\ SumOver(w, S) \in Int
  BY <1>7, <1>8, SumSame, SumInt
<1> HIDE DEF n, S, hit
<1>10. SumOver(w, S \cup {n}) = w[n] + SumOver(w, S)
  BY <1>5, <1>7, <1>8, SumAdd
<1>11. SumOf(F, O, p, s) = SumOver(v, S) /\ SumOf(F2, O2, p, s) = SumOver(w, IF hit THEN S \cup {n} ELSE S)
  BY <1>4, <1>6 DEF SumOf, S
<1>12. q = IF hit THEN e.qty ELSE 0
  BY DEF hit
<1>13. QED
  BY <1>0, <1>5, <1>7, <1>9, <1>10, <1>11, <1>12

-----------------------------------------------------------------------------
(* The inductive invariant.                                                *)

BooksTyped ==
  /\ btOrders \in Seq(Rows) /\ btFills \in Seq(Entries) /\ InTable(btFills, btOrders)
  /\ pos \in [BtPairs -> Nat] /\ closedQty \in [BtPairs -> Nat] /\ openTrade = pos
  /\ step \in Nat

BtBooks ==
  \A p \in BtPairs :
    /\ closedQty[p] = SumOf(btFills, btOrders, p, "sell")
    /\ pos[p] = SumOf(btFills, btOrders, p, "buy") - closedQty[p]

\* The open rows are the passive orders: those of the step before while they
\* are matched, those of this step from then on.
PhaseInv ==
  /\ barPhase = "match" =>
       NewRows(btOrders) = pending \cup todo /\ (todo = {} \/ pending = {})
  /\ barPhase \in {"intrabar", "day", "engine", "after"} => NewRows(btOrders) = pending
  /\ barPhase = "after" => todo = {}

BtInv == BooksTyped /\ BtBooks /\ PhaseInv

-----------------------------------------------------------------------------
(* Steps                                                                   *)

\* The books do not change with the status of a row, nor with a row more.
LEMMA OnlyRows ==
  ASSUME BooksTyped, BtBooks, btOrders' \in Seq(Rows), Agree(btOrders, btOrders'),
         UNCHANGED <<pos, openTrade, closedQty, btFills, step>>
  PROVE  BooksTyped' /\ BtBooks'
<1>1. BooksTyped'
  <2>1. Len(btOrders) \in Nat /\ Len(btOrders') \in Nat
    BY DEF BooksTyped
  <2>2. InTable(btFills', btOrders')
    BY <2>1 DEF BooksTyped, InTable, Agree
  <2>3. QED
    BY <2>2 DEF BooksTyped
<1>2. \A p, s : SumOf(btFills', btOrders', p, s) = SumOf(btFills, btOrders, p, s)
  BY SumKept DEF BooksTyped
<1>3. QED
  BY <1>1, <1>2 DEF BtBooks

\* A fill that goes to its row keeps the three accounts together.
LEMMA FillBooked ==
  ASSUME BooksTyped, BtBooks, NEW p \in BtPairs, NEW s \in {"buy", "sell"}, NEW q \in Nat,
         NEW i \in Nat, Book(p, s, q, i), UNCHANGED step,
         btOrders' \in Seq(Rows), Agree(btOrders, btOrders'),
         i \in 1..Len(btOrders'), btOrders'[i].pair = p, btOrders'[i].side = s
  PROVE  BooksTyped' /\ BtBooks'
<1> DEFINE e == [order |-> i, qty |-> q, at |-> step]
<1>1. e \in Entries /\ e.order = i /\ e.qty = q /\ btFills' = Append(btFills, e)
  BY DEF Book, BooksTyped, Entries
<1> HIDE DEF e
<1>2. NewPos(p, s, q) \in Nat /\ NewPos(p, s, q) = IF s = "buy" THEN pos[p] + q ELSE pos[p] - q
  BY DEF Book, BooksTyped, NewPos
<1>3. NewTrade(p, s, q) = NewPos(p, s, q)
  BY <1>2 DEF NewTrade, BooksTyped
<1>4. /\ pos' = [pos EXCEPT ![p] = NewPos(p, s, q)]
      /\ openTrade' = [openTrade EXCEPT ![p] = NewTrade(p, s, q)]
      /\ closedQty' = IF s = "sell" THEN [closedQty EXCEPT ![p] = @ + q] ELSE closedQty
  BY DEF Book
<1>5. pos' \in [BtPairs -> Nat] /\ closedQty' \in [BtPairs -> Nat] /\ openTrade' = pos'
  BY <1>2, <1>3, <1>4 DEF BooksTyped
<1>6. btFills' \in Seq(Entries) /\ InTable(btFills', btOrders')
  <2>1. /\ btFills \in Seq(Entries) /\ Len(btOrders) \in Nat /\ Len(btOrders') \in Nat
        /\ Len(btFills) \in Nat /\ InTable(btFills, btOrders)
    BY DEF BooksTyped
  <2>2. /\ btFills' \in Seq(Entries) /\ Len(btFills') = Len(btFills) + 1
        /\ btFills'[Len(btFills) + 1] = e /\ \A k \in 1..Len(btFills) : btFills'[k] = btFills[k]
    BY <1>1, <2>1
  <2>3. ASSUME NEW k \in 1..Len(btFills') PROVE btFills'[k].order \in 1..Len(btOrders')
    <3>1. CASE k = Len(btFills) + 1
      BY <1>1, <2>2, <3>1
    <3>2. CASE k \in 1..Len(btFills)
      BY <2>1, <2>2, <3>2 DEF InTable, Agree
    <3>3. QED
      BY <2>1, <2>2, <3>1, <3>2
  <2>4. QED
    BY <2>2, <2>3 DEF InTable
<1>7. ASSUME NEW r, NEW t, NEW d \in Int, d = IF p = r /\ s = t THEN q ELSE 0
      PROVE  /\ SumOf(btFills, btOrders, r, t) \in Int
             /\ SumOf(btFills', btOrders', r, t) = SumOf(btFills, btOrders, r, t) + d
  <2>1. PICK O, P, F, G, w : O = btOrders /\ P = btOrders' /\ F = btFills /\ G = btFills' /\ w = e
    OBVIOUS
  <2>2. F \in Seq(Entries) /\ Agree(O, P) /\ InTable(F, O) /\ w \in Entries /\ G = Append(F, w)
    BY <1>1, <2>1 DEF BooksTyped
  <2>3. P[w.order].pair = p /\ P[w.order].side = s /\ w.qty = q
    BY <1>1, <2>1
  <2>4. SumOf(F, O, r, t) \in Int /\ SumOf(G, P, r, t) = SumOf(F, O, r, t) + d
    <3>1. d = IF P[w.order].pair = r /\ P[w.order].side = t THEN w.qty ELSE 0
      BY <1>7, <2>3
    <3>2. QED
      BY <2>2, <3>1, SumGrows
  <2>5. QED
    BY <2>1, <2>4
<1>8. ASSUME NEW r \in BtPairs
      PROVE  /\ closedQty'[r] = SumOf(btFills', btOrders', r, "sell")
             /\ pos'[r] = SumOf(btFills', btOrders', r, "buy") - closedQty'[r]
  <2>1. PICK b \in Int, d \in Int : /\ b = IF p = r /\ s = "buy" THEN q ELSE 0
                                    /\ d = IF p = r /\ s = "sell" THEN q ELSE 0
    OBVIOUS
  <2>2. PICK bought, sold : /\ bought = SumOf(btFills, btOrders, r, "buy")
                            /\ sold = SumOf(btFills, btOrders, r, "sell")
    OBVIOUS
  <2>3. bought \in Int /\ SumOf(btFills', btOrders', r, "buy") = bought + b
    BY <1>7, <2>1, <2>2
  <2>4. sold \in Int /\ SumOf(btFills', btOrders', r, "sell") = sold + d
    BY <1>7, <2>1, <2>2
  <2>5. closedQty[r] = sold /\ pos[r] = bought - closedQty[r]
    BY <2>2 DEF BtBooks
  <2>6. /\ pos[r] \in Nat /\ closedQty[r] \in Nat
        /\ closedQty'[r] = closedQty[r] + d
        /\ pos'[r] = pos[r] + b - d
    <3>1. pos \in [BtPairs -> Nat] /\ closedQty \in [BtPairs -> Nat]
      BY DEF BooksTyped
    <3>2. closedQty'[r] = closedQty[r] + d
      BY <1>4, <2>1, <3>1
    <3>3. pos'[r] = IF p = r THEN NewPos(p, s, q) ELSE pos[r]
      BY <1>4, <3>1
    <3>4. pos'[r] = pos[r] + b - d
      BY <1>2, <2>1, <3>1, <3>3
    <3>5. QED
      BY <3>1, <3>2, <3>4
  <2>7. closedQty'[r] = sold + d /\ pos'[r] = bought + b - closedQty'[r]
    BY <2>1, <2>3, <2>4, <2>5, <2>6
  <2>8. QED
    BY <2>3, <2>4, <2>7
<1>9. BooksTyped'
  BY <1>5, <1>6 DEF BooksTyped
<1>10. QED
  BY <1>8, <1>9 DEF BtBooks

\* The same of a fill whose row is new,
LEMMA NewRowBooked ==
  ASSUME BooksTyped, BtBooks, NEW p \in BtPairs, NEW s \in {"buy", "sell"}, NEW q \in Nat, NEW n \in Nat,
         NEW status \in {"FILLED", "CANCELLED"}, btOrders' = Append(btOrders, Order(p, s, n, status)),
         Book(p, s, q, Len(btOrders) + 1), UNCHANGED step
  PROVE  BooksTyped' /\ BtBooks' /\ NewRows(btOrders') = NewRows(btOrders)
<1> DEFINE r == Order(p, s, n, status)
<1>1. r \in Rows /\ r.pair = p /\ r.side = s /\ r.status = status
  BY DEF Order, Rows, BooksTyped
<1>2. btOrders \in Seq(Rows) /\ Len(btOrders) \in Nat /\ btOrders' = Append(btOrders, r)
  BY DEF BooksTyped
<1> HIDE DEF r
<1>3. /\ btOrders' \in Seq(Rows) /\ Len(btOrders') = Len(btOrders) + 1
      /\ Agree(btOrders, btOrders') /\ btOrders'[Len(btOrders) + 1] = r
      /\ NewRows(btOrders') = IF r.status = "NEW" THEN NewRows(btOrders) \cup {Len(btOrders) + 1} ELSE NewRows(btOrders)
  <2>1. PICK O, P, w : O = btOrders /\ P = btOrders' /\ w = r
    OBVIOUS
  <2>2. O \in Seq(Rows) /\ w \in Rows /\ P = Append(O, w)
    BY <1>1, <1>2, <2>1
  <2>3. /\ P \in Seq(Rows) /\ Len(P) = Len(O) + 1 /\ Agree(O, P) /\ P[Len(O) + 1] = w
        /\ NewRows(P) = IF w.status = "NEW" THEN NewRows(O) \cup {Len(O) + 1} ELSE NewRows(O)
    BY <2>2, RowAdded
  <2>4. QED
    BY <2>1, <2>3
<1>4. PICK i \in Nat : i = Len(btOrders) + 1 /\ i \in 1..Len(btOrders') /\ btOrders'[i] = r
  BY <1>2, <1>3
<1>5. BooksTyped' /\ BtBooks'
  BY <1>1, <1>3, <1>4, FillBooked
<1>6. QED
  BY <1>1, <1>3, <1>5

\* and of a passive order.
LEMMA PassiveBooked ==
  ASSUME BtInv, NEW i \in Nat, FillPassive(i)
  PROVE  BtInv'
<1>1. /\ barPhase = "match" /\ barPhase' = "match" /\ i \in todo /\ todo' = todo \ {i}
      /\ UNCHANGED <<step, pending>>
  BY DEF FillPassive
<1>2. NewRows(btOrders) = todo /\ pending = {} /\ i \in 1..Len(btOrders)
  BY <1>1 DEF BtInv, PhaseInv, NewRows
<1>3. PICK qty \in 1..Offered(i) :
        /\ Book(Row(i).pair, Row(i).side, qty, i)
        /\ btOrders' = WithStatus(i, IF qty < Row(i).qty THEN "CANCELLED" ELSE "FILLED")
  BY DEF FillPassive
<1>4. btOrders \in Seq(Rows) /\ pos \in [BtPairs -> Nat]
  BY DEF BtInv, BooksTyped
<1>5. btOrders[i] \in Rows
  BY <1>2, <1>4
<1>6. Row(i).pair \in BtPairs /\ Row(i).side \in {"buy", "sell"} /\ Row(i).qty \in Nat
  BY <1>5 DEF Row, Rows
<1>7. qty \in Nat
  <2>1. Offered(i) \in Nat
    BY <1>4, <1>6 DEF Offered, Lesser
  <2>2. QED
    BY <2>1
<1>8. PICK s \in {"FILLED", "CANCELLED"} : btOrders' = [btOrders EXCEPT ![i].status = s]
  BY <1>3 DEF WithStatus
<1>9. /\ btOrders' \in Seq(Rows) /\ Len(btOrders') = Len(btOrders) /\ Agree(btOrders, btOrders')
      /\ NewRows(btOrders') = NewRows(btOrders) \ {i}
  <2>1. PICK O, P : O = btOrders /\ P = btOrders'
    OBVIOUS
  <2>2. O \in Seq(Rows) /\ i \in 1..Len(O) /\ P = Changed(O, i, s)
    BY <1>2, <1>4, <1>8, <2>1 DEF Changed
  <2>3. P \in Seq(Rows) /\ Len(P) = Len(O) /\ Agree(O, P) /\ NewRows(P) = NewRows(O) \ {i}
    BY <2>2, RowChanged, Zenon
  <2>4. QED
    BY <2>1, <2>3
<1>10. BooksTyped' /\ BtBooks'
  <2>1. i \in 1..Len(btOrders') /\ btOrders'[i].pair = Row(i).pair /\ btOrders'[i].side = Row(i).side
    BY <1>2, <1>9 DEF Agree, Row
  <2>2. QED
    BY <1>1, <1>3, <1>6, <1>7, <1>9, <2>1, FillBooked DEF BtInv
<1>11. PhaseInv'
  BY <1>1, <1>2, <1>9 DEF PhaseInv
<1>12. QED
  BY <1>10, <1>11 DEF BtInv

\* What the engine approves for a pair.
LEMMA Approved ==
  ASSUME BooksTyped, NEW p \in BtPairs, NEW d \in Proposals(p)
  PROVE  d.side \in {"buy", "sell"} /\ d.qty \in Nat
  BY DEF Proposals, BooksTyped

\* A passive order is a row more, open and pending.
LEMMA RestKeeps ==
  ASSUME BtInv, NEW p \in BtPairs, Rest(p)
  PROVE  BtInv'
<1>1. PICK d \in Proposals(p) : btOrders' = Append(btOrders, Order(p, d.side, d.qty, "NEW"))
  BY DEF Rest
<1>2. /\ barPhase = "engine" /\ barPhase' = "engine" /\ pending' = pending \cup {Len(btOrders) + 1}
      /\ UNCHANGED <<pos, openTrade, closedQty, btFills, step>>
  BY DEF Rest
<1> DEFINE r == Order(p, d.side, d.qty, "NEW")
<1>3. r \in Rows /\ r.status = "NEW" /\ btOrders \in Seq(Rows) /\ btOrders' = Append(btOrders, r)
  <2>1. d.side \in {"buy", "sell"} /\ d.qty \in Nat
    BY Approved DEF BtInv
  <2>2. QED
    BY <1>1, <2>1 DEF Order, Rows, BtInv, BooksTyped
<1> HIDE DEF r
<1>4. btOrders' \in Seq(Rows) /\ Agree(btOrders, btOrders') /\ NewRows(btOrders') = NewRows(btOrders) \cup {Len(btOrders) + 1}
  <2>1. PICK O, P, w : O = btOrders /\ P = btOrders' /\ w = r
    OBVIOUS
  <2>2. O \in Seq(Rows) /\ w \in Rows /\ w.status = "NEW" /\ P = Append(O, w)
    BY <1>3, <2>1
  <2>3. /\ P \in Seq(Rows) /\ Agree(O, P)
        /\ NewRows(P) = IF w.status = "NEW" THEN NewRows(O) \cup {Len(O) + 1} ELSE NewRows(O)
    <3>1. O \in Seq(Rows) /\ w \in Rows /\ P = Append(O, w)
      BY <2>2
    <3>2. QED
      BY <3>1, RowAdded
  <2>4. QED
    BY <2>1, <2>2, <2>3
<1>5. BooksTyped' /\ BtBooks'
  BY <1>2, <1>4, OnlyRows DEF BtInv
<1>6. PhaseInv'
  BY <1>2, <1>4 DEF PhaseInv, BtInv
<1>7. QED
  BY <1>5, <1>6 DEF BtInv

\* A marketable order that the book cannot take whole is closed at once.
LEMMA ThinKeeps ==
  ASSUME BtInv, NEW p \in BtPairs, Thin(p)
  PROVE  BtInv'
<1>1. PICK d \in Proposals(p) :
        /\ btOrders' = Append(btOrders, Order(p, d.side, d.qty, "CANCELLED"))
        /\ \/ UNCHANGED <<pos, openTrade, closedQty, btFills>>
           \/ \E qty \in 1..d.qty - 1 : Book(p, d.side, qty, Len(btOrders) + 1)
  BY DEF Thin
<1>2. barPhase = "engine" /\ barPhase' = "engine" /\ UNCHANGED <<step, pending>>
  BY DEF Thin
<1>3. PICK s \in {"buy", "sell"}, n \in Nat : s = d.side /\ n = d.qty
  BY Approved DEF BtInv
<1>4. btOrders' = Append(btOrders, Order(p, s, n, "CANCELLED"))
  BY <1>1, <1>3
<1>5. BooksTyped' /\ BtBooks' /\ NewRows(btOrders') = NewRows(btOrders)
  <2>1. CASE UNCHANGED <<pos, openTrade, closedQty, btFills>>
    <3> DEFINE r == Order(p, s, n, "CANCELLED")
    <3>1. r \in Rows /\ r.status = "CANCELLED" /\ btOrders \in Seq(Rows) /\ btOrders' = Append(btOrders, r)
      BY <1>4 DEF Order, Rows, BtInv, BooksTyped
    <3> HIDE DEF r
    <3>2. PICK O, P, w : O = btOrders /\ P = btOrders' /\ w = r
      OBVIOUS
    <3>3. O \in Seq(Rows) /\ w \in Rows /\ w.status = "CANCELLED" /\ P = Append(O, w)
      BY <3>1, <3>2
    <3>4. P \in Seq(Rows) /\ Agree(O, P) /\ NewRows(P) = NewRows(O)
      BY <3>3, RowAdded
    <3>5. BooksTyped' /\ BtBooks'
      BY <1>2, <2>1, <3>2, <3>4, OnlyRows DEF BtInv
    <3>6. QED
      BY <3>2, <3>4, <3>5
  <2>2. CASE \E qty \in 1..d.qty - 1 : Book(p, d.side, qty, Len(btOrders) + 1)
    <3>1. PICK qty \in Nat : Book(p, s, qty, Len(btOrders) + 1)
      BY <1>3, <2>2
    <3>2. QED
      BY <1>2, <1>4, <3>1, NewRowBooked DEF BtInv
  <2>3. QED
    BY <1>1, <2>1, <2>2
<1>6. PhaseInv'
  BY <1>2, <1>5 DEF PhaseInv, BtInv
<1>7. QED
  BY <1>5, <1>6 DEF BtInv

\* What is filled at once is a row more, which is closed.
LEMMA FilledKeeps ==
  ASSUME BtInv, NEW p \in BtPairs, NEW s \in {"buy", "sell"}, NEW q \in Nat, BookNew(p, s, q),
         barPhase \in {"intrabar", "engine"}, UNCHANGED <<step, barPhase, pending>>
  PROVE  BtInv'
<1>1. BooksTyped' /\ BtBooks' /\ NewRows(btOrders') = NewRows(btOrders)
  BY NewRowBooked DEF BtInv, BookNew
<1>2. PhaseInv'
  BY <1>1 DEF PhaseInv, BtInv
<1>3. QED
  BY <1>1, <1>2 DEF BtInv

\* A halt closes what is pending.
LEMMA HaltKeeps ==
  ASSUME BtInv, Halt
  PROVE  BtInv'
<1>1. /\ barPhase = "engine" /\ barPhase' = "after" /\ todo = {} /\ todo' = {} /\ pending' = {}
      /\ btOrders' = RowsCancelled
      /\ UNCHANGED <<pos, openTrade, closedQty, btFills, step>>
  BY DEF Halt
<1>2. btOrders' \in Seq(Rows) /\ Agree(btOrders, btOrders') /\ NewRows(btOrders') = NewRows(btOrders) \ pending
  <2>1. PICK O, P : O = btOrders /\ P = btOrders'
    OBVIOUS
  <2>2. /\ O \in Seq(Rows)
        /\ P = [i \in 1..Len(O) |-> IF i \in pending THEN [O[i] EXCEPT !.status = "CANCELLED"] ELSE O[i]]
    BY <1>1, <2>1 DEF RowsCancelled, Row, BtInv, BooksTyped
  <2>3. P \in Seq(Rows) /\ Agree(O, P) /\ NewRows(P) = NewRows(O) \ pending
    BY <2>2, RowsDropped
  <2>4. QED
    BY <2>1, <2>3
<1>3. BooksTyped' /\ BtBooks'
  BY <1>1, <1>2, OnlyRows DEF BtInv
<1>4. PhaseInv'
  BY <1>1, <1>2 DEF PhaseInv, BtInv
<1>5. QED
  BY <1>3, <1>4 DEF BtInv

\* What leaves the tables and the ledger alone.
LEMMA BooksUntouched ==
  ASSUME BtInv, UNCHANGED btBook, step' \in Nat
  PROVE  BooksTyped' /\ BtBooks'
<1>1. BooksTyped'
  BY DEF BtInv, BooksTyped, btBook
<1>2. BtBooks'
  BY DEF BtInv, BtBooks, btBook
<1>3. QED
  BY <1>1, <1>2

-----------------------------------------------------------------------------
(* The invariant holds                                                     *)

\* It holds of an empty run, and every step of a run keeps it.
LEMMA BtInvHolds == BtSpec => []BtInv
<1>1. BtInit => BtInv
  <2>1. SUFFICES ASSUME BtInit PROVE BtInv
    OBVIOUS
  <2>2. BooksTyped
    BY <2>1 DEF BtInit, BooksTyped, InTable
  <2>3. \A p, s : SumOf(<<>>, <<>>, p, s) = 0
    <3>1. \A p, s : KindOf(<<>>, <<>>, p, s) = {}
      BY DEF KindOf
    <3>2. QED
      BY <3>1, SumEmpty DEF SumOf
  <2>4. BtBooks
    BY <2>1, <2>3 DEF BtInit, BtBooks
  <2>5. PhaseInv
    BY <2>1 DEF BtInit, PhaseInv, NewRows
  <2>6. QED
    BY <2>2, <2>4, <2>5 DEF BtInv
<1>2. BtInv /\ [BtNext]_btVars => BtInv'
  <2>1. SUFFICES ASSUME BtInv, [BtNext]_btVars PROVE BtInv'
    OBVIOUS
  <2>2. step \in Nat
    BY <2>1 DEF BtInv, BooksTyped
  <2>3. ASSUME NEW i \in todo \cap 1..MaxRows, FillPassive(i) PROVE BtInv'
    <3>1. i \in Nat
      OBVIOUS
    <3>2. QED
      BY <2>1, <2>3, <3>1, PassiveBooked
  <2>4. ASSUME NEW i \in todo \cap 1..MaxRows, ExpirePassive(i) PROVE BtInv'
    <3>1. /\ barPhase = "match" /\ barPhase' = "match" /\ todo' = todo \ {i}
          /\ btOrders' = [btOrders EXCEPT ![i].status = "CANCELLED"]
          /\ UNCHANGED <<step, pending, pos, openTrade, closedQty, btFills>>
      BY <2>4 DEF ExpirePassive, WithStatus
    <3>2. NewRows(btOrders) = todo /\ pending = {} /\ i \in 1..Len(btOrders) /\ btOrders \in Seq(Rows)
      BY <2>1, <3>1 DEF BtInv, PhaseInv, NewRows, BooksTyped
    <3>3. btOrders' \in Seq(Rows) /\ Agree(btOrders, btOrders') /\ NewRows(btOrders') = NewRows(btOrders) \ {i}
      <4>1. PICK O, P : O = btOrders /\ P = btOrders'
        OBVIOUS
      <4>2. O \in Seq(Rows) /\ i \in 1..Len(O) /\ P = Changed(O, i, "CANCELLED")
        BY <3>1, <3>2, <4>1 DEF Changed
      <4>3. P \in Seq(Rows) /\ Agree(O, P) /\ NewRows(P) = NewRows(O) \ {i}
        BY <4>2, RowChanged, Zenon
      <4>4. QED
        BY <4>1, <4>3
    <3>4. BooksTyped' /\ BtBooks'
      BY <2>1, <3>1, <3>3, OnlyRows DEF BtInv
    <3>5. PhaseInv'
      BY <3>1, <3>2, <3>3 DEF PhaseInv
    <3>6. QED
      BY <3>4, <3>5 DEF BtInv
  <2>5. ASSUME NEW p \in todo \cap BtPairs, HitsStopOrTarget(p) PROVE BtInv'
    <3>1. /\ pos[p] \in Nat /\ BookNew(p, "sell", pos[p]) /\ barPhase = "intrabar"
          /\ UNCHANGED <<step, barPhase, pending>>
      BY <2>1, <2>5 DEF HitsStopOrTarget, BtInv, BooksTyped
    <3>2. QED
      BY <2>1, <3>1, FilledKeeps
  <2>6. ASSUME NEW p \in todo \cap BtPairs, Take(p) PROVE BtInv'
    <3>1. PICK d \in Proposals(p) : BookNew(p, d.side, d.qty)
      BY <2>6 DEF Take
    <3>2. PICK s \in {"buy", "sell"}, n \in Nat : s = d.side /\ n = d.qty
      BY <2>1, Approved DEF BtInv
    <3>3. barPhase = "engine" /\ UNCHANGED <<step, barPhase, pending>> /\ BookNew(p, s, n)
      BY <2>6, <3>1, <3>2 DEF Take
    <3>4. QED
      BY <2>1, <3>3, FilledKeeps
  <2>7. ASSUME NEW p \in todo \cap BtPairs, Rest(p) PROVE BtInv'
    BY <2>1, <2>7, RestKeeps
  <2>8. ASSUME NEW p \in todo \cap BtPairs, Thin(p) PROVE BtInv'
    BY <2>1, <2>8, ThinKeeps
  <2>9. CASE Halt
    BY <2>1, <2>9, HaltKeeps
  <2>10. ASSUME UNCHANGED btBook, step' \in Nat, PhaseInv' PROVE BtInv'
    BY <2>1, <2>10, BooksUntouched DEF BtInv
  <2>11. CASE StartStep
    BY <2>1, <2>2, <2>10, <2>11 DEF StartStep, PhaseInv, BtInv, btBook
  <2>12. CASE Matched
    BY <2>1, <2>2, <2>10, <2>12 DEF Matched, PhaseInv, BtInv, btBook
  <2>13. CASE Raises
    BY <2>1, <2>2, <2>10, <2>13 DEF Raises, PhaseInv, BtInv, btBook
  <2>14. CASE Day
    BY <2>1, <2>2, <2>10, <2>14 DEF Day, PhaseInv, BtInv, btBook
  <2>15. CASE Cycle
    BY <2>1, <2>2, <2>10, <2>15 DEF Cycle, PhaseInv, BtInv, btBook
  <2>16. ASSUME NEW p \in todo \cap BtPairs, NoHit(p) \/ NothingApproved(p) PROVE BtInv'
    BY <2>1, <2>2, <2>10, <2>16 DEF NoHit, NothingApproved, PhaseInv, BtInv, btBook
  <2>17. CASE DailyStop \/ NoTrigger
    BY <2>1, <2>2, <2>10, <2>17 DEF DailyStop, NoTrigger, PhaseInv, BtInv, btBook
  <2>18. CASE NextCandle
    <3>1. step' \in Nat
      BY <2>2, <2>18 DEF NextCandle
    <3>2. QED
      BY <2>1, <2>10, <2>18, <3>1 DEF NextCandle, PhaseInv, BtInv, btBook
  <2>19. CASE Finish
    BY <2>1, <2>2, <2>10, <2>19 DEF Finish, PhaseInv, BtInv, btBook
  <2>20. CASE UNCHANGED btVars
    BY <2>1, <2>2, <2>10, <2>20 DEF btVars, PhaseInv, BtInv, btBook
  <2>21. QED
    BY <2>1, <2>3, <2>4, <2>5, <2>6, <2>7, <2>8, <2>9, <2>11, <2>12, <2>13, <2>14, <2>15,
       <2>16, <2>17, <2>18, <2>19, <2>20 DEF BtNext, Over
<1>3. QED
  BY <1>1, <1>2, PTL DEF BtSpec

\* The sum of the model is a sum of a function.
LEMMA QtySum ==
  ASSUME NEW S \in SUBSET (1..Len(btFills)), IsFiniteSet(S)
  PROVE  MapThenSumSet(Qty, S) = SumOver(FillQtys(btFills), S)
<1> DEFINE w == FillQtys(btFills)
           Here(g) == g = [T \in SUBSET S |-> IF T = {} THEN 0 ELSE Qty(Chosen(T)) + g[T \ {Chosen(T)}]]
<1>1. \A T \in SUBSET S : T # {} => w[Chosen(T)] = Qty(Chosen(T))
  BY ChosenIn DEF FillQtys, Qty
<1>2. ASSUME NEW g PROVE Sums(g, w, S) <=> Here(g)
  BY <1>1 DEF Sums
<1>3. (CHOOSE g : Sums(g, w, S)) = (CHOOSE g : Here(g))
  BY <1>2
<1>4. SumOver(w, S) = (CHOOSE g : Sums(g, w, S))[S]
  BY DEF SumOver, MapThenSumSet, MapThenFoldSet, Sums, Chosen
<1>5. MapThenSumSet(Qty, S) = (CHOOSE g : Here(g))[S]
  BY DEF MapThenSumSet, MapThenFoldSet, Chosen
<1>6. QED
  BY <1>3, <1>4, <1>5

\* What the backtest reports is what it simulated: tables, ledger and trades
\* agree, and the open rows are the orders of this step.
THEOREM BacktestBooksAgree == BtSpec => []BooksAgree
<1>1. BtInv => BooksAgree
  <2>1. SUFFICES ASSUME BtInv PROVE BooksAgree
    OBVIOUS
  <2>2. Len(btFills) \in Nat
    BY <2>1 DEF BtInv, BooksTyped
  <2>3. ASSUME NEW p, NEW s
        PROVE  MapThenSumSet(Qty, FillsOf(p, s)) = SumOf(btFills, btOrders, p, s)
    <3>1. FillsOf(p, s) = KindOf(btFills, btOrders, p, s)
      BY DEF FillsOf, KindOf, Row
    <3>2. FillsOf(p, s) \in SUBSET (1..Len(btFills)) /\ IsFiniteSet(1..Len(btFills))
      BY <2>2, FS_Interval DEF FillsOf
    <3>3. IsFiniteSet(FillsOf(p, s))
      BY <3>2, FS_Subset
    <3>4. MapThenSumSet(Qty, FillsOf(p, s)) = SumOver(FillQtys(btFills), FillsOf(p, s))
      BY <3>2, <3>3, QtySum
    <3>5. QED
      BY <3>1, <3>4 DEF SumOf
  <2>4. TradesAreFills
    BY <2>1, <2>3 DEF BtInv, BtBooks, BooksTyped, TradesAreFills
  <2>5. OpenRowsArePending
    BY <2>1 DEF BtInv, PhaseInv, OpenRowsArePending, NewRows, Row
  <2>6. QED
    BY <2>4, <2>5 DEF BooksAgree
<1>2. QED
  BY <1>1, BtInvHolds, PTL

-----------------------------------------------------------------------------
(* The types.                                                              *)

\* No order and no fill is of nothing, and none is larger than what an order or
\* a position may be.
RowsWithin(O) ==
  /\ Len(O) <= MaxRows
  /\ \A i \in 1..Len(O) : O[i].qty \in 1..Lots + MaxLots
FillsWithin(F) == \A k \in 1..Len(F) : F[k].qty > 0
PositionsWithin == \A p \in BtPairs : pos[p] <= MaxLots

\* What a phase has still to look at are pairs or rows; within the candle they
\* are pairs that hold something.
TodoHolds ==
  /\ pending \subseteq 1..Len(btOrders)
  /\ todo \subseteq BtPairs \cup 1..Len(btOrders)
  /\ barPhase = "intrabar" => \A p \in todo \cap BtPairs : pos[p] > 0

BtWithin == RowsWithin(btOrders) /\ FillsWithin(btFills) /\ PositionsWithin /\ TodoHolds

BtFramed ==
  /\ step \in 0..MaxSteps
  /\ barPhase \in {"match", "intrabar", "day", "engine", "after", "done", "error"}
  /\ bars \subseteq BtPairs
  /\ btStatus \in {"RUNNING", "PAUSED", "HALTED"}

\* A booking of something stays within the bounds.
LEMMA BookingWithin ==
  ASSUME BooksTyped, FillsWithin(btFills), PositionsWithin, NEW p \in BtPairs,
         NEW s \in {"buy", "sell"}, NEW q \in Nat, q > 0, NEW i \in Nat, Book(p, s, q, i)
  PROVE  /\ FillsWithin(btFills') /\ PositionsWithin'
         /\ \A r \in BtPairs \ {p} : pos'[r] = pos[r]
<1> DEFINE e == [order |-> i, qty |-> q, at |-> step]
<1>1. e \in Entries /\ e.qty > 0 /\ btFills' = Append(btFills, e) /\ btFills \in Seq(Entries)
  BY DEF Book, BooksTyped, Entries
<1> HIDE DEF e
<1>2. FillsWithin(btFills')
  <2>1. PICK F, G : F = btFills /\ G = btFills'
    OBVIOUS
  <2>2. F \in Seq(Entries) /\ FillsWithin(F) /\ G = Append(F, e)
    BY <1>1, <2>1
  <2>3. FillsWithin(G)
    BY <1>1, <2>2 DEF FillsWithin
  <2>4. QED
    BY <2>1, <2>3
<1>3. pos \in [BtPairs -> Nat] /\ pos' = [pos EXCEPT ![p] = NewPos(p, s, q)] /\ NewPos(p, s, q) \in 0..MaxLots
  BY DEF Book, BooksTyped
<1>4. PositionsWithin' /\ \A r \in BtPairs \ {p} : pos'[r] = pos[r]
  BY <1>3 DEF PositionsWithin
<1>5. QED
  BY <1>2, <1>4

\* A row more of such a quantity,
LEMMA RowMoreWithin ==
  ASSUME BooksTyped, RowsWithin(btOrders), Len(btOrders) < MaxRows, NEW p \in BtPairs,
         NEW s \in {"buy", "sell"}, NEW n \in 1..Lots + MaxLots,
         NEW status \in {"NEW", "FILLED", "CANCELLED"}, btOrders' = Append(btOrders, Order(p, s, n, status))
  PROVE  RowsWithin(btOrders') /\ Len(btOrders') = Len(btOrders) + 1 /\ Len(btOrders) \in Nat
<1> DEFINE r == Order(p, s, n, status)
<1>1. r \in Rows /\ r.qty = n /\ btOrders \in Seq(Rows) /\ btOrders' = Append(btOrders, r)
  BY BacktestAssumption DEF Order, Rows, BooksTyped
<1> HIDE DEF r
<1>2. PICK O, P : O = btOrders /\ P = btOrders'
  OBVIOUS
<1>3. O \in Seq(Rows) /\ P = Append(O, r) /\ RowsWithin(O) /\ Len(O) < MaxRows
  BY <1>1, <1>2
<1>4. Len(P) = Len(O) + 1 /\ Len(O) \in Nat /\ RowsWithin(P)
  BY <1>1, <1>3, BacktestAssumption DEF RowsWithin
<1>5. QED
  BY <1>2, <1>4

\* and rows whose status changes.
LEMMA StatusWithin ==
  ASSUME BooksTyped, RowsWithin(btOrders), NEW i \in 1..Len(btOrders),
         NEW status, btOrders' = WithStatus(i, status)
  PROVE  RowsWithin(btOrders') /\ Len(btOrders') = Len(btOrders)
<1>1. PICK O, P : O = btOrders /\ P = btOrders'
  OBVIOUS
<1>2. O \in Seq(Rows) /\ P = [O EXCEPT ![i].status = status] /\ RowsWithin(O) /\ i \in 1..Len(O)
  BY <1>1 DEF WithStatus, BooksTyped
<1>3. Len(P) = Len(O)
  BY <1>2
<1>4. \A j \in 1..Len(O) : P[j].qty = O[j].qty
  BY <1>2 DEF Rows
<1>5. QED
  BY <1>1, <1>2, <1>3, <1>4 DEF RowsWithin

\* What the engine approves is no larger than an order or the position.
LEMMA ApprovedWithin ==
  ASSUME BooksTyped, PositionsWithin, NEW p \in BtPairs, NEW d \in Proposals(p)
  PROVE  d.side \in {"buy", "sell"} /\ d.qty \in 1..Lots + MaxLots
<1>1. pos[p] \in Nat /\ pos[p] <= MaxLots
  BY DEF BooksTyped, PositionsWithin
<1>2. CASE d \in {[side |-> "sell", qty |-> q] : q \in 1..pos[p]}
  BY <1>1, <1>2, BacktestAssumption
<1>3. CASE d \in {[side |-> "buy", qty |-> q] : q \in IF btStatus = "RUNNING" THEN 1..Lots ELSE {}}
  BY <1>3, BacktestAssumption
<1>4. QED
  BY <1>2, <1>3 DEF Proposals

\* A step of the engine, or a stop, looks at one pair: its rows and fills are
\* within the bounds, and the other pairs keep what they hold.
LEMMA PairDone ==
  ASSUME BtWithin, NEW p \in BtPairs, todo' = todo \ {p}, barPhase' = barPhase,
         RowsWithin(btOrders'), FillsWithin(btFills'), PositionsWithin',
         Len(btOrders) \in Nat, Len(btOrders') \in Nat, Len(btOrders) <= Len(btOrders'),
         \A r \in BtPairs \ {p} : pos'[r] = pos[r],
         pending' \subseteq 1..Len(btOrders')
  PROVE  BtWithin'
<1>1. todo' \subseteq BtPairs \cup 1..Len(btOrders')
  BY DEF BtWithin, TodoHolds
<1>2. barPhase' = "intrabar" => \A r \in todo' \cap BtPairs : pos'[r] > 0
  BY DEF BtWithin, TodoHolds
<1>3. QED
  BY <1>1, <1>2 DEF BtWithin, TodoHolds

\* The steps of one pair.
LEMMA PairsWithin ==
  ASSUME BtInv, BtWithin, NEW p \in todo \cap BtPairs,
         HitsStopOrTarget(p) \/ NoHit(p) \/ NothingApproved(p) \/ Rest(p) \/ Thin(p) \/ Take(p)
  PROVE  BtWithin'
<1>1. /\ BooksTyped /\ RowsWithin(btOrders) /\ FillsWithin(btFills) /\ PositionsWithin
      /\ pending \subseteq 1..Len(btOrders)
  BY DEF BtInv, BtWithin, TodoHolds
<1>2. todo' = todo \ {p} /\ barPhase' = barPhase
  BY Zenon DEF HitsStopOrTarget, NoHit, NothingApproved, Rest, Thin, Take
<1>3. Len(btOrders) \in Nat /\ Len(btOrders) + 1 \in Nat
  BY <1>1 DEF BooksTyped
<1>4. ASSUME NEW s \in {"buy", "sell"}, NEW q \in 1..Lots + MaxLots, BookNew(p, s, q), pending' = pending
      PROVE  BtWithin'
  <2>1. q \in Nat /\ q > 0
    BY BacktestAssumption
  <2>2. RowsWithin(btOrders') /\ Len(btOrders') = Len(btOrders) + 1
    BY <1>1, <1>4, RowMoreWithin DEF BookNew
  <2>3. FillsWithin(btFills') /\ PositionsWithin' /\ \A r \in BtPairs \ {p} : pos'[r] = pos[r]
    BY <1>1, <1>3, <1>4, <2>1, BookingWithin DEF BookNew
  <2>4. pending' \subseteq 1..Len(btOrders') /\ Len(btOrders') \in Nat /\ Len(btOrders) <= Len(btOrders')
    BY <1>1, <1>3, <1>4, <2>2
  <2>5. QED
    BY <1>2, <1>3, <2>2, <2>3, <2>4, PairDone
<1>5. CASE HitsStopOrTarget(p)
  <2>1. pos[p] \in 1..Lots + MaxLots
    BY <1>1, <1>5, BacktestAssumption
    DEF HitsStopOrTarget, BtWithin, TodoHolds, BooksTyped, PositionsWithin
  <2>2. BookNew(p, "sell", pos[p]) /\ pending' = pending
    BY <1>5 DEF HitsStopOrTarget
  <2>3. QED
    BY <1>4, <2>1, <2>2
<1>6. CASE NoHit(p) \/ NothingApproved(p)
  <2>1. UNCHANGED <<pos, btOrders, btFills, pending>>
    BY <1>6 DEF NoHit, NothingApproved, btBook
  <2>2. QED
    BY <1>1, <1>2, <1>3, <2>1, PairDone DEF PositionsWithin
<1>7. CASE Rest(p)
  <2>1. PICK d \in Proposals(p) : btOrders' = Append(btOrders, Order(p, d.side, d.qty, "NEW"))
    BY <1>7 DEF Rest
  <2>2. PICK s \in {"buy", "sell"}, n \in 1..Lots + MaxLots : s = d.side /\ n = d.qty
    BY <1>1, ApprovedWithin
  <2>3. /\ Len(btOrders) < MaxRows /\ pending' = pending \cup {Len(btOrders) + 1}
        /\ UNCHANGED <<pos, btFills>> /\ btOrders' = Append(btOrders, Order(p, s, n, "NEW"))
    BY <1>7, <2>1, <2>2 DEF Rest
  <2>4. RowsWithin(btOrders') /\ Len(btOrders') = Len(btOrders) + 1
    BY <1>1, <2>3, RowMoreWithin
  <2>5. pending' \subseteq 1..Len(btOrders') /\ Len(btOrders') \in Nat /\ Len(btOrders) <= Len(btOrders')
    <3>1. PICK n1, n2 \in Nat : n1 = Len(btOrders) /\ n2 = Len(btOrders') /\ n2 = n1 + 1
      BY <1>3, <2>4
    <3>2. 1..n2 = 1..n1 \cup {n1 + 1} /\ n1 <= n2
      BY <3>1
    <3>3. QED
      BY <1>1, <2>3, <3>1, <3>2
  <2>6. FillsWithin(btFills') /\ PositionsWithin'
    BY <1>1, <2>3 DEF PositionsWithin
  <2>7. QED
    BY <1>2, <1>3, <2>3, <2>4, <2>5, <2>6, PairDone
<1>8. CASE Thin(p)
  <2>1. PICK d \in Proposals(p) :
          /\ btOrders' = Append(btOrders, Order(p, d.side, d.qty, "CANCELLED"))
          /\ \/ UNCHANGED <<pos, openTrade, closedQty, btFills>>
             \/ \E qty \in 1..d.qty - 1 : Book(p, d.side, qty, Len(btOrders) + 1)
    BY <1>8 DEF Thin
  <2>2. PICK s \in {"buy", "sell"}, n \in 1..Lots + MaxLots : s = d.side /\ n = d.qty
    BY <1>1, ApprovedWithin
  <2>3. /\ Len(btOrders) < MaxRows /\ pending' = pending
        /\ btOrders' = Append(btOrders, Order(p, s, n, "CANCELLED"))
    BY <1>8, <2>1, <2>2 DEF Thin
  <2>4. RowsWithin(btOrders') /\ Len(btOrders') = Len(btOrders) + 1
    BY <1>1, <2>3, RowMoreWithin
  <2>5. pending' \subseteq 1..Len(btOrders') /\ Len(btOrders') \in Nat /\ Len(btOrders) <= Len(btOrders')
    BY <1>1, <1>3, <2>3, <2>4
  <2>6. FillsWithin(btFills') /\ PositionsWithin' /\ \A r \in BtPairs \ {p} : pos'[r] = pos[r]
    <3>1. CASE UNCHANGED <<pos, openTrade, closedQty, btFills>>
      BY <1>1, <3>1 DEF PositionsWithin
    <3>2. CASE \E qty \in 1..d.qty - 1 : Book(p, d.side, qty, Len(btOrders) + 1)
      <4>1. PICK q \in Nat : q > 0 /\ Book(p, s, q, Len(btOrders) + 1)
        BY <2>2, <3>2, BacktestAssumption
      <4>2. QED
        BY <1>1, <1>3, <4>1, BookingWithin
    <3>3. QED
      BY <2>1, <3>1, <3>2
  <2>7. QED
    BY <1>2, <1>3, <2>4, <2>5, <2>6, PairDone
<1>9. CASE Take(p)
  <2>1. PICK d \in Proposals(p) : BookNew(p, d.side, d.qty)
    BY <1>9 DEF Take
  <2>2. PICK s \in {"buy", "sell"}, n \in 1..Lots + MaxLots : s = d.side /\ n = d.qty
    BY <1>1, ApprovedWithin
  <2>3. BookNew(p, s, n) /\ pending' = pending
    BY <1>9, <2>1, <2>2 DEF Take
  <2>4. QED
    BY <1>4, <2>3
<1>10. QED
  BY <1>5, <1>6, <1>7, <1>8, <1>9

\* A passive order that is filled, or not, leaves the list and stays a row.
LEMMA PassivesWithin ==
  ASSUME BtInv, BtWithin, NEW i \in todo \cap 1..MaxRows, FillPassive(i) \/ ExpirePassive(i)
  PROVE  BtWithin'
<1>1. BooksTyped /\ RowsWithin(btOrders) /\ FillsWithin(btFills) /\ PositionsWithin
  BY DEF BtInv, BtWithin
<1>2. barPhase = "match" /\ barPhase' = "match" /\ todo' = todo \ {i} /\ pending' = pending /\ i \in Nat
  BY DEF FillPassive, ExpirePassive
<1>3. i \in 1..Len(btOrders) /\ Len(btOrders) \in Nat
  BY <1>1, <1>2 DEF BtInv, PhaseInv, NewRows, BooksTyped
<1>4. PICK status : btOrders' = WithStatus(i, status)
  BY DEF FillPassive, ExpirePassive
<1>5. RowsWithin(btOrders') /\ Len(btOrders') = Len(btOrders)
  BY <1>1, <1>3, <1>4, StatusWithin
<1>6. FillsWithin(btFills') /\ PositionsWithin'
  <2>1. CASE FillPassive(i)
    <3>1. PICK qty \in 1..Offered(i) : Book(Row(i).pair, Row(i).side, qty, i)
      BY <2>1 DEF FillPassive
    <3>2. PICK p \in BtPairs, s \in {"buy", "sell"} : p = Row(i).pair /\ s = Row(i).side
      <4>1. btOrders[i] \in Rows
        BY <1>1, <1>3 DEF BooksTyped
      <4>2. QED
        BY <4>1 DEF Row, Rows
    <3>3. Offered(i) \in Nat
      <4>1. btOrders[i] \in Rows /\ pos \in [BtPairs -> Nat]
        BY <1>1, <1>3 DEF BooksTyped
      <4>2. QED
        BY <4>1 DEF Offered, Row, Rows, Lesser
    <3>4. qty \in Nat /\ qty > 0 /\ Book(p, s, qty, i)
      BY <3>1, <3>2, <3>3
    <3>5. QED
      BY <1>1, <1>2, <3>4, BookingWithin
  <2>2. CASE ExpirePassive(i)
    BY <1>1, <2>2 DEF ExpirePassive, PositionsWithin
  <2>3. QED
    BY <2>1, <2>2
<1>7. TodoHolds'
  BY <1>2, <1>5 DEF TodoHolds, BtWithin
<1>8. QED
  BY <1>5, <1>6, <1>7 DEF BtWithin

\* A halt changes the status of rows.
LEMMA HaltWithin == ASSUME BtInv, BtWithin, Halt PROVE BtWithin'
<1>1. /\ btOrders' = RowsCancelled /\ UNCHANGED <<todo, pos, btFills>> /\ pending' = {}
      /\ barPhase' = "after"
  BY DEF Halt
<1>2. RowsWithin(btOrders') /\ Len(btOrders') = Len(btOrders)
  <2>1. PICK O, P : O = btOrders /\ P = btOrders'
    OBVIOUS
  <2>2. /\ O \in Seq(Rows) /\ RowsWithin(O)
        /\ P = [i \in 1..Len(O) |-> IF i \in pending THEN [O[i] EXCEPT !.status = "CANCELLED"] ELSE O[i]]
    BY <1>1, <2>1 DEF RowsCancelled, Row, BtInv, BooksTyped, BtWithin
  <2>3. P \in Seq(Rows) /\ Agree(O, P)
    BY <2>2, RowsDropped
  <2>4. Len(P) = Len(O) /\ \A i \in 1..Len(O) : P[i].qty = O[i].qty
    <3>1. DOMAIN P = 1..Len(O) /\ Len(O) \in Nat
      BY <2>2
    <3>2. Len(P) = Len(O)
      BY <2>3, <3>1
    <3>3. \A i \in 1..Len(O) : O[i] \in Rows
      BY <2>2
    <3>4. QED
      BY <2>2, <3>2, <3>3 DEF Rows
  <2>5. QED
    BY <2>1, <2>2, <2>4 DEF RowsWithin
<1>3. QED
  BY <1>1, <1>2 DEF BtWithin, TodoHolds, PositionsWithin

\* The steps of the loop touch neither tables nor positions.
LEMMA LoopWithin ==
  ASSUME BtInv, BtFramed, BtWithin,
         \/ StartStep \/ Matched \/ Raises \/ Day \/ Cycle \/ DailyStop \/ NoTrigger \/ NextCandle
         \/ Finish \/ UNCHANGED btVars
  PROVE  BtWithin'
<1>1. UNCHANGED <<pos, btOrders, btFills>>
  BY DEF StartStep, Matched, Raises, Day, Cycle, DailyStop, NoTrigger, NextCandle, Finish, btVars, btBook
<1>2. pending' = pending \/ pending' = {}
  BY DEF StartStep, Matched, Raises, Day, Cycle, DailyStop, NoTrigger, NextCandle, Finish, btVars
<1>3. \/ todo' = todo \/ todo' = pending \/ todo' \subseteq bars
  BY DEF StartStep, Matched, Raises, Day, Cycle, DailyStop, NoTrigger, NextCandle, Finish, btVars
<1>4. bars \subseteq BtPairs
  BY DEF BtFramed
<1>5. \/ barPhase' # "intrabar" \/ (barPhase' = barPhase /\ todo' = todo)
      \/ todo' = {p \in bars : pos[p] > 0}
  BY DEF StartStep, Matched, Raises, Day, Cycle, DailyStop, NoTrigger, NextCandle, Finish, btVars
<1>6. TodoHolds'
  BY <1>1, <1>2, <1>3, <1>4, <1>5 DEF BtWithin, TodoHolds
<1>7. QED
  BY <1>1, <1>6 DEF BtWithin, PositionsWithin

\* Every step leaves the rest of the types.
LEMMA BtFrameKept == ASSUME BtFramed, [BtNext]_btVars PROVE BtFramed'
<1>1. /\ barPhase' \in {barPhase, "match", "intrabar", "day", "engine", "after", "done", "error"}
      /\ btStatus' \in {btStatus, "RUNNING", "PAUSED", "HALTED"}
      /\ bars' = bars \/ bars' \in SUBSET BtPairs
      /\ step' = step \/ (step < MaxSteps /\ step' = step + 1)
  <2>1. CASE \E i \in todo \cap 1..MaxRows : FillPassive(i) \/ ExpirePassive(i)
    BY <2>1, Zenon DEF FillPassive, ExpirePassive
  <2>2. CASE \E p \in todo \cap BtPairs :
               HitsStopOrTarget(p) \/ NoHit(p) \/ NothingApproved(p) \/ Rest(p) \/ Thin(p) \/ Take(p)
    BY <2>2, Zenon DEF HitsStopOrTarget, NoHit, NothingApproved, Rest, Thin, Take
  <2>3. CASE StartStep \/ Matched \/ Raises \/ Day \/ Cycle
    BY <2>3 DEF StartStep, Matched, Raises, Day, Cycle
  <2>4. CASE Halt \/ DailyStop \/ NoTrigger \/ NextCandle \/ Finish \/ Over \/ UNCHANGED btVars
    BY <2>4 DEF Halt, DailyStop, NoTrigger, NextCandle, Finish, Over, btVars
  <2>5. QED
    BY <2>1, <2>2, <2>3, <2>4, Zenon DEF BtNext
<1>2. QED
  BY <1>1, BacktestAssumption DEF BtFramed

\* The types of Backtest hold.
LEMMA BtTypesHold == BtSpec => []BtTypes
<1>1. BtInit => BtWithin /\ BtFramed
  <2> SUFFICES ASSUME BtInit PROVE BtWithin /\ BtFramed
    OBVIOUS
  <2>1. Len(btOrders) = 0 /\ Len(btFills) = 0 /\ todo = {} /\ pending = {} /\ barPhase = "match"
    BY DEF BtInit
  <2>2. BtWithin
    BY <2>1, BacktestAssumption DEF BtInit, BtWithin, RowsWithin, FillsWithin, PositionsWithin, TodoHolds
  <2>3. BtFramed
    BY BacktestAssumption DEF BtInit, BtFramed
  <2>4. QED
    BY <2>2, <2>3
<1>2. BtInv /\ BtFramed /\ BtWithin /\ [BtNext]_btVars => BtWithin'
  <2> SUFFICES ASSUME BtInv, BtFramed, BtWithin, [BtNext]_btVars PROVE BtWithin'
    OBVIOUS
  <2>1. ASSUME NEW i \in todo \cap 1..MaxRows, FillPassive(i) \/ ExpirePassive(i) PROVE BtWithin'
    BY <2>1, PassivesWithin
  <2>2. ASSUME NEW p \in todo \cap BtPairs,
               HitsStopOrTarget(p) \/ NoHit(p) \/ NothingApproved(p) \/ Rest(p) \/ Thin(p) \/ Take(p)
        PROVE  BtWithin'
    BY <2>2, PairsWithin
  <2>3. CASE Halt
    BY <2>3, HaltWithin
  <2>4. CASE \/ StartStep \/ Matched \/ Raises \/ Day \/ Cycle \/ DailyStop \/ NoTrigger
             \/ NextCandle \/ Finish \/ UNCHANGED btVars
    BY <2>4, LoopWithin, Zenon
  <2>5. QED
    BY <2>1, <2>2, <2>3, <2>4, Zenon DEF BtNext, Over
<1>3. BtFramed /\ [BtNext]_btVars => BtFramed'
  BY BtFrameKept
<1>4. BtInv /\ BtFramed /\ BtWithin => BtTypes
  <2> SUFFICES ASSUME BtInv, BtFramed, BtWithin PROVE BtTypes
    OBVIOUS
  <2>1. /\ BooksTyped /\ RowsWithin(btOrders) /\ FillsWithin(btFills) /\ PositionsWithin /\ TodoHolds
        /\ btOrders \in Seq(Rows) /\ btFills \in Seq(Entries) /\ InTable(btFills, btOrders)
    BY DEF BtInv, BtWithin, BooksTyped
  <2>2. pos \in [BtPairs -> 0..MaxLots] /\ openTrade \in [BtPairs -> 0..MaxLots] /\ closedQty \in [BtPairs -> Nat]
    BY <2>1, BacktestAssumption DEF BooksTyped, PositionsWithin
  <2>3. btOrders \in Seq(OrderRow) /\ Len(btOrders) <= MaxRows
    <3>1. PICK O : O = btOrders
      OBVIOUS
    <3>2. O \in Seq(Rows) /\ Len(O) <= MaxRows /\ \A i \in 1..Len(O) : O[i].qty \in 1..Lots + MaxLots
      BY <2>1, <3>1 DEF RowsWithin
    <3>3. ASSUME NEW i \in 1..Len(O) PROVE O[i] \in OrderRow
      <4>1. O[i] \in Rows /\ O[i].qty \in 1..Lots + MaxLots
        BY <3>2, <3>3
      <4>2. PICK r : r = O[i]
        OBVIOUS
      <4>3. r \in OrderRow
        BY <4>1, <4>2 DEF Rows, OrderRow
      <4>4. QED
        BY <4>2, <4>3
    <3>4. O \in Seq(OrderRow)
      BY <3>2, <3>3
    <3>5. QED
      BY <3>1, <3>2, <3>4
  <2>4. btFills \in Seq(FillRow)
    <3>1. PICK F : F = btFills
      OBVIOUS
    <3>2. /\ F \in Seq(Entries) /\ \A k \in 1..Len(F) : F[k].qty > 0
          /\ \A k \in 1..Len(F) : F[k].order \in 1..MaxRows
      <4>1. Len(btOrders) \in Nat /\ Len(btOrders) <= MaxRows
        BY <2>1, <2>3
      <4>2. QED
        BY <2>1, <3>1, <4>1, BacktestAssumption DEF FillsWithin, InTable
    <3>3. ASSUME NEW k \in 1..Len(F) PROVE F[k] \in FillRow
      <4>1. F[k] \in Entries /\ F[k].qty > 0 /\ F[k].order \in 1..MaxRows
        BY <3>2, <3>3
      <4>2. PICK e : e = F[k]
        OBVIOUS
      <4>3. e \in FillRow
        BY <4>1, <4>2 DEF Entries, FillRow
      <4>4. QED
        BY <4>2, <4>3
    <3>4. F \in Seq(FillRow)
      BY <3>2, <3>3
    <3>5. QED
      BY <3>1, <3>4
  <2>5. todo \subseteq BtPairs \cup 1..MaxRows /\ pending \subseteq 1..Len(btOrders)
    <3>1. Len(btOrders) \in Nat /\ Len(btOrders) <= MaxRows
      BY <2>1, <2>3
    <3>2. 1..Len(btOrders) \subseteq 1..MaxRows
      BY <3>1, BacktestAssumption
    <3>3. QED
      BY <2>1, <3>2, Zenon DEF TodoHolds
  <2>6. QED
    BY <2>2, <2>3, <2>4, <2>5, Zenon DEF BtFramed, BtTypes
<1>5. QED
  BY BtInvHolds, <1>1, <1>2, <1>3, <1>4, PTL DEF BtSpec

-----------------------------------------------------------------------------
(* SharedAccount.                                                          *)
(*                                                                         *)
(* No step of the agent changes how much of the free balance is not its    *)
(* own, and a trade of the skills takes from its fence what it takes from  *)
(* the balance.  So a fence that was within the rest when it was computed  *)
(* stays within it.                                                        *)

\* The agent's part of the free balance, once what it was paid is booked.
OwnPart(a) ==
  mine[a] - (IF resting.st # "none" /\ resting.from = a THEN resting.qty ELSE 0)
          + (IF resting.st = "filled" /\ resting.to = a THEN resting.qty ELSE 0)

BalancesTyped ==
  /\ free \in [Assets -> Nat] /\ locked \in [Assets -> Nat] /\ mine \in [Assets -> Nat]
  /\ fenced \in [Assets -> Nat] /\ book \in [Assets -> Int]
  /\ resting \in Orders
  /\ resting.st # "none" => resting.from # resting.to /\ resting.qty <= mine[resting.from]

\* Only the agent's open order locks anything.
LockedByOrder ==
  \A a \in Assets :
    locked[a] = IF resting.st = "open" /\ resting.from = a THEN resting.qty ELSE 0

\* The skills use what they read before any order or fill has changed it.
SeenIsCurrent ==
  stage = "account" =>
    seen.free = free /\ seen.locked = locked /\ resting.st # "filled"

\* The fence leaves the agent's part.
FenceLeaves ==
  \A a \in Assets :
    /\ OwnPart(a) <= free[a]
    /\ stage = "fenced" => fenced[a] <= free[a] - OwnPart(a)

\* A fill since the cycle looked at its orders is remembered.
FillRemembered ==
  /\ turn \in {"synced", "checked"} /\ resting.st = "filled" => filled
  /\ MismatchIsOwnFill

ShareInv == BalancesTyped /\ LockedByOrder /\ SeenIsCurrent /\ FenceLeaves /\ FillRemembered

\* What an order that is there consists of.
LEMMA OrderParts ==
  ASSUME BalancesTyped
  PROVE  /\ resting.st \in {"none", "open", "filled"}
         /\ resting.st # "none" =>
              resting.from \in Assets /\ resting.to \in Assets /\ resting.qty \in Nat
  BY DEF BalancesTyped, Orders, NoOrder

\* The agent's part is a number.
LEMMA PartInt == ASSUME BalancesTyped PROVE \A a \in Assets : OwnPart(a) \in Int
  BY OrderParts DEF BalancesTyped, OwnPart

\* There is no order and no fence at the start.
LEMMA ShareStarts == ShareInit => ShareInv
<1> SUFFICES ASSUME ShareInit PROVE ShareInv
  OBVIOUS
<1>1. /\ free \in [Assets -> Nat] /\ mine \in [Assets -> Nat]
      /\ \A a \in Assets : mine[a] <= free[a]
  BY SharesAssumption DEF ShareInit
<1>2. resting = NoOrder /\ resting.st = "none" /\ resting \in Orders
  BY DEF ShareInit, NoOrder, Orders
<1>3. BalancesTyped
  BY <1>1, <1>2, SharesAssumption DEF ShareInit, BalancesTyped
<1>4. LockedByOrder /\ SeenIsCurrent /\ FillRemembered
  BY <1>2 DEF ShareInit, LockedByOrder, SeenIsCurrent, FillRemembered, MismatchIsOwnFill
<1>5. FenceLeaves
  BY <1>1, <1>2 DEF ShareInit, FenceLeaves, OwnPart
<1>6. QED
  BY <1>3, <1>4, <1>5 DEF ShareInv

\* A fill is booked: the agent's part stays what it was.
LEMMA SyncKeepsShare == ASSUME ShareInv, Quiet, SyncOrders PROVE ShareInv'
<1>1. BalancesTyped /\ LockedByOrder /\ SeenIsCurrent /\ FenceLeaves
  BY DEF ShareInv
<1>2. /\ UNCHANGED <<free, locked, stage, book, seen, fenced>>
      /\ stage # "account" /\ turn' = "synced" /\ filled' = FALSE
      /\ \/ /\ resting.st = "filled" /\ resting' = NoOrder
            /\ mine' = [mine EXCEPT ![resting.from] = @ - resting.qty, ![resting.to] = @ + resting.qty]
         \/ resting.st # "filled" /\ UNCHANGED <<mine, resting>>
  BY DEF SyncOrders, Undisturbed, Reading, account, skills
<1>3. CASE /\ resting.st = "filled" /\ resting' = NoOrder
           /\ mine' = [mine EXCEPT ![resting.from] = @ - resting.qty, ![resting.to] = @ + resting.qty]
  <2>1. PICK f, t, q : f = resting.from /\ t = resting.to /\ q = resting.qty
    OBVIOUS
  <2>2. f \in Assets /\ t \in Assets /\ q \in Nat /\ f # t /\ q <= mine[f]
    BY <1>1, <1>3, <2>1, OrderParts DEF BalancesTyped
  <2>3. mine \in [Assets -> Nat] /\ mine' = [mine EXCEPT ![f] = @ - q, ![t] = @ + q]
    BY <1>1, <1>3, <2>1 DEF BalancesTyped
  <2>4. \A a \in Assets : mine'[a] = IF a = t THEN mine[a] + q ELSE IF a = f THEN mine[a] - q ELSE mine[a]
    BY <2>2, <2>3
  <2>5. mine' \in [Assets -> Nat]
    BY <2>2, <2>3
  <2>6. resting'.st = "none" /\ resting' \in Orders
    BY <1>3 DEF NoOrder, Orders
  <2>7. \A a \in Assets : OwnPart(a)' = OwnPart(a)
    BY <1>1, <1>3, <2>1, <2>2, <2>4, <2>6 DEF OwnPart, BalancesTyped
  <2>8. BalancesTyped' /\ LockedByOrder'
    BY <1>1, <1>2, <1>3, <2>5, <2>6 DEF BalancesTyped, LockedByOrder
  <2>9. FenceLeaves'
    BY <1>1, <1>2, <2>7 DEF FenceLeaves
  <2>10. SeenIsCurrent' /\ FillRemembered'
    BY <1>2, <2>6 DEF SeenIsCurrent, FillRemembered, MismatchIsOwnFill
  <2>11. QED
    BY <2>8, <2>9, <2>10 DEF ShareInv
<1>4. CASE resting.st # "filled" /\ UNCHANGED <<mine, resting>>
  BY <1>1, <1>2, <1>4 DEF ShareInv, BalancesTyped, LockedByOrder, SeenIsCurrent, FenceLeaves, OwnPart,
     FillRemembered, MismatchIsOwnFill
<1>5. QED
  BY <1>2, <1>3, <1>4

\* Without a fill that is not booked the account holds the ledger's coins.
LEMMA ReconcileKeepsShare == ASSUME ShareInv, Reconcile PROVE ShareInv'
<1>1. BalancesTyped /\ LockedByOrder /\ SeenIsCurrent /\ FenceLeaves /\ FillRemembered
  BY DEF ShareInv
<1>2. UNCHANGED <<free, locked, mine, resting, filled, stage, book, seen, fenced>> /\ turn = "synced"
  BY DEF Reconcile, account, skills
<1>3. resting.st # "filled" => \A a \in Coins : Total(a) >= mine[a]
  <2> SUFFICES ASSUME resting.st # "filled", NEW a \in Coins PROVE Total(a) >= mine[a]
    OBVIOUS
  <2>1. a \in Assets /\ OwnPart(a) <= free[a]
    BY <1>1 DEF Assets, FenceLeaves
  <2>2. mine[a] \in Nat /\ free[a] \in Nat /\ locked[a] \in Nat
    BY <1>1, <2>1 DEF BalancesTyped
  <2>3. OwnPart(a) = mine[a] - locked[a]
    BY <1>1, <2>1, <2>2, OrderParts DEF OwnPart, LockedByOrder
  <2>4. QED
    BY <2>1, <2>2, <2>3 DEF Total
<1>4. recon' = "mismatch" => filled
  <2>1. resting.st = "filled" => filled
    BY <1>1, <1>2 DEF FillRemembered
  <2>2. recon' = "mismatch" => \E a \in Coins : Total(a) < mine[a]
    BY DEF Reconcile
  <2>3. \A a \in Coins : Total(a) \in Int /\ mine[a] \in Int
    BY <1>1 DEF Total, Assets, BalancesTyped
  <2>4. QED
    BY <1>3, <2>1, <2>2, <2>3
<1>5. FillRemembered'
  BY <1>1, <1>2, <1>4 DEF FillRemembered, MismatchIsOwnFill
<1>6. QED
  BY <1>1, <1>2, <1>5 DEF ShareInv, BalancesTyped, LockedByOrder, SeenIsCurrent, FenceLeaves, OwnPart

\* An order locks what it takes from the free balance.
LEMMA SendKeepsShare == ASSUME ShareInv, Quiet, SendOrder PROVE ShareInv'
<1>1. BalancesTyped /\ LockedByOrder /\ SeenIsCurrent /\ FenceLeaves
  BY DEF ShareInv
<1>2. PICK f, t \in Assets : f # t /\ \E qty \in 1..mine[f] :
        /\ qty <= free[f]
        /\ resting' = [st |-> "open", from |-> f, to |-> t, qty |-> qty]
        /\ free' = [free EXCEPT ![f] = @ - qty]
        /\ locked' = [locked EXCEPT ![f] = @ + qty]
  BY DEF SendOrder
<1>3. PICK q \in 1..mine[f] :
        /\ q <= free[f]
        /\ resting' = [st |-> "open", from |-> f, to |-> t, qty |-> q]
        /\ free' = [free EXCEPT ![f] = @ - q]
        /\ locked' = [locked EXCEPT ![f] = @ + q]
  BY <1>2
<1>4. /\ UNCHANGED <<mine, stage, book, seen, fenced>>
      /\ stage # "account" /\ turn' = "idle" /\ resting = NoOrder /\ resting.st = "none"
  BY DEF SendOrder, Undisturbed, Reading, skills, NoOrder
<1>5. q \in Nat /\ mine[f] \in Nat /\ q <= mine[f] /\ free[f] \in Nat
  BY <1>1, <1>2, <1>3 DEF BalancesTyped
<1>6. resting'.st = "open" /\ resting'.from = f /\ resting'.to = t /\ resting'.qty = q /\ resting' \in Orders
  BY <1>2, <1>3, <1>5 DEF Orders
<1>7. /\ free' \in [Assets -> Nat] /\ locked' \in [Assets -> Nat]
      /\ \A a \in Assets : free'[a] = IF a = f THEN free[a] - q ELSE free[a]
      /\ \A a \in Assets : locked'[a] = IF a = f THEN locked[a] + q ELSE locked[a]
  <2>1. free \in [Assets -> Nat] /\ locked \in [Assets -> Nat]
    BY <1>1 DEF BalancesTyped
  <2>2. QED
    BY <1>2, <1>3, <1>5, <2>1
<1>8. BalancesTyped'
  BY <1>1, <1>2, <1>4, <1>5, <1>6, <1>7 DEF BalancesTyped
<1>9. LockedByOrder'
  BY <1>1, <1>4, <1>5, <1>6, <1>7 DEF LockedByOrder
<1>10. \A a \in Assets : free'[a] - OwnPart(a)' = free[a] - OwnPart(a)
  BY <1>1, <1>4, <1>5, <1>6, <1>7 DEF OwnPart, BalancesTyped
<1>11. FenceLeaves'
  <2>1. \A a \in Assets : free[a] \in Int /\ free'[a] \in Int /\ OwnPart(a) \in Int /\ fenced[a] \in Int
    BY <1>1, <1>7, PartInt DEF BalancesTyped
  <2>2. \A a \in Assets : OwnPart(a)' \in Int
    BY <1>1, <1>4, <1>5, <1>6 DEF OwnPart, BalancesTyped
  <2>3. QED
    BY <1>1, <1>4, <1>10, <2>1, <2>2 DEF FenceLeaves
<1>12. SeenIsCurrent' /\ FillRemembered'
  BY <1>4 DEF SeenIsCurrent, FillRemembered, MismatchIsOwnFill
<1>13. QED
  BY <1>8, <1>9, <1>11, <1>12 DEF ShareInv

\* A fill pays the free balance and belongs to the agent at once.
LEMMA FillKeepsShare == ASSUME ShareInv, Quiet, OrderFills PROVE ShareInv'
<1>1. BalancesTyped /\ LockedByOrder /\ SeenIsCurrent /\ FenceLeaves
  BY DEF ShareInv
<1>2. PICK f, t, q : f = resting.from /\ t = resting.to /\ q = resting.qty
  OBVIOUS
<1>3. /\ resting.st = "open" /\ resting' = [resting EXCEPT !.st = "filled"]
      /\ locked' = [locked EXCEPT ![f] = @ - q]
      /\ free' = [free EXCEPT ![t] = @ + q]
      /\ UNCHANGED <<mine, stage, book, seen, fenced>>
      /\ stage # "account" /\ filled' = TRUE
  BY <1>2 DEF OrderFills, Undisturbed, Reading, skills
<1>4. f \in Assets /\ t \in Assets /\ q \in Nat /\ f # t /\ q <= mine[f] /\ locked[f] = q
  BY <1>1, <1>2, <1>3, OrderParts DEF BalancesTyped, LockedByOrder
<1>5. resting'.st = "filled" /\ resting'.from = f /\ resting'.to = t /\ resting'.qty = q /\ resting' \in Orders
  BY <1>1, <1>2, <1>3 DEF BalancesTyped, Orders, NoOrder
<1>6. /\ free' \in [Assets -> Nat] /\ locked' \in [Assets -> Nat]
      /\ \A a \in Assets : free'[a] = IF a = t THEN free[a] + q ELSE free[a]
      /\ \A a \in Assets : locked'[a] = IF a = f THEN locked[a] - q ELSE locked[a]
  <2>1. free \in [Assets -> Nat] /\ locked \in [Assets -> Nat]
    BY <1>1 DEF BalancesTyped
  <2>2. QED
    BY <1>3, <1>4, <2>1
<1>7. BalancesTyped'
  BY <1>1, <1>3, <1>4, <1>5, <1>6 DEF BalancesTyped
<1>8. LockedByOrder'
  BY <1>1, <1>2, <1>3, <1>4, <1>5, <1>6 DEF LockedByOrder
<1>9. \A a \in Assets : free'[a] - OwnPart(a)' = free[a] - OwnPart(a)
  BY <1>1, <1>2, <1>3, <1>4, <1>5, <1>6 DEF OwnPart, BalancesTyped
<1>10. FenceLeaves'
  <2>1. \A a \in Assets : free[a] \in Int /\ free'[a] \in Int /\ OwnPart(a) \in Int /\ fenced[a] \in Int
    BY <1>1, <1>6, PartInt DEF BalancesTyped
  <2>2. \A a \in Assets : OwnPart(a)' \in Int
    BY <1>1, <1>3, <1>4, <1>5 DEF OwnPart, BalancesTyped
  <2>3. QED
    BY <1>1, <1>3, <1>9, <2>1, <2>2 DEF FenceLeaves
<1>11. SeenIsCurrent' /\ FillRemembered'
  BY <1>3 DEF SeenIsCurrent, FillRemembered, MismatchIsOwnFill
<1>12. QED
  BY <1>7, <1>8, <1>10, <1>11 DEF ShareInv

\* The fence is computed from balances that are current.
LEMMA ClaimKeepsShare == ASSUME ShareInv, ReadClaim PROVE ShareInv'
<1>1. BalancesTyped /\ LockedByOrder /\ SeenIsCurrent /\ FenceLeaves
  BY DEF ShareInv
<1>2. /\ stage = "account" /\ stage' = "fenced"
      /\ fenced' = [a \in Assets |-> AtLeast0(Smaller(book[a], seen.free[a] - Claim(a) - Buffer[a]))]
      /\ UNCHANGED <<free, locked, mine, resting, turn, recon, filled, book>>
  BY DEF ReadClaim, account, agent
<1>3. ASSUME NEW a \in Assets
      PROVE  fenced'[a] \in Nat /\ fenced'[a] <= free[a] - OwnPart(a)
  <2>1. seen.free[a] = free[a] /\ Claim(a) = AtLeast0(mine[a] - locked[a]) /\ resting.st # "filled"
    BY <1>1, <1>2 DEF SeenIsCurrent, Claim
  <2>2. mine[a] \in Nat /\ locked[a] \in Nat /\ free[a] \in Nat /\ book[a] \in Int /\ Buffer[a] \in Nat
    BY <1>1, SharesAssumption DEF BalancesTyped
  <2>3. OwnPart(a) = mine[a] - locked[a] /\ OwnPart(a) >= 0 /\ OwnPart(a) <= free[a]
    BY <1>1, <2>1, <2>2, OrderParts DEF OwnPart, LockedByOrder, FenceLeaves, BalancesTyped
  <2>4. Claim(a) = OwnPart(a) /\ OwnPart(a) \in Nat
    BY <2>1, <2>2, <2>3 DEF AtLeast0
  <2>5. fenced'[a] = AtLeast0(Smaller(book[a], free[a] - OwnPart(a) - Buffer[a]))
    BY <1>2, <2>1, <2>4
  <2>6. QED
    BY <2>2, <2>3, <2>4, <2>5 DEF AtLeast0, Smaller
<1>4. fenced' \in [Assets -> Nat]
  BY <1>2, <1>3
<1>5. BalancesTyped' /\ LockedByOrder' /\ SeenIsCurrent'
  BY <1>1, <1>2, <1>4 DEF BalancesTyped, LockedByOrder, SeenIsCurrent
<1>6. FenceLeaves'
  BY <1>1, <1>2, <1>3 DEF FenceLeaves, OwnPart
<1>7. FillRemembered'
  BY <1>2 DEF ShareInv, FillRemembered, MismatchIsOwnFill
<1>8. QED
  BY <1>5, <1>6, <1>7 DEF ShareInv

\* What the skills take from the balance they take from their fence.
LEMMA TradeKeepsShare == ASSUME ShareInv, SkillsTrade PROVE ShareInv'
<1>1. BalancesTyped /\ FenceLeaves
  BY DEF ShareInv
<1>2. PICK f, t \in Assets : f # t /\ \E qty \in 1..Smaller(fenced[f], free[f]) :
        /\ free' = [free EXCEPT ![f] = @ - qty, ![t] = @ + qty]
        /\ book' = [book EXCEPT ![f] = @ - qty, ![t] = @ + qty]
        /\ fenced' = [fenced EXCEPT ![f] = @ - qty]
  BY DEF SkillsTrade
<1>3. PICK q \in 1..Smaller(fenced[f], free[f]) :
        /\ free' = [free EXCEPT ![f] = @ - q, ![t] = @ + q]
        /\ book' = [book EXCEPT ![f] = @ - q, ![t] = @ + q]
        /\ fenced' = [fenced EXCEPT ![f] = @ - q]
  BY <1>2
<1>4. stage = "fenced" /\ UNCHANGED <<locked, mine, resting, turn, recon, filled, stage>>
  BY DEF SkillsTrade, agent
<1>5. free \in [Assets -> Nat] /\ fenced \in [Assets -> Nat] /\ book \in [Assets -> Int]
  BY <1>1 DEF BalancesTyped
<1>6. q \in Nat /\ q <= fenced[f] /\ q <= free[f]
  BY <1>2, <1>3, <1>5 DEF Smaller
<1>7. /\ \A a \in Assets : free'[a] = IF a = t THEN free[a] + q ELSE IF a = f THEN free[a] - q ELSE free[a]
      /\ \A a \in Assets : fenced'[a] = IF a = f THEN fenced[a] - q ELSE fenced[a]
  BY <1>2, <1>3, <1>5
<1>8. free' \in [Assets -> Nat] /\ fenced' \in [Assets -> Nat] /\ book' \in [Assets -> Int]
  BY <1>2, <1>3, <1>5, <1>6
<1>9. BalancesTyped'
  BY <1>1, <1>4, <1>8 DEF BalancesTyped
<1>10. FenceLeaves'
  <2>1. \A a \in Assets : OwnPart(a)' = OwnPart(a) /\ OwnPart(a) \in Int
    BY <1>1, <1>4, PartInt DEF OwnPart
  <2>2. \A a \in Assets : OwnPart(a) <= free[a] /\ fenced[a] <= free[a] - OwnPart(a)
    BY <1>1, <1>4 DEF FenceLeaves
  <2>3. QED
    BY <1>2, <1>5, <1>6, <1>7, <2>1, <2>2 DEF FenceLeaves
<1>11. LockedByOrder' /\ SeenIsCurrent' /\ FillRemembered'
  BY <1>4 DEF ShareInv, LockedByOrder, SeenIsCurrent, FillRemembered, MismatchIsOwnFill
<1>12. QED
  BY <1>9, <1>10, <1>11 DEF ShareInv

\* The other steps touch neither balances nor orders.
LEMMA OthersKeepShare ==
  ASSUME ShareInv, Quiet,
         EndCycle \/ ReadBook \/ ReadAccount \/ SkillsDone \/ UNCHANGED shareVars
  PROVE  ShareInv'
<1>1. UNCHANGED <<free, locked, mine, resting, filled, recon, book>>
  BY DEF EndCycle, ReadBook, ReadAccount, SkillsDone, shareVars, account, agent, skills
<1>2. /\ turn' \in {"idle", turn}
      /\ stage' = "fenced" => stage = "fenced" /\ fenced' = fenced
      /\ fenced' \in {fenced, [a \in Assets |-> 0]}
  BY DEF EndCycle, ReadBook, ReadAccount, SkillsDone, shareVars, account, agent, skills
<1>3. BalancesTyped'
  BY <1>1, <1>2 DEF ShareInv, BalancesTyped
<1>4. LockedByOrder' /\ FillRemembered'
  BY <1>1, <1>2 DEF ShareInv, LockedByOrder, FillRemembered, MismatchIsOwnFill
<1>5. FenceLeaves'
  BY <1>1, <1>2 DEF ShareInv, FenceLeaves, OwnPart
<1>6. SeenIsCurrent'
  BY <1>1 DEF ShareInv, SeenIsCurrent, EndCycle, ReadBook, ReadAccount, SkillsDone, shareVars, account,
     agent, skills
<1>7. QED
  BY <1>3, <1>4, <1>5, <1>6 DEF ShareInv

\* While no fill waits to be booked when the skills read, the invariant holds.
LEMMA ShareInvHolds == ASSUME Quiet PROVE ShareSpec => []ShareInv
<1>1. ShareInv /\ [ShareNext]_shareVars => ShareInv'
  BY SyncKeepsShare, ReconcileKeepsShare, SendKeepsShare, FillKeepsShare, ClaimKeepsShare,
     TradeKeepsShare, OthersKeepShare DEF ShareNext
<1>2. QED
  BY ShareStarts, <1>1, PTL DEF ShareSpec

\* For any assets, shares, buffer and orders, a mismatch is never due to a
\* resting order or to the skills (reconcile).
THEOREM MismatchesAreOwnFills == ASSUME Quiet PROVE ShareSpec => []MismatchIsOwnFill
<1>1. ShareInv => MismatchIsOwnFill
  BY DEF ShareInv, FillRemembered
<1>2. QED
  BY <1>1, ShareInvHolds, PTL

\* The race that SharedAccount_race shows is the only one: if no fill waits to
\* be booked while the skills read, they never get the agent's money
\* (write_fence).
THEOREM FenceCoversTheAgent == ASSUME Quiet PROVE ShareSpec => []AgentCovered
<1>1. ShareInv => AgentCovered
  <2>1. SUFFICES ASSUME ShareInv, NEW a \in Assets PROVE free[a] >= AgentFree(a)
    BY DEF AgentCovered
  <2>2. BalancesTyped /\ OwnPart(a) <= free[a] /\ free[a] \in Nat /\ mine[a] \in Nat
    BY <2>1 DEF ShareInv, FenceLeaves, BalancesTyped
  <2>3. AgentFree(a) <= OwnPart(a) /\ OwnPart(a) \in Int /\ AgentFree(a) \in Int
    BY <2>2, OrderParts DEF AgentFree, OwnPart
  <2>4. QED
    BY <2>2, <2>3
<1>2. QED
  BY <1>1, ShareInvHolds, PTL
-----------------------------------------------------------------------------
(* The types of SharedAccount, whenever the skills read.                   *)

\* An open order's money is still locked, and the fence is within the book.
AccountHolds ==
  /\ BalancesTyped
  /\ resting.st = "open" => resting.qty <= locked[resting.from]
  /\ \A a \in Assets : fenced[a] <= book[a]

\* The rest of the types.
ShareFramed ==
  /\ turn \in {"idle", "synced", "checked"}
  /\ recon \in {"ok", "mismatch"} /\ filled \in BOOLEAN
  /\ trades \in 0..MaxTrades
  /\ stage \in {"idle", "book", "account", "fenced"}
  /\ seen \in [free : [Assets -> Nat], locked : [Assets -> Nat]]

\* What the account holds at the start.
LEMMA AccountStarts == ShareInit => AccountHolds /\ ShareFramed
<1> SUFFICES ASSUME ShareInit PROVE AccountHolds /\ ShareFramed
  OBVIOUS
<1>1. free \in [Assets -> Nat] /\ mine \in [Assets -> Nat] /\ locked \in [Assets -> Nat]
  BY SharesAssumption DEF ShareInit
<1>2. resting.st = "none" /\ resting \in Orders
  BY DEF ShareInit, NoOrder, Orders
<1>3. AccountHolds
  BY <1>1, <1>2, SharesAssumption DEF ShareInit, AccountHolds, BalancesTyped
<1>4. ShareFramed
  <2>1. filled \in BOOLEAN
    BY Zenon DEF ShareInit
  <2>2. trades \in 0..MaxTrades /\ seen \in [free : [Assets -> Nat], locked : [Assets -> Nat]]
    BY <1>1, SharesAssumption DEF ShareInit
  <2>3. turn = "idle" /\ recon = "ok" /\ stage = "idle"
    BY DEF ShareInit
  <2>4. turn \in {"idle", "synced", "checked"} /\ recon \in {"ok", "mismatch"}
        /\ stage \in {"idle", "book", "account", "fenced"}
    BY <2>3
  <2>5. QED
    BY <2>1, <2>2, <2>4, Zenon DEF ShareFramed
<1>5. QED
  BY <1>3, <1>4

\* Booking a fill takes from the ledger no more than the order is worth.
LEMMA SyncKeepsAccount == ASSUME AccountHolds, SyncOrders PROVE AccountHolds'
<1>1. BalancesTyped /\ UNCHANGED <<free, locked, book, fenced>>
  BY DEF AccountHolds, SyncOrders, account, skills
<1>2. CASE /\ resting.st = "filled" /\ resting' = NoOrder
           /\ mine' = [mine EXCEPT ![resting.from] = @ - resting.qty, ![resting.to] = @ + resting.qty]
  <2>1. PICK f, t, q : f = resting.from /\ t = resting.to /\ q = resting.qty
    OBVIOUS
  <2>2. f \in Assets /\ t \in Assets /\ q \in Nat /\ f # t /\ q <= mine[f]
    BY <1>1, <1>2, <2>1, OrderParts DEF BalancesTyped
  <2>3. mine \in [Assets -> Nat] /\ mine' = [mine EXCEPT ![f] = @ - q, ![t] = @ + q]
    BY <1>1, <1>2, <2>1 DEF BalancesTyped
  <2>4. mine' \in [Assets -> Nat]
    BY <2>2, <2>3
  <2>5. resting'.st = "none" /\ resting' \in Orders
    BY <1>2 DEF NoOrder, Orders
  <2>6. QED
    BY <1>1, <2>4, <2>5 DEF AccountHolds, BalancesTyped
<1>3. CASE resting.st # "filled" /\ UNCHANGED <<mine, resting>>
  BY <1>1, <1>3 DEF AccountHolds, BalancesTyped
<1>4. QED
  BY <1>2, <1>3 DEF SyncOrders

\* An order locks what is free.
LEMMA SendKeepsAccount == ASSUME AccountHolds, SendOrder PROVE AccountHolds'
<1>1. BalancesTyped /\ UNCHANGED <<mine, book, fenced>>
  BY DEF AccountHolds, SendOrder, skills
<1>2. PICK f, t \in Assets : f # t /\ \E qty \in 1..mine[f] :
        /\ qty <= free[f]
        /\ resting' = [st |-> "open", from |-> f, to |-> t, qty |-> qty]
        /\ free' = [free EXCEPT ![f] = @ - qty]
        /\ locked' = [locked EXCEPT ![f] = @ + qty]
  BY DEF SendOrder
<1>3. PICK q \in 1..mine[f] :
        /\ q <= free[f]
        /\ resting' = [st |-> "open", from |-> f, to |-> t, qty |-> q]
        /\ free' = [free EXCEPT ![f] = @ - q]
        /\ locked' = [locked EXCEPT ![f] = @ + q]
  BY <1>2
<1>4. free \in [Assets -> Nat] /\ locked \in [Assets -> Nat] /\ mine \in [Assets -> Nat]
  BY <1>1 DEF BalancesTyped
<1>5. q \in Nat /\ q <= mine[f] /\ q <= free[f]
  BY <1>3, <1>4
<1>6. free' \in [Assets -> Nat] /\ locked' \in [Assets -> Nat] /\ locked'[f] = locked[f] + q
  BY <1>3, <1>4, <1>5
<1>7. resting'.from = f /\ resting'.to = t /\ resting'.qty = q /\ resting' \in Orders
  BY <1>3, <1>5 DEF Orders
<1>8. QED
  BY <1>1, <1>2, <1>4, <1>5, <1>6, <1>7 DEF AccountHolds, BalancesTyped

\* A fill takes what was locked for it.
LEMMA FillKeepsAccount == ASSUME AccountHolds, OrderFills PROVE AccountHolds'
<1>1. BalancesTyped /\ UNCHANGED <<mine, book, fenced>> /\ resting.st = "open"
  BY DEF AccountHolds, OrderFills, skills
<1>2. PICK f, t, q : f = resting.from /\ t = resting.to /\ q = resting.qty
  OBVIOUS
<1>3. f \in Assets /\ t \in Assets /\ q \in Nat /\ f # t /\ q <= mine[f] /\ q <= locked[f]
  BY <1>1, <1>2, OrderParts DEF AccountHolds, BalancesTyped
<1>4. free \in [Assets -> Nat] /\ locked \in [Assets -> Nat]
  BY <1>1 DEF BalancesTyped
<1>5. locked' = [locked EXCEPT ![f] = @ - q] /\ free' = [free EXCEPT ![t] = @ + q]
  BY <1>2 DEF OrderFills
<1>6. free' \in [Assets -> Nat] /\ locked' \in [Assets -> Nat]
  BY <1>3, <1>4, <1>5
<1>7. /\ resting'.st = "filled" /\ resting'.from = f /\ resting'.to = t /\ resting'.qty = q
      /\ resting' \in Orders
  <2>1. resting \in [st : {"open", "filled"}, from : Assets, to : Assets, qty : Nat]
    BY <1>1 DEF BalancesTyped, Orders, NoOrder
  <2>2. QED
    BY <1>2, <2>1 DEF OrderFills, Orders
<1>8. QED
  BY <1>1, <1>3, <1>6, <1>7 DEF AccountHolds, BalancesTyped

\* The fence is the smaller of the book and the rest, but not below nothing.
LEMMA ClaimKeepsAccount == ASSUME AccountHolds, ShareFramed, ReadClaim PROVE AccountHolds'
<1>1. BalancesTyped /\ UNCHANGED <<free, locked, mine, resting, book>>
  BY DEF AccountHolds, ReadClaim, account, agent
<1>2. fenced' = [a \in Assets |-> AtLeast0(Smaller(book[a], seen.free[a] - Claim(a) - Buffer[a]))]
  BY DEF ReadClaim
<1>3. ASSUME NEW a \in Assets
      PROVE  LET x == AtLeast0(Smaller(book[a], seen.free[a] - Claim(a) - Buffer[a]))
             IN  x \in Nat /\ x <= book[a]
  <2>1. /\ book[a] \in Int /\ fenced[a] \in Nat /\ fenced[a] <= book[a]
        /\ mine[a] \in Nat /\ seen.free[a] \in Nat /\ seen.locked[a] \in Nat /\ Buffer[a] \in Nat
    BY <1>1, <1>3, SharesAssumption DEF AccountHolds, BalancesTyped, ShareFramed
  <2>2. Claim(a) \in Int
    BY <2>1 DEF Claim, AtLeast0
  <2>3. QED
    BY <2>1, <2>2 DEF AtLeast0, Smaller
<1>4. fenced' \in [Assets -> Nat] /\ \A a \in Assets : fenced'[a] <= book[a]
  BY <1>2, <1>3
<1>5. QED
  BY <1>1, <1>4 DEF AccountHolds, BalancesTyped

\* A trade takes the same from the balance, the book and the fence.
LEMMA TradeKeepsAccount == ASSUME AccountHolds, SkillsTrade PROVE AccountHolds'
<1>1. BalancesTyped /\ UNCHANGED <<locked, mine, resting>>
  BY DEF AccountHolds, SkillsTrade, agent
<1>2. PICK f, t \in Assets : f # t /\ \E qty \in 1..Smaller(fenced[f], free[f]) :
        /\ free' = [free EXCEPT ![f] = @ - qty, ![t] = @ + qty]
        /\ book' = [book EXCEPT ![f] = @ - qty, ![t] = @ + qty]
        /\ fenced' = [fenced EXCEPT ![f] = @ - qty]
  BY DEF SkillsTrade
<1>3. PICK q \in 1..Smaller(fenced[f], free[f]) :
        /\ free' = [free EXCEPT ![f] = @ - q, ![t] = @ + q]
        /\ book' = [book EXCEPT ![f] = @ - q, ![t] = @ + q]
        /\ fenced' = [fenced EXCEPT ![f] = @ - q]
  BY <1>2
<1>4. free \in [Assets -> Nat] /\ fenced \in [Assets -> Nat] /\ book \in [Assets -> Int]
  BY <1>1 DEF BalancesTyped
<1>5. q \in Nat /\ q <= fenced[f] /\ q <= free[f]
  BY <1>2, <1>3, <1>4 DEF Smaller
<1>6. free' \in [Assets -> Nat] /\ fenced' \in [Assets -> Nat] /\ book' \in [Assets -> Int]
  BY <1>2, <1>3, <1>4, <1>5
<1>7. \A a \in Assets : fenced'[a] <= book'[a]
  BY <1>2, <1>3, <1>4, <1>5 DEF AccountHolds
<1>8. QED
  BY <1>1, <1>6, <1>7 DEF AccountHolds, BalancesTyped

\* The other steps touch neither balances nor orders.
LEMMA OthersKeepAccount ==
  ASSUME AccountHolds,
         \/ Reconcile \/ EndCycle \/ ReadBook \/ ReadAccount \/ SkillsDone \/ UNCHANGED shareVars
  PROVE  AccountHolds'
<1>1. UNCHANGED <<free, locked, mine, resting, book>>
  BY DEF Reconcile, EndCycle, ReadBook, ReadAccount, SkillsDone, shareVars, account, agent, skills
<1>2. fenced' = fenced \/ fenced' = [a \in Assets |-> 0]
  BY DEF Reconcile, EndCycle, ReadBook, ReadAccount, SkillsDone, shareVars, skills
<1>3. \A a \in Assets : 0 <= book[a]
  BY DEF AccountHolds, BalancesTyped
<1>4. QED
  BY <1>1, <1>2, <1>3 DEF AccountHolds, BalancesTyped

\* Every step leaves the rest of the types.
LEMMA ShareFrameKept == ASSUME AccountHolds, ShareFramed, [ShareNext]_shareVars PROVE ShareFramed'
<1>1. free \in [Assets -> Nat] /\ locked \in [Assets -> Nat]
  BY DEF AccountHolds, BalancesTyped
<1>2. /\ turn' \in {turn, "idle", "synced", "checked"}
      /\ recon' \in {recon, "ok", "mismatch"}
      /\ stage' \in {stage, "idle", "book", "account", "fenced"}
  BY Zenon DEF ShareNext, SyncOrders, Reconcile, SendOrder, EndCycle, OrderFills, ReadBook, ReadAccount,
     ReadClaim, SkillsTrade, SkillsDone, shareVars, account, agent, skills
<1>3. filled' = filled \/ filled' = TRUE \/ filled' = FALSE
  BY Zenon DEF ShareNext, SyncOrders, Reconcile, SendOrder, EndCycle, OrderFills, ReadBook, ReadAccount,
     ReadClaim, SkillsTrade, SkillsDone, shareVars, account, agent, skills
<1>4. trades' = trades \/ (trades < MaxTrades /\ trades' = trades + 1)
  BY Zenon DEF ShareNext, SyncOrders, Reconcile, SendOrder, EndCycle, OrderFills, ReadBook, ReadAccount,
     ReadClaim, SkillsTrade, SkillsDone, shareVars, account, agent, skills
<1>5. seen' = seen \/ seen' = [free |-> free, locked |-> locked]
  BY Zenon DEF ShareNext, SyncOrders, Reconcile, SendOrder, EndCycle, OrderFills, ReadBook, ReadAccount,
     ReadClaim, SkillsTrade, SkillsDone, shareVars, account, agent, skills
<1>6. trades' \in 0..MaxTrades
  BY <1>4, SharesAssumption DEF ShareFramed
<1>7. filled' \in BOOLEAN
  BY <1>3, Zenon DEF ShareFramed
<1>8. seen' \in [free : [Assets -> Nat], locked : [Assets -> Nat]]
  BY <1>1, <1>5 DEF ShareFramed
<1>9. /\ turn' \in {"idle", "synced", "checked"} /\ recon' \in {"ok", "mismatch"}
      /\ stage' \in {"idle", "book", "account", "fenced"}
  BY <1>2 DEF ShareFramed
<1>10. QED
  BY <1>6, <1>7, <1>8, <1>9, Zenon DEF ShareFramed

\* The types of SharedAccount hold: no balance, book or fence is ever negative.
LEMMA ShareTypesHold == ShareSpec => []ShareTypes
<1>1. AccountHolds /\ ShareFramed /\ [ShareNext]_shareVars => AccountHolds'
  <2> SUFFICES ASSUME AccountHolds, ShareFramed, [ShareNext]_shareVars PROVE AccountHolds'
    OBVIOUS
  <2>1. CASE SyncOrders
    BY <2>1, SyncKeepsAccount
  <2>2. CASE SendOrder
    BY <2>2, SendKeepsAccount
  <2>3. CASE OrderFills
    BY <2>3, FillKeepsAccount
  <2>4. CASE ReadClaim
    BY <2>4, ClaimKeepsAccount
  <2>5. CASE SkillsTrade
    BY <2>5, TradeKeepsAccount
  <2>6. CASE Reconcile \/ EndCycle \/ ReadBook \/ ReadAccount \/ SkillsDone \/ UNCHANGED shareVars
    BY <2>6, OthersKeepAccount, Zenon
  <2>7. QED
    BY <2>1, <2>2, <2>3, <2>4, <2>5, <2>6, Zenon DEF ShareNext
<1>2. AccountHolds /\ ShareFramed => ShareTypes
  <2>1. ASSUME AccountHolds PROVE book \in [Assets -> Nat]
    BY <2>1 DEF AccountHolds, BalancesTyped
  <2>2. QED
    BY <2>1, Zenon DEF AccountHolds, BalancesTyped, ShareFramed, ShareTypes
<1>3. AccountHolds /\ ShareFramed /\ [ShareNext]_shareVars => ShareFramed'
  BY ShareFrameKept
<1>4. QED
  BY AccountStarts, <1>1, <1>2, <1>3, PTL DEF ShareSpec
=============================================================================
