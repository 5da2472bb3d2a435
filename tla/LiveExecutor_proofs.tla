------------------------ MODULE LiveExecutor_proofs ------------------------
(***************************************************************************)
(* What holds of the live executor for every set of orders and pairs, any *)
(* quantity and qty_step, however commands overlap cycles and wherever the *)
(* process dies: types, and that no order that can still trade is given up *)
(* (WatchInv), from which a sell is sent only when it stands alone; then   *)
(* the books: what cannot be lost (BookInv), what is booked exactly once   *)
(* and only out of what was bought (Exact, LedgerIsTable) while one task   *)
(* resolves orders at a time and fills are written whole, and what         *)
(* protects a position (Guarded).                                          *)
(***************************************************************************)
EXTENDS LiveExecutor, SetSums, TLAPS

\* round_qty leaves a quantity natural, and never above what was asked.
LEMMA RoundDownNat ==
  ASSUME NEW q \in Nat
  PROVE  RoundDown(q) \in Nat /\ RoundDown(q) <= q
<1>1. Step \in Nat /\ Step > 0
  BY QtyAssumption
<1>2. q % Step \in Nat /\ q % Step <= q
  BY <1>1, SMTT(60)
<1>3. QED
  BY <1>2 DEF RoundDown

\* filled_for credits a natural quantity, at most the row's.
LEMMA FilledForNat ==
  ASSUME NEW s \in ExchType \cup ReplyType, NEW q \in Nat
  PROVE  FilledFor(s, q) \in Nat /\ FilledFor(s, q) <= q
<1>1. s.done \in Nat
  BY DEF ExchType, ReplyType
<1>2. RoundDown(s.done) \in Nat
  BY <1>1, RoundDownNat
<1>3. QED
  BY <1>2 DEF FilledFor, Least

\* The types hold before the first cycle.
LEMMA InitTypeOK == Init => TypeOK
  BY QtyAssumption DEF Init, TypeOK, ExchType, RowType, RowStatus, NoRow, Open, Resolved, ReplyType, NoReply,
     Places, Returns, Awaiting, Running

\* What a task works on, and what it has been told, has a type.
LEMMA CumulativeNat ==
  ASSUME TypeOK, NEW t \in Tasks
  PROVE  Cumulative(t) \in Nat /\ Fresh(t) \in Int
<1>1. /\ reply[t] \in ReplyType
      /\ reply[t].done \in Nat
      /\ seen[t].qty \in Nat
      /\ seen[t].filled \in Nat
  BY DEF TypeOK, ReplyType, RowType
<1>2. FilledFor(reply[t], seen[t].qty) \in Nat
  BY <1>1, FilledForNat
<1>3. QED
  BY <1>1, <1>2 DEF Cumulative, Fresh

\* _apply_state writes an open or a resolved status.
LEMMA StatusForType ==
  ASSUME NEW st, NEW c \in Nat
  PROVE  StatusFor(st, c) \in Open \cup Resolved
  BY DEF StatusFor, Open, Resolved

\* Looking an order up, booking and cancelling keep the types: a sell books at
\* most what is held.
LEMMA ResolvingTypeOK ==
  ASSUME TypeOK, WorksOnRows, NEW t \in Tasks, Resolving(t)
  PROVE  TypeOK'
<1> USE DEF TypeOK
<1>0. pc[t] \in Working => cur[t] \in Orders
  BY DEF WorksOnRows
<1> USE DEF Goto, Places, Returns, Awaiting, Running, Working, external, tables, ledger, ages
<1>1. CASE LookupAnswered(t)
  BY <1>0, <1>1 DEF LookupAnswered, ExchType, ReplyType
<1>2. CASE LookupFails(t)
  BY <1>2 DEF LookupFails, Return, RowType, RowStatus, NoRow, NoReply, ReplyType
<1>3. CASE NotFound(t)
  <2>1. cur[t] \in Orders
    BY <1>0, <1>3 DEF NotFound
  <2>2. row' \in [Orders -> RowType]
    <3>1. CASE GivenUp(t)
      BY <1>3, <2>1, <3>1 DEF NotFound, RowType, RowStatus
    <3>2. CASE ~GivenUp(t)
      BY <1>3, <3>2 DEF NotFound
    <3> QED
      BY <3>1, <3>2
  <2>3. /\ Return(t)
        /\ UNCHANGED <<external, trades, booked, saved, stoplosses, ledger, ages, crashes>>
    BY <1>3 DEF NotFound
  <2>4. NoRow \in RowType /\ NoReply \in ReplyType
    BY DEF RowType, RowStatus, NoRow, NoReply, ReplyType
  <2>5. QED
    BY <2>2, <2>3, <2>4 DEF Return
<1>4. CASE BookFill(t)
  BY <1>0, <1>4, CumulativeNat, OrdersAssumption
     DEF BookFill, HasFillToBook, FillQty, Bookable, Least, Orders
<1>5. CASE NothingToBook(t)
  BY <1>5 DEF NothingToBook
<1>6. CASE RecordStoploss(t)
  BY <1>0, <1>6, OrdersAssumption DEF RecordStoploss
<1>7. CASE SaveStops(t)
  BY <1>7 DEF SaveStops, Stopped
<1>8. CASE UpdateRow(t)
  <2>1. cur[t] \in Orders /\ Cumulative(t) \in Nat /\ seen[t].filled \in Nat
    BY <1>0, <1>8, CumulativeNat DEF UpdateRow, RowType
  <2>2. StatusFor(reply[t].st, Cumulative(t)) \in RowStatus
    BY <2>1, StatusForType DEF RowStatus
  <2> DEFINE c == Cumulative(t)
             st == StatusFor(reply[t].st, c)
             filled == IF c >= seen[t].filled THEN c ELSE seen[t].filled
  <2>3. row' = [row EXCEPT ![cur[t]].status = st, ![cur[t]].filled = filled]
    BY <1>8 DEF UpdateRow
  <2>4. st \in RowStatus /\ filled \in Nat
    BY <2>1, <2>2
  <2> HIDE DEF c, st, filled
  <2>5. row' \in [Orders -> RowType]
    BY <2>1, <2>3, <2>4, SMTT(60) DEF RowType
  <2>6. QED
    BY <1>8, <2>5, SMTT(60) DEF UpdateRow, Return, RowType, RowStatus, NoRow, NoReply, ReplyType
<1>9. CASE CancelAnswered(t)
  BY <1>0, <1>9, SMTT(60) DEF CancelAnswered, Resolve, ExchType
<1>10. CASE CancelFails(t)
  BY <1>10 DEF CancelFails
<1>11. QED
  BY <1>1, <1>2, <1>3, <1>4, <1>5, <1>6, <1>7, <1>8, <1>9, <1>10 DEF Resolving

\* The exchange, the network and time keep the types.
LEMMA EnvironmentTypeOK ==
  ASSUME TypeOK, Environment \/ Aging
  PROVE  TypeOK'
<1> USE DEF TypeOK, control, external, tables, ledger, ages
<1>1. ASSUME NEW o \in Orders, Arrive(o)
      PROVE  TypeOK'
  BY <1>1 DEF Arrive, ExchType, RowType
<1>2. ASSUME NEW o \in Orders, Drop(o)
      PROVE  TypeOK'
  BY <1>2 DEF Drop
<1>3. ASSUME NEW o \in Orders, Match(o)
      PROVE  TypeOK'
  BY <1>3 DEF Match, ExchType, RowType
<1>4. ASSUME NEW o \in Orders, CancelledElsewhere(o)
      PROVE  TypeOK'
  BY <1>4 DEF CancelledElsewhere, ExchType
<1>5. ASSUME NEW o \in Orders, Expire(o) \/ BecomeOverdue(o)
      PROVE  TypeOK'
  BY <1>5 DEF Expire, BecomeOverdue
<1>6. QED
  BY <1>1, <1>2, <1>3, <1>4, <1>5 DEF Environment, Aging

\* execute keeps the types: what it submits has a row and a natural quantity.
LEMMA ExecutingTypeOK ==
  ASSUME TypeOK, WorksOnRows, Executing
  PROVE  TypeOK'
<1> USE DEF TypeOK, Tasks, Goto, Places, Returns, Awaiting, Running, external, tables, ledger, ages
<1>1. ASSUME NEW o \in Orders, ExecuteBuy(o)
      PROVE  TypeOK'
  BY <1>1, QtyAssumption DEF ExecuteBuy, Submit, RowType, RowStatus, Open
<1>2. ASSUME NEW o \in Orders, ExecuteSell(o)
      PROVE  TypeOK'
  BY <1>2 DEF ExecuteSell
<1>3. CASE ReplaceNext
  BY <1>3 DEF ReplaceNext
<1>4. CASE SubmitSell
  <2>1. decision \in Sells /\ decision \in Orders
    BY <1>4 DEF SubmitSell, WorksOnRows, Orders
  <2>2. Least(Qty[decision], held[PairOf[decision]]) \in Nat
    BY <2>1, OrdersAssumption, QtyAssumption DEF Least
  <2>3. SellQty(decision) \in Nat
    BY <2>2, RoundDownNat DEF SellQty
  <2>4. QED
    BY <1>4, <2>1, <2>3 DEF SubmitSell, Submit, RowType, RowStatus, Open
<1>5. CASE GiveUpSell
  BY <1>5 DEF GiveUpSell
<1>6. CASE SubmitAcked
  <2>1. cur["cycle"] \in Orders
    BY <1>6 DEF SubmitAcked, WorksOnRows, Working
  <2>2. row' \in [Orders -> RowType]
    BY <1>6, <2>1, SMTT(60) DEF SubmitAcked, RowType, RowStatus, Open
  <2>3. PICK k \in 0..exch[cur["cycle"]].done :
          IF k > 0
            THEN /\ reply' = [reply EXCEPT !["cycle"] = [st |-> "ack", done |-> k]]
                 /\ Goto("cycle", "acked")
                 /\ UNCHANGED <<cur, seen, back>>
            ELSE /\ Resolve("cycle", cur["cycle"], row'[cur["cycle"]], "decide")
                 /\ UNCHANGED reply
    BY <1>6 DEF SubmitAcked
  <2>4. k \in Nat
    BY <2>1, <2>3 DEF ExchType
  <2>5. /\ UNCHANGED <<external, trades, booked, saved, stoplosses, ledger, ages,
                 todo, decision, crashes>>
    BY <1>6 DEF SubmitAcked
  <2>6. CASE k > 0
    BY <2>2, <2>3, <2>4, <2>5, <2>6 DEF ReplyType
  <2>7. CASE ~(k > 0)
    BY <2>1, <2>2, <2>3, <2>5, <2>7 DEF Resolve
  <2>8. QED
    BY <2>6, <2>7
<1>7. CASE UpdateAckedRow
  <2>1. cur["cycle"] \in Orders
    BY <1>7 DEF UpdateAckedRow, WorksOnRows, Working
  <2>2. reply["cycle"].done \in Nat
    BY DEF ReplyType
  <2>3. row' \in [Orders -> RowType]
    BY <1>7, <2>1, <2>2, SMTT(60) DEF UpdateAckedRow, RowType
  <2>4. QED
    BY <1>7, <2>1, <2>3, SMTT(60) DEF UpdateAckedRow, Resolve, NoReply, ReplyType
<1>8. CASE SubmitRefused
  BY <1>8, SMTT(60) DEF SubmitRefused, RowType, RowStatus
<1>9. CASE SubmitUnknown
  <2>1. cur["cycle"] \in Orders
    BY <1>9 DEF SubmitUnknown, WorksOnRows, Working
  <2>2. QED
    BY <1>9, <2>1 DEF SubmitUnknown, Resolve
<1>10. QED
  BY <1>1, <1>2, <1>3, <1>4, <1>5, <1>6, <1>7, <1>8, <1>9 DEF Executing

\* Every step keeps the types.
LEMMA StepTypeOK ==
  ASSUME TypeOK, WorksOnRows, [Next]_vars
  PROVE  TypeOK'
<1> USE DEF TypeOK
<1>1. CASE Environment \/ Aging
  BY <1>1, EnvironmentTypeOK
<1>2. ASSUME NEW t \in Tasks, Resolving(t)
      PROVE  TypeOK'
  BY <1>2, ResolvingTypeOK
<1>3. CASE Executing
  BY <1>3, ExecutingTypeOK
<1>4. CASE CycleStart \/ SyncNext \/ TtlCancel \/ SyncDone \/ CycleEnd
  <2> USE DEF Tasks, Goto, Places, Returns, Awaiting, Running, external, tables, ledger, ages
  <2>1. CASE CycleStart
    BY <2>1 DEF CycleStart, Resting
  <2>2. CASE SyncNext
    BY <2>2 DEF SyncNext, Resolve
  <2>3. CASE TtlCancel
    BY <2>3 DEF TtlCancel
  <2>4. CASE SyncDone
    BY <2>4 DEF SyncDone
  <2>5. CASE CycleEnd
    BY <2>5 DEF CycleEnd, Finish, Stopped
  <2>6. QED
    BY <1>4, <2>1, <2>2, <2>3, <2>4, <2>5
<1>5. CASE Command
  <2> USE DEF Tasks, Goto, Places, Returns, Awaiting, Running, external, tables, ledger, ages
  <2>1. CASE CommandStart
    BY <2>1 DEF CommandStart
  <2>2. CASE CancelAllNext
    BY <2>2 DEF CancelAllNext
  <2>3. CASE CommandEnd
    BY <2>3 DEF CommandEnd, Finish
  <2>4. QED
    BY <1>5, <2>1, <2>2, <2>3 DEF Command
<1>6. CASE Crash
  BY <1>6, FaultAssumption DEF Crash, Stopped, Places, Returns, NoRow, NoReply, RowType, RowStatus, ReplyType,
       external, tables, ages
<1>7. CASE UNCHANGED vars
  BY <1>7 DEF vars, external, tables, ledger, ages, control
<1>8. QED
  BY <1>1, <1>2, <1>3, <1>4, <1>5, <1>6, <1>7 DEF Next, Cycle

\* A task that returns from _resolve, having written the status of its order,
\* works on rows and on answers that hold as before.
LEMMA ReturnKeepsWatch ==
  ASSUME TypeOK, Watch, NEW t \in Tasks, pc[t] \in {"lookup", "answered", "row"}, Return(t),
         UNCHANGED <<exch, wire, overdue>>,
         \A o \in Orders : \/ row'[o].status = row[o].status
                           \/ o = cur[t] /\ row'[o].status \notin {"NONE", "PENDING_SUBMIT"}
  PROVE  WorksOnRows' /\ CommandWorksOnIds' /\ SubmittedOnce' /\ AnswersHold'
<1>1. /\ pc' = [pc EXCEPT ![t] = back[t]]
      /\ seen' = [seen EXCEPT ![t] = NoRow]
      /\ reply' = [reply EXCEPT ![t] = NoReply]
      /\ UNCHANGED <<exch, wire, overdue, cur, todo, back, decision>>
  BY DEF Return, Goto
<1>2. WorksOnRows /\ CommandWorksOnIds /\ SubmittedOnce /\ AnswersHold
  BY DEF Watch
<1>3. /\ pc \in [Tasks -> Places] /\ back \in [Tasks -> Returns] /\ cur \in [Tasks -> Orders \cup {NoOrder}]
      /\ todo \in [Tasks -> SUBSET Orders] /\ decision \in Sells \cup {NoOrder}
      /\ seen \in [Tasks -> RowType] /\ reply \in [Tasks -> ReplyType]
      /\ Sells \subseteq Orders
  BY DEF TypeOK, Orders
<1>4. cur[t] \in Orders /\ row[cur[t]].status # "NONE"
  BY <1>2 DEF WorksOnRows, Working
<1>5. \A o \in Orders : /\ row[o].status # "NONE" => row'[o].status # "NONE"
                        /\ row[o].status = "NONE" => row'[o].status = "NONE"
                        /\ row[o].status # "PENDING_SUBMIT" => row'[o].status # "PENDING_SUBMIT"
  BY <1>4
<1>6. \A u \in Tasks : pc'[u] = IF u = t THEN back[t] ELSE pc[u]
  BY <1>1, <1>3
<1>7. \A u \in Tasks : pc'[u] \in Working => (u # t /\ pc[u] \in Working) \/ (u = t /\ back[t] = "ttl")
  <2>1. back[t] \in Working => back[t] = "ttl"
    BY <1>3 DEF Working, Returns
  <2>2. QED
    BY <1>6, <2>1, Zenon
<1>8. WorksOnRows'
  <2>1. \A u \in Tasks : pc'[u] \in Working => cur[u] \in Orders /\ row'[cur[u]].status # "NONE"
    BY <1>2, <1>4, <1>5, <1>7 DEF WorksOnRows
  <2>2. \A u \in Tasks : \A o \in todo[u] : row'[o].status # "NONE"
    BY <1>2, <1>3, <1>5 DEF WorksOnRows
  <2>3. pc'["cycle"] = "replace" \/ back["cycle"] = "replace" =>
          decision \in Sells /\ row'[decision].status = "NONE"
    <3>1. pc'["cycle"] = "replace" => pc["cycle"] = "replace" \/ back["cycle"] = "replace"
      BY <1>6 DEF Tasks
    <3>2. pc["cycle"] = "replace" \/ back["cycle"] = "replace" =>
            decision \in Orders /\ decision \in Sells /\ row[decision].status = "NONE"
      BY <1>2, <1>3 DEF WorksOnRows
    <3>3. QED
      BY <1>5, <3>1, <3>2, Zenon
  <2>4. QED
    BY <1>1, <2>1, <2>2, <2>3 DEF WorksOnRows
<1>9. CommandWorksOnIds'
  <2>1. pc["command"] \in Working => cur["command"] \in Orders
    BY <1>2 DEF WorksOnRows, Tasks
  <2>2. pc'["command"] \in Working => pc["command"] \in Working
    BY <1>7 DEF Working, Tasks
  <2>3. pc'["command"] \in Working => row'[cur["command"]].status # "PENDING_SUBMIT"
    BY <1>2, <1>5, <2>1, <2>2 DEF CommandWorksOnIds
  <2>4. seen'["command"].status # "PENDING_SUBMIT"
    BY <1>1, <1>2, <1>3 DEF CommandWorksOnIds, NoRow, Tasks
  <2>5. \A o \in todo["command"] : row'[o].status # "PENDING_SUBMIT"
    BY <1>2, <1>3, <1>5 DEF CommandWorksOnIds, Tasks
  <2>6. QED
    BY <1>1, <2>3, <2>4, <2>5 DEF CommandWorksOnIds
<1>10. SubmittedOnce'
  BY <1>1, <1>2, <1>5 DEF SubmittedOnce
<1>11. AnswersHold'
  <2>1. \A u \in Tasks : reply'[u].st = IF u = t THEN "none" ELSE reply[u].st
    BY <1>1, <1>3 DEF NoReply
  <2>2. \A u \in Tasks : reply'[u].st # "none" => pc'[u] \in Answered
    BY <1>2, <1>6, <2>1 DEF AnswersHold
  <2>3. \A u \in Tasks : reply'[u].st \in {"filled", "cancelled"} => exch[cur[u]].st = reply'[u].st
    BY <1>2, <2>1 DEF AnswersHold
  <2>4. pc'["cycle"] = "answered" => t # "cycle"
    BY <1>3, <1>6 DEF Returns
  <2>5. pc'["cycle"] = "answered" /\ reply'["cycle"].st = "none" /\ cur["cycle"] \in overdue =>
          exch[cur["cycle"]].st = "none"
    BY <1>2, <1>6, <2>1, <2>4 DEF AnswersHold, Tasks
  <2>6. QED
    BY <1>1, <2>2, <2>3, <2>5 DEF AnswersHold
<1>12. QED
  BY <1>8, <1>9, <1>10, <1>11

\* The invariant that watches over open orders: what a step of each kind does to it.
LEMMA WatchStep ==
  ASSUME TypeOK, Watch, [Next]_vars
  PROVE  Watch'
<1> USE OrdersAssumption
    DEF TypeOK, Watch, WorksOnRows, CommandWorksOnIds, SubmittedOnce, AnswersHold,
        RejectedNeverLive, ClosedRowIsClosed, Working, Answered, Tasks, Returns, Goto,
        Orders, Open, HasId, ExchType, RowType, ReplyType,
        external, tables, ledger, ages, control
<1>1. ASSUME NEW o \in Orders, Arrive(o)
      PROVE  Watch'
  \* An order arrives once: its row is open, and it is not overdue.
  BY <1>1 DEF Arrive
<1>2. ASSUME NEW o \in Orders, Drop(o)
      PROVE  Watch'
  BY <1>2, SMTT(60) DEF Drop
<1>3. ASSUME NEW o \in Orders, Match(o)
      PROVE  Watch'
  BY <1>3, SMTT(60) DEF Match
<1>4. ASSUME NEW o \in Orders, CancelledElsewhere(o)
      PROVE  Watch'
  BY <1>4 DEF CancelledElsewhere
<1>5. ASSUME NEW o \in Orders, Expire(o)
      PROVE  Watch'
  BY <1>5 DEF Expire
<1>6. ASSUME NEW o \in Orders, BecomeOverdue(o)
      PROVE  Watch'
  \* An overdue order is not on the wire.
  BY <1>6 DEF BecomeOverdue
<1>7. ASSUME NEW t \in Tasks, LookupAnswered(t)
      PROVE  Watch'
  BY <1>7, SMTT(60) DEF LookupAnswered
<1>8. ASSUME NEW t \in Tasks, LookupFails(t)
      PROVE  Watch'
  BY <1>8 DEF LookupFails, Return, NoRow, NoReply
<1>9. ASSUME NEW t \in Tasks, NotFound(t)
      PROVE  Watch'
  \* Only the cycle gives an order up: it asked when the order was overdue
  \* already, so what the exchange answered is still true.
  <2> HIDE OrdersAssumption
      DEF TypeOK, Watch, WorksOnRows, CommandWorksOnIds, SubmittedOnce, AnswersHold,
          RejectedNeverLive, ClosedRowIsClosed, Working, Answered, Tasks, Returns, Goto,
          Orders, Open, HasId, ExchType, RowType, ReplyType,
          external, tables, ledger, ages, control
  <2>1. /\ pc[t] = "answered" /\ reply[t].st = "none" /\ Return(t)
        /\ UNCHANGED <<exch, wire, overdue>>
    BY <1>9, Zenon DEF NotFound, external, ages
  <2>2. cur[t] \in Orders /\ row \in [Orders -> RowType]
    BY <2>1 DEF Watch, WorksOnRows, Working, TypeOK
  <2>3. \A o \in Orders : row'[o].status = IF GivenUp(t) /\ o = cur[t] THEN "REJECTED" ELSE row[o].status
    BY <1>9, <2>2 DEF NotFound, RowType
  <2>4. WorksOnRows' /\ CommandWorksOnIds' /\ SubmittedOnce' /\ AnswersHold'
    <3>1. \A o \in Orders : \/ row'[o].status = row[o].status
                            \/ o = cur[t] /\ row'[o].status \notin {"NONE", "PENDING_SUBMIT"}
      BY <2>3
    <3>2. pc[t] \in {"lookup", "answered", "row"}
      BY <2>1
    <3>3. QED
      BY <2>1, <3>1, <3>2, ReturnKeepsWatch, Zenon
  <2>5. GivenUp(t) => exch[cur[t]].st = "none" /\ cur[t] \notin wire
    <3>1. GivenUp(t) => t = "cycle" /\ cur[t] \in overdue
      BY DEF GivenUp, Watch, CommandWorksOnIds, Tasks
    <3>2. QED
      BY <2>1, <2>2, <3>1 DEF Watch, AnswersHold, SubmittedOnce
  <2>6. RejectedNeverLive'
    BY <2>1, <2>3, <2>5 DEF Watch, RejectedNeverLive
  <2>7. ClosedRowIsClosed'
    BY <2>1, <2>3 DEF Watch, ClosedRowIsClosed
  <2>8. QED
    BY <2>4, <2>6, <2>7 DEF Watch
<1>10. ASSUME NEW t \in Tasks, BookFill(t)
       PROVE  Watch'
  <2>1. /\ pc[t] \in {"answered", "acked"}
        /\ pc' = [pc EXCEPT ![t] = IF cur[t] \in StopExits THEN "stoploss" ELSE "stops"]
        /\ UNCHANGED <<exch, wire, row, overdue, cur, todo, seen, reply, back, decision>>
    BY <1>10, Zenon DEF BookFill, HasFillToBook
  <2>2. \A u \in Tasks : IF u = t THEN pc'[u] \in {"stoploss", "stops"} ELSE pc'[u] = pc[u]
    BY <2>1
  <2>3. \A u \in Tasks : /\ pc'[u] \in Working <=> pc[u] \in Working
                         /\ pc'[u] \in Answered <=> pc[u] \in Answered
                         /\ pc'[u] \in {"answered", "replace"} => pc[u] = pc'[u]
    BY <2>1, <2>2
  <2> HIDE OrdersAssumption
      DEF TypeOK, Working, Answered, Returns, Goto, Orders, Open, HasId, ExchType, RowType, ReplyType,
          external, tables, ledger, ages, control
  <2>4. QED
    BY <2>1, <2>3
<1>11. ASSUME NEW t \in Tasks, NothingToBook(t)
       PROVE  Watch'
  BY <1>11 DEF NothingToBook, HasFillToBook
<1>12. ASSUME NEW t \in Tasks, RecordStoploss(t)
       PROVE  Watch'
  BY <1>12, SMTT(60) DEF RecordStoploss
<1>13. ASSUME NEW t \in Tasks, SaveStops(t)
       PROVE  Watch'
  BY <1>13, SMTT(60) DEF SaveStops
<1>14. ASSUME NEW t \in Tasks, UpdateRow(t)
       PROVE  Watch'
  \* A closed order stays closed, so the row may say so.
  <2> HIDE OrdersAssumption
      DEF TypeOK, Watch, WorksOnRows, CommandWorksOnIds, SubmittedOnce, AnswersHold,
          RejectedNeverLive, ClosedRowIsClosed, Working, Answered, Tasks, Returns, Goto,
          Orders, Open, HasId, ExchType, RowType, ReplyType,
          external, tables, ledger, ages, control
  <2>1. pc[t] = "row" /\ Return(t) /\ UNCHANGED <<exch, wire, overdue>>
    BY <1>14, Zenon DEF UpdateRow, external, ages
  <2>2. cur[t] \in Orders
    BY <2>1 DEF Watch, WorksOnRows, Working
  <2>3. PICK st \in {"NEW", "PARTIALLY_FILLED", "FILLED", "CANCELLED"} :
          /\ \A o \in Orders : row'[o].status = IF o = cur[t] THEN st ELSE row[o].status
          /\ st = "FILLED" => reply[t].st = "filled"
          /\ st = "CANCELLED" => reply[t].st = "cancelled"
    BY <1>14, <2>2 DEF UpdateRow, StatusFor, TypeOK, RowType
  <2>4. WorksOnRows' /\ CommandWorksOnIds' /\ SubmittedOnce' /\ AnswersHold'
    <3>1. \A o \in Orders : \/ row'[o].status = row[o].status
                            \/ o = cur[t] /\ row'[o].status \notin {"NONE", "PENDING_SUBMIT"}
      BY <2>3
    <3>2. pc[t] \in {"lookup", "answered", "row"}
      BY <2>1
    <3>3. QED
      BY <2>1, <3>1, <3>2, ReturnKeepsWatch, Zenon
  <2>5. RejectedNeverLive'
    BY <2>1, <2>3 DEF Watch, RejectedNeverLive
  <2>6. exch[cur[t]].st = reply[t].st \/ reply[t].st \notin {"filled", "cancelled"}
    BY DEF Watch, AnswersHold
  <2>7. ClosedRowIsClosed'
    BY <2>1, <2>3, <2>6 DEF Watch, ClosedRowIsClosed
  <2>8. QED
    BY <2>4, <2>5, <2>7 DEF Watch
<1>15. ASSUME NEW t \in Tasks, CancelAnswered(t)
       PROVE  Watch'
  <2> HIDE OrdersAssumption
      DEF TypeOK, Watch, WorksOnRows, CommandWorksOnIds, SubmittedOnce, AnswersHold,
          RejectedNeverLive, ClosedRowIsClosed, Working, Answered, Tasks, Returns, Goto,
          Orders, Open, HasId, ExchType, RowType, ReplyType,
          external, tables, ledger, ages, control
  <2>1. /\ pc[t] = "cancel"
        /\ exch' = IF exch[cur[t]].st = "open" THEN [exch EXCEPT ![cur[t]].st = "cancelled"] ELSE exch
        /\ pc' = [pc EXCEPT ![t] = "lookup"]
        /\ cur' = [cur EXCEPT ![t] = cur[t]]
        /\ seen' = [seen EXCEPT ![t] = row[cur[t]]]
        /\ back' = [back EXCEPT ![t] = back[t]]
        /\ UNCHANGED <<wire, row, overdue, todo, reply, decision>>
    BY <1>15 DEF CancelAnswered, Resolve, Goto, tables, ages
  <2>2. /\ WorksOnRows /\ CommandWorksOnIds /\ SubmittedOnce /\ AnswersHold
        /\ RejectedNeverLive /\ ClosedRowIsClosed
    BY DEF Watch
  <2>3. /\ pc \in [Tasks -> Places] /\ back \in [Tasks -> Returns] /\ cur \in [Tasks -> Orders \cup {NoOrder}]
        /\ seen \in [Tasks -> RowType] /\ exch \in [Orders -> ExchType]
    BY DEF TypeOK
  <2>4. cur' = cur /\ back' = back /\ cur[t] \in Orders
    BY <2>1, <2>2, <2>3 DEF WorksOnRows, Working
  <2>5. /\ pc'[t] = "lookup" /\ seen'[t] = row[cur[t]]
        /\ \A u \in Tasks : u # t => pc'[u] = pc[u] /\ seen'[u] = seen[u]
    BY <2>1, <2>3
  <2>6. \A o \in Orders : exch'[o].st = IF o = cur[t] /\ exch[o].st = "open" THEN "cancelled" ELSE exch[o].st
    BY <2>1, <2>3, <2>4 DEF ExchType
  <2>7. \A u \in Tasks : pc'[u] \in Working <=> pc[u] \in Working
    BY <2>1, <2>5 DEF Working
  <2>8. WorksOnRows'
    <3>1. pc'["cycle"] = "replace" => pc["cycle"] = "replace"
      BY <2>5 DEF Tasks
    <3>2. QED
      BY <2>1, <2>2, <2>4, <2>7, <3>1 DEF WorksOnRows
  <2>9. CommandWorksOnIds'
    <3>1. t = "command" => row[cur["command"]].status # "PENDING_SUBMIT"
      BY <2>1, <2>2 DEF CommandWorksOnIds, Working
    <3>2. seen'["command"].status # "PENDING_SUBMIT"
      BY <2>2, <2>5, <3>1 DEF CommandWorksOnIds, Tasks
    <3>3. pc'["command"] \in Working => pc["command"] \in Working
      BY <2>7 DEF Tasks
    <3>4. QED
      BY <2>1, <2>2, <2>4, <3>2, <3>3 DEF CommandWorksOnIds
  <2>10. SubmittedOnce'
    BY <2>1, <2>2, <2>6 DEF SubmittedOnce
  <2>11. AnswersHold'
    <3>1. reply[t].st = "none"
      BY <2>1, <2>2 DEF AnswersHold, Answered
    <3>2. \A u \in Tasks : reply[u].st # "none" => pc'[u] \in Answered
      BY <2>2, <2>5, <3>1 DEF AnswersHold
    <3>3. ASSUME NEW u \in Tasks, reply[u].st \in {"filled", "cancelled"}
          PROVE  exch'[cur[u]].st = reply[u].st
      <4>1. exch[cur[u]].st = reply[u].st
        BY <2>2, <3>3 DEF AnswersHold
      <4>2. cur[u] \in Orders
        BY <2>2, <3>3 DEF AnswersHold, WorksOnRows, Working, Answered
      <4>3. QED
        BY <2>6, <3>3, <4>1, <4>2
    <3>4. ASSUME pc'["cycle"] = "answered", reply["cycle"].st = "none", cur["cycle"] \in overdue
          PROVE  exch'[cur["cycle"]].st = "none"
      <4>1. pc["cycle"] = "answered"
        BY <2>5, <3>4 DEF Tasks
      <4>2. cur["cycle"] \in Orders
        BY <2>2, <4>1 DEF WorksOnRows, Working, Tasks
      <4>3. exch[cur["cycle"]].st = "none"
        BY <2>2, <3>4, <4>1 DEF AnswersHold
      <4>4. QED
        BY <2>6, <4>2, <4>3
    <3>5. QED
      BY <2>1, <2>4, <3>2, <3>3, <3>4, Zenon DEF AnswersHold
  <2>12. RejectedNeverLive' /\ ClosedRowIsClosed'
    BY <2>1, <2>2, <2>6 DEF RejectedNeverLive, ClosedRowIsClosed
  <2>13. QED
    BY <2>8, <2>9, <2>10, <2>11, <2>12 DEF Watch
<1>16. ASSUME NEW t \in Tasks, CancelFails(t)
       PROVE  Watch'
  BY <1>16 DEF CancelFails
<1>17. ASSUME NEW o \in Orders, ExecuteBuy(o)
       PROVE  Watch'
  BY <1>17, SMTT(60) DEF ExecuteBuy, Submit
<1>18. ASSUME NEW o \in Orders, ExecuteSell(o)
       PROVE  Watch'
  BY <1>18, SMTT(60) DEF ExecuteSell
<1>19. CASE ReplaceNext
  BY <1>19, SMTT(60) DEF ReplaceNext
<1>20. CASE SubmitSell
  \* The sell in hand has no row, so it was never submitted.
  BY <1>20, SMTT(60) DEF SubmitSell, Submit
<1>21. CASE GiveUpSell
  BY <1>21 DEF GiveUpSell
<1>22. CASE SubmitAcked
  BY <1>22, SMTT(60) DEF SubmitAcked, Resolve
<1>23. CASE UpdateAckedRow
  <2> HIDE OrdersAssumption
      DEF TypeOK, Watch, WorksOnRows, CommandWorksOnIds, SubmittedOnce, AnswersHold,
          RejectedNeverLive, ClosedRowIsClosed, Working, Answered, Tasks, Returns, Goto,
          Orders, Open, HasId, ExchType, RowType, ReplyType,
          external, tables, ledger, ages, control
  <2> DEFINE o == cur["cycle"]
  <2>1. /\ pc["cycle"] = "ackrow"
        /\ row' = [row EXCEPT ![o].filled = reply["cycle"].done]
        /\ pc' = [pc EXCEPT !["cycle"] = "lookup"]
        /\ cur' = [cur EXCEPT !["cycle"] = o]
        /\ seen' = [seen EXCEPT !["cycle"] = row'[o]]
        /\ back' = [back EXCEPT !["cycle"] = "decide"]
        /\ reply' = [reply EXCEPT !["cycle"] = NoReply]
        /\ UNCHANGED <<exch, wire, overdue, todo, decision>>
    BY <1>23 DEF UpdateAckedRow, Resolve, Goto, external, ages
  <2>2. /\ WorksOnRows /\ CommandWorksOnIds /\ SubmittedOnce /\ AnswersHold
        /\ RejectedNeverLive /\ ClosedRowIsClosed
    BY DEF Watch
  <2>3. /\ pc \in [Tasks -> Places] /\ back \in [Tasks -> Returns] /\ cur \in [Tasks -> Orders \cup {NoOrder}]
        /\ seen \in [Tasks -> RowType] /\ row \in [Orders -> RowType] /\ reply \in [Tasks -> ReplyType]
        /\ todo \in [Tasks -> SUBSET Orders] /\ decision \in Sells \cup {NoOrder} /\ Sells \subseteq Orders
    BY DEF TypeOK, Orders
  <2>4. cur' = cur /\ o \in Orders
    BY <2>1, <2>2, <2>3 DEF WorksOnRows, Working, Tasks
  <2>5. \A x \in Orders : row'[x].status = row[x].status
    BY <2>1, <2>3 DEF RowType
  <2>6. /\ pc'["cycle"] = "lookup" /\ reply'["cycle"].st = "none" /\ back'["cycle"] = "decide"
        /\ \A u \in Tasks : u # "cycle" => pc'[u] = pc[u] /\ reply'[u] = reply[u] /\ seen'[u] = seen[u]
    BY <2>1, <2>3 DEF Tasks, NoReply
  <2>7. \A u \in Tasks : pc'[u] \in Working <=> pc[u] \in Working
    BY <2>1, <2>6 DEF Working
  <2>8. WorksOnRows'
    <3>1. \A u \in Tasks : pc'[u] \in Working => cur[u] \in Orders /\ row'[cur[u]].status # "NONE"
      BY <2>2, <2>5, <2>7 DEF WorksOnRows
    <3>2. \A u \in Tasks : \A x \in todo[u] : row'[x].status # "NONE"
      BY <2>2, <2>3, <2>5 DEF WorksOnRows
    <3>3. QED
      BY <2>1, <2>4, <2>6, <3>1, <3>2 DEF WorksOnRows
  <2>9. CommandWorksOnIds'
    <3>1. pc'["command"] \in Working => pc["command"] \in Working /\ cur["command"] \in Orders
      BY <2>2, <2>7 DEF WorksOnRows, Tasks
    <3>2. pc'["command"] \in Working => row'[cur["command"]].status # "PENDING_SUBMIT"
      BY <2>2, <2>5, <3>1 DEF CommandWorksOnIds
    <3>3. \A x \in todo["command"] : row'[x].status # "PENDING_SUBMIT"
      BY <2>2, <2>3, <2>5 DEF CommandWorksOnIds, Tasks
    <3>4. seen'["command"].status # "PENDING_SUBMIT"
      BY <2>2, <2>6 DEF CommandWorksOnIds, Tasks
    <3>5. QED
      BY <2>1, <2>4, <3>2, <3>3, <3>4 DEF CommandWorksOnIds
  <2>10. SubmittedOnce' /\ RejectedNeverLive' /\ ClosedRowIsClosed'
    BY <2>1, <2>2, <2>5 DEF SubmittedOnce, RejectedNeverLive, ClosedRowIsClosed
  <2>11. AnswersHold'
    <3>1. \A u \in Tasks : reply'[u].st # "none" => u # "cycle" /\ reply'[u] = reply[u] /\ pc'[u] = pc[u]
      BY <2>6
    <3>2. QED
      BY <2>1, <2>2, <2>4, <2>6, <3>1 DEF AnswersHold
  <2>12. QED
    BY <2>8, <2>9, <2>10, <2>11 DEF Watch
<1>24. CASE SubmitRefused
  BY <1>24, SMTT(60) DEF SubmitRefused
<1>25. CASE SubmitUnknown
  BY <1>25, SMTT(60) DEF SubmitUnknown, Resolve
<1>26. CASE CycleStart
  BY <1>26, SMTT(60) DEF CycleStart, Resting
<1>27. CASE SyncNext
  BY <1>27, SMTT(60) DEF SyncNext, Resolve
<1>28. CASE TtlCancel
  BY <1>28, SMTT(60) DEF TtlCancel
<1>29. CASE SyncDone
  BY <1>29 DEF SyncDone
<1>30. CASE CycleEnd
  BY <1>30 DEF CycleEnd, Finish
<1>31. CASE CommandStart
  \* A command takes up only orders that have an id.
  BY <1>31, SMTT(60) DEF CommandStart, HasId
<1>32. CASE CancelAllNext
  BY <1>32 DEF CancelAllNext
<1>33. CASE CommandEnd
  BY <1>33 DEF CommandEnd, Finish
<1>34. CASE Crash
  BY <1>34, SMTT(60) DEF Crash, NoRow, NoReply
<1>35. CASE UNCHANGED vars
  BY <1>35 DEF vars
<1>36. QED
  <2> HIDE OrdersAssumption
      DEF TypeOK, Watch, WorksOnRows, CommandWorksOnIds, SubmittedOnce, AnswersHold,
          RejectedNeverLive, ClosedRowIsClosed, Working, Answered, Tasks, Returns, Goto,
          Orders, Open, HasId, ExchType, RowType, ReplyType,
          external, tables, ledger, ages, control
  <2>1. CASE Environment \/ Aging
    BY <2>1, <1>1, <1>2, <1>3, <1>4, <1>5, <1>6 DEF Environment, Aging
  <2>2. ASSUME NEW t \in Tasks, Resolving(t)
        PROVE  Watch'
    BY <2>2, <1>7, <1>8, <1>9, <1>10, <1>11, <1>12, <1>13, <1>14, <1>15, <1>16 DEF Resolving
  <2>3. CASE Executing
    BY <2>3, <1>17, <1>18, <1>19, <1>20, <1>21, <1>22, <1>23, <1>24, <1>25 DEF Executing
  <2>4. CASE Cycle \/ Command \/ Crash \/ UNCHANGED vars
    BY <2>4, <2>3, <1>26, <1>27, <1>28, <1>29, <1>30, <1>31, <1>32, <1>33, <1>34, <1>35
       DEF Cycle, Command
  <2>5. QED
    BY <2>1, <2>2, <2>4 DEF Next

\* Nothing has been submitted before the first cycle.
LEMMA InitWatchInv == Init => WatchInv
  BY InitTypeOK
     DEF Init, WatchInv, Watch, WorksOnRows, CommandWorksOnIds, SubmittedOnce, AnswersHold,
         RejectedNeverLive, ClosedRowIsClosed, Working, Tasks, NoRow, NoReply

\* WatchInv is inductive.
LEMMA StepWatchInv == WatchInv /\ [Next]_vars => WatchInv'
<1> SUFFICES ASSUME WatchInv, [Next]_vars
             PROVE  WatchInv'
  OBVIOUS
<1>1. TypeOK'
  BY StepTypeOK DEF WatchInv, Watch
<1>2. Watch'
  BY <1>1, WatchStep DEF WatchInv
<1>3. QED
  BY <1>1, <1>2 DEF WatchInv

-----------------------------------------------------------------------------
\* The inductive invariant holds whatever orders there are, however commands
\* and cycles overlap and wherever the process dies.
THEOREM WatchInvHolds == Spec => []WatchInv
<1>1. QED
  BY InitWatchInv, StepWatchInv, PTL DEF Spec

\* Every variable of the executor keeps its type; in particular the ledger
\* never holds a negative quantity, whatever is booked twice.
THEOREM TypesHold == Spec => []TypeOK
<1>1. WatchInv => TypeOK
  BY DEF WatchInv
<1>2. QED
  BY <1>1, WatchInvHolds, PTL

\* An order the executor marks REJECTED (execute, _resolve) is not on the
\* exchange and will not get there.
THEOREM RejectedOrdersStayOut == Spec => []RejectedNeverLive
<1>1. WatchInv => RejectedNeverLive
  BY DEF WatchInv, Watch
<1>2. QED
  BY <1>1, WatchInvHolds, PTL

\* A row marked FILLED or CANCELLED (_apply_state) is about an order the
\* exchange has closed: no order that can trade goes unwatched.
THEOREM ClosedRowsAreClosed == Spec => []ClosedRowIsClosed
<1>1. WatchInv => ClosedRowIsClosed
  BY DEF WatchInv, Watch
<1>2. QED
  BY <1>1, WatchInvHolds, PTL

\* Only Submit puts an order on the wire.
LEMMA OnlySubmitSends ==
  ASSUME WatchInv, [Next]_vars, NEW o \in Sells, o \in wire' \ wire
  PROVE  SubmitSell /\ o = decision
<1> USE OrdersAssumption DEF Orders, external
<1>1. CASE Environment \/ Aging \/ Command \/ Crash \/ UNCHANGED vars
  BY <1>1 DEF Environment, Arrive, Drop, Match, CancelledElsewhere, Aging, Expire, BecomeOverdue,
              Command, CommandStart, CancelAllNext, CommandEnd, Crash, vars
<1>2. ASSUME NEW t \in Tasks, Resolving(t)
      PROVE  FALSE
  BY <1>2 DEF Resolving, LookupAnswered, LookupFails, NotFound, BookFill, NothingToBook,
              RecordStoploss, SaveStops, UpdateRow, CancelAnswered, CancelFails
<1>3. CASE Cycle
  BY <1>3 DEF Cycle, CycleStart, SyncNext, TtlCancel, SyncDone, CycleEnd, Executing, ExecuteBuy,
              ExecuteSell, ReplaceNext, SubmitSell, GiveUpSell, SubmitAcked, UpdateAckedRow,
              SubmitRefused, SubmitUnknown, Submit
<1>4. QED
  BY <1>1, <1>2, <1>3 DEF Next

\* A sell is sent only when no other order of its pair can trade (execute,
\* "cancel/replace older agent orders"), even while a command is cancelling:
\* no other order of the pair rests, and whatever does not rest was never
\* submitted, was given up, or is closed.
THEOREM SellsStandAlone == Spec => SellStandsAlone
<1> DEFINE Alone ==
      \A o \in Sells : o \in wire' \ wire =>
        \A x \in Orders \ {o} :
          PairOf[x] = PairOf[o] => exch[x].st # "open" /\ x \notin wire
<1>1. WatchInv /\ [Next]_vars => Alone
  <2> SUFFICES ASSUME WatchInv, [Next]_vars, NEW o \in Sells, o \in wire' \ wire,
                      NEW x \in Orders \ {o}, PairOf[x] = PairOf[o]
               PROVE  exch[x].st # "open" /\ x \notin wire
    OBVIOUS
  <2>1. SubmitSell /\ o = decision
    BY OnlySubmitSends
  <2>2. row[x].status \notin Open
    BY <2>1 DEF SubmitSell, StillResting, Resting
  <2>3. row[x].status \in {"NONE", "REJECTED", "FILLED", "CANCELLED"}
    BY <2>2 DEF WatchInv, TypeOK, RowType, RowStatus, Resolved
  <2>4. QED
    BY <2>3 DEF WatchInv, Watch, SubmittedOnce, RejectedNeverLive, ClosedRowIsClosed
<1>2. QED
  BY <1>1, WatchInvHolds, PTL DEF Spec, SellStandsAlone

-----------------------------------------------------------------------------
(* The books.  A task has reported an answer to the ledger from the moment *)
(* it has looked for a fill to book until it has written the row.          *)

Reported == {"stoploss", "stops", "row", "ackrow"}

\* What an answer says stays true of the order: no more is executed than was
\* ordered, a final answer is still the order's state, and the quantity the
\* row was read with is the row's.
AnswersKnown ==
  /\ \A t \in Tasks :
       /\ pc[t] = "answered" => reply[t].st # "ack"
       /\ pc[t] \in {"acked", "ackrow"} => reply[t].st = "ack"
       /\ pc[t] \in {"stoploss", "stops", "row"} => reply[t].st # "none"
       /\ pc[t] = "row" => reply[t].st # "ack"
  /\ \A o \in Orders : /\ exch[o].done <= row[o].qty
                       /\ exch[o].st = "none" => exch[o].done = 0
  /\ \A t \in Tasks : pc[t] \in Answered =>
       /\ reply[t].st \in {"filled", "cancelled"} => exch[cur[t]] = reply[t]
       /\ reply[t].done <= exch[cur[t]].done
  /\ \A t \in Tasks : pc[t] \in Answered \cup {"lookup"} /\ reply[t].st # "ack" => seen[t].qty = row[cur[t]].qty

\* A sell is sent for at most what was decided and at most what is held.
LEMMA SellQtyNat ==
  ASSUME TypeOK, NEW o \in Sells
  PROVE  /\ SellQty(o) \in Nat
         /\ SellQty(o) <= Qty[o]
         /\ SellQty(o) <= held[PairOf[o]]
<1>1. o \in Orders /\ PairOf[o] \in Pairs
  BY OrdersAssumption DEF Orders
<1>2. Qty[o] \in Nat /\ held[PairOf[o]] \in Nat
  BY <1>1, QtyAssumption DEF TypeOK
<1> DEFINE m == Least(Qty[o], held[PairOf[o]])
<1>3. m \in Nat /\ m <= Qty[o] /\ m <= held[PairOf[o]]
  BY <1>2 DEF Least
<1> HIDE DEF m
<1>4. RoundDown(m) \in Nat /\ RoundDown(m) <= m
  BY <1>3, RoundDownNat
<1>5. SellQty(o) = RoundDown(m)
  BY DEF SellQty, m
<1>6. QED
  BY <1>2, <1>3, <1>4, <1>5

\* What a task finds after _apply_state: the row has a status the exchange
\* knows of, and the task is back where it was called.
LEMMA RowWritten ==
  ASSUME WatchInv, NEW t \in Tasks, UpdateRow(t)
  PROVE  /\ pc[t] = "row" /\ cur[t] \in Orders
         /\ pc'[t] = back[t] /\ back[t] \in Returns /\ reply'[t].st = "none"
         /\ \A u \in Tasks : u # t => pc'[u] = pc[u] /\ reply'[u] = reply[u] /\ seen'[u] = seen[u]
         /\ row'[cur[t]].status \in {"NEW", "PARTIALLY_FILLED", "FILLED", "CANCELLED"}
         /\ \A o \in Orders : row'[o].qty = row[o].qty
         /\ \A o \in Orders : o # cur[t] => row'[o] = row[o]
         /\ UNCHANGED <<exch, wire, cur, todo, back, decision>>
<1>1. /\ pc \in [Tasks -> Places] /\ back \in [Tasks -> Returns]
      /\ reply \in [Tasks -> ReplyType] /\ row \in [Orders -> RowType] /\ seen \in [Tasks -> RowType]
      /\ pc[t] \in Working => cur[t] \in Orders
  BY DEF WatchInv, Watch, WorksOnRows, TypeOK
<1>2. /\ pc[t] = "row" /\ pc' = [pc EXCEPT ![t] = back[t]] /\ reply' = [reply EXCEPT ![t] = NoReply]
      /\ seen' = [seen EXCEPT ![t] = NoRow]
      /\ UNCHANGED <<exch, wire, cur, todo, back, decision>>
  BY DEF UpdateRow, Return, Goto, external
<1>3. cur[t] \in Orders
  BY <1>1, <1>2 DEF Working
<1>4. PICK st, n : /\ row' = [row EXCEPT ![cur[t]].status = st, ![cur[t]].filled = n]
                   /\ st = StatusFor(reply[t].st, Cumulative(t))
  BY Zenon DEF UpdateRow
<1>5. st \in {"NEW", "PARTIALLY_FILLED", "FILLED", "CANCELLED"}
  BY <1>4 DEF StatusFor
<1>6. /\ row'[cur[t]].status = st /\ row'[cur[t]].qty = row[cur[t]].qty
      /\ \A o \in Orders : o # cur[t] => row'[o] = row[o]
  BY <1>1, <1>3, <1>4 DEF RowType
<1>7. QED
  BY <1>1, <1>2, <1>3, <1>5, <1>6 DEF NoReply

\* What a cancel request does: at most the order is closed, and its row is read.
LEMMA CancelSent ==
  ASSUME WatchInv, NEW t \in Tasks, CancelAnswered(t)
  PROVE  /\ pc[t] = "cancel" /\ pc'[t] = "lookup" /\ cur[t] \in Orders /\ seen'[t] = row[cur[t]]
         /\ \A u \in Tasks : u # t => pc'[u] = pc[u] /\ seen'[u] = seen[u]
         /\ \A o \in Orders : /\ exch'[o].done = exch[o].done
                              /\ exch'[o].st = exch[o].st \/ (exch[o].st = "open" /\ exch'[o].st = "cancelled")
         /\ \A o \in Orders : o # cur[t] \/ exch[o].st # "open" => exch'[o] = exch[o]
         /\ exch[cur[t]].st = "open" => exch'[cur[t]].st = "cancelled"
         /\ cur' = cur /\ back' = back
         /\ UNCHANGED <<wire, row, trades, booked, todo, reply, decision>>
<1>1. /\ pc \in [Tasks -> Places] /\ back \in [Tasks -> Returns] /\ cur \in [Tasks -> Orders \cup {NoOrder}]
      /\ seen \in [Tasks -> RowType] /\ exch \in [Orders -> ExchType]
      /\ pc[t] \in Working => cur[t] \in Orders
  BY DEF WatchInv, Watch, WorksOnRows, TypeOK
<1>2. /\ pc[t] = "cancel" /\ pc' = [pc EXCEPT ![t] = "lookup"]
      /\ cur' = [cur EXCEPT ![t] = cur[t]]
      /\ seen' = [seen EXCEPT ![t] = row[cur[t]]]
      /\ back' = [back EXCEPT ![t] = back[t]]
      /\ UNCHANGED <<wire, row, trades, booked, todo, reply, decision>>
  BY DEF CancelAnswered, Resolve, Goto, tables
<1>3. exch' = IF exch[cur[t]].st = "open" THEN [exch EXCEPT ![cur[t]].st = "cancelled"] ELSE exch
  BY DEF CancelAnswered
<1>4. cur[t] \in Orders
  BY <1>1, <1>2 DEF Working
<1>5. cur' = cur /\ back' = back
  BY <1>1, <1>2
<1>6. CASE exch[cur[t]].st = "open"
  <2>1. /\ exch'[cur[t]].st = "cancelled" /\ exch'[cur[t]].done = exch[cur[t]].done
        /\ \A o \in Orders : o # cur[t] => exch'[o] = exch[o]
    BY <1>1, <1>3, <1>4, <1>6 DEF ExchType
  <2>2. QED
    BY <1>1, <1>2, <1>4, <1>5, <1>6, <2>1
<1>7. CASE exch[cur[t]].st # "open"
  BY <1>1, <1>2, <1>3, <1>4, <1>5, <1>7
<1>8. QED
  BY <1>6, <1>7

\* The types of what the tasks work with.
WorkTyped ==
  /\ exch \in [Orders -> ExchType]
  /\ row \in [Orders -> RowType]
  /\ pc \in [Tasks -> Places]
  /\ cur \in [Tasks -> Orders \cup {NoOrder}]
  /\ todo \in [Tasks -> SUBSET Orders]
  /\ seen \in [Tasks -> RowType]
  /\ reply \in [Tasks -> ReplyType]
  /\ back \in [Tasks -> Returns]

\* Answers stay known, whatever a step does.
LEMMA AnswersStep ==
  ASSUME WatchInv, AnswersKnown, [Next]_vars
  PROVE  AnswersKnown'
<1>0. WorkTyped /\ WorksOnRows /\ SubmittedOnce /\ AnswersHold
  BY DEF WatchInv, TypeOK, Watch, WorkTyped
<1> USE <1>0, OrdersAssumption
    DEF WorkTyped, WorksOnRows, SubmittedOnce, AnswersHold, AnswersKnown, Working, Answered, Tasks, Returns, Goto,
        Orders, ExchType, RowType, ReplyType, external, tables, ledger, ages, control
<1>1. ASSUME NEW o \in Orders, Arrive(o) PROVE AnswersKnown'
  <2>1. PICK n \in 0..row[o].qty :
          exch' = [exch EXCEPT ![o] = [st |-> IF n = row[o].qty THEN "filled" ELSE "open", done |-> n]]
    BY <1>1 DEF Arrive
  <2>2. /\ exch[o].st = "none" /\ exch[o].done = 0 /\ row[o].qty \in Nat
        /\ n \in Nat /\ n <= row[o].qty
        /\ UNCHANGED <<row, pc, cur, seen, reply>>
    BY <1>1 DEF Arrive
  <2>3. \A x \in Orders : x # o => exch'[x] = exch[x]
    BY <2>1
  <2>4. exch'[o].done = n /\ exch'[o].st # "none"
    BY <2>1
  <2>5. ASSUME NEW t \in Tasks, pc[t] \in Answered, cur[t] = o
        PROVE  reply[t].st \notin {"filled", "cancelled"}
    BY <2>2, <2>5
  <2>6. /\ \A x \in Orders : exch[x].done \in Nat
        /\ \A t \in Tasks : reply[t].done \in Nat
        /\ \A t \in Tasks : pc[t] \in Answered => cur[t] \in Orders
    OBVIOUS
  <2> HIDE <1>0 DEF WorkTyped, WorksOnRows, SubmittedOnce, AnswersHold, Working, Answered, Tasks,
             Returns, Goto, Orders, ExchType, RowType, ReplyType
  <2>7. \A x \in Orders : exch'[x].done <= row'[x].qty /\ (exch'[x].st = "none" => exch'[x].done = 0)
    BY <2>2, <2>3, <2>4
  <2>8. ASSUME NEW t \in Tasks, pc[t] \in Answered
        PROVE  /\ reply[t].st \in {"filled", "cancelled"} => exch'[cur[t]] = reply[t]
               /\ reply[t].done <= exch'[cur[t]].done
    <3>1. CASE cur[t] = o
      BY <2>2, <2>4, <2>5, <2>6, <2>8, <3>1
    <3>2. CASE cur[t] # o
      BY <2>3, <2>6, <2>8, <3>2
    <3>3. QED
      BY <3>1, <3>2
  <2>9. QED
    BY <2>2, <2>7, <2>8
<1>2. ASSUME NEW o \in Orders, Drop(o) \/ Expire(o) \/ BecomeOverdue(o) PROVE AnswersKnown'
  BY <1>2, SMTT(60) DEF Drop, Expire, BecomeOverdue
<1>3. ASSUME NEW o \in Orders, Match(o) PROVE AnswersKnown'
  BY <1>3, SMTT(60) DEF Match
<1>4. ASSUME NEW o \in Orders, CancelledElsewhere(o) PROVE AnswersKnown'
  BY <1>4, SMTT(60) DEF CancelledElsewhere
<1>5. ASSUME NEW t \in Tasks, LookupAnswered(t) PROVE AnswersKnown'
  BY <1>5, SMTT(60) DEF LookupAnswered
<1>6. ASSUME NEW t \in Tasks, LookupFails(t) PROVE AnswersKnown'
  BY <1>6, SMTT(60) DEF LookupFails, Return, NoRow, NoReply
<1>7. ASSUME NEW t \in Tasks, NotFound(t) PROVE AnswersKnown'
  BY <1>7, SMTT(60) DEF NotFound, Return, NoRow, NoReply
<1>8. ASSUME NEW t \in Tasks, BookFill(t) PROVE AnswersKnown'
  BY <1>8, SMTT(60) DEF BookFill, HasFillToBook
<1>9. ASSUME NEW t \in Tasks, NothingToBook(t) PROVE AnswersKnown'
  BY <1>9, SMTT(60) DEF NothingToBook, HasFillToBook
<1>10. ASSUME NEW t \in Tasks, RecordStoploss(t) \/ SaveStops(t) PROVE AnswersKnown'
  <2>1. CASE RecordStoploss(t)
    BY <2>1, SMTT(60) DEF RecordStoploss
  <2>2. CASE SaveStops(t)
    BY <2>2, SMTT(60) DEF SaveStops
  <2>3. QED
    BY <1>10, <2>1, <2>2, Zenon
<1>11. ASSUME NEW t \in Tasks, UpdateRow(t) PROVE AnswersKnown'
  <2>1. /\ pc[t] = "row" /\ pc'[t] = back[t] /\ back[t] \in Returns /\ reply'[t].st = "none"
        /\ \A u \in Tasks : u # t => pc'[u] = pc[u] /\ reply'[u] = reply[u] /\ seen'[u] = seen[u]
        /\ \A o \in Orders : row'[o].qty = row[o].qty
        /\ exch' = exch /\ cur' = cur
    BY <1>11, RowWritten
  <2>2. \A u \in Tasks : pc[u] \in Working => cur[u] \in Orders
    OBVIOUS
  <2>3. back[t] \notin Answered \cup {"lookup"}
    BY <2>1
  <2> HIDE <1>0, OrdersAssumption
      DEF WorkTyped, WorksOnRows, SubmittedOnce, AnswersHold, Returns, Goto, Orders, ExchType, RowType,
          ReplyType, external, tables, ledger, ages, control
  <2>4. \A u \in Tasks : pc'[u] \in Answered \cup {"lookup"} => u # t /\ pc[u] \in Answered \cup {"lookup"}
    BY <2>1, <2>3
  <2>5. QED
    BY <2>1, <2>2, <2>3, <2>4
<1>12. ASSUME NEW t \in Tasks, CancelAnswered(t) PROVE AnswersKnown'
  <2>1. /\ pc[t] = "cancel" /\ pc'[t] = "lookup" /\ cur[t] \in Orders /\ seen'[t] = row[cur[t]]
        /\ \A u \in Tasks : u # t => pc'[u] = pc[u] /\ seen'[u] = seen[u]
        /\ \A o \in Orders : /\ exch'[o].done = exch[o].done
                             /\ exch'[o].st = exch[o].st \/ (exch[o].st = "open" /\ exch'[o].st = "cancelled")
        /\ \A o \in Orders : exch[o].st # "open" => exch'[o] = exch[o]
        /\ UNCHANGED <<row, cur, reply>>
    BY <1>12, CancelSent
  <2>2. /\ \A u \in Tasks : pc[u] \in Answered => cur[u] \in Orders
        /\ \A u \in Tasks : pc[u] \in Answered /\ reply[u].st \in {"filled", "cancelled"} =>
                            exch[cur[u]].st # "open"
    OBVIOUS
  <2>3. "lookup" \notin Answered \cup {"stoploss", "stops", "row", "acked", "ackrow", "answered"}
    OBVIOUS
  <2> HIDE <1>0, OrdersAssumption
      DEF WorkTyped, WorksOnRows, SubmittedOnce, AnswersHold, Working, Answered, Returns, Goto, Orders,
          ExchType, RowType, ReplyType, external, tables, ledger, ages, control
  <2>4. \A u \in Tasks : pc'[u] \in Answered => u # t /\ pc[u] \in Answered
    BY <2>1, <2>3
  <2>5. \A u \in Tasks : pc'[u] \in Answered =>
          /\ reply'[u].st \in {"filled", "cancelled"} => exch'[cur'[u]] = reply'[u]
          /\ reply'[u].done <= exch'[cur'[u]].done
    BY <2>1, <2>2, <2>4
  <2>6. \A u \in Tasks : pc'[u] \in Answered \cup {"lookup"} /\ reply'[u].st # "ack" =>
          seen'[u].qty = row'[cur'[u]].qty
    BY <2>1
  <2>7. \A o \in Orders : exch'[o].done <= row'[o].qty /\ (exch'[o].st = "none" => exch'[o].done = 0)
    BY <2>1
  <2>8. \A u \in Tasks :
          /\ pc'[u] = "answered" => reply'[u].st # "ack"
          /\ pc'[u] \in {"acked", "ackrow"} => reply'[u].st = "ack"
          /\ pc'[u] \in {"stoploss", "stops", "row"} => reply'[u].st # "none"
          /\ pc'[u] = "row" => reply'[u].st # "ack"
    BY <2>1
  <2>9. QED
    BY <2>5, <2>6, <2>7, <2>8
<1>13. ASSUME NEW t \in Tasks, CancelFails(t) PROVE AnswersKnown'
  BY <1>13, SMTT(60) DEF CancelFails
<1>14. ASSUME NEW o \in Orders, ExecuteBuy(o) PROVE AnswersKnown'
  <2>1. exch[o].done = 0 /\ Qty[o] \in Nat
    BY <1>14, QtyAssumption DEF ExecuteBuy
  <2>2. /\ row' = [row EXCEPT ![o] = [status |-> "PENDING_SUBMIT", filled |-> 0, qty |-> Qty[o]]]
        /\ pc' = [pc EXCEPT !["cycle"] = "submit"]
        /\ cur' = [cur EXCEPT !["cycle"] = o]
        /\ UNCHANGED <<exch, seen, reply>>
    BY <1>14 DEF ExecuteBuy, Submit
  <2>3. \A t \in Tasks : pc[t] \in Working => cur[t] # o
    BY <1>14 DEF ExecuteBuy
  <2>4. QED
    BY <2>1, <2>2, <2>3, SMTT(60)
<1>15. ASSUME NEW o \in Orders, ExecuteSell(o) PROVE AnswersKnown'
  BY <1>15, SMTT(60) DEF ExecuteSell
<1>16. CASE SubmitSell
  <2> DEFINE o == decision
             q == SellQty(o)
  <2>1. o \in Orders /\ row[o].status = "NONE"
    BY <1>16 DEF SubmitSell
  <2>2. exch[o].done = 0 /\ q \in Nat
    <3>1. q \in Nat
      BY <1>16, SellQtyNat DEF SubmitSell, WatchInv, TypeOK
    <3>2. QED
      BY <2>1, <3>1
  <2> HIDE DEF q
  <2>3. /\ row' = [row EXCEPT ![o] = [status |-> "PENDING_SUBMIT", filled |-> 0, qty |-> q]]
        /\ pc' = [pc EXCEPT !["cycle"] = "submit"]
        /\ cur' = [cur EXCEPT !["cycle"] = o]
        /\ UNCHANGED <<exch, seen, reply>>
    BY <1>16 DEF SubmitSell, Submit, q
  <2> HIDE DEF o
  <2>4. \A t \in Tasks : pc[t] \in Working => cur[t] # o
    BY <2>1
  <2>5. QED
    BY <2>1, <2>2, <2>3, <2>4, SMTT(60)
<1>17. CASE ReplaceNext \/ GiveUpSell \/ SubmitRefused \/ TtlCancel \/ SyncDone \/ CycleStart
  <2>1. CASE ReplaceNext
    BY <2>1, SMTT(60) DEF ReplaceNext
  <2>2. CASE GiveUpSell
    BY <2>2, SMTT(60) DEF GiveUpSell
  <2>3. CASE SubmitRefused
    BY <2>3, SMTT(60) DEF SubmitRefused
  <2>4. CASE TtlCancel
    BY <2>4, SMTT(60) DEF TtlCancel
  <2>5. CASE SyncDone
    BY <2>5, SMTT(60) DEF SyncDone
  <2>6. CASE CycleStart
    BY <2>6, SMTT(60) DEF CycleStart
  <2>7. QED
    BY <1>17, <2>1, <2>2, <2>3, <2>4, <2>5, <2>6, Zenon
<1>18. CASE SubmitAcked
  BY <1>18, SMTT(60) DEF SubmitAcked, Resolve
<1>19. CASE UpdateAckedRow
  BY <1>19, SMTT(60) DEF UpdateAckedRow, Resolve, NoReply
<1>20. CASE SubmitUnknown \/ SyncNext
  BY <1>20, SMTT(60) DEF SubmitUnknown, SyncNext, Resolve
<1>21. CASE CycleEnd \/ Command
  BY <1>21, SMTT(60) DEF CycleEnd, Finish, Command, CommandStart, CancelAllNext, CommandEnd
<1>22. CASE Crash \/ UNCHANGED vars
  BY <1>22, SMTT(60) DEF Crash, vars, NoRow, NoReply
<1>23. QED
  <2> HIDE <1>0, OrdersAssumption
      DEF WorkTyped, WorksOnRows, SubmittedOnce, AnswersHold, AnswersKnown, Working, Answered, Tasks,
        Returns, Goto, Orders, ExchType, RowType, ReplyType, external, tables, ledger, ages, control
  <2>1. QED
    BY <1>1, <1>2, <1>3, <1>4, <1>5, <1>6, <1>7, <1>8, <1>9, <1>10, <1>11, <1>12, <1>13, <1>14, <1>15,
     <1>16, <1>17, <1>18, <1>19, <1>20, <1>21, <1>22
     DEF Next, Environment, Aging, Resolving, Executing, Cycle

-----------------------------------------------------------------------------
\* One task runs at a time, and what it works on or has still to visit is an
\* open order.
Solo ==
  /\ \E t \in Tasks : pc[t] = "idle"
  /\ \A t \in Tasks : pc[t] \in Working \ {"ttl"} => row[cur[t]].status \in Open
  /\ \A t \in Tasks : pc[t] \in Working => cur[t] \notin todo[t]
  /\ \A t \in Tasks : pc[t] # "idle" => \A o \in todo[t] : row[o].status \in Open

\* Without overlap one task runs at a time.
LEMMA SoloStep ==
  ASSUME ~Overlap, WatchInv, Solo, [Next]_vars
  PROVE  Solo'
<1> USE OrdersAssumption
    DEF WatchInv, TypeOK, Watch, WorksOnRows, Solo, Working, Tasks, Returns, Goto, Orders, Open, RowType,
        external, tables, ledger, ages, control
<1>1. ASSUME NEW o \in Orders, Arrive(o) PROVE Solo'
  BY <1>1, SMTT(60) DEF Arrive
<1>2. ASSUME NEW o \in Orders, Drop(o) \/ Expire(o) \/ BecomeOverdue(o) PROVE Solo'
  BY <1>2, SMTT(60) DEF Drop, Expire, BecomeOverdue
<1>3. ASSUME NEW o \in Orders, Match(o) PROVE Solo'
  BY <1>3, SMTT(60) DEF Match
<1>4. ASSUME NEW o \in Orders, CancelledElsewhere(o) PROVE Solo'
  BY <1>4, SMTT(60) DEF CancelledElsewhere
<1>5. ASSUME NEW t \in Tasks, LookupAnswered(t) PROVE Solo'
  BY <1>5, SMTT(60) DEF LookupAnswered
<1>6. ASSUME NEW t \in Tasks, LookupFails(t) PROVE Solo'
  BY <1>6, SMTT(60) DEF LookupFails, Return, NoRow, NoReply
<1>7. ASSUME NEW t \in Tasks, NotFound(t) PROVE Solo'
  BY <1>7, SMTT(60) DEF NotFound, Return, NoRow, NoReply
<1>8. ASSUME NEW t \in Tasks, BookFill(t) PROVE Solo'
  BY <1>8, SMTT(60) DEF BookFill, HasFillToBook
<1>9. ASSUME NEW t \in Tasks, NothingToBook(t) PROVE Solo'
  BY <1>9, SMTT(60) DEF NothingToBook, HasFillToBook
<1>10. ASSUME NEW t \in Tasks, RecordStoploss(t) \/ SaveStops(t) PROVE Solo'
  BY <1>10, SMTT(60) DEF RecordStoploss, SaveStops
<1>11. ASSUME NEW t \in Tasks, UpdateRow(t) PROVE Solo'
  <2> HIDE OrdersAssumption
      DEF WatchInv, TypeOK, Watch, WorksOnRows, Goto, Orders, RowType, external, tables, ledger, ages, control
  <2>1. /\ pc[t] = "row" /\ cur[t] \in Orders
        /\ pc'[t] = back[t] /\ back[t] \in Returns
        /\ \A u \in Tasks : u # t => pc'[u] = pc[u]
        /\ \A o \in Orders : o # cur[t] => row'[o] = row[o]
        /\ cur' = cur /\ todo' = todo
    BY <1>11, RowWritten
  <2>2. todo \in [Tasks -> SUBSET Orders]
    BY DEF WatchInv, TypeOK
  <2>3. \A u \in Tasks : u # t => pc[u] = "idle"
    BY <2>1
  <2>4. cur[t] \notin todo[t] /\ \A o \in todo[t] : row[o].status \in Open
    BY <2>1
  <2>5. \A o \in todo[t] : row'[o].status \in Open
    BY <2>1, <2>2, <2>4
  <2>6. \E u \in Tasks : pc'[u] = "idle"
    BY <2>1, <2>3
  <2>7. \A u \in Tasks : pc'[u] \in Working => u = t /\ pc'[u] = "ttl"
    BY <2>1, <2>3
  <2>8. QED
    BY <2>1, <2>3, <2>4, <2>5, <2>6, <2>7
<1>12. ASSUME NEW t \in Tasks, CancelAnswered(t) PROVE Solo'
  BY <1>12, SMTT(60) DEF CancelAnswered, Resolve
<1>13. ASSUME NEW t \in Tasks, CancelFails(t) PROVE Solo'
  BY <1>13, SMTT(60) DEF CancelFails
<1>14. ASSUME NEW o \in Orders, ExecuteBuy(o) PROVE Solo'
  BY <1>14, SMTT(60) DEF ExecuteBuy, Submit
<1>15. ASSUME NEW o \in Orders, ExecuteSell(o) PROVE Solo'
  BY <1>15, SMTT(60) DEF ExecuteSell, HasId
<1>16. CASE SubmitSell
  BY <1>16, SMTT(60) DEF SubmitSell, Submit
<1>17. CASE ReplaceNext \/ GiveUpSell \/ SubmitRefused \/ TtlCancel \/ SyncDone \/ CycleStart
  BY <1>17, SMTT(60) DEF ReplaceNext, GiveUpSell, SubmitRefused, TtlCancel, SyncDone, CycleStart, Resting, HasId
<1>18. CASE SubmitAcked
  BY <1>18, SMTT(60) DEF SubmitAcked, Resolve
<1>19. CASE UpdateAckedRow
  BY <1>19, SMTT(60) DEF UpdateAckedRow, Resolve, NoReply
<1>20. CASE SubmitUnknown \/ SyncNext
  BY <1>20, SMTT(60) DEF SubmitUnknown, SyncNext, Resolve
<1>21. CASE CycleEnd \/ Command
  BY <1>21, SMTT(60) DEF CycleEnd, Finish, Command, CommandStart, CancelAllNext, CommandEnd, HasId
<1>22. CASE Crash \/ UNCHANGED vars
  BY <1>22, SMTT(60) DEF Crash, vars, NoRow, NoReply
<1>23. QED
  <2> HIDE OrdersAssumption
    DEF WatchInv, TypeOK, Watch, WorksOnRows, Solo, Working, Tasks, Returns, Goto, Orders, Open, RowType,
        external, tables, ledger, ages, control
  <2>1. QED
    BY <1>1, <1>2, <1>3, <1>4, <1>5, <1>6, <1>7, <1>8, <1>9, <1>10, <1>11, <1>12, <1>13, <1>14, <1>15,
       <1>16, <1>17, <1>18, <1>19, <1>20, <1>21, <1>22
       DEF Next, Environment, Aging, Resolving, Executing, Cycle

-----------------------------------------------------------------------------
\* asyncio: one task at a time holds the loop.
OneRuns == \A t, u \in Tasks : pc[t] \in Running /\ pc[u] \in Running => t = u

\* Until an order is acknowledged nothing of it is in its row, and while the
\* cycle acts on an acknowledgement the row is as SubmitAcked left it.
AcksKnown ==
  /\ \A o \in Orders : row[o].status \in {"NONE", "PENDING_SUBMIT"} => row[o].filled = 0
  /\ pc["cycle"] = "submit" => row[cur["cycle"]].status = "PENDING_SUBMIT"
  /\ \A t \in Tasks : reply[t].st = "ack" => t = "cycle" /\ row[cur[t]].status = "NEW"

\* An order with an id is known to the exchange; a command, which cancels an
\* order before it looks it up, is only told of closed ones.
Closed == {"filled", "cancelled"}
CommandToldFinal ==
  /\ \A o \in Orders : HasId(o) => exch[o].st # "none"
  /\ \A t \in Tasks : reply[t].st # "none" => exch[cur[t]].st # "none"
  /\ \A o \in todo["command"] : exch[o].st # "none"
  /\ pc["command"] \in Working => exch[cur["command"]].st # "none"
  /\ pc["command"] \in Answered \cup {"lookup"} => exch[cur["command"]].st \in Closed
  /\ pc["command"] \in Answered => reply["command"].st \in Closed

\* A task takes the loop only when no other holds it.
LEMMA OneRunsStep ==
  ASSUME WatchInv, OneRuns, [Next]_vars
  PROVE  OneRuns'
<1> USE OrdersAssumption
    DEF WatchInv, OneRuns, TypeOK, Watch, WorksOnRows, CommandWorksOnIds, Working, Answered, Running, Tasks,
        Returns, Goto, Orders, Open, RowType, HasId, HasLoop,
        external, tables, ledger, ages, control
<1>1. ASSUME NEW o \in Orders, Arrive(o) PROVE OneRuns'
  BY <1>1, SMTT(60) DEF Arrive
<1>2. ASSUME NEW o \in Orders, Drop(o) \/ Expire(o) \/ BecomeOverdue(o) PROVE OneRuns'
  BY <1>2, SMTT(60) DEF Drop, Expire, BecomeOverdue
<1>3. ASSUME NEW o \in Orders, Match(o) PROVE OneRuns'
  BY <1>3, SMTT(60) DEF Match
<1>4. ASSUME NEW o \in Orders, CancelledElsewhere(o) PROVE OneRuns'
  BY <1>4, SMTT(60) DEF CancelledElsewhere
<1>5. ASSUME NEW t \in Tasks, LookupAnswered(t) PROVE OneRuns'
  BY <1>5, SMTT(60) DEF LookupAnswered
<1>6. ASSUME NEW t \in Tasks, LookupFails(t) PROVE OneRuns'
  BY <1>6, SMTT(60) DEF LookupFails, Return, NoRow, NoReply
<1>7. ASSUME NEW t \in Tasks, NotFound(t) PROVE OneRuns'
  BY <1>7, SMTT(60) DEF NotFound, Return, NoRow, NoReply, GivenUp
<1>8. ASSUME NEW t \in Tasks, BookFill(t) PROVE OneRuns'
  BY <1>8, SMTT(60) DEF BookFill, HasFillToBook
<1>9. ASSUME NEW t \in Tasks, NothingToBook(t) PROVE OneRuns'
  BY <1>9, SMTT(60) DEF NothingToBook, HasFillToBook
<1>10. ASSUME NEW t \in Tasks, RecordStoploss(t) \/ SaveStops(t) PROVE OneRuns'
  BY <1>10, SMTT(60) DEF RecordStoploss, SaveStops
<1>11. ASSUME NEW t \in Tasks, UpdateRow(t) PROVE OneRuns'
  BY <1>11, SMTT(60) DEF UpdateRow, Return, NoRow, NoReply, StatusFor
<1>12. ASSUME NEW t \in Tasks, CancelAnswered(t) PROVE OneRuns'
  BY <1>12, SMTT(60) DEF CancelAnswered, Resolve
<1>13. ASSUME NEW t \in Tasks, CancelFails(t) PROVE OneRuns'
  BY <1>13, SMTT(60) DEF CancelFails
<1>14. ASSUME NEW o \in Orders, ExecuteBuy(o) PROVE OneRuns'
  BY <1>14, SMTT(60) DEF ExecuteBuy, Submit
<1>15. ASSUME NEW o \in Orders, ExecuteSell(o) PROVE OneRuns'
  BY <1>15, SMTT(60) DEF ExecuteSell, HasId
<1>16. CASE SubmitSell
  BY <1>16, SMTT(60) DEF SubmitSell, Submit
<1>17. CASE ReplaceNext \/ GiveUpSell \/ SubmitRefused \/ TtlCancel \/ SyncDone \/ CycleStart
  BY <1>17, SMTT(60) DEF ReplaceNext, GiveUpSell, SubmitRefused, TtlCancel, SyncDone, CycleStart, Resting
<1>18. CASE SubmitAcked
  BY <1>18, SMTT(60) DEF SubmitAcked, Resolve
<1>19. CASE UpdateAckedRow
  BY <1>19, SMTT(60) DEF UpdateAckedRow, Resolve, NoReply
<1>20. CASE SubmitUnknown \/ SyncNext
  BY <1>20, SMTT(60) DEF SubmitUnknown, SyncNext, Resolve
<1>21. CASE CycleEnd \/ Command
  BY <1>21, SMTT(60) DEF CycleEnd, Finish, Command, CommandStart, CancelAllNext, CommandEnd
<1>22. CASE Crash \/ UNCHANGED vars
  BY <1>22, SMTT(60) DEF Crash, vars, NoRow, NoReply
<1>23. QED
  <2> HIDE OrdersAssumption
      DEF WatchInv, OneRuns, TypeOK, Watch, WorksOnRows, CommandWorksOnIds, Working, Answered, Running, Tasks,
          Returns, Goto, Orders, Open, RowType, HasId, HasLoop,
        external, tables, ledger, ages, control
  <2>1. QED
    BY <1>1, <1>2, <1>3, <1>4, <1>5, <1>6, <1>7, <1>8, <1>9, <1>10, <1>11, <1>12, <1>13, <1>14, <1>15, <1>16,
       <1>17, <1>18, <1>19, <1>20, <1>21, <1>22
     DEF Next, Environment, Aging, Resolving, Executing, Cycle

\* Nobody interferes with an acknowledgement.
LEMMA AcksStep ==
  ASSUME WatchInv, AnswersKnown, OneRuns, AcksKnown, [Next]_vars
  PROVE  AcksKnown'
<1>0. WorkTyped /\ WorksOnRows /\ CommandWorksOnIds /\ AnswersHold
  BY DEF WatchInv, TypeOK, Watch, WorkTyped
<1> USE <1>0, OrdersAssumption
    DEF WorkTyped, OneRuns, AcksKnown, AnswersHold, AnswersKnown, ReplyType, ExchType, WorksOnRows,
        CommandWorksOnIds, Working, Answered, Running, Tasks, Returns, Goto, Orders, Open, RowType, HasId, HasLoop,
        external, tables, ledger, ages, control
<1>1. ASSUME NEW o \in Orders, Arrive(o) PROVE AcksKnown'
  BY <1>1, SMTT(60) DEF Arrive
<1>2. ASSUME NEW o \in Orders, Drop(o) \/ Expire(o) \/ BecomeOverdue(o) PROVE AcksKnown'
  BY <1>2, SMTT(60) DEF Drop, Expire, BecomeOverdue
<1>3. ASSUME NEW o \in Orders, Match(o) PROVE AcksKnown'
  BY <1>3, SMTT(60) DEF Match
<1>4. ASSUME NEW o \in Orders, CancelledElsewhere(o) PROVE AcksKnown'
  BY <1>4, SMTT(60) DEF CancelledElsewhere
<1>5. ASSUME NEW t \in Tasks, LookupAnswered(t) PROVE AcksKnown'
  BY <1>5, SMTT(60) DEF LookupAnswered
<1>6. ASSUME NEW t \in Tasks, LookupFails(t) PROVE AcksKnown'
  BY <1>6, SMTT(60) DEF LookupFails, Return, NoRow, NoReply
<1>7. ASSUME NEW t \in Tasks, NotFound(t) PROVE AcksKnown'
  BY <1>7, SMTT(60) DEF NotFound, Return, NoRow, NoReply, GivenUp
<1>8. ASSUME NEW t \in Tasks, BookFill(t) PROVE AcksKnown'
  BY <1>8, SMTT(60) DEF BookFill, HasFillToBook
<1>9. ASSUME NEW t \in Tasks, NothingToBook(t) PROVE AcksKnown'
  BY <1>9, SMTT(60) DEF NothingToBook, HasFillToBook
<1>10. ASSUME NEW t \in Tasks, RecordStoploss(t) \/ SaveStops(t) PROVE AcksKnown'
  BY <1>10, SMTT(60) DEF RecordStoploss, SaveStops
<1>11. ASSUME NEW t \in Tasks, UpdateRow(t) PROVE AcksKnown'
  <2>1. /\ pc[t] = "row" /\ cur[t] \in Orders
        /\ pc'[t] = back[t] /\ back[t] \in Returns /\ reply'[t].st = "none"
        /\ \A u \in Tasks : u # t => pc'[u] = pc[u] /\ reply'[u] = reply[u]
        /\ row'[cur[t]].status \in {"NEW", "PARTIALLY_FILLED", "FILLED", "CANCELLED"}
        /\ \A o \in Orders : o # cur[t] => row'[o] = row[o]
        /\ cur' = cur
    BY <1>11, RowWritten
  <2>2. \A u \in Tasks : u # t => pc[u] \notin Running
    BY <2>1
  <2>3. \A u \in Tasks : reply[u].st = "ack" => u # t /\ pc[u] = "answered"
    <3>1. \A u \in Tasks : reply[u].st = "ack" => u # t /\ pc[u] \in Answered
      BY <2>1
    <3>2. QED
      BY <2>2, <3>1 DEF Answered, Running
  <2>4. \A u \in Tasks : reply[u].st # "ack"
    BY <2>3
  <2>5. pc["cycle"] = "submit" => row[cur["cycle"]].status = "PENDING_SUBMIT" /\ cur["cycle"] \in Orders
    OBVIOUS
  <2>6. row[cur[t]].status # "PENDING_SUBMIT" \/ t = "cycle"
    BY <2>1
  <2> HIDE <1>0, OrdersAssumption
      DEF WorkTyped, OneRuns, AnswersHold, AnswersKnown, ReplyType, ExchType, TypeOK, Watch, WorksOnRows,
          CommandWorksOnIds, Working, Answered, Running, Goto, Orders, Open, RowType, HasId, HasLoop,
          external, tables, ledger, ages, control
  <2>7. \A u \in Tasks : reply'[u].st # "ack"
    BY <2>1, <2>4
  <2>8. \A o \in Orders : row'[o].status \in {"NONE", "PENDING_SUBMIT"} => row'[o].filled = 0
    BY <2>1
  <2>9. pc'["cycle"] = "submit" => row'[cur'["cycle"]].status = "PENDING_SUBMIT"
    BY <2>1, <2>5, <2>6
  <2>10. QED
    BY <2>7, <2>8, <2>9
<1>12. ASSUME NEW t \in Tasks, CancelAnswered(t) PROVE AcksKnown'
  BY <1>12, SMTT(60) DEF CancelAnswered, Resolve
<1>13. ASSUME NEW t \in Tasks, CancelFails(t) PROVE AcksKnown'
  BY <1>13, SMTT(60) DEF CancelFails
<1>14. ASSUME NEW o \in Orders, ExecuteBuy(o) PROVE AcksKnown'
  BY <1>14, SMTT(60) DEF ExecuteBuy, Submit
<1>15. ASSUME NEW o \in Orders, ExecuteSell(o) PROVE AcksKnown'
  BY <1>15, SMTT(60) DEF ExecuteSell, HasId
<1>16. CASE SubmitSell
  BY <1>16, SMTT(60) DEF SubmitSell, Submit
<1>17. CASE ReplaceNext \/ GiveUpSell \/ SubmitRefused \/ TtlCancel \/ SyncDone \/ CycleStart
  BY <1>17, SMTT(60) DEF ReplaceNext, GiveUpSell, SubmitRefused, TtlCancel, SyncDone, CycleStart, Resting
<1>18. CASE SubmitAcked
  BY <1>18, SMTT(60) DEF SubmitAcked, Resolve
<1>19. CASE UpdateAckedRow
  BY <1>19, SMTT(60) DEF UpdateAckedRow, Resolve, NoReply
<1>20. CASE SubmitUnknown \/ SyncNext
  BY <1>20, SMTT(60) DEF SubmitUnknown, SyncNext, Resolve
<1>21. CASE CycleEnd \/ Command
  BY <1>21, SMTT(60) DEF CycleEnd, Finish, Command, CommandStart, CancelAllNext, CommandEnd
<1>22. CASE Crash \/ UNCHANGED vars
  BY <1>22, SMTT(60) DEF Crash, vars, NoRow, NoReply
<1>23. QED
  <2> HIDE <1>0, OrdersAssumption
      DEF WorkTyped, OneRuns, AcksKnown, AnswersHold, AnswersKnown, ReplyType, ExchType, TypeOK, Watch, WorksOnRows,
          CommandWorksOnIds, Working, Answered, Running, Tasks, Returns, Goto, Orders, Open, RowType, HasId, HasLoop,
        external, tables, ledger, ages, control
  <2>1. QED
    BY <1>1, <1>2, <1>3, <1>4, <1>5, <1>6, <1>7, <1>8, <1>9, <1>10, <1>11, <1>12, <1>13, <1>14, <1>15, <1>16,
       <1>17, <1>18, <1>19, <1>20, <1>21, <1>22
     DEF Next, Environment, Aging, Resolving, Executing, Cycle

\* A command is told of closed orders only.
LEMMA ToldFinalStep ==
  ASSUME WatchInv, AnswersKnown, AcksKnown, CommandToldFinal, [Next]_vars
  PROVE  CommandToldFinal'
<1>0. /\ WorkTyped /\ WorksOnRows /\ CommandWorksOnIds /\ SubmittedOnce
      /\ AnswersHold /\ RejectedNeverLive /\ ClosedRowIsClosed
  BY DEF WatchInv, TypeOK, Watch, WorkTyped
<1> USE <1>0, OrdersAssumption
    DEF WorkTyped, AcksKnown, AnswersKnown, CommandToldFinal, Closed, AnswersHold, SubmittedOnce, RejectedNeverLive,
        ClosedRowIsClosed, ReplyType, ExchType, Resolved, WorksOnRows, CommandWorksOnIds, Working, Answered,
        Running, Tasks, Returns, Goto, Orders, Open, RowType, HasId, HasLoop, external, tables, ledger, ages,
        control
<1>1. ASSUME NEW o \in Orders, Arrive(o) PROVE CommandToldFinal'
  BY <1>1, SMTT(60) DEF Arrive
<1>2. ASSUME NEW o \in Orders, Drop(o) \/ Expire(o) \/ BecomeOverdue(o) PROVE CommandToldFinal'
  BY <1>2, SMTT(60) DEF Drop, Expire, BecomeOverdue
<1>3. ASSUME NEW o \in Orders, Match(o) PROVE CommandToldFinal'
  BY <1>3, SMTT(60) DEF Match
<1>4. ASSUME NEW o \in Orders, CancelledElsewhere(o) PROVE CommandToldFinal'
  BY <1>4, SMTT(60) DEF CancelledElsewhere
<1>5. ASSUME NEW t \in Tasks, LookupAnswered(t) PROVE CommandToldFinal'
  BY <1>5, SMTT(60) DEF LookupAnswered
<1>6. ASSUME NEW t \in Tasks, LookupFails(t) PROVE CommandToldFinal'
  BY <1>6, SMTT(60) DEF LookupFails, Return, NoRow, NoReply
<1>7. ASSUME NEW t \in Tasks, NotFound(t) PROVE CommandToldFinal'
  BY <1>7, SMTT(60) DEF NotFound, Return, NoRow, NoReply, GivenUp
<1>8. ASSUME NEW t \in Tasks, BookFill(t) PROVE CommandToldFinal'
  <2>1. /\ pc[t] \in {"answered", "acked"} /\ pc' = [pc EXCEPT ![t] = pc'[t]] /\ pc'[t] \in {"stoploss", "stops"}
        /\ UNCHANGED <<exch, row, cur, todo, reply>>
    BY <1>8 DEF BookFill, HasFillToBook
  <2>2. \A u \in Tasks : /\ pc'[u] \in Working <=> pc[u] \in Working
                         /\ pc'[u] \in Answered <=> pc[u] \in Answered
                         /\ pc'[u] \in Answered \cup {"lookup"} <=> pc[u] \in Answered \cup {"lookup"}
    BY <2>1
  <2> HIDE <1>0, OrdersAssumption
      DEF WorkTyped, AcksKnown, AnswersKnown, Closed, AnswersHold, SubmittedOnce, RejectedNeverLive,
          ClosedRowIsClosed, ReplyType, ExchType, Resolved, WorksOnRows, CommandWorksOnIds, Working,
          Answered, Running, Returns, Goto, Orders, Open, RowType, HasLoop,
          external, tables, ledger, ages, control
  <2>3. QED
    BY <2>1, <2>2
<1>9. ASSUME NEW t \in Tasks, NothingToBook(t) PROVE CommandToldFinal'
  BY <1>9, SMTT(60) DEF NothingToBook, HasFillToBook
<1>10. ASSUME NEW t \in Tasks, RecordStoploss(t) \/ SaveStops(t) PROVE CommandToldFinal'
  BY <1>10, SMTT(60) DEF RecordStoploss, SaveStops
<1>11. ASSUME NEW t \in Tasks, UpdateRow(t) PROVE CommandToldFinal'
  <2>1. /\ pc[t] = "row" /\ cur[t] \in Orders
        /\ pc'[t] = back[t] /\ back[t] \in Returns /\ reply'[t].st = "none"
        /\ \A u \in Tasks : u # t => pc'[u] = pc[u] /\ reply'[u] = reply[u]
        /\ \A o \in Orders : o # cur[t] => row'[o] = row[o]
        /\ UNCHANGED <<exch, cur, todo>>
    BY <1>11, RowWritten
  <2>2. exch[cur[t]].st # "none"
    BY <2>1
  <2>3. \A u \in Tasks : pc'[u] \in Working => pc[u] \in Working
    BY <2>1
  <2>4. \A u \in Tasks : pc'[u] \in Answered \cup {"lookup"} => u # t /\ pc'[u] = pc[u]
    BY <2>1
  <2> HIDE <1>0, OrdersAssumption
      DEF WorkTyped, AcksKnown, AnswersKnown, Closed, AnswersHold, SubmittedOnce, RejectedNeverLive,
          ClosedRowIsClosed, ReplyType, ExchType, Resolved, TypeOK, Watch, WorksOnRows, CommandWorksOnIds, Working,
          Answered, Running, Returns, Goto, Orders, Open, RowType, HasLoop,
          external, tables, ledger, ages, control
  <2>5. \A o \in Orders : HasId(o)' => exch'[o].st # "none"
    BY <2>1, <2>2
  <2>6. \A u \in Tasks : reply'[u].st # "none" => exch'[cur'[u]].st # "none"
    BY <2>1
  <2>7. QED
    BY <2>1, <2>3, <2>4, <2>5, <2>6
<1>12. ASSUME NEW t \in Tasks, CancelAnswered(t) PROVE CommandToldFinal'
  <2>1. /\ pc[t] = "cancel" /\ pc'[t] = "lookup" /\ cur[t] \in Orders
        /\ \A u \in Tasks : u # t => pc'[u] = pc[u]
        /\ \A o \in Orders : exch'[o].st = exch[o].st \/ (exch[o].st = "open" /\ exch'[o].st = "cancelled")
        /\ exch[cur[t]].st = "open" => exch'[cur[t]].st = "cancelled"
        /\ UNCHANGED <<row, cur, todo, reply>>
    BY <1>12, CancelSent
  <2>2. \A o \in Orders : /\ exch[o].st # "none" => exch'[o].st # "none"
                          /\ exch[o].st \in Closed => exch'[o].st \in Closed
                          /\ exch[o].st \in {"none", "open", "filled", "cancelled"}
    BY <2>1
  <2>3. \A u \in Tasks : reply[u].st # "none" => cur[u] \in Orders
    OBVIOUS
  <2>4. t = "command" => exch'[cur[t]].st \in Closed
    BY <2>1, <2>2
  <2>5. /\ todo["command"] \subseteq Orders
        /\ pc["command"] \in Working => cur["command"] \in Orders
        /\ pc["command"] \in Answered \cup {"lookup"} => cur["command"] \in Orders
    OBVIOUS
  <2>6. \A u \in Tasks : /\ pc'[u] \in Working <=> pc[u] \in Working
                         /\ pc'[u] \in Answered <=> pc[u] \in Answered
                         /\ pc'[u] \in Answered \cup {"lookup"} => u = t \/ pc[u] \in Answered \cup {"lookup"}
    BY <2>1
  <2> HIDE <1>0, OrdersAssumption
      DEF WorkTyped, AcksKnown, AnswersKnown, Closed, AnswersHold, SubmittedOnce, RejectedNeverLive,
          ClosedRowIsClosed, ReplyType, ExchType, Resolved, TypeOK, Watch, WorksOnRows, CommandWorksOnIds, Working,
          Answered, Running, Returns, Goto, Orders, Open, RowType, HasLoop,
          external, tables, ledger, ages, control
  <2>7. QED
    BY <2>1, <2>2, <2>3, <2>4, <2>5, <2>6
<1>13. ASSUME NEW t \in Tasks, CancelFails(t) PROVE CommandToldFinal'
  BY <1>13, SMTT(60) DEF CancelFails
<1>14. ASSUME NEW o \in Orders, ExecuteBuy(o) PROVE CommandToldFinal'
  BY <1>14, SMTT(60) DEF ExecuteBuy, Submit
<1>15. ASSUME NEW o \in Orders, ExecuteSell(o) PROVE CommandToldFinal'
  BY <1>15, SMTT(60) DEF ExecuteSell, HasId
<1>16. CASE SubmitSell
  BY <1>16, SMTT(60) DEF SubmitSell, Submit
<1>17. CASE ReplaceNext \/ GiveUpSell \/ SubmitRefused \/ TtlCancel \/ SyncDone \/ CycleStart
  BY <1>17, SMTT(60) DEF ReplaceNext, GiveUpSell, SubmitRefused, TtlCancel, SyncDone, CycleStart, Resting
<1>18. CASE SubmitAcked
  BY <1>18, SMTT(60) DEF SubmitAcked, Resolve
<1>19. CASE UpdateAckedRow
  BY <1>19, SMTT(60) DEF UpdateAckedRow, Resolve, NoReply
<1>20. CASE SubmitUnknown \/ SyncNext
  BY <1>20, SMTT(60) DEF SubmitUnknown, SyncNext, Resolve
<1>21. CASE CycleEnd \/ Command
  BY <1>21, SMTT(60) DEF CycleEnd, Finish, Command, CommandStart, CancelAllNext, CommandEnd
<1>22. CASE Crash \/ UNCHANGED vars
  BY <1>22, SMTT(60) DEF Crash, vars, NoRow, NoReply
<1>23. QED
  <2> HIDE <1>0, OrdersAssumption
      DEF WorkTyped, AcksKnown, AnswersKnown, CommandToldFinal, Closed, AnswersHold, SubmittedOnce,
          RejectedNeverLive, ClosedRowIsClosed, ReplyType, ExchType, Resolved, TypeOK, Watch, WorksOnRows,
          CommandWorksOnIds, Working, Answered, Running, Tasks, Returns, Goto, Orders, Open, RowType, HasId, HasLoop,
        external, tables, ledger, ages, control
  <2>1. QED
    BY <1>1, <1>2, <1>3, <1>4, <1>5, <1>6, <1>7, <1>8, <1>9, <1>10, <1>11, <1>12, <1>13, <1>14, <1>15, <1>16,
       <1>17, <1>18, <1>19, <1>20, <1>21, <1>22
     DEF Next, Environment, Aging, Resolving, Executing, Cycle
-----------------------------------------------------------------------------
\* The quantity filled_for credits an order as the exchange has it.
Whole(o) == FilledFor(exch[o], row[o].qty)

\* A closed row says at least that.
RowsFull == \A o \in Orders : row[o].status \in Resolved => Whole(o) <= row[o].filled

\* A row is closed on a final answer only, and takes all of it.
LEMMA RowsFullStep ==
  ASSUME WatchInv, AnswersKnown, AcksKnown, RowsFull, [Next]_vars
  PROVE  RowsFull'
<1>0. WorkTyped /\ WorksOnRows /\ CommandWorksOnIds /\ SubmittedOnce /\ AnswersHold /\ ClosedRowIsClosed
  BY DEF WatchInv, TypeOK, Watch, WorkTyped
<1> USE <1>0, OrdersAssumption
    DEF WorkTyped, AnswersKnown, AcksKnown, RowsFull, Whole, AnswersHold, SubmittedOnce, ClosedRowIsClosed,
        Resolved, ReplyType, ExchType, WorksOnRows, CommandWorksOnIds, Working, Answered, Running, Tasks, Returns,
        Goto, Orders, Open, RowType, HasId, HasLoop, external, tables, ledger, ages, control
<1>1. ASSUME NEW o \in Orders, Arrive(o) PROVE RowsFull'
  BY <1>1, SMTT(60) DEF Arrive
<1>2. ASSUME NEW o \in Orders, Drop(o) \/ Expire(o) \/ BecomeOverdue(o) PROVE RowsFull'
  BY <1>2, SMTT(60) DEF Drop, Expire, BecomeOverdue
<1>3. ASSUME NEW o \in Orders, Match(o) PROVE RowsFull'
  BY <1>3, SMTT(60) DEF Match
<1>4. ASSUME NEW o \in Orders, CancelledElsewhere(o) PROVE RowsFull'
  BY <1>4, SMTT(60) DEF CancelledElsewhere
<1>5. ASSUME NEW t \in Tasks, LookupAnswered(t) PROVE RowsFull'
  BY <1>5, SMTT(60) DEF LookupAnswered
<1>6. ASSUME NEW t \in Tasks, LookupFails(t) PROVE RowsFull'
  BY <1>6, SMTT(60) DEF LookupFails, Return, NoRow, NoReply
<1>7. ASSUME NEW t \in Tasks, NotFound(t) PROVE RowsFull'
  BY <1>7, SMTT(60) DEF NotFound, Return, NoRow, NoReply, GivenUp
<1>8. ASSUME NEW t \in Tasks, BookFill(t) PROVE RowsFull'
  BY <1>8, SMTT(60) DEF BookFill, HasFillToBook
<1>9. ASSUME NEW t \in Tasks, NothingToBook(t) PROVE RowsFull'
  BY <1>9, SMTT(60) DEF NothingToBook, HasFillToBook
<1>10. ASSUME NEW t \in Tasks, RecordStoploss(t) \/ SaveStops(t) PROVE RowsFull'
  BY <1>10, SMTT(60) DEF RecordStoploss, SaveStops
<1>11. ASSUME NEW t \in Tasks, UpdateRow(t) PROVE RowsFull'
  <2> DEFINE o == cur[t]
             c == Cumulative(t)
             top == IF c >= seen[t].filled THEN c ELSE seen[t].filled
             st == StatusFor(reply[t].st, c)
  <2>1. o \in Orders /\ pc[t] = "row" /\ c \in Nat /\ seen[t].filled \in Nat /\ reply[t].st # "ack"
    <3>1. TypeOK
      BY DEF WatchInv
    <3>2. c \in Nat
      BY <3>1, CumulativeNat
    <3>3. QED
      BY <1>11, <3>2 DEF UpdateRow
  <2>2. row' = [row EXCEPT ![o].status = st, ![o].filled = top] /\ exch' = exch
    BY <1>11 DEF UpdateRow
  <2>3. \A x \in Orders : /\ row'[x].qty = row[x].qty
                          /\ row'[x].filled = IF x = o THEN top ELSE row[x].filled
                          /\ row'[x].status = IF x = o THEN st ELSE row[x].status
    BY <2>1, <2>2
  <2>4. st \in Resolved => reply[t].st \in Closed
    BY DEF StatusFor, Closed
  <2>5. reply[t].st \in Closed => c = Whole(o)
    BY <2>1 DEF Closed, Cumulative
  <2> HIDE <1>0 DEF c, st, o
  <2>6. \A x \in Orders : Whole(x)' = Whole(x)
    BY <2>2, <2>3
  <2>7. st \in Resolved => Whole(o) <= top
    BY <2>1, <2>4, <2>5
  <2> HIDE <1>0 DEF Whole, top
  <2>8. QED
    BY <2>1, <2>3, <2>6, <2>7 DEF RowsFull
<1>12. ASSUME NEW t \in Tasks, CancelAnswered(t) PROVE RowsFull'
  <2>1. /\ row' = row
        /\ \A o \in Orders : exch[o].st # "open" => exch'[o] = exch[o]
    BY <1>12, CancelSent
  <2>2. \A o \in Orders : row[o].status \in Resolved => exch[o].st # "open"
    OBVIOUS
  <2> HIDE <1>0 DEF WorkTyped, AnswersKnown, AcksKnown, Resolved, Whole
  <2>3. \A o \in Orders : row[o].status \in Resolved => Whole(o)' = Whole(o)
    BY <2>1, <2>2 DEF Whole
  <2>4. QED
    BY <2>1, <2>3 DEF RowsFull
<1>13. ASSUME NEW t \in Tasks, CancelFails(t) PROVE RowsFull'
  BY <1>13, SMTT(60) DEF CancelFails
<1>14. ASSUME NEW o \in Orders, ExecuteBuy(o) PROVE RowsFull'
  BY <1>14, SMTT(60) DEF ExecuteBuy, Submit
<1>15. ASSUME NEW o \in Orders, ExecuteSell(o) PROVE RowsFull'
  BY <1>15, SMTT(60) DEF ExecuteSell, HasId
<1>16. CASE SubmitSell
  BY <1>16, SMTT(60) DEF SubmitSell, Submit
<1>17. CASE ReplaceNext \/ GiveUpSell \/ SubmitRefused \/ TtlCancel \/ SyncDone \/ CycleStart
  BY <1>17, SMTT(60) DEF ReplaceNext, GiveUpSell, SubmitRefused, TtlCancel, SyncDone, CycleStart, Resting
<1>18. CASE SubmitAcked
  BY <1>18, SMTT(60) DEF SubmitAcked, Resolve
<1>19. CASE UpdateAckedRow
  BY <1>19, SMTT(60) DEF UpdateAckedRow, Resolve, NoReply
<1>20. CASE SubmitUnknown \/ SyncNext
  BY <1>20, SMTT(60) DEF SubmitUnknown, SyncNext, Resolve
<1>21. CASE CycleEnd \/ Command
  BY <1>21, SMTT(60) DEF CycleEnd, Finish, Command, CommandStart, CancelAllNext, CommandEnd
<1>22. CASE Crash \/ UNCHANGED vars
  BY <1>22, SMTT(60) DEF Crash, vars, NoRow, NoReply
<1>23. QED
  <2> HIDE <1>0, OrdersAssumption
      DEF WorkTyped, AnswersKnown, AcksKnown, RowsFull, Whole, AnswersHold, SubmittedOnce, ClosedRowIsClosed,
          Resolved, ReplyType, ExchType, TypeOK, Watch, WorksOnRows, CommandWorksOnIds, Working, Answered, Running,
          Tasks, Returns, Goto, Orders, Open, RowType, HasId, HasLoop,
        external, tables, ledger, ages, control
  <2>1. QED
    BY <1>1, <1>2, <1>3, <1>4, <1>5, <1>6, <1>7, <1>8, <1>9, <1>10, <1>11, <1>12, <1>13, <1>14, <1>15, <1>16,
       <1>17, <1>18, <1>19, <1>20, <1>21, <1>22
     DEF Next, Environment, Aging, Resolving, Executing, Cycle

-----------------------------------------------------------------------------
\* A sell is in hand while its row is open, or the cycle works on it or will:
\* a stale answer of the cycle may open its row again.
InHand(o) ==
  \/ row[o].status \in Open
  \/ pc["cycle"] # "idle" /\ o \in todo["cycle"]
  \/ pc["cycle"] \in Working /\ cur["cycle"] = o

\* One sell of a pair is in hand at a time.
OneInHand ==
  \A o, x \in Sells : o # x /\ PairOf[o] = PairOf[x] => ~InHand(o) \/ ~InHand(x)

\* What is left of a sell in hand is held.
Covered == \A o \in Sells : InHand(o) => held[PairOf[o]] + booked[o] >= row[o].qty

\* Only SubmitSell takes a sell in hand, and only BookFill changes the ledger.
Kept(s) ==
  /\ InHand(s)' => InHand(s) \/ (SubmitSell /\ s = decision)
  /\ row[s].status # "NONE" => row'[s].qty = row[s].qty
  /\ (\E t \in Tasks : BookFill(t)) \/ UNCHANGED <<held, booked>>

\* What a step of each kind does to a sell in hand.
LEMMA KeptStep ==
  ASSUME WatchInv, AnswersKnown, CommandToldFinal, NEW s \in Sells, [Next]_vars
  PROVE  Kept(s)
<1>0. WorkTyped /\ WorksOnRows /\ CommandWorksOnIds /\ AnswersHold
  BY DEF WatchInv, TypeOK, Watch, WorkTyped
<1> USE <1>0, OrdersAssumption
    DEF WorkTyped, AnswersKnown, CommandToldFinal, Closed, Kept, InHand, AnswersHold, Resolved, ReplyType, ExchType,
        WorksOnRows, CommandWorksOnIds, Working, Answered, Running, Tasks, Returns, Goto, Orders, Open, RowType,
        HasId, HasLoop, external, tables, ledger, ages, control
<1>1. ASSUME NEW o \in Orders, Arrive(o) PROVE Kept(s)
  BY <1>1, SMTT(60) DEF Arrive
<1>2. ASSUME NEW o \in Orders, Drop(o) \/ Expire(o) \/ BecomeOverdue(o) PROVE Kept(s)
  BY <1>2, SMTT(60) DEF Drop, Expire, BecomeOverdue
<1>3. ASSUME NEW o \in Orders, Match(o) PROVE Kept(s)
  BY <1>3, SMTT(60) DEF Match
<1>4. ASSUME NEW o \in Orders, CancelledElsewhere(o) PROVE Kept(s)
  BY <1>4, SMTT(60) DEF CancelledElsewhere
<1>5. ASSUME NEW t \in Tasks, LookupAnswered(t) PROVE Kept(s)
  BY <1>5, SMTT(60) DEF LookupAnswered
<1>6. ASSUME NEW t \in Tasks, LookupFails(t) PROVE Kept(s)
  BY <1>6, SMTT(60) DEF LookupFails, Return, NoRow, NoReply
<1>7. ASSUME NEW t \in Tasks, NotFound(t) PROVE Kept(s)
  BY <1>7, SMTT(60) DEF NotFound, Return, NoRow, NoReply, GivenUp
<1>8. ASSUME NEW t \in Tasks, BookFill(t) PROVE Kept(s)
  <2>1. /\ pc' = [pc EXCEPT ![t] = IF cur[t] \in StopExits THEN "stoploss" ELSE "stops"]
        /\ pc[t] \in Working
        /\ UNCHANGED <<row, cur, todo>>
    BY <1>8 DEF BookFill, HasFillToBook
  <2>2. InHand(s)' => InHand(s)
    BY <2>1
  <2>3. QED
    BY <1>8, <2>1, <2>2
<1>9. ASSUME NEW t \in Tasks, NothingToBook(t) PROVE Kept(s)
  BY <1>9, SMTT(60) DEF NothingToBook, HasFillToBook
<1>10. ASSUME NEW t \in Tasks, RecordStoploss(t) \/ SaveStops(t) PROVE Kept(s)
  BY <1>10, SMTT(60) DEF RecordStoploss, SaveStops
<1>11. ASSUME NEW t \in Tasks, UpdateRow(t) PROVE Kept(s)
  <2> DEFINE o == cur[t]
             c == Cumulative(t)
             top == IF c >= seen[t].filled THEN c ELSE seen[t].filled
             st == StatusFor(reply[t].st, c)
  <2>1. o \in Orders /\ pc[t] = "row"
    BY <1>11 DEF UpdateRow
  <2>2. row' = [row EXCEPT ![o].status = st, ![o].filled = top] /\ UNCHANGED <<held, booked, todo, cur>>
        /\ pc' = [pc EXCEPT ![t] = back[t]]
    BY <1>11 DEF UpdateRow, Return
  <2>3. \A x \in Orders : /\ row'[x].qty = row[x].qty
                          /\ row'[x].status = IF x = o THEN st ELSE row[x].status
    BY <2>1, <2>2
  <2>4. t = "command" => st \notin Open
    BY <2>1 DEF StatusFor
  <2> HIDE <1>0 DEF c, st, top
  <2>5. t = "command" => (InHand(s)' => InHand(s))
    BY <2>1, <2>2, <2>3, <2>4
  <2>6. t = "cycle" => (InHand(s)' => InHand(s))
    BY <2>1, <2>2, <2>3
  <2>7. QED
    BY <2>2, <2>3, <2>5, <2>6
<1>12. ASSUME NEW t \in Tasks, CancelAnswered(t) PROVE Kept(s)
  BY <1>12, SMTT(60) DEF CancelAnswered, Resolve
<1>13. ASSUME NEW t \in Tasks, CancelFails(t) PROVE Kept(s)
  BY <1>13, SMTT(60) DEF CancelFails
<1>14. ASSUME NEW o \in Orders, ExecuteBuy(o) PROVE Kept(s)
  BY <1>14, SMTT(60) DEF ExecuteBuy, Submit
<1>15. ASSUME NEW o \in Orders, ExecuteSell(o) PROVE Kept(s)
  BY <1>15, SMTT(60) DEF ExecuteSell, HasId
<1>16. CASE SubmitSell
  BY <1>16, SMTT(60) DEF SubmitSell, Submit
<1>17. CASE ReplaceNext \/ GiveUpSell \/ SubmitRefused \/ TtlCancel \/ SyncDone \/ CycleStart
  BY <1>17, SMTT(60) DEF ReplaceNext, GiveUpSell, SubmitRefused, TtlCancel, SyncDone, CycleStart, Resting
<1>18. CASE SubmitAcked
  BY <1>18, SMTT(60) DEF SubmitAcked, Resolve
<1>19. CASE UpdateAckedRow
  BY <1>19, SMTT(60) DEF UpdateAckedRow, Resolve, NoReply
<1>20. CASE SubmitUnknown \/ SyncNext
  BY <1>20, SMTT(60) DEF SubmitUnknown, SyncNext, Resolve
<1>21. CASE CycleEnd \/ Command
  BY <1>21, SMTT(60) DEF CycleEnd, Finish, Command, CommandStart, CancelAllNext, CommandEnd
<1>22. CASE Crash \/ UNCHANGED vars
  BY <1>22, SMTT(60) DEF Crash, vars, NoRow, NoReply
<1>23. QED
  <2> HIDE <1>0, OrdersAssumption
      DEF WorkTyped, AnswersKnown, CommandToldFinal, Closed, Kept, InHand, AnswersHold, Resolved, ReplyType,
          ExchType, TypeOK, Watch, WorksOnRows, CommandWorksOnIds, Working, Answered, Running, Tasks, Returns,
          Goto, Orders, Open, RowType, HasId, HasLoop,
        external, tables, ledger, ages, control
  <2>1. QED
    BY <1>1, <1>2, <1>3, <1>4, <1>5, <1>6, <1>7, <1>8, <1>9, <1>10, <1>11, <1>12, <1>13, <1>14, <1>15, <1>16,
       <1>17, <1>18, <1>19, <1>20, <1>21, <1>22
     DEF Next, Environment, Aging, Resolving, Executing, Cycle

\* A sell is sent when no other of its pair is in hand.
LEMMA OneInHandStep ==
  ASSUME WatchInv, AnswersKnown, CommandToldFinal, OneInHand, [Next]_vars
  PROVE  OneInHand'
<1>1. ASSUME NEW o \in Sells, NEW x \in Sells, o # x, PairOf[o] = PairOf[x], InHand(o)', InHand(x)'
      PROVE  FALSE
  <2>1. Kept(o) /\ Kept(x)
    BY KeptStep
  <2>2. CASE SubmitSell
    <3>1. \A y \in Sells : PairOf[y] = PairOf[decision] => ~InHand(y)
      BY <2>2 DEF SubmitSell, InHand, StillResting, Resting, Working, Orders
    <3>2. o = decision \/ x = decision
      BY <1>1, <2>1, <3>1 DEF Kept, OneInHand
    <3>3. QED
      BY <1>1, <2>1, <3>1, <3>2 DEF Kept
  <2>3. CASE ~SubmitSell
    BY <1>1, <2>1, <2>3 DEF Kept, OneInHand
  <2>4. QED
    BY <2>2, <2>3
<1>2. QED
  BY <1>1 DEF OneInHand, InHand

-----------------------------------------------------------------------------
\* The quantity the row will take from an answer that has been reported.
Noted(t) ==
  IF reply[t].st = "ack" THEN reply[t].done
  ELSE IF Cumulative(t) >= seen[t].filled THEN Cumulative(t) ELSE seen[t].filled

\* An order is traced if none of its fills can be lost: a buy in any case (what a
\* buy books is never cut), and a sell unless a torn crash leaves its row behind
\* its fills, a command overlaps the cycle, and another sell of its pair follows.
OneSellEach == \A o, x \in Sells : PairOf[o] = PairOf[x] => o = x
SalesTraced == ~Overlap \/ ~TornCrash \/ OneSellEach
Traced(o) == o \in Buys \/ SalesTraced

\* All of a closed sell is in the books under the name of its final answer ...
Finished(o) == exch[o].st \in Closed /\ Whole(o) \in trades[o]

\* ... and until then its row and its fills agree whenever nobody acts on an
\* answer, the cycle works from the row as it is, and a command whose reading
\* is older than the row will find the fill it missed in the table.
OnIt(t, o, places) == pc[t] \in places /\ cur[t] = o
SaleKnown(o) ==
  /\ \A t \in Tasks : OnIt(t, o, Reported) => booked[o] = Noted(t)
  /\ (\A t \in Tasks : ~OnIt(t, o, Reported)) => booked[o] = row[o].filled
  /\ OnIt("cycle", o, {"lookup", "answered"} \cup Reported) /\ reply["cycle"].st # "ack" =>
       seen["cycle"].filled = row[o].filled
  /\ OnIt("cycle", o, {"submit", "acked"}) => row[o].filled = 0
  /\ OnIt("cycle", o, Answered) /\ reply["cycle"].st = "ack" => ~OnIt("command", o, Working)
  /\ OnIt("command", o, {"lookup"} \cup Answered) =>
       /\ seen["command"].filled <= row[o].filled
       /\ seen["command"].filled # row[o].filled => row[o].filled \in trades[o] /\ row[o].filled <= Whole(o)
  /\ \A t \in Tasks : OnIt(t, o, Reported) /\ reply[t].st # "ack" /\ Cumulative(t) > seen[t].filled =>
       Cumulative(t) \in trades[o]
SalesKnown == \A o \in Sells : Finished(o) \/ SaleKnown(o)

\* A command that has been told of a closed order knows all of it.
LEMMA CommandAnswer ==
  ASSUME WatchInv, AnswersKnown, AcksKnown, CommandToldFinal, pc["command"] \in Answered
  PROVE  /\ cur["command"] \in Orders
         /\ Cumulative("command") = Whole(cur["command"])
         /\ reply["command"].st # "ack"
         /\ exch[cur["command"]].st \in Closed
<1> DEFINE o == cur["command"]
<1>1. o \in Orders /\ reply["command"].st \in Closed /\ exch[o].st \in Closed
  BY DEF WatchInv, Watch, WorksOnRows, Working, Answered, Tasks, CommandToldFinal
<1>2. exch[o] = reply["command"] /\ seen["command"].qty = row[o].qty
  BY <1>1 DEF AnswersKnown, Answered, Tasks, Closed
<1>3. QED
  BY <1>1, <1>2 DEF Cumulative, Whole, Closed

\* What a command finds of a sell that was closed meanwhile is in the books.
LEMMA NothingLeft ==
  ASSUME WatchInv, AnswersKnown, AcksKnown, CommandToldFinal, RowsFull, SalesKnown,
         HasFillToBook("command"), cur["command"] \in Sells, row[cur["command"]].status \notin Open
  PROVE  ~Bookable("command")
<1> DEFINE o == cur["command"]
           n == Cumulative("command")
           s == seen["command"].filled
<1>1. pc["command"] = "answered" /\ pc["command"] \in Answered
  BY DEF HasFillToBook, AnswersKnown, AcksKnown, Answered, Tasks
<1>2. o \in Orders /\ n = Whole(o) /\ reply["command"].st # "ack" /\ exch[o].st \in Closed
  BY <1>1, CommandAnswer
<1>3. row[o].status \in Resolved
  BY <1>1, <1>2 DEF WatchInv, TypeOK, RowType, RowStatus, Watch, WorksOnRows, Working, Tasks, RejectedNeverLive,
     Closed
<1>4. Whole(o) <= row[o].filled
  BY <1>2, <1>3 DEF RowsFull
<1>5. n \in Nat /\ s \in Nat /\ row[o].filled \in Nat /\ held[PairOf[o]] \in Nat
  BY <1>2, CumulativeNat, OrdersAssumption DEF WatchInv, TypeOK, RowType, Tasks
<1>6. CASE n \in trades[o]
  BY <1>6 DEF Bookable
<1>7. CASE n \notin trades[o]
  <2>1. SaleKnown(o)
    BY <1>2, <1>7 DEF SalesKnown, Finished
  <2>2. /\ s <= row[o].filled
        /\ s # row[o].filled => row[o].filled \in trades[o] /\ row[o].filled <= Whole(o)
    BY <1>1, <2>1 DEF SaleKnown, OnIt
  <2> HIDE DEF n, s, o
  <2>3. s = row[o].filled
    BY <1>2, <1>4, <1>5, <1>7, <2>2
  <2>4. Fresh("command") = n - s
    BY <1>2 DEF Fresh, n, s
  <2>5. Fresh("command") <= 0 /\ Fresh("command") \in Int
    BY <1>2, <1>4, <1>5, <2>3, <2>4
  <2>6. FillQty("command") <= 0
    BY <1>5, <2>5 DEF FillQty, Least, o
  <2>7. FillQty("command") \in Int
    BY <1>5, <2>5 DEF FillQty, Least, o
  <2>8. QED
    BY <2>6, <2>7 DEF Bookable
<1>8. QED
  BY <1>6, <1>7

\* What a booking takes from the ledger of a pair, it adds to the order in hand.
LEMMA CoveredStep ==
  ASSUME SalesTraced, WatchInv, AnswersKnown, AcksKnown, CommandToldFinal, RowsFull, OneInHand, Covered,
         ~Overlap => Solo, ~TornCrash => SalesKnown, [Next]_vars
  PROVE  Covered'
<1>1. ASSUME NEW s \in Sells, InHand(s)' PROVE (held[PairOf[s]] + booked[s] >= row[s].qty)'
  <2> DEFINE p == PairOf[s]
  <2>1. Kept(s) /\ s \in Orders /\ p \in Pairs
    BY KeptStep, OrdersAssumption DEF Orders
  <2>2. held[p] \in Nat /\ booked[s] \in Nat /\ row[s].qty \in Nat /\ held \in [Pairs -> Nat] /\ booked \in [Orders -> Nat]
    BY <2>1 DEF WatchInv, TypeOK, RowType
  <2>3. CASE SubmitSell /\ s = decision
    <3>1. row'[s].qty = SellQty(s) /\ UNCHANGED <<held, booked>>
      BY <2>1, <2>3 DEF SubmitSell, Submit, ledger, WatchInv, TypeOK
    <3>2. SellQty(s) \in Nat /\ SellQty(s) <= held[p]
      BY SellQtyNat DEF WatchInv
    <3> HIDE DEF p
    <3>3. held[p] + booked[s] >= SellQty(s)
      BY <2>2, <3>2
    <3>4. QED
      BY <3>1, <3>3 DEF p
  <2>4. CASE ~(SubmitSell /\ s = decision)
    <3>1. InHand(s)
      BY <1>1, <2>1, <2>4 DEF Kept
    <3>2. held[p] + booked[s] >= row[s].qty
      BY <3>1 DEF Covered
    <3>3. row[s].status # "NONE"
      BY <3>1 DEF InHand, WatchInv, Watch, WorksOnRows, Open, Tasks
    <3>4. row'[s].qty = row[s].qty
      BY <2>1, <3>3 DEF Kept
    <3>5. CASE UNCHANGED <<held, booked>>
      BY <3>2, <3>4, <3>5
    <3>6. ASSUME NEW t \in Tasks, BookFill(t)
          PROVE  held'[p] + booked'[s] >= row[s].qty
      <4> DEFINE o == cur[t]
                 q == FillQty(t)
      <4>1. o \in Orders /\ HasFillToBook(t) /\ Bookable(t) /\ pc[t] \in Working
        BY <3>6 DEF BookFill, HasFillToBook, WatchInv, Watch, WorksOnRows, Working
      <4>2. q \in Int /\ q > 0
        <5>1. held[PairOf[o]] \in Nat /\ Fresh(t) \in Int
          BY <4>1, CumulativeNat, OrdersAssumption DEF WatchInv, TypeOK
        <5>2. QED
          BY <4>1, <5>1 DEF Bookable, FillQty, Least
      <4>3. /\ booked' = [booked EXCEPT ![o] = @ + q]
            /\ held' = [held EXCEPT ![PairOf[o]] = IF o \in Buys THEN @ + q ELSE @ - q]
        BY <3>6 DEF BookFill
      <4>4. CASE o = s \/ o \in Buys \/ PairOf[o] # p
        <5>1. s \notin Buys
          BY OrdersAssumption
        <5> HIDE DEF q, o
        <5>2. QED
          BY <2>1, <2>2, <3>2, <4>1, <4>2, <4>3, <4>4, <5>1, SMTT(60)
      <4>5. CASE o # s /\ o \notin Buys /\ PairOf[o] = p
        <5>1. o \in Sells /\ ~InHand(o)
          BY <3>1, <4>1, <4>5 DEF OneInHand, Orders
        <5>2. t = "command" /\ row[o].status \notin Open
          BY <4>1, <5>1 DEF InHand, Tasks
        <5>3. Overlap
          BY <4>1, <5>2, <3>6 DEF Solo, Working, HasFillToBook
        <5>4. ~OneSellEach
          BY <4>5, <5>1 DEF OneSellEach
        <5>5. ~TornCrash
          BY <5>3, <5>4 DEF SalesTraced
        <5>6. QED
          BY <4>1, <5>1, <5>2, <5>5, NothingLeft
      <4>6. QED
        BY <4>4, <4>5
    <3>7. QED
      BY <2>1, <3>4, <3>5, <3>6 DEF Kept
  <2>5. QED
    BY <2>3, <2>4
<1>2. QED
  BY <1>1 DEF Covered, InHand

\* The fills table holds at least what a row, a reading of it, or an answer that
\* has been reported says of a traced order; of one that is closed, all of it.
BooksKnown ==
  /\ \A o \in Orders : Traced(o) => row[o].filled <= booked[o] /\ \A c \in trades[o] : c <= booked[o]
  /\ \A t \in Tasks : pc[t] \in Answered \cup {"lookup"} /\ reply[t].st # "ack" /\ Traced(cur[t]) =>
       seen[t].filled <= booked[cur[t]]
  /\ \A t \in Tasks : pc[t] \in Reported /\ Traced(cur[t]) => Cumulative(t) <= booked[cur[t]]
  /\ \A o \in Orders : Traced(o) /\ row[o].status \in Resolved => booked[o] >= FilledFor(exch[o], row[o].qty)

\* What is known of every order's fills, in every setting.
BookInv ==
  /\ AnswersKnown /\ OneRuns /\ AcksKnown /\ CommandToldFinal /\ RowsFull
  /\ OneInHand /\ BooksKnown
  /\ ~Overlap => Solo
  /\ ~TornCrash => SalesKnown
  /\ SalesTraced => Covered

\* What an answer reports is no more than what was ordered.
LEMMA CumulativeBounded ==
  ASSUME WatchInv, AnswersKnown, NEW t \in Tasks, HasFillToBook(t)
  PROVE  /\ cur[t] \in Orders
         /\ Cumulative(t) \in Nat
         /\ Cumulative(t) <= row[cur[t]].qty
<1> DEFINE o == cur[t]
<1>1. TypeOK /\ pc[t] \in Answered /\ pc[t] \in Working
  BY DEF WatchInv, HasFillToBook, Answered, Working
<1>2. o \in Orders
  BY <1>1 DEF WatchInv, Watch, WorksOnRows
<1>3. row[o].qty \in Nat /\ exch[o].done \in Nat /\ exch[o].done <= row[o].qty /\ reply[t] \in ReplyType /\ reply[t].done \in Nat
  BY <1>1, <1>2 DEF TypeOK, RowType, ExchType, ReplyType, AnswersKnown
<1>4. Cumulative(t) \in Nat
  BY <1>1, CumulativeNat
<1>5. CASE reply[t].st = "ack"
  BY <1>1, <1>2, <1>3, <1>4, <1>5 DEF AnswersKnown, Cumulative
<1>6. CASE reply[t].st # "ack"
  <2>1. seen[t].qty = row[o].qty
    BY <1>1, <1>6 DEF AnswersKnown
  <2>2. FilledFor(reply[t], row[o].qty) <= row[o].qty
    BY <1>3, FilledForNat
  <2>3. QED
    BY <1>2, <1>4, <1>6, <2>1, <2>2 DEF Cumulative
<1>7. QED
  BY <1>5, <1>6

\* Acting on an answer leaves nothing of it unbooked: a sell that books less
\* than is new to it would need a ledger that holds less than is left of it.
LEMMA BookingCovers ==
  ASSUME WatchInv, BookInv, NEW t \in Tasks, HasFillToBook(t), Traced(cur[t])
  PROVE  /\ Bookable(t) => Cumulative(t) <= booked[cur[t]] + FillQty(t)
         /\ ~Bookable(t) => Cumulative(t) <= booked[cur[t]]
<1> DEFINE o == cur[t]
           c == Cumulative(t)
           f == Fresh(t)
           h == held[PairOf[o]]
           q == row[o].qty
<1>1. TypeOK /\ pc[t] \in Answered /\ pc[t] \in Working
  BY DEF WatchInv, HasFillToBook, Answered, Working
<1>2. o \in Orders /\ c \in Nat /\ c <= q
  BY CumulativeBounded DEF BookInv
<1>3. PairOf[o] \in Pairs /\ h \in Nat /\ booked[o] \in Nat /\ f \in Int /\ q \in Nat
  BY <1>1, <1>2, OrdersAssumption, CumulativeNat DEF TypeOK, RowType
<1>4. c <= booked[o] + f
  <2>1. CASE reply[t].st = "ack"
    BY <1>2, <1>3, <2>1 DEF Fresh
  <2>2. CASE reply[t].st # "ack"
    <3>1. seen[t].filled \in Nat /\ seen[t].filled <= booked[o]
      BY <1>1, <2>2 DEF BookInv, BooksKnown, TypeOK, RowType
    <3>2. f = c - seen[t].filled
      BY <2>2 DEF Fresh
    <3> HIDE DEF c, f
    <3>3. QED
      BY <1>2, <1>3, <3>1, <3>2
  <2>3. QED
    BY <2>1, <2>2
<1>5. o \in Sells => c <= booked[o] + h
  <2>1. SUFFICES ASSUME o \in Sells
                 PROVE  c <= booked[o] + h
    OBVIOUS
  <2>2. SalesTraced
    BY <2>1, OrdersAssumption DEF Traced
  <2>3. CASE InHand(o)
    <3>1. h + booked[o] >= q
      BY <2>1, <2>2, <2>3 DEF BookInv, Covered
    <3> HIDE DEF c, h, q
    <3>2. QED
      BY <1>2, <1>3, <3>1
  <2>4. CASE ~InHand(o)
    <3>1. t = "command" /\ row[o].status \notin Open
      BY <1>1, <2>4 DEF InHand, Tasks
    <3>2. c = Whole(o) /\ exch[o].st \in Closed
      BY <1>1, <3>1, CommandAnswer DEF BookInv
    <3>3. row[o].status \in Resolved
      BY <1>1, <1>2, <3>1, <3>2 DEF WatchInv, TypeOK, RowType, RowStatus, Watch, WorksOnRows, RejectedNeverLive,
         Closed
    <3>4. booked[o] >= Whole(o)
      BY <1>2, <3>3 DEF BookInv, BooksKnown, Whole
    <3> HIDE DEF c, h, o
    <3>5. QED
      BY <1>2, <1>3, <3>2, <3>4
  <2>5. QED
    BY <2>3, <2>4
<1>6. \A x \in trades[o] : x <= booked[o]
  BY <1>2 DEF BookInv, BooksKnown
<1>7. FillQty(t) = IF o \in Sells THEN Least(f, h) ELSE f
  BY DEF FillQty
<1>8. ~Bookable(t) => ~(FillQty(t) > 0) \/ c \in trades[o]
  BY DEF Bookable
<1> HIDE DEF o, c, f, h, q
<1>9. c <= booked[o] + FillQty(t) /\ FillQty(t) \in Int
  BY <1>2, <1>3, <1>4, <1>5, <1>7 DEF Least
<1>10. ~Bookable(t) => c <= booked[o]
  BY <1>2, <1>3, <1>6, <1>8, <1>9
<1>11. QED
  BY <1>9, <1>10 DEF o, c

\* No step loses a fill of a traced order.
LEMMA BooksStep ==
  ASSUME WatchInv, BookInv, [Next]_vars
  PROVE  BooksKnown'
<1>0. AnswersKnown /\ BooksKnown
  BY DEF BookInv
<1>00. /\ WorkTyped /\ WorksOnRows /\ SubmittedOnce /\ AnswersHold /\ RejectedNeverLive /\ ClosedRowIsClosed
       /\ trades \in [Orders -> SUBSET Nat] /\ booked \in [Orders -> Nat] /\ decision \in Sells \cup {NoOrder}
  BY DEF WatchInv, TypeOK, Watch, WorkTyped
<1>t. TypeOK
  BY DEF WatchInv
<1> USE <1>0, <1>00, OrdersAssumption
    DEF WorkTyped, WorksOnRows, SubmittedOnce, AnswersHold, RejectedNeverLive, ClosedRowIsClosed, BooksKnown,
        Cumulative, Reported, Answered, Working, Resolved, Open, Tasks, Returns, Goto, Orders, RowType, ExchType,
        external, tables, ledger, ages, control
<1>1. ASSUME NEW o \in Orders, Arrive(o) PROVE BooksKnown'
  BY <1>1, SMTT(60) DEF Arrive
<1>2. ASSUME NEW o \in Orders, Drop(o) \/ Expire(o) \/ BecomeOverdue(o) PROVE BooksKnown'
  BY <1>2, SMTT(60) DEF Drop, Expire, BecomeOverdue
<1>3. ASSUME NEW o \in Orders, Match(o) PROVE BooksKnown'
  BY <1>3, SMTT(60) DEF Match
<1>4. ASSUME NEW o \in Orders, CancelledElsewhere(o) PROVE BooksKnown'
  BY <1>4, SMTT(60) DEF CancelledElsewhere
<1>5. ASSUME NEW t \in Tasks, LookupAnswered(t) PROVE BooksKnown'
  BY <1>5, SMTT(60) DEF LookupAnswered
<1>6. ASSUME NEW t \in Tasks, LookupFails(t) PROVE BooksKnown'
  BY <1>6, SMTT(60) DEF LookupFails, Return, NoRow, NoReply
<1>7. ASSUME NEW t \in Tasks, NotFound(t) PROVE BooksKnown'
  BY <1>7, SMTT(60) DEF NotFound, Return, NoRow, NoReply, GivenUp
<1>8. ASSUME NEW t \in Tasks, BookFill(t) PROVE BooksKnown'
  <2> DEFINE o == cur[t]
             q == FillQty(t)
  <2>1. HasFillToBook(t) /\ Bookable(t) /\ o \in Orders /\ Cumulative(t) \in Nat
    BY <1>8, <1>t, CumulativeNat DEF BookFill, HasFillToBook
  <2>2. Traced(o) => Cumulative(t) <= booked[o] + q
    BY <2>1, BookingCovers
  <2>3. q \in Int /\ q > 0
    BY <1>t, <2>1, CumulativeNat DEF TypeOK, Bookable, FillQty, Least
  <2>4. /\ booked' = [booked EXCEPT ![o] = @ + q]
        /\ trades' = [trades EXCEPT ![o] = @ \cup {Cumulative(t)}]
        /\ pc' = [pc EXCEPT ![t] = IF o \in StopExits THEN "stoploss" ELSE "stops"]
        /\ UNCHANGED <<exch, row, cur, seen, reply>>
    BY <1>8 DEF BookFill
  <2>5. /\ \A u \in Tasks : Cumulative(u)' = Cumulative(u)
        /\ booked \in [Orders -> Nat] /\ trades \in [Orders -> SUBSET Nat] /\ pc \in [Tasks -> Places]
        /\ \A u \in Tasks : pc[u] \in Answered \cup {"lookup"} => cur[u] \in Orders
        /\ \A x \in Orders : row[x].filled \in Nat /\ FilledFor(exch[x], row[x].qty) \in Nat
        /\ \A u \in Tasks : seen[u].filled \in Nat /\ Cumulative(u) \in Nat
    <3>1. \A u \in Tasks : Cumulative(u)' = Cumulative(u)
      BY <2>4
    <3>2. /\ booked \in [Orders -> Nat] /\ trades \in [Orders -> SUBSET Nat] /\ pc \in [Tasks -> Places]
          /\ \A u \in Tasks : pc[u] \in Answered \cup {"lookup"} => cur[u] \in Orders
          /\ \A x \in Orders : row[x].filled \in Nat
          /\ \A u \in Tasks : seen[u].filled \in Nat
      OBVIOUS
    <3>3. \A x \in Orders : exch[x] \in ExchType /\ row[x].qty \in Nat
      OBVIOUS
    <3>4. TypeOK
      BY <1>t
    <3> HIDE <1>0, <1>00 DEF WorkTyped, Cumulative, ExchType, RowType, BooksKnown
    <3>5. \A x \in Orders : FilledFor(exch[x], row[x].qty) \in Nat
      BY <3>3, FilledForNat
    <3>6. \A u \in Tasks : Cumulative(u) \in Nat
      BY <3>4, CumulativeNat
    <3>7. QED
      BY <3>1, <3>2, <3>5, <3>6
  <2>6. pc[t] \in Answered
    BY <2>1 DEF HasFillToBook
  <2> HIDE DEF q
  <2>7. \A x \in Orders : booked'[x] \in Nat /\ booked[x] <= booked'[x]
    BY <2>1, <2>3, <2>4, <2>5
  <2>8. booked'[o] = booked[o] + q /\ \A x \in Orders : trades'[x] = IF x = o THEN trades[x] \cup {Cumulative(t)} ELSE trades[x]
    BY <2>1, <2>4, <2>5
  <2> HIDE <1>00 DEF WorkTyped, WorksOnRows, SubmittedOnce, AnswersHold, RejectedNeverLive, ClosedRowIsClosed,
             Cumulative, Open, Goto, Orders, RowType, ExchType, o
  <2>9. \A x \in Orders : Traced(x) => row'[x].filled <= booked'[x] /\ \A c \in trades'[x] : c <= booked'[x]
    BY <2>1, <2>2, <2>3, <2>4, <2>5, <2>7, <2>8
  <2>10. \A u \in Tasks : pc'[u] \in Answered \cup {"lookup"} => pc[u] \in Answered \cup {"lookup"}
    BY <2>4, <2>5, <2>6
  <2>11. \A u \in Tasks : pc'[u] \in Answered \cup {"lookup"} /\ reply'[u].st # "ack" /\ Traced(cur'[u]) =>
            seen'[u].filled <= booked'[cur'[u]]
    BY <2>4, <2>5, <2>7, <2>10
  <2>12. \A u \in Tasks : pc'[u] \in Reported /\ Traced(cur'[u]) => Cumulative(u)' <= booked'[cur'[u]]
    <3>1. ASSUME NEW u \in Tasks, pc'[u] \in Reported, Traced(cur[u])
          PROVE  Cumulative(u) <= booked'[cur[u]]
      <4>1. CASE u = t
        BY <2>2, <2>8, <3>1, <4>1 DEF o
      <4>2. CASE u # t
        <5>1. pc[u] \in Reported
          BY <2>4, <2>5, <3>1, <4>2
        <5>2. Cumulative(u) <= booked[cur[u]] /\ cur[u] \in Orders
          BY <2>5, <3>1, <5>1
        <5>3. QED
          BY <2>5, <2>7, <5>2
      <4>3. QED
        BY <4>1, <4>2
    <3>2. QED
      BY <2>4, <2>5, <3>1
  <2>13. \A x \in Orders : Traced(x) /\ row'[x].status \in Resolved => booked'[x] >= FilledFor(exch'[x], row'[x].qty)
    BY <2>4, <2>5, <2>7
  <2>14. QED
    BY <2>9, <2>11, <2>12, <2>13
<1>9. ASSUME NEW t \in Tasks, NothingToBook(t) PROVE BooksKnown'
  <2>1. HasFillToBook(t) /\ ~Bookable(t) /\ cur[t] \in Orders
    BY <1>9 DEF NothingToBook, HasFillToBook
  <2>2. Traced(cur[t]) => Cumulative(t) <= booked[cur[t]]
    BY <2>1, BookingCovers
  <2>3. /\ pc' = [pc EXCEPT ![t] = IF reply[t].st = "ack" THEN "ackrow" ELSE "row"]
        /\ UNCHANGED <<exch, row, cur, seen, reply, booked, trades>>
        /\ pc \in [Tasks -> Places]
        /\ pc[t] \in Answered
    BY <1>9, <2>1 DEF NothingToBook, HasFillToBook
  <2>4. \A u \in Tasks : Cumulative(u)' = Cumulative(u)
    BY <2>3
  <2> HIDE <1>00 DEF WorkTyped, WorksOnRows, SubmittedOnce, AnswersHold, RejectedNeverLive, ClosedRowIsClosed,
             Cumulative, Resolved, Open, Goto, Orders, RowType, ExchType
  <2>5. QED
    BY <2>2, <2>3, <2>4, SMTT(60)
<1>10. ASSUME NEW t \in Tasks, RecordStoploss(t) \/ SaveStops(t) PROVE BooksKnown'
  BY <1>10, SMTT(60) DEF RecordStoploss, SaveStops
<1>11. ASSUME NEW t \in Tasks, UpdateRow(t) PROVE BooksKnown'
  <2> DEFINE o == cur[t]
             c == Cumulative(t)
             top == IF c >= seen[t].filled THEN c ELSE seen[t].filled
  <2>1. o \in Orders /\ pc[t] = "row" /\ c \in Nat /\ seen[t].filled \in Nat
    BY <1>11, <1>t, CumulativeNat DEF UpdateRow
  <2>2. /\ row' = [row EXCEPT ![o].status = StatusFor(reply[t].st, c), ![o].filled = top]
        /\ reply' = [reply EXCEPT ![t] = [st |-> "none", done |-> 0]]
        /\ seen' = [seen EXCEPT ![t] = [status |-> "NONE", filled |-> 0, qty |-> 0]]
        /\ pc' = [pc EXCEPT ![t] = back[t]]
        /\ UNCHANGED <<exch, cur, booked, trades>>
    BY <1>11 DEF UpdateRow, Return, NoRow, NoReply
  <2>3. \A u \in Tasks \ {t} : Cumulative(u)' = Cumulative(u)
    BY <2>2
  <2>4. back[t] \notin Answered \cup {"lookup"}
    OBVIOUS
  <2>5. reply[t].st \in {"open", "filled", "cancelled"}
    BY <2>1 DEF AnswersKnown, ReplyType
  <2>6. c = FilledFor(reply[t], seen[t].qty) /\ seen[t].qty = row[o].qty
    BY <2>1, <2>5 DEF AnswersKnown
  <2>7. Traced(o) => top <= booked[o]
    BY <2>1, <2>5
  <2>8. Traced(o) /\ reply[t].st \in {"filled", "cancelled"} => booked[o] >= FilledFor(exch[o], row[o].qty)
    BY <2>1, <2>6 DEF AnswersKnown
  <2>9. StatusFor(reply[t].st, c) \in Resolved => reply[t].st \in {"filled", "cancelled"}
    BY DEF StatusFor
  <2> DEFINE st == StatusFor(reply[t].st, c)
  <2>10. /\ booked \in [Orders -> Nat] /\ trades \in [Orders -> SUBSET Nat] /\ pc \in [Tasks -> Places]
         /\ row \in [Orders -> RowType] /\ seen \in [Tasks -> RowType] /\ reply \in [Tasks -> ReplyType]
    OBVIOUS
  <2> HIDE <1>00 DEF WorkTyped, WorksOnRows, SubmittedOnce, AnswersHold, RejectedNeverLive, ClosedRowIsClosed,
             Cumulative, Open, Goto, Orders, RowType, ExchType, c, top, st
  <2>a. row' = [row EXCEPT ![o].status = st, ![o].filled = top]
    BY <2>2 DEF st
  <2> HIDE DEF o, BooksKnown
  <2>11. \A x \in Orders : /\ row'[x].qty = row[x].qty
                           /\ row'[x].filled = IF x = o THEN top ELSE row[x].filled
                           /\ row'[x].status = IF x = o THEN st ELSE row[x].status
    BY <2>10, <2>a DEF RowType
  <2> USE DEF BooksKnown
  <2>12. \A x \in Orders : Traced(x) => row'[x].filled <= booked'[x] /\ \A d \in trades'[x] : d <= booked'[x]
    BY <2>2, <2>7, <2>11
  <2>13. \A u \in Tasks : pc'[u] \in Answered \cup {"lookup"} => u # t
    BY <2>2, <2>4, <2>10
  <2>14. \A u \in Tasks : pc'[u] \in Answered \cup {"lookup"} /\ reply'[u].st # "ack" /\ Traced(cur'[u]) =>
            seen'[u].filled <= booked'[cur'[u]]
    BY <2>2, <2>10, <2>13
  <2>15. \A u \in Tasks : pc'[u] \in Reported /\ Traced(cur'[u]) => Cumulative(u)' <= booked'[cur'[u]]
    BY <2>2, <2>3, <2>10, <2>13
  <2>16. \A x \in Orders : Traced(x) /\ row'[x].status \in Resolved => booked'[x] >= FilledFor(exch'[x], row'[x].qty)
    BY <2>2, <2>8, <2>9, <2>11 DEF st
  <2>17. QED
    BY <2>12, <2>14, <2>15, <2>16
<1>12. ASSUME NEW t \in Tasks, CancelAnswered(t) PROVE BooksKnown'
  <2>1. /\ pc[t] = "cancel" /\ pc'[t] = "lookup" /\ cur[t] \in Orders /\ seen'[t] = row[cur[t]]
        /\ \A u \in Tasks : u # t => pc'[u] = pc[u] /\ seen'[u] = seen[u]
        /\ \A o \in Orders : exch'[o].done = exch[o].done
        /\ \A o \in Orders : exch[o].st # "open" => exch'[o] = exch[o]
        /\ UNCHANGED <<row, cur, reply, booked, trades>>
    BY <1>12, CancelSent
  <2>2. \A o \in Orders : row[o].status \in Resolved => exch[o].st # "open"
    OBVIOUS
  <2>3. "lookup" \notin Reported \cup Answered
    OBVIOUS
  <2>4. \A u \in Tasks : u # t => Cumulative(u)' = Cumulative(u)
    BY <2>1
  <2> HIDE <1>00 DEF WorkTyped, Cumulative, Resolved, Answered, Working, Reported
  <2>5. (\A o \in Orders : Traced(o) => row[o].filled <= booked[o] /\ \A c \in trades[o] : c <= booked[o])'
    BY <2>1 DEF Traced
  <2>6. \A u \in Tasks : pc'[u] \in Answered \cup {"lookup"} /\ reply'[u].st # "ack" /\ Traced(cur'[u]) =>
          seen'[u].filled <= booked'[cur'[u]]
    BY <2>1 DEF Traced
  <2>7. \A u \in Tasks : pc'[u] \in Reported /\ Traced(cur'[u]) => Cumulative(u)' <= booked'[cur'[u]]
    BY <2>1, <2>3, <2>4 DEF Traced
  <2>8. \A o \in Orders : Traced(o) /\ row'[o].status \in Resolved => booked'[o] >= FilledFor(exch'[o], row'[o].qty)
    BY <2>1, <2>2 DEF Traced
  <2>9. QED
    BY <2>5, <2>6, <2>7, <2>8
<1>13. ASSUME NEW t \in Tasks, CancelFails(t) PROVE BooksKnown'
  BY <1>13, SMTT(60) DEF CancelFails
<1>14. ASSUME NEW o \in Orders, ExecuteBuy(o) PROVE BooksKnown'
  BY <1>14, SMTT(60) DEF ExecuteBuy, Submit
<1>15. ASSUME NEW o \in Orders, ExecuteSell(o) PROVE BooksKnown'
  BY <1>15, SMTT(60) DEF ExecuteSell
<1>16. CASE SubmitSell
  BY <1>16, SMTT(60) DEF SubmitSell, Submit
<1>17. CASE ReplaceNext \/ GiveUpSell \/ SubmitRefused \/ TtlCancel \/ SyncDone \/ CycleStart
  <2>1. CASE ReplaceNext
    BY <2>1, SMTT(60) DEF ReplaceNext
  <2>2. CASE GiveUpSell
    BY <2>2, SMTT(60) DEF GiveUpSell
  <2>3. CASE SubmitRefused
    BY <2>3, SMTT(60) DEF SubmitRefused
  <2>4. CASE TtlCancel
    BY <2>4, SMTT(60) DEF TtlCancel
  <2>5. CASE SyncDone
    BY <2>5, SMTT(60) DEF SyncDone
  <2>6. CASE CycleStart
    BY <2>6, SMTT(60) DEF CycleStart
  <2>7. QED
    BY <1>17, <2>1, <2>2, <2>3, <2>4, <2>5, <2>6, Zenon
<1>18. CASE SubmitAcked
  BY <1>18, SMTT(60) DEF SubmitAcked, Resolve
<1>19. CASE UpdateAckedRow
  <2> DEFINE o == cur["cycle"]
  <2>1. /\ pc["cycle"] = "ackrow" /\ row' = [row EXCEPT ![o].filled = reply["cycle"].done]
        /\ pc' = [pc EXCEPT !["cycle"] = "lookup"] /\ cur' = [cur EXCEPT !["cycle"] = o]
        /\ seen' = [seen EXCEPT !["cycle"] = row'[o]] /\ reply' = [reply EXCEPT !["cycle"] = NoReply]
        /\ UNCHANGED <<exch, trades, booked>>
    BY <1>19 DEF UpdateAckedRow, Resolve
  <2>2. o \in Orders /\ reply["cycle"].st = "ack" /\ (Traced(o) => reply["cycle"].done <= booked[o])
    BY <2>1 DEF AnswersKnown
  <2>3. /\ pc'["cycle"] = "lookup" /\ cur' = cur /\ seen'["cycle"] = row'[o]
        /\ row'[o].filled = reply["cycle"].done
        /\ \A x \in Orders : x # o => row'[x] = row[x]
        /\ \A x \in Orders : row'[x].status = row[x].status /\ row'[x].qty = row[x].qty
        /\ \A u \in Tasks : u # "cycle" => pc'[u] = pc[u] /\ seen'[u] = seen[u] /\ reply'[u] = reply[u]
    BY <2>1, <2>2
  <2>4. \A u \in Tasks : u # "cycle" => Cumulative(u)' = Cumulative(u)
    BY <2>3
  <2>5. "lookup" \notin Reported
    OBVIOUS
  <2> HIDE <1>00 DEF WorkTyped, Cumulative, Resolved, Answered, Working, Reported
  <2>6. (\A x \in Orders : Traced(x) => row[x].filled <= booked[x] /\ \A c \in trades[x] : c <= booked[x])'
    BY <2>1, <2>2, <2>3 DEF Traced
  <2>7. \A u \in Tasks : pc'[u] \in Answered \cup {"lookup"} /\ reply'[u].st # "ack" /\ Traced(cur'[u]) =>
          seen'[u].filled <= booked'[cur'[u]]
    <3>1. Traced(o) => seen'["cycle"].filled <= booked'[cur'["cycle"]]
      BY <2>1, <2>2, <2>3
    <3>2. \A u \in Tasks \ {"cycle"} : pc[u] \in Answered \cup {"lookup"} /\ reply[u].st # "ack" /\ Traced(cur[u]) =>
            seen'[u].filled <= booked'[cur'[u]]
      BY <2>1, <2>3
    <3>3. QED
      BY <2>3, <3>1, <3>2
  <2>8. \A u \in Tasks : pc'[u] \in Reported /\ Traced(cur'[u]) => Cumulative(u)' <= booked'[cur'[u]]
    BY <2>1, <2>3, <2>4, <2>5 DEF Traced
  <2>9. \A x \in Orders : Traced(x) /\ row'[x].status \in Resolved => booked'[x] >= FilledFor(exch'[x], row'[x].qty)
    BY <2>1, <2>3 DEF Traced
  <2>10. QED
    BY <2>6, <2>7, <2>8, <2>9
<1>20. CASE SubmitUnknown \/ SyncNext
  BY <1>20, SMTT(60) DEF SubmitUnknown, SyncNext, Resolve
<1>21. CASE CycleEnd \/ Command
  BY <1>21, SMTT(60) DEF CycleEnd, Finish, Command, CommandStart, CancelAllNext, CommandEnd
<1>22. CASE Crash \/ UNCHANGED vars
  BY <1>22, SMTT(60) DEF Crash, vars, NoRow, NoReply
<1>23. QED
  <2> HIDE <1>0, <1>00, OrdersAssumption
    DEF WorkTyped, WorksOnRows, SubmittedOnce, AnswersHold, RejectedNeverLive, ClosedRowIsClosed,
        BooksKnown, Cumulative, Reported, Answered, Working, Resolved, Open, Tasks, Returns, Goto, Orders, RowType,
        ExchType,
        external, tables, ledger, ages, control
  <2>1. QED
    BY <1>1, <1>2, <1>3, <1>4, <1>5, <1>6, <1>7, <1>8, <1>9, <1>10, <1>11, <1>12, <1>13, <1>14, <1>15,
       <1>16, <1>17, <1>18, <1>19, <1>20, <1>21, <1>22
       DEF Next, Environment, Aging, Resolving, Executing, Cycle

-----------------------------------------------------------------------------
\* The exchange does not change a closed order, and no fill leaves the table.
Later(s) ==
  /\ exch[s].st \in Closed => exch'[s] = exch[s]
  /\ trades[s] \subseteq trades'[s]

\* What the exchange has closed and what is booked stays so.
LEMMA LaterStep ==
  ASSUME WatchInv, NEW s \in Orders, [Next]_vars
  PROVE  Later(s)
<1> USE OrdersAssumption
    DEF WatchInv, TypeOK, Watch, WorksOnRows, SubmittedOnce, Closed, Later, Tasks, Orders, RowType, ExchType,
        external, tables, ledger, ages, control
<1>1. ASSUME NEW o \in Orders, Arrive(o) PROVE Later(s)
  BY <1>1, SMTT(60) DEF Arrive
<1>2. ASSUME NEW o \in Orders, Drop(o) \/ Expire(o) \/ BecomeOverdue(o) PROVE Later(s)
  BY <1>2, SMTT(60) DEF Drop, Expire, BecomeOverdue
<1>3. ASSUME NEW o \in Orders, Match(o) PROVE Later(s)
  BY <1>3, SMTT(60) DEF Match
<1>4. ASSUME NEW o \in Orders, CancelledElsewhere(o) PROVE Later(s)
  BY <1>4, SMTT(60) DEF CancelledElsewhere
<1>5. ASSUME NEW t \in Tasks, LookupAnswered(t) PROVE Later(s)
  BY <1>5, SMTT(60) DEF LookupAnswered
<1>6. ASSUME NEW t \in Tasks, LookupFails(t) PROVE Later(s)
  BY <1>6, SMTT(60) DEF LookupFails
<1>7. ASSUME NEW t \in Tasks, NotFound(t) PROVE Later(s)
  BY <1>7, SMTT(60) DEF NotFound
<1>8. ASSUME NEW t \in Tasks, BookFill(t) PROVE Later(s)
  BY <1>8, SMTT(60) DEF BookFill, HasFillToBook, Working
<1>9. ASSUME NEW t \in Tasks, NothingToBook(t) PROVE Later(s)
  BY <1>9, SMTT(60) DEF NothingToBook, HasFillToBook
<1>10. ASSUME NEW t \in Tasks, RecordStoploss(t) \/ SaveStops(t) PROVE Later(s)
  BY <1>10, SMTT(60) DEF RecordStoploss, SaveStops
<1>11. ASSUME NEW t \in Tasks, UpdateRow(t) PROVE Later(s)
  BY <1>11, SMTT(60) DEF UpdateRow
<1>12. ASSUME NEW t \in Tasks, CancelAnswered(t) PROVE Later(s)
  BY <1>12, SMTT(60) DEF CancelAnswered, Resolve
<1>13. ASSUME NEW t \in Tasks, CancelFails(t) PROVE Later(s)
  BY <1>13, SMTT(60) DEF CancelFails
<1>14. ASSUME NEW o \in Orders, ExecuteBuy(o) PROVE Later(s)
  BY <1>14, SMTT(60) DEF ExecuteBuy, Submit
<1>15. ASSUME NEW o \in Orders, ExecuteSell(o) PROVE Later(s)
  BY <1>15, SMTT(60) DEF ExecuteSell, HasId
<1>16. CASE SubmitSell
  BY <1>16, SMTT(60) DEF SubmitSell, Submit
<1>17. CASE ReplaceNext \/ GiveUpSell \/ SubmitRefused \/ TtlCancel \/ SyncDone \/ CycleStart
  BY <1>17, SMTT(60) DEF ReplaceNext, GiveUpSell, SubmitRefused, TtlCancel, SyncDone, CycleStart, Resting
<1>18. CASE SubmitAcked
  BY <1>18, SMTT(60) DEF SubmitAcked, Resolve
<1>19. CASE UpdateAckedRow
  BY <1>19, SMTT(60) DEF UpdateAckedRow, Resolve, NoReply
<1>20. CASE SubmitUnknown \/ SyncNext
  BY <1>20, SMTT(60) DEF SubmitUnknown, SyncNext, Resolve
<1>21. CASE CycleEnd \/ Command
  BY <1>21, SMTT(60) DEF CycleEnd, Finish, Command, CommandStart, CancelAllNext, CommandEnd
<1>22. CASE Crash \/ UNCHANGED vars
  BY <1>22, SMTT(60) DEF Crash, vars, NoRow, NoReply
<1>23. QED
  <2> HIDE OrdersAssumption
      DEF WatchInv, TypeOK, Watch, WorksOnRows, SubmittedOnce, Closed, Later, Tasks, Orders, RowType, ExchType,
        external, tables, ledger, ages, control
  <2>1. QED
    BY <1>1, <1>2, <1>3, <1>4, <1>5, <1>6, <1>7, <1>8, <1>9, <1>10, <1>11, <1>12, <1>13, <1>14, <1>15, <1>16,
       <1>17, <1>18, <1>19, <1>20, <1>21, <1>22
     DEF Next, Environment, Aging, Resolving, Executing, Cycle

\* An order that is closed stays what it was, and finished if it is.
LEMMA WholeStays ==
  ASSUME WatchInv, AnswersKnown, CommandToldFinal, NEW s \in Sells, [Next]_vars, exch[s].st \in Closed
  PROVE  /\ exch'[s] = exch[s]
         /\ Whole(s)' = Whole(s)
         /\ trades[s] \subseteq trades'[s]
         /\ Finished(s) => Finished(s)'
<1>1. s \in Orders /\ Later(s) /\ Kept(s)
  BY LaterStep, KeptStep DEF Orders
<1>2. row[s].status # "NONE"
  BY <1>1 DEF WatchInv, Watch, SubmittedOnce, Closed
<1>3. row'[s].qty = row[s].qty /\ exch'[s] = exch[s]
  BY <1>1, <1>2 DEF Kept, Later
<1>4. Whole(s)' = Whole(s)
  BY <1>3 DEF Whole
<1>5. QED
  BY <1>1, <1>3, <1>4 DEF Later, Finished

\* Rounding down to whole steps keeps the order of quantities.
LEMMA RoundDownGrows ==
  ASSUME NEW a \in Nat, NEW b \in Nat, a <= b
  PROVE  RoundDown(a) <= RoundDown(b)
<1> DEFINE i == a \div Step
           j == b \div Step
<1>1. Step \in Nat /\ Step > 0
  BY QtyAssumption
<1>2. /\ i \in Int /\ RoundDown(a) = i * Step /\ i * Step <= a
      /\ j \in Int /\ RoundDown(b) = j * Step /\ b < j * Step + Step
  BY <1>1, SMTT(60) DEF RoundDown
<1> HIDE DEF i, j
<1>3. CASE i <= j
  BY <1>1, <1>2, <1>3, SMTT(60)
<1>4. CASE i > j
  <2>1. i * Step >= (j + 1) * Step
    BY <1>1, <1>2, <1>4, SMTT(60)
  <2>2. (j + 1) * Step = j * Step + Step
    BY <1>1, <1>2, SMTT(60)
  <2>3. i * Step \in Int /\ j * Step \in Int
    BY <1>1, <1>2
  <2>4. QED
    BY <1>1, <1>2, <2>1, <2>2, <2>3
<1>5. QED
  BY <1>2, <1>3, <1>4

\* A later answer about an order credits no less.
LEMMA FilledForGrows ==
  ASSUME NEW r \in ReplyType, NEW e \in ExchType, NEW q \in Nat,
         r.done <= e.done, r.st = "filled" => e.st = "filled"
  PROVE  FilledFor(r, q) <= FilledFor(e, q)
<1>1. r.done \in Nat /\ e.done \in Nat /\ Step \in Nat \ {0}
  BY QtyAssumption DEF ReplyType, ExchType
<1>2. RoundDown(r.done) <= RoundDown(e.done)
  BY <1>1, RoundDownGrows
<1>3. RoundDown(r.done) \in Nat /\ RoundDown(e.done) \in Nat
  BY <1>1, RoundDownNat
<1>4. QED
  BY <1>2, <1>3 DEF FilledFor, Least

\* What is known of a sell stays known while a task that has reported nothing
\* asks, is told, reads the row again, or gives up.
LEMMA SaleFramed ==
  ASSUME NEW s \in Sells, SaleKnown(s), NEW t \in Tasks,
         UNCHANGED <<cur, booked, trades>>, row'[s].filled = row[s].filled, Whole(s)' = Whole(s),
         row[s].filled \in Nat,
         pc[t] \in Working \ Reported, pc[t] # "acked", pc[t] # "submit",
         pc'[t] \notin Reported \cup {"submit", "acked"}, reply'[t].st # "ack",
         \A u \in Tasks : u # t => pc'[u] = pc[u] /\ reply'[u] = reply[u] /\ seen'[u] = seen[u],
         \/ pc'[t] \notin {"lookup", "answered"}
         \/ cur[t] = s => seen'[t].filled = row[s].filled
         \/ pc[t] = "lookup" /\ reply[t].st # "ack" /\ seen' = seen
  PROVE  SaleKnown(s)'
<1>1. \A u \in Tasks : u # t => Cumulative(u)' = Cumulative(u) /\ Noted(u)' = Noted(u)
  BY DEF Cumulative, Noted
<1>2. \A u \in Tasks : (OnIt(u, s, Reported)' <=> OnIt(u, s, Reported)) /\ ~OnIt(t, s, Reported)
  BY DEF OnIt
<1>3. \A u \in Tasks : OnIt(u, s, Reported)' => u # t
  BY <1>2
<1>4. \A u \in Tasks : OnIt(u, s, Reported)' => booked'[s] = Noted(u)'
  BY <1>1, <1>2, <1>3 DEF SaleKnown
<1>5. (\A u \in Tasks : ~OnIt(u, s, Reported)') => booked'[s] = row'[s].filled
  BY <1>2 DEF SaleKnown
<1>6. OnIt("cycle", s, {"lookup", "answered"} \cup Reported)' /\ reply'["cycle"].st # "ack" =>
        seen'["cycle"].filled = row'[s].filled
  <2>1. CASE t = "cycle"
    BY <2>1 DEF SaleKnown, OnIt
  <2>2. CASE t # "cycle"
    BY <2>2 DEF SaleKnown, OnIt, Tasks
  <2>3. QED
    BY <2>1, <2>2
<1>7. OnIt("cycle", s, {"submit", "acked"})' => row'[s].filled = 0
  <2>1. CASE t = "cycle"
    BY <2>1 DEF OnIt
  <2>2. CASE t # "cycle"
    BY <2>2 DEF SaleKnown, OnIt, Tasks
  <2>3. QED
    BY <2>1, <2>2
<1>8. OnIt("cycle", s, Answered)' /\ reply'["cycle"].st = "ack" => ~OnIt("command", s, Working)'
  <2>1. CASE t = "cycle"
    BY <2>1
  <2>2. CASE t # "cycle"
    <3>1. t = "command"
      BY <2>2 DEF Tasks
    <3>2. OnIt("command", s, Working)' => OnIt("command", s, Working)
      BY <3>1 DEF OnIt
    <3>3. OnIt("cycle", s, Answered)' /\ reply'["cycle"].st = "ack" =>
            OnIt("cycle", s, Answered) /\ reply["cycle"].st = "ack"
      BY <2>2 DEF OnIt, Tasks
    <3>4. QED
      BY <3>2, <3>3 DEF SaleKnown
  <2>3. QED
    BY <2>1, <2>2
<1>9. OnIt("command", s, {"lookup"} \cup Answered)' =>
        /\ seen'["command"].filled <= row'[s].filled
        /\ seen'["command"].filled # row'[s].filled => row'[s].filled \in trades'[s] /\ row'[s].filled <= Whole(s)'
  <2>1. CASE t = "command" /\ pc[t] = "lookup" /\ seen' = seen
    <3>1. OnIt("command", s, {"lookup"} \cup Answered)' => OnIt("command", s, {"lookup"} \cup Answered)
      BY <2>1 DEF OnIt
    <3>2. QED
      BY <2>1, <3>1 DEF SaleKnown
  <2>2. CASE t = "command" /\ (cur[t] = s => seen'[t].filled = row[s].filled)
    BY <2>2 DEF OnIt
  <2>3. CASE t = "command" /\ pc'[t] \notin {"lookup", "answered"}
    BY <2>3 DEF OnIt, Answered, Reported
  <2>4. CASE t # "command"
    <3>1. OnIt("command", s, {"lookup"} \cup Answered)' => OnIt("command", s, {"lookup"} \cup Answered)
      BY <2>4 DEF OnIt, Tasks
    <3>2. QED
      BY <2>4, <3>1 DEF SaleKnown, Tasks
  <2>5. QED
    BY <2>1, <2>2, <2>3, <2>4
<1>10. \A u \in Tasks : OnIt(u, s, Reported)' /\ reply'[u].st # "ack" /\ Cumulative(u)' > seen'[u].filled =>
         Cumulative(u)' \in trades'[s]
  BY <1>1, <1>2, <1>3 DEF SaleKnown
<1>11. QED
  BY <1>4, <1>5, <1>6, <1>7, <1>8, <1>9, <1>10 DEF SaleKnown

\* What is known of a sell stays known while a task that has reported nothing
\* turns away from it, works on another order, or starts to ask about it again.
LEMMA SaleAside ==
  ASSUME NEW s \in Sells, SaleKnown(s), NEW t \in Tasks,
         UNCHANGED <<booked, trades>>, row'[s].filled = row[s].filled, Whole(s)' = Whole(s),
         row[s].filled \in Nat,
         pc[t] \notin Reported \/ cur[t] # s,
         \A u \in Tasks : u # t => pc'[u] = pc[u] /\ cur'[u] = cur[u] /\ reply'[u] = reply[u] /\ seen'[u] = seen[u],
         \/ pc'[t] \notin {"lookup", "submit"} \cup Answered
         \/ cur'[t] # s
         \/ t = "cycle" /\ pc'[t] = "lookup" /\ seen'[t].filled = row[s].filled,
         t = "command" => pc["cycle"] \notin Answered \/ reply["cycle"].st # "ack"
  PROVE  SaleKnown(s)'
<1>1. \A u \in Tasks : u # t => Cumulative(u)' = Cumulative(u) /\ Noted(u)' = Noted(u)
  BY DEF Cumulative, Noted
<1>2. /\ \A u \in Tasks : u # t => (OnIt(u, s, Reported)' <=> OnIt(u, s, Reported))
      /\ ~OnIt(t, s, Reported) /\ ~OnIt(t, s, Reported)'
  BY DEF OnIt, Reported, Answered
<1>3. \A u \in Tasks : OnIt(u, s, Reported)' => u # t
  BY <1>2
<1>4. \A u \in Tasks : OnIt(u, s, Reported)' => booked'[s] = Noted(u)'
  BY <1>1, <1>2, <1>3 DEF SaleKnown
<1>5. (\A u \in Tasks : ~OnIt(u, s, Reported)') => booked'[s] = row'[s].filled
  BY <1>2 DEF SaleKnown
<1>6. OnIt("cycle", s, {"lookup", "answered"} \cup Reported)' /\ reply'["cycle"].st # "ack" =>
        seen'["cycle"].filled = row'[s].filled
  <2>1. CASE t = "cycle"
    BY <2>1 DEF OnIt, Reported, Answered
  <2>2. CASE t # "cycle"
    BY <2>2 DEF SaleKnown, OnIt, Tasks
  <2>3. QED
    BY <2>1, <2>2
<1>7. OnIt("cycle", s, {"submit", "acked"})' => row'[s].filled = 0
  <2>1. CASE t = "cycle"
    BY <2>1 DEF OnIt, Answered
  <2>2. CASE t # "cycle"
    BY <2>2 DEF SaleKnown, OnIt, Tasks
  <2>3. QED
    BY <2>1, <2>2
<1>8. OnIt("cycle", s, Answered)' /\ reply'["cycle"].st = "ack" => ~OnIt("command", s, Working)'
  <2>1. CASE t = "cycle"
    BY <2>1 DEF OnIt, Answered
  <2>2. CASE t # "cycle"
    BY <2>2 DEF OnIt, Tasks
  <2>3. QED
    BY <2>1, <2>2
<1>9. OnIt("command", s, {"lookup"} \cup Answered)' =>
        /\ seen'["command"].filled <= row'[s].filled
        /\ seen'["command"].filled # row'[s].filled => row'[s].filled \in trades'[s] /\ row'[s].filled <= Whole(s)'
  <2>1. CASE t = "command"
    BY <2>1 DEF OnIt
  <2>2. CASE t # "command"
    BY <2>2 DEF SaleKnown, OnIt, Tasks
  <2>3. QED
    BY <2>1, <2>2
<1>10. \A u \in Tasks : OnIt(u, s, Reported)' /\ reply'[u].st # "ack" /\ Cumulative(u)' > seen'[u].filled =>
         Cumulative(u)' \in trades'[s]
  BY <1>1, <1>2, <1>3 DEF SaleKnown
<1>11. QED
  BY <1>4, <1>5, <1>6, <1>7, <1>8, <1>9, <1>10 DEF SaleKnown

\* ... and while the exchange and the clocks go on without the tasks.
LEMMA SaleUntouched ==
  ASSUME NEW s \in Sells, SaleKnown(s), UNCHANGED <<row, booked, trades, pc, cur, reply, seen>>,
         OnIt("command", s, {"lookup"} \cup Answered) => Whole(s)' = Whole(s)
  PROVE  SaleKnown(s)'
<1>1. \A u \in Tasks : Cumulative(u)' = Cumulative(u) /\ Noted(u)' = Noted(u)
  BY DEF Cumulative, Noted
<1>2. \A u \in Tasks : /\ OnIt(u, s, Reported)' <=> OnIt(u, s, Reported)
                       /\ OnIt(u, s, Answered)' <=> OnIt(u, s, Answered)
                       /\ OnIt(u, s, Working)' <=> OnIt(u, s, Working)
                       /\ OnIt(u, s, {"submit", "acked"})' <=> OnIt(u, s, {"submit", "acked"})
                       /\ OnIt(u, s, {"lookup"} \cup Answered)' <=> OnIt(u, s, {"lookup"} \cup Answered)
                       /\ OnIt(u, s, {"lookup", "answered"} \cup Reported)' <=>
                            OnIt(u, s, {"lookup", "answered"} \cup Reported)
  BY DEF OnIt
<1>3. "cycle" \in Tasks /\ "command" \in Tasks
  BY DEF Tasks
<1>4. QED
  BY <1>1, <1>2, <1>3 DEF SaleKnown

\* The steps of the cycle and of a command at which no answer is in hand.
LEMMA SaleAsideStep ==
  ASSUME WatchInv, OneRuns, AnswersKnown, NEW s \in Sells, SaleKnown(s),
         \/ \E o \in Orders : ExecuteBuy(o) \/ ExecuteSell(o)
         \/ ReplaceNext \/ GiveUpSell \/ SubmitRefused \/ SubmitUnknown
         \/ CycleStart \/ SyncNext \/ TtlCancel \/ SyncDone \/ CycleEnd \/ Command
  PROVE  SaleKnown(s)'
<1>1. /\ pc \in [Tasks -> Places] /\ cur \in [Tasks -> Orders \cup {NoOrder}] /\ todo \in [Tasks -> SUBSET Orders]
      /\ seen \in [Tasks -> RowType] /\ reply \in [Tasks -> ReplyType] /\ back \in [Tasks -> Returns]
      /\ row \in [Orders -> RowType] /\ s \in Orders /\ row[s].filled \in Nat /\ s \notin Buys
      /\ "cycle" \in Tasks /\ "command" \in Tasks /\ "cycle" # "command" /\ Tasks = {"cycle", "command"}
  BY OrdersAssumption DEF WatchInv, TypeOK, Orders, RowType, Tasks
<1>2. ASSUME NEW t \in Tasks,
             UNCHANGED <<exch, booked, trades, reply>>,
             \A o \in Orders : row'[o].filled = row[o].filled /\ row'[o].qty = row[o].qty,
             \A u \in Tasks : u # t => pc'[u] = pc[u] /\ cur'[u] = cur[u] /\ seen'[u] = seen[u],
             pc[t] \notin Reported,
             \/ pc'[t] \notin {"lookup", "submit"} \cup Answered
             \/ t = "cycle" /\ pc'[t] = "lookup" /\ (cur'[t] = s => seen'[t].filled = row[s].filled),
             t = "command" => pc[t] \in Running \/ pc["cycle"] \notin Running
      PROVE  SaleKnown(s)'
  <2>1. Whole(s)' = Whole(s)
    BY <1>1, <1>2 DEF Whole, FilledFor
  <2>2. t = "command" => pc["cycle"] \notin Answered \/ reply["cycle"].st # "ack"
    BY <1>1, <1>2 DEF OneRuns, AnswersKnown, Answered, Running
  <2>3. QED
    BY <1>1, <1>2, <2>1, <2>2, SaleAside
<1>3. ASSUME NEW o \in Orders, ExecuteBuy(o) PROVE SaleKnown(s)'
  <2>1. /\ pc["cycle"] = "decide" /\ o # s
        /\ row' = [row EXCEPT ![o] = [status |-> "PENDING_SUBMIT", filled |-> 0, qty |-> Qty[o]]]
        /\ pc' = [pc EXCEPT !["cycle"] = "submit"]
        /\ cur' = [cur EXCEPT !["cycle"] = o]
        /\ UNCHANGED <<exch, trades, booked, seen, reply>>
    BY <1>1, <1>3 DEF ExecuteBuy, Submit, Goto
  <2>2. row'[s] = row[s] /\ exch' = exch
    BY <1>1, <2>1
  <2>3. Whole(s)' = Whole(s)
    BY <2>2 DEF Whole, FilledFor
  <2>4. cur'["cycle"] # s /\ \A u \in Tasks : u # "cycle" => pc'[u] = pc[u] /\ cur'[u] = cur[u]
    BY <1>1, <2>1
  <2>5. pc["cycle"] \notin Reported
    BY <2>1 DEF Reported
  <2>6. QED
    BY <1>1, <2>1, <2>2, <2>3, <2>4, <2>5, SaleAside
<1>4. ASSUME NEW o \in Orders, ExecuteSell(o) PROVE SaleKnown(s)'
  BY <1>1, <1>2, <1>4 DEF ExecuteSell, Goto, external, tables, Reported, Answered
<1>5. CASE ReplaceNext
  <2>1. PICK x \in todo["cycle"] : cur' = [cur EXCEPT !["cycle"] = x]
    BY <1>5 DEF ReplaceNext
  <2>2. QED
    BY <1>1, <1>2, <1>5, <2>1 DEF ReplaceNext, Goto, external, tables, Reported, Answered
<1>6. CASE GiveUpSell
  BY <1>1, <1>2, <1>6 DEF GiveUpSell, Goto, external, tables, Reported, Answered
<1>7. CASE SubmitRefused
  <2>1. /\ pc["cycle"] = "submit" /\ pc' = [pc EXCEPT !["cycle"] = "decide"]
        /\ row' = [row EXCEPT ![cur["cycle"]].status = "REJECTED"]
        /\ UNCHANGED <<exch, trades, booked, cur, seen, reply>>
    BY <1>7 DEF SubmitRefused, Goto
  <2>2. \A o \in Orders : row'[o].filled = row[o].filled /\ row'[o].qty = row[o].qty
    BY <1>1, <2>1 DEF RowType
  <2>3. QED
    BY <1>1, <1>2, <2>1, <2>2 DEF Reported, Answered
<1>8. CASE SubmitUnknown
  BY <1>1, <1>2, <1>8 DEF SubmitUnknown, Resolve, Goto, external, tables, Reported, Answered
<1>9. CASE CycleStart
  BY <1>1, <1>2, <1>9 DEF CycleStart, Goto, external, tables, Reported, Answered
<1>10. CASE SyncNext
  <2>1. PICK o \in todo["cycle"] : Resolve("cycle", o, row[o], "ttl")
    BY <1>10 DEF SyncNext
  <2>2. QED
    BY <1>1, <1>2, <1>10, <2>1 DEF SyncNext, Resolve, Goto, external, tables, Reported, Answered
<1>11. CASE TtlCancel
  BY <1>1, <1>2, <1>11 DEF TtlCancel, Goto, external, tables, Reported, Answered
<1>12. CASE SyncDone
  BY <1>1, <1>2, <1>12 DEF SyncDone, Goto, external, tables, Reported, Answered
<1>13. CASE CycleEnd
  BY <1>1, <1>2, <1>13 DEF CycleEnd, Finish, Goto, external, tables, Reported, Answered
<1>14. CASE CommandStart
  BY <1>1, <1>2, <1>14 DEF CommandStart, HasLoop, Goto, external, tables, Reported, Answered
<1>15. CASE CancelAllNext
  <2>1. PICK x \in todo["command"] : cur' = [cur EXCEPT !["command"] = x]
    BY <1>15 DEF CancelAllNext
  <2>2. QED
    BY <1>1, <1>2, <1>15, <2>1 DEF CancelAllNext, Goto, external, tables, Reported, Answered, Running
<1>16. CASE CommandEnd
  BY <1>1, <1>2, <1>16 DEF CommandEnd, Finish, Goto, external, tables, Reported, Answered, Running
<1>17. QED
  BY <1>3, <1>4, <1>5, <1>6, <1>7, <1>8, <1>9, <1>10, <1>11, <1>12, <1>13, <1>14, <1>15, <1>16 DEF Command

\* The steps that send a sell and act on its acknowledgement.
LEMMA SaleSubmitStep ==
  ASSUME WatchInv, OneRuns, AnswersKnown, AcksKnown, NEW s \in Sells, SaleKnown(s),
         SubmitSell \/ SubmitAcked \/ UpdateAckedRow
  PROVE  SaleKnown(s)'
<1> DEFINE o == cur["cycle"]
<1>1. /\ pc \in [Tasks -> Places] /\ cur \in [Tasks -> Orders \cup {NoOrder}] /\ row \in [Orders -> RowType]
      /\ seen \in [Tasks -> RowType] /\ reply \in [Tasks -> ReplyType] /\ exch \in [Orders -> ExchType]
      /\ s \in Orders /\ row[s].filled \in Nat /\ Sells \subseteq Orders
      /\ "cycle" \in Tasks /\ "command" \in Tasks /\ "cycle" # "command" /\ Tasks = {"cycle", "command"}
  BY DEF WatchInv, TypeOK, Orders, RowType, Tasks
<1>2. /\ \A u \in Tasks : pc[u] \in Working => cur[u] \in Orders /\ row[cur[u]].status # "NONE"
      /\ \A u \in Tasks : pc[u] \in Answered \cup {"lookup"} \cup Reported => pc[u] \in Working
      /\ pc["cycle"] = "replace" => decision \in Sells /\ row[decision].status = "NONE"
      /\ pc["command"] \in Working => row[cur["command"]].status # "PENDING_SUBMIT"
  BY DEF WatchInv, Watch, WorksOnRows, CommandWorksOnIds, Answered, Reported, Working
<1>3. CASE SubmitSell
  <2> DEFINE sent == [status |-> "PENDING_SUBMIT", filled |-> 0, qty |-> SellQty(decision)]
  <2>1. /\ pc["cycle"] = "replace"
        /\ row' = [row EXCEPT ![decision] = sent]
        /\ pc' = [pc EXCEPT !["cycle"] = "submit"]
        /\ cur' = [cur EXCEPT !["cycle"] = decision]
        /\ UNCHANGED <<exch, trades, booked, seen, reply>>
    BY <1>3 DEF SubmitSell, Submit, Goto
  <2>2. CASE decision = s
    <3>1. \A u \in Tasks : pc[u] \in Working => cur[u] # s
      BY <1>2, <2>1, <2>2
    <3>2. row[s].filled = 0 /\ booked[s] = row[s].filled
      BY <1>1, <1>2, <2>1, <2>2, <3>1 DEF AcksKnown, SaleKnown, OnIt
    <3>3. row'[s].filled = 0
      BY <1>1, <2>1, <2>2
    <3>4. \A u \in Tasks : /\ ~OnIt(u, s, Reported)' /\ ~OnIt(u, s, Answered)'
                           /\ ~OnIt(u, s, {"lookup"} \cup Answered)'
                           /\ ~OnIt(u, s, {"lookup", "answered"} \cup Reported)'
      <4>1. /\ pc'["cycle"] = "submit"
            /\ \A u \in Tasks : u # "cycle" => pc'[u] = pc[u] /\ cur'[u] = cur[u]
        BY <1>1, <2>1
      <4>2. QED
        BY <1>2, <3>1, <4>1 DEF OnIt, Answered, Reported
    <3>5. QED
      BY <1>1, <2>1, <3>2, <3>3, <3>4 DEF SaleKnown
  <2>3. CASE decision # s
    <3>1. row'[s] = row[s] /\ exch' = exch
      BY <1>1, <2>1, <2>3
    <3>2. Whole(s)' = Whole(s)
      BY <3>1 DEF Whole, FilledFor
    <3>3. /\ cur'["cycle"] # s /\ pc["cycle"] \notin Reported
          /\ \A u \in Tasks : u # "cycle" => pc'[u] = pc[u] /\ cur'[u] = cur[u]
      BY <1>1, <2>1, <2>3 DEF Reported
    <3>4. QED
      BY <1>1, <2>1, <3>1, <3>2, <3>3, SaleAside
  <2>4. QED
    BY <2>2, <2>3
<1>4. CASE SubmitAcked
  <2>1. /\ pc["cycle"] = "submit" /\ row' = [row EXCEPT ![o].status = "NEW"]
        /\ UNCHANGED <<exch, trades, booked>>
    BY <1>4 DEF SubmitAcked, external
  <2>2. PICK k \in 0..exch[o].done :
          IF k > 0
            THEN /\ reply' = [reply EXCEPT !["cycle"] = [st |-> "ack", done |-> k]]
                 /\ Goto("cycle", "acked")
                 /\ UNCHANGED <<cur, seen, back>>
            ELSE /\ Resolve("cycle", o, row'[o], "decide")
                 /\ UNCHANGED reply
    BY <1>4 DEF SubmitAcked
  <2>3. /\ o \in Orders /\ pc["cycle"] \notin Reported
        /\ \A x \in Orders : row'[x].filled = row[x].filled /\ row'[x].qty = row[x].qty
    BY <1>1, <1>2, <2>1 DEF RowType, Working, Reported
  <2>4. Whole(s)' = Whole(s)
    BY <1>1, <2>1, <2>3 DEF Whole, FilledFor
  <2>5. CASE ~(k > 0)
    <3>1. /\ pc' = [pc EXCEPT !["cycle"] = "lookup"] /\ cur' = [cur EXCEPT !["cycle"] = o]
          /\ seen' = [seen EXCEPT !["cycle"] = row'[o]] /\ reply' = reply
      BY <2>2, <2>5 DEF Resolve, Goto
    <3>2. /\ pc'["cycle"] = "lookup" /\ (cur'["cycle"] # s \/ seen'["cycle"].filled = row[s].filled)
          /\ \A u \in Tasks : u # "cycle" => pc'[u] = pc[u] /\ cur'[u] = cur[u] /\ seen'[u] = seen[u]
      BY <1>1, <2>3, <3>1
    <3>3. QED
      BY <1>1, <2>1, <2>3, <2>4, <3>1, <3>2, SaleAside
  <2>6. CASE k > 0
    <3>1. /\ pc' = [pc EXCEPT !["cycle"] = "acked"] /\ UNCHANGED <<cur, seen>>
          /\ reply' = [reply EXCEPT !["cycle"] = [st |-> "ack", done |-> k]]
      BY <2>2, <2>6 DEF Goto
    <3>2. /\ pc'["cycle"] = "acked" /\ reply'["cycle"].st = "ack"
          /\ \A u \in Tasks : u # "cycle" => pc'[u] = pc[u] /\ cur'[u] = cur[u] /\ seen'[u] = seen[u] /\ reply'[u] = reply[u]
      BY <1>1, <3>1
    <3>3. CASE o # s
      BY <1>1, <2>1, <2>3, <2>4, <3>1, <3>2, <3>3, SaleAside
    <3>4. CASE o = s
      <4>1. ~OnIt("command", s, Working) /\ row[s].filled = 0
        BY <1>2, <2>1, <3>4 DEF AcksKnown, SaleKnown, OnIt
      <4>2. /\ \A u \in Tasks : ~OnIt(u, s, Reported) /\ ~OnIt(u, s, Reported)'
            /\ ~OnIt("command", s, Working)' /\ ~OnIt("command", s, {"lookup"} \cup Answered)'
        BY <1>1, <1>2, <2>1, <3>1, <3>2, <4>1 DEF OnIt, Reported
      <4>3. booked'[s] = row'[s].filled /\ row'[s].filled = 0
        BY <1>1, <2>1, <2>3, <4>1, <4>2 DEF SaleKnown
      <4>4. QED
        BY <1>1, <3>2, <4>2, <4>3 DEF SaleKnown
    <3>5. QED
      BY <3>3, <3>4
  <2>7. QED
    BY <2>5, <2>6
<1>5. CASE UpdateAckedRow
  <2>1. /\ pc["cycle"] = "ackrow" /\ row' = [row EXCEPT ![o].filled = reply["cycle"].done]
        /\ pc' = [pc EXCEPT !["cycle"] = "lookup"] /\ cur' = [cur EXCEPT !["cycle"] = o]
        /\ seen' = [seen EXCEPT !["cycle"] = row'[o]] /\ reply' = [reply EXCEPT !["cycle"] = NoReply]
        /\ UNCHANGED <<exch, trades, booked>>
    BY <1>5 DEF UpdateAckedRow, Resolve, Goto, external
  <2>2. /\ o \in Orders /\ reply["cycle"].st = "ack" /\ reply'["cycle"].st # "ack"
        /\ pc'["cycle"] = "lookup" /\ cur'["cycle"] = o /\ seen'["cycle"] = row'[o]
        /\ row'[o].filled = reply["cycle"].done
        /\ \A x \in Orders : x # o => row'[x] = row[x]
        /\ \A u \in Tasks : u # "cycle" => pc'[u] = pc[u] /\ cur'[u] = cur[u] /\ seen'[u] = seen[u] /\ reply'[u] = reply[u]
    BY <1>1, <1>2, <2>1 DEF AnswersKnown, Working, RowType, NoReply
  <2>3. CASE o # s
    <3>1. Whole(s)' = Whole(s) /\ row'[s] = row[s]
      BY <1>1, <2>1, <2>2, <2>3 DEF Whole, FilledFor
    <3>2. QED
      BY <1>1, <2>1, <2>2, <2>3, <3>1, SaleAside
  <2>4. CASE o = s
    <3>1. OnIt("cycle", s, Reported) /\ OnIt("cycle", s, Answered)
      BY <2>1, <2>4 DEF OnIt, Reported, Answered
    <3>2. booked[s] = reply["cycle"].done /\ ~OnIt("command", s, Working)
      BY <1>1, <2>2, <3>1 DEF SaleKnown, Noted
    <3>3. /\ \A u \in Tasks : ~OnIt(u, s, Reported)'
          /\ ~OnIt("command", s, {"lookup"} \cup Answered)'
      BY <1>1, <1>2, <2>2, <3>2 DEF OnIt, Reported
    <3>4. ~OnIt("cycle", s, {"submit", "acked"})' /\ ~OnIt("cycle", s, Answered)'
      BY <2>2 DEF OnIt, Answered
    <3>5. booked'[s] = row'[s].filled /\ seen'["cycle"].filled = row'[s].filled
      BY <2>1, <2>2, <2>4, <3>2
    <3>6. QED
      BY <1>1, <3>3, <3>4, <3>5 DEF SaleKnown
  <2>5. QED
    BY <2>3, <2>4
<1>6. QED
  BY <1>3, <1>4, <1>5

\* What is known of a sell stays known until it is finished.
LEMMA SaleStep ==
  ASSUME ~TornCrash, WatchInv, BookInv, NEW s \in Sells, SaleKnown(s), ~Finished(s), ~Finished(s)',
         exch[s].st \in Closed => Whole(s)' = Whole(s) /\ trades[s] \subseteq trades'[s], [Next]_vars
  PROVE  SaleKnown(s)'
<1>0. /\ AnswersKnown /\ OneRuns /\ AcksKnown /\ CommandToldFinal
      /\ OnIt("command", s, {"lookup"} \cup Answered) => Whole(s)' = Whole(s)
  BY DEF BookInv, CommandToldFinal, OnIt, Answered
<1>1. CASE Environment \/ Aging \/ UNCHANGED vars
  <2>1. UNCHANGED <<row, booked, trades, pc, cur, reply, seen>>
    BY <1>1
     DEF Environment, Aging, Arrive, Drop, Match, CancelledElsewhere, Expire, BecomeOverdue, vars, tables, control
  <2>2. QED
    BY <1>0, <2>1, SaleUntouched
<1>2. CASE \/ \E o \in Orders : ExecuteBuy(o) \/ ExecuteSell(o)
           \/ ReplaceNext \/ GiveUpSell \/ SubmitRefused \/ SubmitUnknown
           \/ CycleStart \/ SyncNext \/ TtlCancel \/ SyncDone \/ CycleEnd \/ Command
  BY <1>0, <1>2, SaleAsideStep
<1>3. CASE Crash
  <2>1. /\ \A u \in Tasks : pc[u] \notin Running
        /\ pc' = [u \in Tasks |-> "idle"]
        /\ UNCHANGED <<row, booked, trades>>
    BY <1>3 DEF Crash, tables
  <2>2. \A u \in Tasks : ~OnIt(u, s, Reported)
    BY <2>1 DEF OnIt, Running, Reported
  <2>3. booked'[s] = row'[s].filled
    BY <2>1, <2>2 DEF SaleKnown
  <2>4. \A u \in Tasks : pc'[u] = "idle"
    BY <2>1
  <2>5. \A u \in Tasks : /\ ~OnIt(u, s, Reported)' /\ ~OnIt(u, s, {"submit", "acked"})' /\ ~OnIt(u, s, Answered)'
                         /\ ~OnIt(u, s, {"lookup"} \cup Answered)'
                         /\ ~OnIt(u, s, {"lookup", "answered"} \cup Reported)'
    BY <2>4 DEF OnIt, Reported, Answered
  <2>6. "cycle" \in Tasks /\ "command" \in Tasks
    BY DEF Tasks
  <2>7. QED
    BY <2>3, <2>5, <2>6 DEF SaleKnown
<1>4. ASSUME NEW t \in Tasks, CancelFails(t) PROVE SaleKnown(s)'
  <2>1. /\ pc \in [Tasks -> Places] /\ back[t] \in Returns /\ row[s].filled \in Nat
        /\ \A u \in Tasks : reply[u].st # "none" => pc[u] \in Answered
    BY OrdersAssumption DEF WatchInv, Watch, TypeOK, Orders, RowType, AnswersHold
  <2>2. /\ pc[t] = "cancel" /\ pc' = [pc EXCEPT ![t] = back[t]]
        /\ UNCHANGED <<exch, row, booked, trades, cur, reply, seen>>
    BY <1>4 DEF CancelFails, Goto, external, tables
  <2>3. Whole(s)' = Whole(s)
    BY <2>2 DEF Whole, FilledFor
  <2>4. /\ pc[t] \in Working \ Reported /\ reply'[t].st # "ack"
        /\ pc'[t] \notin Reported \cup {"submit", "acked", "lookup", "answered"}
        /\ \A u \in Tasks : u # t => pc'[u] = pc[u]
    BY <2>1, <2>2 DEF Working, Reported, Answered, Returns
  <2>5. QED
    BY <2>1, <2>2, <2>3, <2>4, SaleFramed
<1>5. CASE SubmitSell \/ SubmitAcked \/ UpdateAckedRow
  BY <1>0, <1>5, SaleSubmitStep
<1>00. /\ WorkTyped /\ WorksOnRows /\ CommandWorksOnIds /\ AnswersHold
       /\ trades \in [Orders -> SUBSET Nat] /\ booked \in [Orders -> Nat]
  BY DEF WatchInv, TypeOK, Watch, WorkTyped
<1>t. TypeOK
  BY DEF WatchInv
<1> USE <1>0, <1>00, OrdersAssumption
    DEF WorkTyped, WorksOnRows, CommandWorksOnIds, AnswersHold, AnswersKnown, OneRuns, AcksKnown, CommandToldFinal,
        SaleKnown, OnIt, Noted, Cumulative, Reported, Closed, Working, Answered, Running, Tasks, Returns, Goto,
        Orders, ReplyType, ExchType, RowType, HasLoop, external, tables, ledger, ages, control
<1>6. ASSUME NEW t \in Tasks, LookupAnswered(t) PROVE SaleKnown(s)'
  <2>1. /\ pc \in [Tasks -> Places] /\ back \in [Tasks -> Returns] /\ cur \in [Tasks -> Orders \cup {NoOrder}]
        /\ seen \in [Tasks -> RowType] /\ reply \in [Tasks -> ReplyType] /\ exch \in [Orders -> ExchType]
        /\ row \in [Orders -> RowType] /\ row[s].filled \in Nat /\ s \in Orders
        /\ \A u \in Tasks : reply[u].st # "none" => pc[u] \in Answered
        /\ \A u \in Tasks : pc[u] \in Working => cur[u] \in Orders
    OBVIOUS
  <2> HIDE <1>0, <1>00, OrdersAssumption
      DEF WorkTyped, WorksOnRows, CommandWorksOnIds, AnswersHold, AnswersKnown, OneRuns, AcksKnown,
          CommandToldFinal,
          SaleKnown, OnIt, Noted, Cumulative, Closed, Goto,
          Orders, ReplyType, ExchType, RowType, HasLoop, external, tables, ledger, ages, control
  <2>2. /\ pc[t] = "lookup" /\ pc' = [pc EXCEPT ![t] = "answered"]
        /\ reply' = [reply EXCEPT ![t] = exch[cur[t]]]
        /\ UNCHANGED <<exch, row, cur, booked, trades, seen>>
    BY <1>6 DEF LookupAnswered, Goto, external, tables
  <2>3. pc[t] \in Working \ Reported /\ reply[t].st # "ack" /\ cur[t] \in Orders
    BY <2>1, <2>2 DEF Working, Reported, Answered
  <2>4. /\ pc'[t] = "answered" /\ reply'[t].st # "ack"
        /\ \A u \in Tasks : u # t => pc'[u] = pc[u] /\ reply'[u] = reply[u] /\ seen'[u] = seen[u]
    BY <2>1, <2>2, <2>3 DEF ExchType
  <2>5. Whole(s)' = Whole(s) /\ row'[s].filled = row[s].filled
    BY <2>2 DEF Whole
  <2>6. "answered" \notin Reported \cup {"submit", "acked"}
    BY DEF Reported
  <2>7. SaleKnown(s)
    OBVIOUS
  <2>8. QED
    BY <2>1, <2>2, <2>3, <2>4, <2>5, <2>6, <2>7, SaleFramed
<1>7. ASSUME NEW t \in Tasks, LookupFails(t) PROVE SaleKnown(s)'
  <2>1. /\ pc \in [Tasks -> Places] /\ back \in [Tasks -> Returns] /\ cur \in [Tasks -> Orders \cup {NoOrder}]
        /\ seen \in [Tasks -> RowType] /\ reply \in [Tasks -> ReplyType] /\ exch \in [Orders -> ExchType]
        /\ row \in [Orders -> RowType] /\ row[s].filled \in Nat /\ s \in Orders
        /\ \A u \in Tasks : reply[u].st # "none" => pc[u] \in Answered
        /\ \A u \in Tasks : pc[u] \in Working => cur[u] \in Orders
    OBVIOUS
  <2> HIDE <1>0, <1>00, OrdersAssumption
      DEF WorkTyped, WorksOnRows, CommandWorksOnIds, AnswersHold, AnswersKnown, OneRuns, AcksKnown,
          CommandToldFinal,
          SaleKnown, OnIt, Noted, Cumulative, Closed, Goto,
          Orders, ReplyType, ExchType, RowType, HasLoop, external, tables, ledger, ages, control
  <2>2. pc[t] = "lookup" /\ Return(t) /\ UNCHANGED <<exch, row, cur, booked, trades>>
    BY <1>7 DEF LookupFails, Return, external, tables
  <2>3. /\ pc'[t] = back[t] /\ back[t] \notin Reported \cup {"submit", "acked", "lookup", "answered"}
        /\ reply'[t].st = "none"
        /\ \A u \in Tasks : u # t => pc'[u] = pc[u] /\ reply'[u] = reply[u] /\ seen'[u] = seen[u]
    BY <2>1, <2>2 DEF Return, Goto, NoReply, Returns, Reported
  <2>4. pc[t] \in Working \ Reported
    BY <2>2 DEF Working, Reported
  <2>5. Whole(s)' = Whole(s) /\ row'[s].filled = row[s].filled
    BY <2>2 DEF Whole
  <2>6. SaleKnown(s)
    OBVIOUS
  <2>7. QED
    BY <2>1, <2>2, <2>3, <2>4, <2>5, <2>6, SaleFramed
<1>8. ASSUME NEW t \in Tasks, NotFound(t) PROVE SaleKnown(s)'
  <2>1. /\ pc \in [Tasks -> Places] /\ back \in [Tasks -> Returns] /\ cur \in [Tasks -> Orders \cup {NoOrder}]
        /\ seen \in [Tasks -> RowType] /\ reply \in [Tasks -> ReplyType] /\ exch \in [Orders -> ExchType]
        /\ row \in [Orders -> RowType] /\ row[s].filled \in Nat /\ s \in Orders
        /\ \A u \in Tasks : reply[u].st # "none" => pc[u] \in Answered
        /\ \A u \in Tasks : pc[u] \in Working => cur[u] \in Orders
    OBVIOUS
  <2> HIDE <1>0, <1>00, OrdersAssumption
      DEF WorkTyped, WorksOnRows, CommandWorksOnIds, AnswersHold, AnswersKnown, OneRuns, AcksKnown,
          CommandToldFinal,
          SaleKnown, OnIt, Noted, Cumulative, Closed, Goto,
          Orders, ReplyType, ExchType, RowType, HasLoop, external, tables, ledger, ages, control
  <2>2. /\ pc[t] = "answered" /\ Return(t) /\ UNCHANGED <<exch, cur, booked, trades>>
        /\ row' = IF GivenUp(t) THEN [row EXCEPT ![cur[t]].status = "REJECTED"] ELSE row
    BY <1>8 DEF NotFound, Return, external
  <2>3. /\ pc'[t] = back[t] /\ back[t] \notin Reported \cup {"submit", "acked", "lookup", "answered"}
        /\ reply'[t].st = "none"
        /\ \A u \in Tasks : u # t => pc'[u] = pc[u] /\ reply'[u] = reply[u] /\ seen'[u] = seen[u]
    BY <2>1, <2>2 DEF Return, Goto, NoReply, Returns, Reported
  <2>4. pc[t] \in Working \ Reported
    BY <2>2 DEF Working, Reported
  <2>5. row'[s].filled = row[s].filled /\ row'[s].qty = row[s].qty
    BY <2>1, <2>2 DEF RowType
  <2>6. Whole(s)' = Whole(s)
    BY <2>2, <2>5 DEF Whole
  <2>7. SaleKnown(s)
    OBVIOUS
  <2>8. QED
    BY <2>1, <2>2, <2>3, <2>4, <2>5, <2>6, <2>7, SaleFramed
<1>9. ASSUME NEW t \in Tasks, BookFill(t) PROVE SaleKnown(s)'
  <2>1. /\ HasFillToBook(t) /\ Bookable(t) /\ pc[t] \in {"answered", "acked"} /\ cur[t] \in Orders
        /\ pc' = [pc EXCEPT ![t] = IF cur[t] \in StopExits THEN "stoploss" ELSE "stops"]
        /\ booked' = [booked EXCEPT ![cur[t]] = @ + FillQty(t)]
        /\ trades' = [trades EXCEPT ![cur[t]] = @ \cup {Cumulative(t)}]
        /\ UNCHANGED <<exch, row, cur, seen, reply>>
    BY <1>9 DEF BookFill, HasFillToBook
  <2>2. \A u \in Tasks : Cumulative(u)' = Cumulative(u) /\ Noted(u)' = Noted(u)
    BY <2>1
  <2>3. pc \in [Tasks -> Places] /\ booked \in [Orders -> Nat] /\ trades \in [Orders -> SUBSET Nat]
    OBVIOUS
  <2>4. CASE cur[t] # s
    <3>1. booked'[s] = booked[s] /\ trades'[s] = trades[s]
      BY <2>1, <2>3, <2>4
    <3> HIDE <1>00 DEF WorkTyped, WorksOnRows, CommandWorksOnIds, AnswersHold, AnswersKnown, AcksKnown,
                 CommandToldFinal, Noted, Cumulative, Goto, Orders, ReplyType, ExchType, RowType
    <3>2. QED
      BY <2>1, <2>2, <2>3, <2>4, <3>1, SMTT(60)
  <2>5. CASE cur[t] = s /\ t = "command"
    <3>1. Whole(s) \in trades'[s] /\ exch[s].st \in Closed
      BY <2>1, <2>3, <2>5, CommandAnswer
    <3>2. QED
      BY <2>1, <3>1 DEF Finished
  <2>6. CASE cur[t] = s /\ t = "cycle"
    <3>1. \A u \in Tasks : ~OnIt(u, s, Reported)
      <4>1. HasLoop(t)
        BY <1>9 DEF BookFill
      <4>2. pc[t] \notin Reported
        BY <2>1
      <4>3. \A u \in Tasks : u # t => pc[u] \notin Running
        BY <4>1 DEF HasLoop
      <4> HIDE <1>0, <1>00 DEF WorkTyped, WorksOnRows, CommandWorksOnIds, AnswersHold, AnswersKnown, OneRuns,
                        AcksKnown, CommandToldFinal, SaleKnown, Cumulative, Noted, HasLoop
      <4>4. QED
        BY <4>2, <4>3 DEF OnIt, Running, Reported
    <3>2. booked[s] = row[s].filled /\ booked[s] \in Nat
      BY <3>1
    <3>3. Cumulative(t) <= booked[s] + FillQty(t)
      BY <2>1, <2>6, BookingCovers DEF Traced, SalesTraced
    <3>4. FillQty(t) \in Int /\ FillQty(t) > 0 /\ FillQty(t) <= Fresh(t) /\ Fresh(t) \in Int /\ Cumulative(t) \in Nat
      <4>1. Cumulative(t) \in Nat /\ Fresh(t) \in Int /\ held[PairOf[s]] \in Nat
        BY <1>t, CumulativeNat DEF TypeOK
      <4> HIDE <1>0, <1>00 DEF WorkTyped, WorksOnRows, CommandWorksOnIds, AnswersHold, AnswersKnown, OneRuns,
                        AcksKnown, CommandToldFinal, SaleKnown, Cumulative, Noted
      <4>2. QED
        BY <2>1, <2>6, <4>1 DEF Bookable, FillQty, Least
    <3>5. /\ reply[t].st = "ack" => row[s].filled = 0 /\ Fresh(t) = Cumulative(t) /\ Noted(t) = Cumulative(t)
          /\ reply[t].st # "ack" => seen[t].filled = row[s].filled /\ Fresh(t) = Cumulative(t) - seen[t].filled
      <4>1. /\ reply[t].st = "ack" => row[s].filled = 0
            /\ reply[t].st # "ack" => seen[t].filled = row[s].filled
        BY <2>1, <2>6
      <4>2. Cumulative(t) \in Nat
        BY <3>4
      <4> HIDE <1>0, <1>00 DEF WorkTyped, WorksOnRows, CommandWorksOnIds, AnswersHold, AnswersKnown, OneRuns,
                        AcksKnown, CommandToldFinal, SaleKnown
      <4>3. QED
        BY <4>1, <4>2 DEF Fresh
    <3>6. reply[t].st # "ack" => Noted(t) = IF Cumulative(t) >= seen[t].filled THEN Cumulative(t) ELSE seen[t].filled
      OBVIOUS
    <3> HIDE <1>00 DEF WorkTyped, WorksOnRows, CommandWorksOnIds, AnswersHold, AnswersKnown, AcksKnown,
                 CommandToldFinal, Noted, Cumulative, Goto, Orders, ReplyType, ExchType, RowType
    <3>7. booked[s] + FillQty(t) = Noted(t)
      BY <3>2, <3>3, <3>4, <3>5, <3>6
    <3>8. /\ booked'[s] = Noted(t)
          /\ trades'[s] = trades[s] \cup {Cumulative(t)}
      BY <2>1, <2>3, <2>6, <3>7 DEF Orders
    <3>9. \A u \in Tasks : pc'[u] \in Reported => u = t
      BY <1>9, <2>1, <2>3, <2>6 DEF BookFill
    <3>10. (\A u \in Tasks : OnIt(u, s, Reported) => booked[s] = Noted(u))'
      BY <2>1, <2>2, <2>6, <3>8, <3>9
    <3>11. OnIt(t, s, Reported)'
      BY <2>1, <2>3, <2>6
    <3>12. (OnIt("command", s, {"lookup"} \cup Answered))' => OnIt("command", s, {"lookup"} \cup Answered)
      BY <2>1, <2>3, <2>6
    <3>13. (\A u \in Tasks : OnIt(u, s, Reported) /\ reply[u].st # "ack" /\ Cumulative(u) > seen[u].filled =>
              Cumulative(u) \in trades[s])'
      BY <2>1, <2>2, <2>6, <3>8, <3>9
    <3>14. /\ reply["cycle"].st # "ack" => seen["cycle"].filled = row[s].filled
           /\ reply["cycle"].st = "ack" => ~OnIt("command", s, Working)
           /\ pc' = [pc EXCEPT !["cycle"] = pc'["cycle"]]
           /\ pc'["cycle"] \in {"stoploss", "stops"}
      BY <2>1, <2>3, <2>6, <3>5
    <3>15. /\ seen' = seen /\ row' = row /\ reply' = reply
           /\ ~OnIt("cycle", s, {"submit", "acked"})'
           /\ OnIt("command", s, Working)' => OnIt("command", s, Working)
      BY <2>1, <2>3, <3>14
    <3>16. (OnIt("command", s, {"lookup"} \cup Answered) =>
              /\ seen["command"].filled <= row[s].filled
              /\ seen["command"].filled # row[s].filled => row[s].filled \in trades[s] /\ row[s].filled <= Whole(s))'
      BY <3>8, <3>12, <3>15
    <3> HIDE DEF OnIt, Reported, Working, Answered
    <3>17. QED
      BY <3>10, <3>11, <3>13, <3>14, <3>15, <3>16
  <2>7. QED
    BY <2>4, <2>5, <2>6
<1>10. ASSUME NEW t \in Tasks, NothingToBook(t) PROVE SaleKnown(s)'
  <2>1. /\ HasFillToBook(t) /\ ~Bookable(t) /\ pc[t] \in {"answered", "acked"} /\ cur[t] \in Orders
        /\ pc' = [pc EXCEPT ![t] = IF reply[t].st = "ack" THEN "ackrow" ELSE "row"]
        /\ UNCHANGED <<exch, row, cur, seen, reply, booked, trades>>
    BY <1>10 DEF NothingToBook, HasFillToBook
  <2>2. \A u \in Tasks : Cumulative(u)' = Cumulative(u) /\ Noted(u)' = Noted(u) /\ Cumulative(u) \in Nat
    BY <1>t, <2>1, CumulativeNat
  <2>3. pc \in [Tasks -> Places]
    OBVIOUS
  <2>4. CASE cur[t] # s
    <3> HIDE <1>00 DEF WorkTyped, WorksOnRows, CommandWorksOnIds, AnswersHold, AnswersKnown, AcksKnown,
                 CommandToldFinal, Noted, Cumulative, Goto, Orders, ReplyType, ExchType, RowType
    <3>1. QED
      BY <2>1, <2>2, <2>3, <2>4, SMTT(60)
  <2>5. CASE cur[t] = s
    <3>1. \A u \in Tasks : ~OnIt(u, s, Reported)
      BY <1>10, <2>1, <2>5 DEF NothingToBook
    <3>2. booked[s] = row[s].filled /\ booked[s] \in Nat /\ seen[t].filled \in Nat
      BY <3>1
    <3>3. Cumulative(t) <= booked[s]
      BY <2>1, <2>5, BookingCovers DEF Traced, SalesTraced
    <3>4. reply[t].st = "ack" => row[s].filled = 0 /\ Noted(t) = Cumulative(t) /\ t = "cycle"
      BY <2>1, <2>5
    <3>5. reply[t].st # "ack" => seen[t].filled = row[s].filled
      <4>1. CASE t = "cycle"
        BY <2>1, <2>5, <4>1
      <4>2. CASE t = "command"
        <5>1. Whole(s) = Cumulative(t) /\ exch[s].st \in Closed
          BY <2>1, <2>5, <4>2, CommandAnswer
        <5>2. row[s].filled \in Nat /\ (seen[t].filled # row[s].filled => row[s].filled \in trades[s] /\ row[s].filled <= Whole(s))
          BY <2>1, <2>5, <4>2
        <5>3. Whole(s) \notin trades[s]
          BY <5>1 DEF Finished
        <5> HIDE <1>00 DEF WorkTyped, WorksOnRows, CommandWorksOnIds, AnswersHold, AnswersKnown, AcksKnown,
                     CommandToldFinal, Noted, Cumulative, Goto, Orders, ReplyType, ExchType, RowType
        <5>4. QED
          BY <2>2, <3>2, <3>3, <5>1, <5>2, <5>3
      <4>3. QED
        BY <4>1, <4>2
    <3>6. reply[t].st # "ack" => Noted(t) = IF Cumulative(t) >= seen[t].filled THEN Cumulative(t) ELSE seen[t].filled
      OBVIOUS
    <3> HIDE <1>00 DEF WorkTyped, WorksOnRows, CommandWorksOnIds, AnswersHold, AnswersKnown, AcksKnown,
                 CommandToldFinal, Noted, Cumulative, Goto, Orders, ReplyType, ExchType, RowType
    <3>7. booked[s] = Noted(t) /\ (reply[t].st # "ack" => ~(Cumulative(t) > seen[t].filled))
      BY <2>2, <3>2, <3>3, <3>4, <3>5, <3>6
    <3>8. \A u \in Tasks : pc'[u] \in Reported => u = t
      BY <1>10, <2>1, <2>3, <2>5 DEF NothingToBook
    <3>9. QED
      BY <2>1, <2>2, <2>3, <2>5, <3>1, <3>5, <3>7, <3>8, SMTT(60)
  <2>6. QED
    BY <2>4, <2>5
<1>11. ASSUME NEW t \in Tasks, RecordStoploss(t) \/ SaveStops(t) PROVE SaleKnown(s)'
  BY <1>11, SMTT(60) DEF RecordStoploss, SaveStops
<1>12. ASSUME NEW t \in Tasks, UpdateRow(t) PROVE SaleKnown(s)'
  <2> DEFINE top == Noted(t)
  <2>1. /\ pc[t] = "row" /\ cur[t] \in Orders /\ reply[t].st # "ack"
        /\ pc' = [pc EXCEPT ![t] = back[t]]
        /\ reply' = [reply EXCEPT ![t] = NoReply]
        /\ seen' = [seen EXCEPT ![t] = NoRow]
        /\ row' = [row EXCEPT ![cur[t]].status = StatusFor(reply[t].st, Cumulative(t)), ![cur[t]].filled = top]
        /\ UNCHANGED <<exch, cur, booked, trades>>
    BY <1>12 DEF UpdateRow, Return
  <2>2. \A u \in Tasks \ {t} : Cumulative(u)' = Cumulative(u) /\ Noted(u)' = Noted(u)
    BY <2>1
  <2>3. /\ pc \in [Tasks -> Places] /\ back[t] \notin Answered \cup {"lookup", "submit"}
        /\ reply \in [Tasks -> ReplyType] /\ seen \in [Tasks -> RowType]
        /\ row'[s].filled = IF cur[t] = s THEN top ELSE row[s].filled
        /\ row[s].filled \in Nat /\ top \in Nat /\ Cumulative(t) \in Nat /\ seen[t].filled \in Nat
    <3>1. /\ pc \in [Tasks -> Places] /\ back \in [Tasks -> Returns]
          /\ reply \in [Tasks -> ReplyType] /\ seen \in [Tasks -> RowType]
          /\ row \in [Orders -> RowType] /\ s \in Orders
          /\ row[s].filled \in Nat /\ seen[t].filled \in Nat
      OBVIOUS
    <3>2. back[t] \notin Answered \cup {"lookup", "submit"}
      BY <3>1
    <3>3. TypeOK
      BY <1>t
    <3> HIDE <1>0, <1>00 DEF WorkTyped, WorksOnRows, CommandWorksOnIds, AnswersHold, AnswersKnown, OneRuns,
                      AcksKnown, CommandToldFinal, SaleKnown, OnIt, Noted, Cumulative, top
    <3>4. Cumulative(t) \in Nat
      BY <3>3, CumulativeNat
    <3>5. top \in Nat
      BY <2>1, <3>1, <3>4 DEF top, Noted
    <3>6. row'[s].filled = IF cur[t] = s THEN top ELSE row[s].filled
      BY <2>1, <3>1, SMTT(60) DEF RowType
    <3>7. QED
      BY <3>1, <3>2, <3>4, <3>5, <3>6
  <2>4. \A u \in Tasks \ {t} : pc[u] \notin Running /\ pc'[u] = pc[u] /\ reply'[u] = reply[u] /\ seen'[u] = seen[u]
    BY <2>1
  <2>5. \A u \in Tasks : pc'[u] \notin Reported
    BY <2>1, <2>3, <2>4
  <2>6. CASE cur[t] # s
    <3> HIDE <1>00 DEF WorkTyped, WorksOnRows, CommandWorksOnIds, AnswersHold, AnswersKnown, AcksKnown,
                 CommandToldFinal, Noted, Cumulative, Goto, Orders, ReplyType, ExchType, RowType
    <3>1. QED
      BY <2>1, <2>2, <2>3, <2>4, <2>5, <2>6, SMTT(60)
  <2>7. CASE cur[t] = s
    <3>1. /\ booked[s] = top
          /\ top = IF Cumulative(t) >= seen[t].filled THEN Cumulative(t) ELSE seen[t].filled
          /\ Cumulative(t) > seen[t].filled => Cumulative(t) \in trades[s]
      BY <2>1, <2>7
    <3>2. CASE t = "cycle"
      <4>1. seen[t].filled = row[s].filled
        BY <2>1, <2>7, <3>2
      <4>2. OnIt("command", s, {"lookup"} \cup Answered) =>
              /\ Cumulative(t) <= Whole(s) /\ Whole(s) \in Nat /\ seen["command"].filled \in Nat
              /\ seen["command"].filled <= row[s].filled
              /\ seen["command"].filled # row[s].filled => row[s].filled \in trades[s] /\ row[s].filled <= Whole(s)
        <5>1. SUFFICES ASSUME OnIt("command", s, {"lookup"} \cup Answered)
                       PROVE  Cumulative(t) <= Whole(s) /\ Whole(s) \in Nat
          OBVIOUS
        <5>2. /\ reply[t] \in ReplyType /\ exch[s] \in ExchType /\ row[s].qty \in Nat /\ seen[t].qty = row[s].qty
              /\ reply[t].done <= exch[s].done /\ (reply[t].st = "filled" => exch[s].st = "filled")
          BY <2>1, <2>7
        <5>3. FilledFor(reply[t], row[s].qty) <= FilledFor(exch[s], row[s].qty) /\ FilledFor(exch[s], row[s].qty) \in Nat
          BY <5>2, FilledForGrows, FilledForNat
        <5>4. QED
          BY <2>1, <5>2, <5>3 DEF Whole
      <4> HIDE <1>00 DEF WorkTyped, WorksOnRows, CommandWorksOnIds, AnswersHold, AnswersKnown, AcksKnown,
                   CommandToldFinal, Noted, Cumulative, Goto, Orders, ReplyType, ExchType, RowType, top
      <4>3. /\ top >= row[s].filled
            /\ top # row[s].filled => top = Cumulative(t) /\ top \in trades[s]
        BY <2>3, <3>1, <4>1
      <4>4. OnIt("command", s, {"lookup"} \cup Answered) =>
              /\ seen["command"].filled <= top
              /\ seen["command"].filled # top => top \in trades[s] /\ top <= Whole(s)
        BY <2>3, <4>2, <4>3
      <4>5. QED
        BY <2>1, <2>2, <2>3, <2>4, <2>5, <2>7, <3>1, <3>2, <4>4, SMTT(60)
    <3>3. CASE t = "command"
      <4>1. Whole(s) = Cumulative(t) /\ exch[s].st \in Closed
        <5>1. pc["command"] \in Answered
          BY <2>1, <3>3
        <5> HIDE <1>00 DEF WorkTyped, WorksOnRows, CommandWorksOnIds, AnswersHold, AnswersKnown, OneRuns,
                     AcksKnown, CommandToldFinal, SaleKnown, Cumulative, Closed
        <5>2. QED
          BY <2>7, <3>3, <5>1, CommandAnswer
      <4>2. Cumulative(t) <= seen[t].filled
        <5>1. Cumulative(t) > seen[t].filled => Whole(s) \in trades[s]
          BY <3>1, <4>1
        <5>2. Whole(s) \notin trades[s]
          BY <4>1 DEF Finished
        <5>3. Cumulative(t) \in Nat /\ seen[t].filled \in Nat
          BY <2>3
        <5> HIDE <1>00 DEF WorkTyped, WorksOnRows, CommandWorksOnIds, AnswersHold, AnswersKnown, OneRuns,
                     AcksKnown, CommandToldFinal, SaleKnown, Noted, Cumulative, Closed, top
        <5>4. QED
          BY <5>1, <5>2, <5>3
      <4>3. /\ seen[t].filled <= row[s].filled
            /\ seen[t].filled # row[s].filled => row[s].filled \in trades[s] /\ row[s].filled <= Whole(s)
        BY <2>1, <2>7, <3>3
      <4>4. Whole(s) \notin trades[s]
        BY <4>1 DEF Finished
      <4> HIDE <1>00 DEF WorkTyped, WorksOnRows, CommandWorksOnIds, AnswersHold, AnswersKnown, AcksKnown,
                   CommandToldFinal, Noted, Cumulative, Goto, Orders, ReplyType, ExchType, RowType, top
      <4>5. top = row[s].filled
        BY <2>3, <3>1, <4>1, <4>2, <4>3, <4>4
      <4>6. QED
        BY <2>1, <2>2, <2>3, <2>4, <2>5, <2>7, <3>1, <3>3, <4>5, SMTT(60)
    <3>4. QED
      BY <3>2, <3>3
  <2>8. QED
    BY <2>6, <2>7
<1>13. ASSUME NEW t \in Tasks, CancelAnswered(t) PROVE SaleKnown(s)'
  <2>1. /\ pc \in [Tasks -> Places] /\ back \in [Tasks -> Returns] /\ cur \in [Tasks -> Orders \cup {NoOrder}]
        /\ seen \in [Tasks -> RowType] /\ reply \in [Tasks -> ReplyType] /\ exch \in [Orders -> ExchType]
        /\ row \in [Orders -> RowType] /\ row[s].filled \in Nat /\ s \in Orders
        /\ \A u \in Tasks : reply[u].st # "none" => pc[u] \in Answered
        /\ \A u \in Tasks : pc[u] \in Working => cur[u] \in Orders
    OBVIOUS
  <2> HIDE <1>0, <1>00, OrdersAssumption
      DEF WorkTyped, WorksOnRows, CommandWorksOnIds, AnswersHold, AnswersKnown, OneRuns, AcksKnown,
          CommandToldFinal,
          SaleKnown, OnIt, Noted, Cumulative, Closed, Goto,
          Orders, ReplyType, ExchType, RowType, HasLoop, external, tables, ledger, ages, control
  <2>2. /\ pc[t] = "cancel" /\ pc'[t] = "lookup" /\ cur[t] \in Orders /\ seen'[t] = row[cur[t]]
        /\ \A u \in Tasks : u # t => pc'[u] = pc[u] /\ seen'[u] = seen[u]
        /\ exch'[s].done = exch[s].done
        /\ exch'[s].st = exch[s].st \/ (exch[s].st = "open" /\ exch'[s].st = "cancelled")
        /\ UNCHANGED <<row, cur, booked, trades, reply>>
    BY <1>13, <2>1, CancelSent
  <2>3. pc[t] \in Working \ Reported /\ reply[t].st # "ack"
    BY <2>1, <2>2 DEF Working, Reported, Answered
  <2>4. row'[s].filled = row[s].filled /\ row'[s].qty = row[s].qty
    BY <2>2
  <2>5. Whole(s)' = Whole(s)
    BY <2>2, <2>4 DEF Whole, FilledFor
  <2>6. "lookup" \notin Reported \cup {"submit", "acked"}
    BY DEF Reported
  <2>7. SaleKnown(s) /\ (cur[t] = s => seen'[t].filled = row[s].filled)
    BY <2>2
  <2>8. QED
    BY <2>1, <2>2, <2>3, <2>4, <2>5, <2>6, <2>7, SaleFramed
<1>14. QED
  <2> HIDE <1>0, <1>00, OrdersAssumption
      DEF WorkTyped, WorksOnRows, CommandWorksOnIds, AnswersHold, AnswersKnown, OneRuns, AcksKnown,
          CommandToldFinal, SaleKnown, OnIt, Noted, Cumulative, Reported, Closed, Working, Answered, Running, Tasks,
          Returns, Goto, Orders, ReplyType, ExchType, RowType, HasLoop, external, tables, ledger, ages, control
  <2>1. QED
    BY <1>1, <1>2, <1>3, <1>4, <1>6, <1>7, <1>8, <1>9, <1>10, <1>11, <1>12, <1>13, <1>5
     DEF Next, Resolving, Executing, Cycle

\* With rows that are written whole, every sell's books are known.
LEMMA SalesStep ==
  ASSUME ~TornCrash, WatchInv, BookInv, [Next]_vars
  PROVE  SalesKnown'
<1>1. ASSUME NEW s \in Sells PROVE Finished(s)' \/ SaleKnown(s)'
  <2>1. AnswersKnown /\ CommandToldFinal /\ (Finished(s) \/ SaleKnown(s))
    BY DEF BookInv, SalesKnown
  <2>2. exch[s].st \in Closed =>
          Whole(s)' = Whole(s) /\ trades[s] \subseteq trades'[s] /\ (Finished(s) => Finished(s)')
    BY <2>1, WholeStays
  <2>3. CASE Finished(s)
    BY <2>2, <2>3 DEF Finished
  <2>4. CASE ~Finished(s) /\ ~Finished(s)'
    BY <2>1, <2>2, <2>4, SaleStep
  <2>5. QED
    BY <2>3, <2>4
<1>2. QED
  BY <1>1 DEF SalesKnown, Finished, SaleKnown, OnIt, Whole, Noted, Cumulative

-----------------------------------------------------------------------------
\* With one task and fills that are written whole the books are exact: booked is
\* what the row says or, while an answer is acted on, what the answer says.
Exact ==
  /\ \A o \in Orders : /\ exch[o].st = "filled" => exch[o].done = row[o].qty
                       /\ row[o].qty <= Qty[o]
                       /\ row[o].status = "NONE" => booked[o] = 0 /\ row[o].filled = 0
  /\ NeverDoubleCounted
  /\ \A o \in Orders : (\A t \in Tasks : pc[t] \in Reported => cur[t] # o) => row[o].filled = booked[o]
  /\ \A t \in Tasks : pc[t] \in {"lookup", "answered"} => seen[t].filled = booked[cur[t]]
  /\ \A t \in Tasks : pc[t] \in {"submit", "acked"} => booked[cur[t]] = 0
  /\ \A t \in Tasks : pc[t] \in Reported => booked[cur[t]] = Noted(t)

\* With one resolver and rows written whole, what is booked is what the
\* answer reports: no less (BookingCovers) and no more.
LEMMA BookingExact ==
  ASSUME WatchInv, BookInv, ~Overlap, Exact,
         NEW t \in Tasks, HasFillToBook(t)
  PROVE  /\ Noted(t) \in Nat
         /\ Noted(t) <= exch[cur[t]].done
         /\ Noted(t) >= Cumulative(t)
         /\ Bookable(t) => booked[cur[t]] + FillQty(t) = Noted(t)
         /\ ~Bookable(t) => booked[cur[t]] = Noted(t)
<1> DEFINE o == cur[t]
           c == Cumulative(t)
           f == Fresh(t)
           s == seen[t].filled
           b == booked[o]
           d == exch[o].done
<1>1. TypeOK /\ AnswersKnown /\ pc[t] \in Answered
  BY DEF WatchInv, BookInv, HasFillToBook, Answered
<1>2. o \in Orders /\ c \in Nat
  BY <1>1, CumulativeBounded
<1>3. b \in Nat /\ f \in Int /\ d \in Nat /\ s \in Nat /\ reply[t].done \in Nat /\ reply[t] \in ReplyType
  BY <1>1, <1>2, CumulativeNat DEF TypeOK, RowType, ExchType, ReplyType
<1>4. /\ Bookable(t) => c <= b + FillQty(t)
      /\ ~Bookable(t) => c <= b
  BY BookingCovers DEF Traced, SalesTraced
<1>5. b <= d
  BY <1>2 DEF Exact, NeverDoubleCounted
<1>6. FillQty(t) \in Int /\ FillQty(t) <= f /\ (Bookable(t) => FillQty(t) > 0)
  <2>1. PairOf[o] \in Pairs
    BY <1>2, OrdersAssumption
  <2>2. held[PairOf[o]] \in Nat
    BY <1>1, <2>1 DEF TypeOK
  <2>3. QED
    BY <1>3, <2>2 DEF FillQty, Bookable, Least
<1>7. CASE reply[t].st = "ack"
  <2>1. c = reply[t].done /\ f = c /\ Noted(t) = c
    BY <1>2, <1>3, <1>7 DEF Cumulative, Fresh, Noted
  <2>2. b = 0
    BY <1>1, <1>7 DEF HasFillToBook, AnswersKnown, Exact
  <2>3. c <= d
    BY <1>1, <2>1 DEF AnswersKnown
  <2> HIDE DEF b, c, d, f, s
  <2>4. QED
    BY <1>2, <1>3, <1>4, <1>6, <2>1, <2>2, <2>3 DEF b, c, d
<1>8. CASE reply[t].st # "ack"
  <2>1. f = c - s
    BY <1>8 DEF Fresh
  <2>2. b = s
    BY <1>1, <1>8 DEF HasFillToBook, AnswersKnown, Exact
  <2>3. c <= d
    <3>1. c = FilledFor(reply[t], seen[t].qty) /\ seen[t].qty = row[o].qty /\ row[o].qty \in Nat
      BY <1>1, <1>2, <1>8 DEF Cumulative, AnswersKnown, TypeOK, RowType
    <3>2. CASE reply[t].st = "filled"
      <4>1. d = row[o].qty
        BY <1>1, <1>2, <3>2 DEF AnswersKnown, Exact
      <4>2. QED
        BY <1>3, <3>1, <4>1, FilledForNat
    <3>3. CASE reply[t].st # "filled"
      <4>1. RoundDown(reply[t].done) \in Nat /\ RoundDown(reply[t].done) <= reply[t].done
        BY <1>3, RoundDownNat
      <4>2. c <= RoundDown(reply[t].done)
        BY <1>2, <3>1, <3>3, <4>1 DEF FilledFor, Least
      <4>3. reply[t].done <= d
        BY <1>1 DEF AnswersKnown
      <4>4. QED
        BY <1>2, <1>3, <4>1, <4>2, <4>3
    <3>4. QED
      BY <3>2, <3>3
  <2>4. Noted(t) = IF c >= s THEN c ELSE s
    BY <1>8 DEF Noted
  <2> HIDE DEF b, c, d, f, s
  <2>5. QED
    BY <1>2, <1>3, <1>4, <1>5, <1>6, <2>1, <2>2, <2>3, <2>4 DEF b, c, d
<1>9. QED
  BY <1>7, <1>8

\* The books stay exact.
LEMMA ExactStep ==
  ASSUME ~Overlap, ~TornCrash, WatchInv, BookInv, Exact, [Next]_vars
  PROVE  Exact'
<1>0. /\ AnswersKnown /\ BooksKnown /\ Solo
      /\ WorkTyped /\ WorksOnRows /\ SubmittedOnce /\ AnswersHold
      /\ trades \in [Orders -> SUBSET Nat] /\ booked \in [Orders -> Nat] /\ decision \in Sells \cup {NoOrder}
  BY DEF BookInv, WatchInv, TypeOK, Watch, WorkTyped
<1> USE <1>0, OrdersAssumption
    DEF WorkTyped, WorksOnRows, SubmittedOnce, AnswersHold, Solo, Exact, NeverDoubleCounted, Noted, Cumulative,
        Reported, Answered, Working, Running, Open, Tasks, Returns, Goto, Orders, RowType, ExchType, external,
        tables, ledger, ages, control
<1>1. ASSUME NEW o \in Orders, Arrive(o) PROVE Exact'
  <2>1. PICK n \in 0..row[o].qty :
          exch' = [exch EXCEPT ![o] = [st |-> IF n = row[o].qty THEN "filled" ELSE "open", done |-> n]]
    BY <1>1 DEF Arrive
  <2>2. exch[o].st = "none" /\ row[o].qty \in Nat /\ n \in Nat /\ exch[o].done = 0
        /\ UNCHANGED <<row, booked, pc, cur, seen, reply>>
    BY <1>1 DEF Arrive, AnswersKnown
  <2>3. \A x \in Orders : exch'[x] = IF x = o THEN [st |-> IF n = row[o].qty THEN "filled" ELSE "open", done |-> n] ELSE exch[x]
    BY <2>1
  <2>4. exch'[o].done = n /\ booked[o] = 0
    BY <2>2, <2>3
  <2>5. \A x \in Orders : booked'[x] <= exch'[x].done /\ (exch'[x].st = "filled" => exch'[x].done = row'[x].qty)
    BY <2>2, <2>3, <2>4
  <2> HIDE <1>0 DEF WorkTyped, WorksOnRows, SubmittedOnce, AnswersHold, Solo,
             Open, Goto, Orders, RowType, ExchType
  <2>6. QED
    BY <2>2, <2>5
<1>2. ASSUME NEW o \in Orders, Drop(o) \/ Expire(o) \/ BecomeOverdue(o) PROVE Exact'
  BY <1>2, SMTT(60) DEF Drop, Expire, BecomeOverdue
<1>3. ASSUME NEW o \in Orders, Match(o) PROVE Exact'
  BY <1>3, SMTT(60) DEF Match
<1>4. ASSUME NEW o \in Orders, CancelledElsewhere(o) PROVE Exact'
  BY <1>4, SMTT(60) DEF CancelledElsewhere
<1>5. ASSUME NEW t \in Tasks, LookupAnswered(t) PROVE Exact'
  BY <1>5, SMTT(60) DEF LookupAnswered
<1>6. ASSUME NEW t \in Tasks, LookupFails(t) PROVE Exact'
  BY <1>6, SMTT(60) DEF LookupFails, Return, NoRow, NoReply
<1>7. ASSUME NEW t \in Tasks, NotFound(t) PROVE Exact'
  <2>1. /\ pc[t] = "answered" /\ pc' = [pc EXCEPT ![t] = back[t]]
        /\ row' = IF GivenUp(t) THEN [row EXCEPT ![cur[t]].status = "REJECTED"] ELSE row
        /\ UNCHANGED <<exch, cur, booked>>
    BY <1>7 DEF NotFound, Return
  <2>2. pc \in [Tasks -> Places] /\ back[t] \in Returns /\ row \in [Orders -> RowType]
    OBVIOUS
  <2>3. \A u \in Tasks : u # t => pc[u] = "idle"
    BY <2>1
  <2> HIDE <1>0, OrdersAssumption
      DEF WorkTyped, WorksOnRows, SubmittedOnce, AnswersHold, Solo, Noted, Cumulative,
          Working, Running, Open, Returns, Goto, Orders, RowType, ExchType, external, tables, ledger, ages, control
  <2>4. \A u \in Tasks : pc'[u] \in Returns
    BY <2>1, <2>2, <2>3 DEF Returns
  <2>5. \A u \in Tasks : pc'[u] \notin {"lookup", "answered", "submit", "acked"} \cup Reported
    BY <2>4 DEF Returns
  <2>6. \A x \in Orders : /\ row'[x].qty = row[x].qty /\ row'[x].filled = row[x].filled
                          /\ row'[x].status = "NONE" => row[x].status = "NONE"
    BY <2>1, <2>2 DEF RowType
  <2>7. \A x \in Orders : row[x].filled = booked[x]
    BY <2>1, <2>3
  <2>8. QED
    BY <2>1, <2>5, <2>6, <2>7
<1>8. ASSUME NEW t \in Tasks, BookFill(t) PROVE Exact'
  <2> DEFINE o == cur[t]
             q == FillQty(t)
  <2>1. HasFillToBook(t) /\ Bookable(t) /\ o \in Orders /\ pc[t] \in {"acked", "answered"}
    BY <1>8 DEF BookFill, HasFillToBook
  <2>2. booked[o] + q = Noted(t) /\ Noted(t) <= exch[o].done
    BY <2>1, BookingExact
  <2>3. /\ booked' = [booked EXCEPT ![o] = @ + q]
        /\ pc' = [pc EXCEPT ![t] = IF o \in StopExits THEN "stoploss" ELSE "stops"]
        /\ UNCHANGED <<exch, row, cur, seen, reply>>
    BY <1>8 DEF BookFill
  <2>4. /\ \A u \in Tasks : Noted(u)' = Noted(u)
        /\ booked \in [Orders -> Nat] /\ pc \in [Tasks -> Places]
        /\ \A u \in Tasks : u # t => pc[u] = "idle"
        /\ row[o].status # "NONE"
    BY <2>1, <2>3
  <2> HIDE DEF q
  <2>5. \A x \in Orders : booked'[x] = IF x = o THEN Noted(t) ELSE booked[x]
    BY <2>2, <2>3, <2>4
  <2>6. \A u \in Tasks : pc'[u] = IF u = t THEN (IF o \in StopExits THEN "stoploss" ELSE "stops") ELSE "idle"
    BY <2>3, <2>4
  <2> HIDE <1>0 DEF WorkTyped, WorksOnRows, SubmittedOnce, AnswersHold, Solo, Noted, Cumulative,
             Open, Goto, Orders, RowType, ExchType, o
  <2>7. \A x \in Orders : /\ exch'[x].st = "filled" => exch'[x].done = row'[x].qty
                          /\ row'[x].qty <= Qty[x]
                          /\ row'[x].status = "NONE" => booked'[x] = 0 /\ row'[x].filled = 0
                          /\ booked'[x] <= exch'[x].done
    BY <2>2, <2>3, <2>4, <2>5 DEF o
  <2>8. \A x \in Orders : (\A u \in Tasks : pc'[u] \in Reported => cur'[u] # x) => row'[x].filled = booked'[x]
    <3>1. \A u \in Tasks : pc[u] \notin Reported
      BY <2>1, <2>4
    <3>2. pc'[t] \in Reported /\ cur'[t] = o
      BY <2>3, <2>6 DEF o
    <3>3. QED
      BY <2>3, <2>5, <3>1, <3>2
  <2>9. \A u \in Tasks : /\ pc'[u] \notin {"lookup", "answered", "submit", "acked"}
                         /\ pc'[u] \in Reported => booked'[cur'[u]] = Noted(u)'
    BY <2>1, <2>3, <2>4, <2>5, <2>6 DEF o
  <2>10. QED
    BY <2>7, <2>8, <2>9
<1>9. ASSUME NEW t \in Tasks, NothingToBook(t) PROVE Exact'
  <2>1. HasFillToBook(t) /\ ~Bookable(t) /\ cur[t] \in Orders /\ pc[t] \in {"acked", "answered"}
    BY <1>9 DEF NothingToBook, HasFillToBook
  <2>2. booked[cur[t]] = Noted(t)
    BY <2>1, BookingExact
  <2>3. /\ pc' = [pc EXCEPT ![t] = IF reply[t].st = "ack" THEN "ackrow" ELSE "row"]
        /\ UNCHANGED <<exch, row, cur, seen, reply, booked>>
    BY <1>9 DEF NothingToBook
  <2>4. /\ \A u \in Tasks : Noted(u)' = Noted(u)
        /\ \A u \in Tasks : u # t => pc[u] = "idle"
    BY <2>1, <2>3
  <2>5. \A u \in Tasks : pc'[u] = IF u = t THEN (IF reply[t].st = "ack" THEN "ackrow" ELSE "row") ELSE "idle"
    BY <2>3, <2>4
  <2> HIDE <1>0 DEF WorkTyped, WorksOnRows, SubmittedOnce, AnswersHold, Solo, Noted, Cumulative,
             Open, Goto, Orders, RowType, ExchType
  <2>6. QED
    BY <2>1, <2>2, <2>3, <2>4, <2>5, SMTT(60)
<1>10. ASSUME NEW t \in Tasks, RecordStoploss(t) \/ SaveStops(t) PROVE Exact'
  BY <1>10, SMTT(60) DEF RecordStoploss, SaveStops
<1>11. ASSUME NEW t \in Tasks, UpdateRow(t) PROVE Exact'
  <2> DEFINE o == cur[t]
             c == Cumulative(t)
             st == StatusFor(reply[t].st, c)
  <2>1. o \in Orders /\ pc[t] = "row" /\ reply[t].st # "ack" /\ row[o].status \in Open
    BY <1>11 DEF UpdateRow, AnswersKnown
  <2>2. /\ row' = [row EXCEPT ![o].status = st, ![o].filled = IF c >= seen[t].filled THEN c ELSE seen[t].filled]
        /\ pc' = [pc EXCEPT ![t] = back[t]]
        /\ UNCHANGED <<exch, cur, booked>>
    BY <1>11 DEF UpdateRow, Return
  <2>3. booked[o] = IF c >= seen[t].filled THEN c ELSE seen[t].filled
    BY <2>1
  <2> HIDE DEF c, st
  <2>4. \A x \in Orders : /\ row'[x].qty = row[x].qty
                          /\ row'[x].filled = IF x = o THEN booked[o] ELSE row[x].filled
                          /\ row'[x].status = IF x = o THEN st ELSE row[x].status
    BY <2>2, <2>3
  <2>5. st # "NONE" /\ \A u \in Tasks : u # t => pc[u] = "idle"
    BY <2>1 DEF st, StatusFor
  <2>6. \A u \in Tasks : pc'[u] \notin {"lookup", "answered", "submit", "acked"} \cup Reported
    BY <2>2, <2>5
  <2> HIDE <1>0 DEF WorkTyped, WorksOnRows, SubmittedOnce, AnswersHold, Solo, Noted, Cumulative,
             Open, Goto, Orders, RowType, ExchType, o
  <2>7. \A x \in Orders : row[x].filled = booked[x] \/ x = o
    BY <2>1, <2>5 DEF o
  <2>8. \A x \in Orders : row'[x].filled = booked'[x]
    BY <2>2, <2>4, <2>7
  <2>9. \A x \in Orders : /\ exch'[x].st = "filled" => exch'[x].done = row'[x].qty
                          /\ row'[x].qty <= Qty[x]
                          /\ row'[x].status = "NONE" => booked'[x] = 0 /\ row'[x].filled = 0
                          /\ booked'[x] <= exch'[x].done
    <3>1. \A x \in Orders : /\ exch[x].st = "filled" => exch[x].done = row[x].qty
                            /\ row[x].qty <= Qty[x]
                            /\ row[x].status = "NONE" => booked[x] = 0 /\ row[x].filled = 0
                            /\ booked[x] <= exch[x].done
      OBVIOUS
    <3> HIDE DEF Exact, NeverDoubleCounted
    <3>2. \A x \in Orders : row'[x].status = "NONE" => row[x].status = "NONE"
      BY <2>4, <2>5
    <3>3. exch' = exch /\ booked' = booked
      BY <2>2
    <3> HIDE <1>0
    <3>4. QED
      BY <2>4, <2>8, <3>1, <3>2, <3>3
  <2>10. QED
    BY <2>6, <2>8, <2>9
<1>12. ASSUME NEW t \in Tasks, CancelAnswered(t) PROVE Exact'
  <2>1. /\ pc[t] = "cancel" /\ pc'[t] = "lookup" /\ cur[t] \in Orders /\ seen'[t] = row[cur[t]]
        /\ \A u \in Tasks : u # t => pc'[u] = pc[u] /\ seen'[u] = seen[u]
        /\ \A o \in Orders : exch'[o].done = exch[o].done /\ (exch'[o].st = "filled" => exch[o].st = "filled")
        /\ UNCHANGED <<row, booked, cur, reply>>
    BY <1>12, CancelSent
  <2>2. \A u \in Tasks : u # t => pc[u] = "idle"
    BY <2>1
  <2> HIDE <1>0, OrdersAssumption
      DEF WorkTyped, WorksOnRows, SubmittedOnce, AnswersHold, Solo, Noted, Cumulative,
          Working, Running, Open, Returns, Goto, Orders, RowType, ExchType, external, tables, ledger, ages, control
  <2>3. \A u \in Tasks : /\ pc[u] \notin {"lookup", "answered", "submit", "acked"} \cup Reported
                         /\ pc'[u] \notin {"answered", "submit", "acked"} \cup Reported
                         /\ pc'[u] = "lookup" => u = t
    BY <2>1, <2>2
  <2>4. \A x \in Orders : row[x].filled = booked[x]
    BY <2>3
  <2>5. QED
    BY <2>1, <2>3, <2>4
<1>13. ASSUME NEW t \in Tasks, CancelFails(t) PROVE Exact'
  BY <1>13, SMTT(60) DEF CancelFails
<1>14. ASSUME NEW o \in Orders, ExecuteBuy(o) PROVE Exact'
  <2>1. Qty[o] \in Nat /\ exch[o].st = "none" /\ row[o].filled = 0
    BY <1>14, QtyAssumption DEF ExecuteBuy
  <2>2. /\ row' = [row EXCEPT ![o] = [status |-> "PENDING_SUBMIT", filled |-> 0, qty |-> Qty[o]]]
        /\ pc' = [pc EXCEPT !["cycle"] = "submit"]
        /\ cur' = [cur EXCEPT !["cycle"] = o]
        /\ UNCHANGED <<exch, booked, seen, reply>>
    BY <1>14 DEF ExecuteBuy, Submit
  <2>3. QED
    BY <1>14, <2>1, <2>2, SMTT(60) DEF ExecuteBuy
<1>15. ASSUME NEW o \in Orders, ExecuteSell(o) PROVE Exact'
  BY <1>15, SMTT(60) DEF ExecuteSell
<1>16. CASE SubmitSell
  <2> DEFINE o == decision
             q == SellQty(o)
  <2>1. o \in Sells /\ o \in Orders /\ row[o].status = "NONE" /\ pc["cycle"] = "replace"
    BY <1>16 DEF SubmitSell
  <2>2. q \in Nat /\ q <= Qty[o]
    <3>1. TypeOK
      BY DEF WatchInv
    <3>2. QED
      BY <2>1, <3>1, SellQtyNat
  <2> HIDE DEF q
  <2>3. /\ row' = [row EXCEPT ![o] = [status |-> "PENDING_SUBMIT", filled |-> 0, qty |-> q]]
        /\ pc' = [pc EXCEPT !["cycle"] = "submit"]
        /\ cur' = [cur EXCEPT !["cycle"] = o]
        /\ UNCHANGED <<exch, booked, seen, reply>>
    BY <1>16 DEF SubmitSell, Submit, q
  <2> HIDE DEF o
  <2>4. exch[o].st = "none" /\ row[o].filled = 0
    BY <2>1
  <2>5. /\ \A u \in Tasks \ {"cycle"} : pc[u] = "idle"
        /\ "cycle" \in Tasks /\ \A u \in Tasks : pc[u] \notin Reported \cup {"lookup", "answered", "submit", "acked"}
    BY <2>1
  <2>6. booked[o] = 0
    BY <2>1
  <2>7. /\ \A x \in Orders : row'[x] = IF x = o THEN [status |-> "PENDING_SUBMIT", filled |-> 0, qty |-> q] ELSE row[x]
        /\ \A u \in Tasks : /\ pc'[u] = IF u = "cycle" THEN "submit" ELSE "idle"
                            /\ u = "cycle" => cur'[u] = o
    BY <2>3, <2>5
  <2> HIDE <1>0 DEF WorkTyped, WorksOnRows, SubmittedOnce, AnswersHold, Solo, Noted, Cumulative,
             Open, Goto, Orders, RowType, ExchType
  <2>8. \A x \in Orders : row[x].filled = booked[x]
    BY <2>5
  <2>9. QED
    BY <2>1, <2>2, <2>3, <2>4, <2>5, <2>6, <2>7, <2>8, SMTT(60)
<1>17. CASE ReplaceNext \/ GiveUpSell \/ SubmitRefused \/ TtlCancel \/ SyncDone \/ CycleStart
  <2>1. CASE ReplaceNext
    BY <2>1, SMTT(60) DEF ReplaceNext
  <2>2. CASE GiveUpSell
    BY <2>2, SMTT(60) DEF GiveUpSell
  <2>3. CASE SubmitRefused
    BY <2>3, SMTT(60) DEF SubmitRefused
  <2>4. CASE TtlCancel
    BY <2>4, SMTT(60) DEF TtlCancel
  <2>5. CASE SyncDone
    BY <2>5, SMTT(60) DEF SyncDone
  <2>6. CASE CycleStart
    BY <2>6, SMTT(60) DEF CycleStart
  <2>7. QED
    BY <1>17, <2>1, <2>2, <2>3, <2>4, <2>5, <2>6, Zenon
<1>18. CASE SubmitAcked
  BY <1>18, SMTT(60) DEF SubmitAcked, Resolve
<1>19. CASE UpdateAckedRow
  <2> DEFINE o == cur["cycle"]
             n == reply["cycle"].done
  <2>1. /\ pc["cycle"] = "ackrow" /\ o \in Orders /\ row' = [row EXCEPT ![o].filled = n]
        /\ pc' = [pc EXCEPT !["cycle"] = "lookup"]
        /\ cur' = [cur EXCEPT !["cycle"] = o]
        /\ seen' = [seen EXCEPT !["cycle"] = row'[o]]
        /\ UNCHANGED <<exch, booked>>
    BY <1>19 DEF UpdateAckedRow, Resolve
  <2>2. /\ pc \in [Tasks -> Places] /\ cur \in [Tasks -> Orders \cup {NoOrder}]
        /\ seen \in [Tasks -> RowType] /\ row \in [Orders -> RowType]
    OBVIOUS
  <2>3. \A u \in Tasks : u # "cycle" => pc[u] = "idle"
    BY <2>1
  <2>4. booked[o] = n
    BY <2>1 DEF AnswersKnown
  <2> HIDE <1>0, OrdersAssumption
      DEF WorkTyped, WorksOnRows, SubmittedOnce, AnswersHold, Solo, Noted, Cumulative,
          Working, Running, Open, Returns, Goto, Orders, RowType, ExchType, external, tables, ledger, ages, control
  <2> HIDE DEF n
  <2>5. cur' = cur
    BY <2>1, <2>2
  <2>6. \A x \in Orders : /\ row'[x].qty = row[x].qty /\ row'[x].status = row[x].status
                          /\ row'[x].filled = IF x = o THEN n ELSE row[x].filled
    BY <2>1, <2>2 DEF RowType
  <2>7. \A x \in Orders : row'[x].filled = booked[x]
    BY <2>3, <2>4, <2>6
  <2>8. seen'["cycle"].filled = booked[o]
    BY <2>1, <2>2, <2>7
  <2>9. \A u \in Tasks : pc'[u] = IF u = "cycle" THEN "lookup" ELSE "idle"
    BY <2>1, <2>2, <2>3
  <2>10. \A x \in Orders : row'[x].status = "NONE" => booked'[x] = 0 /\ row'[x].filled = 0
    BY <2>1, <2>6, <2>7
  <2>11. QED
    BY <2>1, <2>5, <2>6, <2>7, <2>8, <2>9, <2>10
<1>20. CASE SubmitUnknown \/ SyncNext
  BY <1>20, SMTT(60) DEF SubmitUnknown, SyncNext, Resolve
<1>21. CASE CycleEnd \/ Command
  BY <1>21, SMTT(60) DEF CycleEnd, Finish, Command, CommandStart, CancelAllNext, CommandEnd
<1>22. CASE Crash \/ UNCHANGED vars
  BY <1>22, SMTT(60) DEF Crash, vars, NoRow, NoReply
<1>23. QED
  <2> HIDE <1>0, OrdersAssumption
    DEF WorkTyped, WorksOnRows, SubmittedOnce, AnswersHold, Solo, Exact, NeverDoubleCounted, Noted,
        Cumulative,
        Reported, Answered, Working, Running, Open, Tasks, Returns, Goto, Orders, RowType, ExchType,
        external, tables, ledger, ages, control
  <2>1. QED
    BY <1>1, <1>2, <1>3, <1>4, <1>5, <1>6, <1>7, <1>8, <1>9, <1>10, <1>11, <1>12, <1>13, <1>14, <1>15,
       <1>16, <1>17, <1>18, <1>19, <1>20, <1>21, <1>22
       DEF Next, Environment, Aging, Resolving, Executing, Cycle

-----------------------------------------------------------------------------
\* The stop-losses are about to be stored.
Saving == {"stoploss", "stops"}
\* Every position has a stop-loss, in memory and, but for the moment in which a
\* fill is written, in the table; and an exit's event is written or about to be.
Guarded ==
  /\ PositionsKeepTheirStop
  /\ (\A t \in Tasks : pc[t] \notin Saving) => \A p \in Pairs : held[p] > 0 => p \in saved
  /\ \A o \in StopExits :
       booked[o] > 0 => PairOf[o] \in stoplosses \/ \E t \in Tasks : pc[t] = "stoploss" /\ cur[t] = o

\* What protects a position stays, through every crash between two fills.
LEMMA GuardStep ==
  ASSUME ~TornCrash, WatchInv, Guarded, [Next]_vars
  PROVE  Guarded'
<1> USE OrdersAssumption
    DEF WatchInv, TypeOK, Watch, WorksOnRows, Guarded, PositionsKeepTheirStop, Saving, Stopped, Working, Running,
        Tasks,
        Returns, Goto, Orders, external, tables, ledger, ages, control
<1>1. ASSUME NEW o \in Orders, Arrive(o) PROVE Guarded'
  BY <1>1, SMTT(60) DEF Arrive
<1>2. ASSUME NEW o \in Orders, Drop(o) \/ Expire(o) \/ BecomeOverdue(o) PROVE Guarded'
  BY <1>2, SMTT(60) DEF Drop, Expire, BecomeOverdue
<1>3. ASSUME NEW o \in Orders, Match(o) PROVE Guarded'
  BY <1>3, SMTT(60) DEF Match
<1>4. ASSUME NEW o \in Orders, CancelledElsewhere(o) PROVE Guarded'
  BY <1>4, SMTT(60) DEF CancelledElsewhere
<1>5. ASSUME NEW t \in Tasks, LookupAnswered(t) PROVE Guarded'
  BY <1>5, SMTT(60) DEF LookupAnswered
<1>6. ASSUME NEW t \in Tasks, LookupFails(t) PROVE Guarded'
  BY <1>6, SMTT(60) DEF LookupFails, Return, NoRow, NoReply
<1>7. ASSUME NEW t \in Tasks, NotFound(t) PROVE Guarded'
  BY <1>7, SMTT(60) DEF NotFound, Return, NoRow, NoReply
<1>8. ASSUME NEW t \in Tasks, BookFill(t) PROVE Guarded'
  <2> DEFINE o == cur[t]
             p == PairOf[o]
             q == FillQty(t)
  <2>1. o \in Orders /\ p \in Pairs /\ pc[t] \in {"acked", "answered"}
    BY <1>8 DEF BookFill, HasFillToBook
  <2>2. q \in Int /\ q > 0 /\ (o \in Sells => q <= held[p])
    <3>1. TypeOK /\ FillQty(t) > 0
      BY <1>8 DEF BookFill, Bookable
    <3> HIDE DEF WatchInv, Watch, WorksOnRows, Guarded
    <3>2. Fresh(t) \in Int /\ (o \in Sells => held[p] \in Nat)
      BY <2>1, <3>1, CumulativeNat DEF TypeOK
    <3>3. QED
      BY <2>1, <3>1, <3>2 DEF FillQty, Least
  <2>3. /\ booked' = [booked EXCEPT ![o] = @ + q]
        /\ held' = [held EXCEPT ![p] = IF o \in Buys THEN @ + q ELSE @ - q]
        /\ stop' = IF o \in Buys THEN stop \cup {p} ELSE IF held[p] = q THEN stop \ {p} ELSE stop
        /\ pc' = [pc EXCEPT ![t] = IF o \in StopExits THEN "stoploss" ELSE "stops"]
        /\ UNCHANGED <<cur, saved, stoplosses>>
    BY <1>8 DEF BookFill
  <2> HIDE DEF q
  <2>4. PositionsKeepTheirStop'
    BY <2>1, <2>2, <2>3
  <2>5. pc'[t] \in Saving /\ (o \in StopExits => pc'[t] = "stoploss" /\ cur'[t] = o)
    BY <2>3
  <2>6. \A x \in StopExits : booked'[x] > 0 => PairOf[x] \in stoplosses' \/ \E u \in Tasks : pc'[u] = "stoploss" /\ cur'[u] = x
    <3>1. ASSUME NEW x \in StopExits, x # o, booked'[x] > 0
          PROVE  PairOf[x] \in stoplosses' \/ \E u \in Tasks : pc'[u] = "stoploss" /\ cur'[u] = x
      BY <2>1, <2>3, <3>1
    <3>2. QED
      BY <2>5, <3>1
  <2>7. QED
    BY <2>4, <2>5, <2>6
<1>9. ASSUME NEW t \in Tasks, NothingToBook(t) PROVE Guarded'
  BY <1>9, SMTT(60) DEF NothingToBook, HasFillToBook
<1>10. ASSUME NEW t \in Tasks, RecordStoploss(t) \/ SaveStops(t) PROVE Guarded'
  BY <1>10, SMTT(60) DEF RecordStoploss, SaveStops
<1>11. ASSUME NEW t \in Tasks, UpdateRow(t) PROVE Guarded'
  BY <1>11, SMTT(60) DEF UpdateRow, Return, NoRow, NoReply
<1>12. ASSUME NEW t \in Tasks, CancelAnswered(t) PROVE Guarded'
  BY <1>12, SMTT(60) DEF CancelAnswered, Resolve
<1>13. ASSUME NEW t \in Tasks, CancelFails(t) PROVE Guarded'
  BY <1>13, SMTT(60) DEF CancelFails
<1>14. ASSUME NEW o \in Orders, ExecuteBuy(o) PROVE Guarded'
  BY <1>14, SMTT(60) DEF ExecuteBuy, Submit
<1>15. ASSUME NEW o \in Orders, ExecuteSell(o) PROVE Guarded'
  BY <1>15, SMTT(60) DEF ExecuteSell
<1>16. CASE SubmitSell
  BY <1>16, SMTT(60) DEF SubmitSell, Submit
<1>17. CASE ReplaceNext \/ GiveUpSell \/ SubmitRefused \/ TtlCancel \/ SyncDone \/ CycleStart
  BY <1>17, SMTT(60) DEF ReplaceNext, GiveUpSell, SubmitRefused, TtlCancel, SyncDone, CycleStart
<1>18. CASE SubmitAcked
  BY <1>18, SMTT(60) DEF SubmitAcked, Resolve
<1>19. CASE UpdateAckedRow
  BY <1>19, SMTT(60) DEF UpdateAckedRow, Resolve, NoReply
<1>20. CASE SubmitUnknown \/ SyncNext
  BY <1>20, SMTT(60) DEF SubmitUnknown, SyncNext, Resolve
<1>21. CASE CycleEnd \/ Command
  BY <1>21, SMTT(60) DEF CycleEnd, Finish, Command, CommandStart, CancelAllNext, CommandEnd
<1>22. CASE Crash \/ UNCHANGED vars
  BY <1>22, SMTT(60) DEF Crash, vars, NoRow, NoReply
<1>23. QED
  <2> HIDE OrdersAssumption
    DEF WatchInv, TypeOK, Watch, WorksOnRows, Guarded, PositionsKeepTheirStop, Saving, Stopped, Working, Running,
        Tasks,
        Returns, Goto, Orders, external, tables, ledger, ages, control
  <2>1. QED
    BY <1>1, <1>2, <1>3, <1>4, <1>5, <1>6, <1>7, <1>8, <1>9, <1>10, <1>11, <1>12, <1>13, <1>14, <1>15,
       <1>16, <1>17, <1>18, <1>19, <1>20, <1>21, <1>22
       DEF Next, Environment, Aging, Resolving, Executing, Cycle

\* Nothing is held at the start.
LEMMA InitGuarded == Init => Guarded
  BY OrdersAssumption DEF Init, Guarded, PositionsKeepTheirStop, Orders

\* The stop-loss and the memory of it survive every crash that does not tear
\* the transactions of a fill (_fill, _apply_state, save_stops).
THEOREM ProtectionIsKept ==
  ASSUME ~TornCrash
  PROVE  Spec => []ProtectionKept
<1>1. Guarded => ProtectionKept
  BY OrdersAssumption DEF Guarded, ProtectionKept, StoplossRemembered, Running
<1>2. WatchInv /\ Guarded /\ [Next]_vars => Guarded'
  BY GuardStep
<1>3. QED
  BY InitGuarded, WatchInvHolds, <1>1, <1>2, PTL DEF Spec

\* Nothing is booked at the start.
LEMMA InitBookInv == Init => BookInv
<1> SUFFICES ASSUME Init PROVE BookInv
  OBVIOUS
<1>1. AnswersKnown
  BY DEF Init, AnswersKnown, NoRow, Answered
<1>2. OneRuns
  BY DEF Init, OneRuns, Running
<1>3. AcksKnown /\ CommandToldFinal
  BY DEF Init, AcksKnown, CommandToldFinal, NoRow, NoReply, HasId, Tasks, Working, Answered
<1>4. RowsFull
  BY DEF Init, RowsFull, NoRow, Resolved
<1>5. OneInHand /\ Covered
  BY OrdersAssumption DEF Init, OneInHand, Covered, InHand, NoRow, Open, Working, Tasks, Orders
<1>6. BooksKnown
  BY DEF Init, BooksKnown, NoRow, Answered, Reported, Resolved
<1>7. Solo
  BY DEF Init, Solo, Working, Tasks
<1>8. SalesKnown
  BY DEF Init, SalesKnown, SaleKnown, OnIt, NoRow, Reported, Answered, Working, Tasks, Orders
<1>9. QED
  BY <1>1, <1>2, <1>3, <1>4, <1>5, <1>6, <1>7, <1>8 DEF BookInv

\* BookInv is inductive, given WatchInv.
LEMMA StepBookInv == WatchInv /\ BookInv /\ [Next]_vars => BookInv'
<1> SUFFICES ASSUME WatchInv, BookInv, [Next]_vars PROVE BookInv'
  OBVIOUS
<1>1. AnswersKnown' /\ OneRuns' /\ AcksKnown'
  BY AnswersStep, OneRunsStep, AcksStep DEF BookInv
<1>2. CommandToldFinal' /\ RowsFull' /\ OneInHand'
  BY ToldFinalStep, RowsFullStep, OneInHandStep DEF BookInv
<1>3. BooksKnown'
  BY BooksStep
<1>4. ~Overlap => Solo'
  BY SoloStep DEF BookInv
<1>5. ~TornCrash => SalesKnown'
  BY SalesStep
<1>6. SalesTraced => Covered'
  BY CoveredStep DEF BookInv
<1>7. QED
  BY <1>1, <1>2, <1>3, <1>4, <1>5, <1>6 DEF BookInv, SalesTraced, OneSellEach

\* The books know every fill of a traced order, in every setting.
THEOREM BookInvHolds == Spec => []BookInv
<1>1. QED
  BY InitBookInv, StepBookInv, WatchInvHolds, PTL DEF Spec

\* No execution of an entry is ever lost (check_resting, _resolve, _fill),
\* however commands overlap cycles and wherever the process dies, torn
\* transactions included: a closed entry is booked in full, so that its
\* position is in the ledger and under a stop-loss.
THEOREM NoBuyLost ==
  Spec => [](\A o \in Buys : row[o].status \in Resolved => booked[o] >= FilledFor(exch[o], row[o].qty))
<1>1. BookInv => \A o \in Buys : row[o].status \in Resolved => booked[o] >= FilledFor(exch[o], row[o].qty)
  BY DEF BookInv, BooksKnown, Traced, SalesTraced, Orders
<1>2. QED
  BY <1>1, BookInvHolds, PTL

\* No execution of any order is lost, commands that overlap cycles, and torn
\* crashes, included; only where both meet a pair that is sold twice can what
\* the ledger holds fall short of what a sell has to book (_fill cuts it down).
THEOREM NoFillIsLost ==
  ASSUME ~Overlap \/ ~TornCrash \/ OneSellEach
  PROVE  Spec => []NoFillLost
<1>1. BookInv => NoFillLost
  BY DEF BookInv, BooksKnown, Traced, SalesTraced, NoFillLost, Orders
<1>2. QED
  BY <1>1, BookInvHolds, PTL

-----------------------------------------------------------------------------
\* What the abstract books see of a step that books nothing: nothing.
Unseen ==
  /\ \A o \in Orders : exch'[o].done = exch[o].done
  /\ \A o \in Orders : row'[o].status \in Resolved <=> row[o].status \in Resolved
  /\ booked' = booked

\* A step that books nothing is a stuttering step of the abstract book.
LEMMA UnseenStutters ==
  ASSUME Unseen
  PROVE  UNCHANGED Booking!vars
<1>1. [o \in Orders |-> exch[o].done]' = [o \in Orders |-> exch[o].done]
  BY DEF Unseen
<1>2. {o \in Orders : row[o].status \in Resolved}' = {o \in Orders : row[o].status \in Resolved}
  BY DEF Unseen
<1>3. QED
  BY <1>1, <1>2 DEF Unseen, Booking!vars

\* The exchange executing more of an open order is Execute.
LEMMA ExecuteStep ==
  ASSUME TypeOK, ClosedRowIsClosed, Exact, NEW o \in Orders, exch[o].st \in {"none", "open"},
         NEW n \in exch[o].done..row[o].qty, NEW st, exch' = [exch EXCEPT ![o] = [st |-> st, done |-> n]],
         UNCHANGED <<row, booked>>
  PROVE  Booking!Execute(o)
<1> DEFINE executed == [x \in Orders |-> exch[x].done]
           settled == {x \in Orders : row[x].status \in Resolved}
<1>1. o \notin settled
  BY DEF ClosedRowIsClosed, Resolved
<1>2. n \in executed[o]..Qty[o]
  <2>1. row[o].qty <= Qty[o] /\ row[o].qty \in Nat /\ Qty[o] \in Nat /\ exch[o].done \in Nat
    BY QtyAssumption DEF Exact, TypeOK, RowType, ExchType
  <2>2. QED
    BY <2>1
<1>3. executed' = [executed EXCEPT ![o] = n]
  BY DEF TypeOK
<1>4. settled' = settled /\ booked' = booked
  OBVIOUS
<1>5. QED
  BY <1>1, <1>2, <1>3, <1>4 DEF Booking!Execute

\* Booking a fill is Book: the order is not settled, and no more is booked
\* than was executed.
LEMMA BookStep ==
  ASSUME ~Overlap, WatchInv, BookInv, Exact, NEW t \in Tasks, BookFill(t)
  PROVE  Booking!Book(cur[t])
<1> DEFINE o == cur[t]
           q == FillQty(t)
           executed == [x \in Orders |-> exch[x].done]
           settled == {x \in Orders : row[x].status \in Resolved}
<1>1. HasFillToBook(t) /\ Bookable(t) /\ TypeOK
  BY DEF BookFill, WatchInv
<1>2. o \in Orders /\ row[o].status \in Open
  BY <1>1 DEF WatchInv, Watch, WorksOnRows, BookInv, Solo, HasFillToBook, Working
<1>3. booked[o] + q = Noted(t) /\ Noted(t) <= exch[o].done /\ Noted(t) \in Nat
  BY <1>1, BookingExact DEF BookInv
<1>4. q \in Int /\ q > 0
  BY <1>1, <1>2, CumulativeNat, OrdersAssumption DEF Bookable, FillQty, Least, TypeOK
<1>5. booked' = [booked EXCEPT ![o] = @ + q] /\ UNCHANGED <<exch, row>>
  BY DEF BookFill, external
<1>6. o \notin settled
  BY <1>2 DEF Open, Resolved
<1> HIDE DEF q
<1>7. Noted(t) \in booked[o]..executed[o] /\ booked' = [booked EXCEPT ![o] = Noted(t)]
  <2>1. booked[o] \in Nat /\ exch[o].done \in Nat /\ executed[o] = exch[o].done
    BY <1>1, <1>2 DEF TypeOK, ExchType
  <2>2. booked' = [booked EXCEPT ![o] = booked[o] + q]
    BY <1>5
  <2>3. Noted(t) \in booked[o]..executed[o]
    BY <1>3, <1>4, <2>1
  <2>4. booked[o] + q = Noted(t)
    BY <1>3
  <2> HIDE DEF o, executed
  <2>5. booked' = [booked EXCEPT ![o] = Noted(t)]
    BY <2>2, <2>4
  <2>6. QED
    BY <2>3, <2>5
<1>8. executed' = executed /\ settled' = settled
  BY <1>5
<1>9. o \notin settled /\ UNCHANGED <<executed, settled>> /\ \E n \in booked[o]..executed[o] : booked' = [booked EXCEPT ![o] = n]
  BY <1>6, <1>7, <1>8
<1>10. QED
  BY <1>9 DEF Booking!Book

\* filled_for leaves less than a step of what was executed uncredited.
LEMMA FilledForSlack ==
  ASSUME NEW s \in ExchType, NEW q \in Nat, s.done <= q, s.st = "filled" => s.done = q
  PROVE  s.done <= FilledFor(s, q) + (Step - 1)
<1>1. s.done \in Nat /\ Step \in Nat \ {0}
  BY QtyAssumption DEF ExchType
<1>2. RoundDown(s.done) \in Nat /\ RoundDown(s.done) <= s.done
  BY <1>1, RoundDownNat
<1>3. s.done % Step \in 0..(Step - 1)
  BY <1>1
<1>4. s.done <= RoundDown(s.done) + (Step - 1)
  BY <1>1, <1>3 DEF RoundDown
<1>5. QED
  BY <1>1, <1>2, <1>4 DEF FilledFor, Least

\* Closing a row is Settle: at most the dust of a step is left unbooked.
LEMMA SettleStep ==
  ASSUME ~Overlap, WatchInv, BookInv, Exact, NEW t \in Tasks, UpdateRow(t),
         NEW o \in Orders, o = cur[t]
  PROVE  Booking!Settle(o) \/ Unseen
<1> DEFINE c == Cumulative(t)
           st == StatusFor(reply[t].st, c)
           executed == [x \in Orders |-> exch[x].done]
           settled == {x \in Orders : row[x].status \in Resolved}
<1>1. TypeOK /\ pc[t] = "row"
  BY DEF UpdateRow, WatchInv
<1>2. o \in Orders /\ row[o].status \in Open
  BY <1>1 DEF WatchInv, Watch, WorksOnRows, BookInv, Solo, Working
<1>3. /\ \A x \in Orders : row'[x].status = IF x = o THEN st ELSE row[x].status
      /\ UNCHANGED <<exch, booked>>
  BY <1>1, <1>2 DEF UpdateRow, TypeOK, RowType, external
<1>4. CASE st \notin Resolved
  BY <1>2, <1>3, <1>4 DEF Unseen, Open, Resolved
<1>5. CASE st \in Resolved
  <2>1. reply[t].st \in {"filled", "cancelled"}
    BY <1>5 DEF StatusFor, Resolved
  <2>2. exch[o] = reply[t] /\ seen[t].qty = row[o].qty
    BY <1>1, <2>1 DEF BookInv, AnswersKnown, Answered
  <2>3. c <= booked[o] /\ c = FilledFor(exch[o], row[o].qty)
    BY <1>1, <2>1, <2>2 DEF BookInv, BooksKnown, Reported, Traced, SalesTraced, Cumulative
  <2>4. exch[o] \in ExchType /\ exch[o].done \in Nat /\ row[o].qty \in Nat /\ booked[o] \in Nat /\ Step \in Nat \ {0} /\ c \in Nat
    BY <1>1, <1>2, QtyAssumption, CumulativeNat DEF TypeOK, RowType, ExchType
  <2>5. exch[o].done <= c + (Step - 1)
    BY <1>1, <1>2, <2>3, <2>4, FilledForSlack DEF Exact, BookInv, AnswersKnown
  <2>6. executed[o] - booked[o] <= Step - 1
    BY <1>2, <2>3, <2>4, <2>5
  <2>7. settled' = settled \cup {o}
    BY <1>2, <1>3, <1>5
  <2>8. executed' = executed /\ booked' = booked
    BY <1>3
  <2>9. QED
    BY <2>6, <2>7, <2>8 DEF Booking!Settle
<1>6. QED
  BY <1>4, <1>5

\* A step of the executor as the abstract books see it.
Abstracted ==
  Unseen \/ \E x \in Orders : Booking!Execute(x) \/ Booking!Book(x) \/ Booking!Settle(x)

\* Every step of the executor is one of the abstract books, or unseen by them.
LEMMA RefineStep ==
  ASSUME ~Overlap, WatchInv, BookInv, Exact, [Next]_vars
  PROVE  Abstracted
<1> USE OrdersAssumption
    DEF WatchInv, Watch, TypeOK, WorksOnRows, BookInv, Solo, Abstracted, Unseen, Working, Resolved, Open, Tasks,
        Returns, Goto, Orders, RowType, ExchType,
        external, tables, ledger, ages, control
<1>1. ASSUME NEW o \in Orders, Arrive(o) PROVE Abstracted
  <2>1. Booking!Execute(o)
    <3>1. PICK n \in 0..row[o].qty :
            exch' = [exch EXCEPT ![o] = [st |-> IF n = row[o].qty THEN "filled" ELSE "open", done |-> n]]
      BY <1>1 DEF Arrive
    <3>2. exch[o].st = "none" /\ exch[o].done = 0 /\ UNCHANGED <<row, booked>>
      BY <1>1 DEF Arrive, SubmittedOnce, AnswersKnown
    <3>3. QED
      BY <3>1, <3>2, ExecuteStep
  <2>2. QED
    BY <2>1
<1>2. ASSUME NEW o \in Orders, Drop(o) \/ Expire(o) \/ BecomeOverdue(o) PROVE Abstracted
  BY <1>2, SMTT(60) DEF Drop, Expire, BecomeOverdue
<1>3. ASSUME NEW o \in Orders, Match(o) PROVE Abstracted
  <2>1. Booking!Execute(o)
    <3>1. PICK n \in (exch[o].done + 1)..row[o].qty :
            exch' = [exch EXCEPT ![o] = [st |-> IF n = row[o].qty THEN "filled" ELSE "open", done |-> n]]
      BY <1>3 DEF Match
    <3>2. exch[o].st = "open" /\ UNCHANGED <<row, booked>> /\ exch[o].done \in Nat /\ row[o].qty \in Nat
      BY <1>3 DEF Match
    <3>3. n \in exch[o].done..row[o].qty
      BY <3>2
    <3>4. QED
      BY <3>1, <3>2, <3>3, ExecuteStep
  <2>2. QED
    BY <2>1
<1>4. ASSUME NEW o \in Orders, CancelledElsewhere(o) PROVE Abstracted
  BY <1>4, SMTT(60) DEF CancelledElsewhere
<1>5. ASSUME NEW t \in Tasks, LookupAnswered(t) PROVE Abstracted
  BY <1>5, SMTT(60) DEF LookupAnswered
<1>6. ASSUME NEW t \in Tasks, LookupFails(t) PROVE Abstracted
  BY <1>6, SMTT(60) DEF LookupFails, Return, NoRow, NoReply
<1>7. ASSUME NEW t \in Tasks, NotFound(t) PROVE Abstracted
  BY <1>7, SMTT(60) DEF NotFound, Return, NoRow, NoReply, GivenUp
<1>8. ASSUME NEW t \in Tasks, BookFill(t) PROVE Abstracted
  <2>1. Booking!Book(cur[t]) /\ cur[t] \in Orders
    BY <1>8, BookStep DEF BookFill, HasFillToBook
  <2>2. QED
    BY <2>1
<1>9. ASSUME NEW t \in Tasks, NothingToBook(t) PROVE Abstracted
  BY <1>9, SMTT(60) DEF NothingToBook, HasFillToBook
<1>10. ASSUME NEW t \in Tasks, RecordStoploss(t) \/ SaveStops(t) PROVE Abstracted
  BY <1>10, SMTT(60) DEF RecordStoploss, SaveStops
<1>11. ASSUME NEW t \in Tasks, UpdateRow(t) PROVE Abstracted
  <2>1. PICK o \in Orders : o = cur[t]
    BY <1>11 DEF UpdateRow
  <2>2. Booking!Settle(o) \/ Unseen
    BY <1>11, <2>1, SettleStep
  <2> HIDE DEF Unseen, Orders
  <2>3. QED
    BY <2>1, <2>2
<1>12. ASSUME NEW t \in Tasks, CancelAnswered(t) PROVE Abstracted
  BY <1>12, SMTT(60) DEF CancelAnswered, Resolve
<1>13. ASSUME NEW t \in Tasks, CancelFails(t) PROVE Abstracted
  BY <1>13, SMTT(60) DEF CancelFails
<1>14. ASSUME NEW o \in Orders, ExecuteBuy(o) PROVE Abstracted
  BY <1>14, SMTT(60) DEF ExecuteBuy, Submit
<1>15. ASSUME NEW o \in Orders, ExecuteSell(o) PROVE Abstracted
  BY <1>15, SMTT(60) DEF ExecuteSell
<1>16. CASE SubmitSell
  BY <1>16, SMTT(60) DEF SubmitSell, Submit
<1>17. CASE ReplaceNext \/ GiveUpSell \/ SubmitRefused \/ TtlCancel \/ SyncDone \/ CycleStart
  BY <1>17, SMTT(60) DEF ReplaceNext, GiveUpSell, SubmitRefused, TtlCancel, SyncDone, CycleStart
<1>18. CASE SubmitAcked
  BY <1>18, SMTT(60) DEF SubmitAcked, Resolve
<1>19. CASE UpdateAckedRow
  BY <1>19, SMTT(60) DEF UpdateAckedRow, Resolve, NoReply
<1>20. CASE SubmitUnknown \/ SyncNext
  BY <1>20, SMTT(60) DEF SubmitUnknown, SyncNext, Resolve
<1>21. CASE CycleEnd \/ Command
  BY <1>21, SMTT(60) DEF CycleEnd, Finish, Command, CommandStart, CancelAllNext, CommandEnd
<1>22. CASE Crash \/ UNCHANGED vars
  BY <1>22, SMTT(60) DEF Crash, vars, NoRow, NoReply
<1>23. QED
  <2> HIDE OrdersAssumption
    DEF WatchInv, Watch, TypeOK, WorksOnRows, BookInv, Solo, Abstracted, Unseen, Working, Resolved, Open, Tasks,
        Returns, Goto, Orders, RowType, ExchType,
        external, tables, ledger, ages, control
  <2>1. QED
    BY <1>1, <1>2, <1>3, <1>4, <1>5, <1>6, <1>7, <1>8, <1>9, <1>10, <1>11, <1>12, <1>13, <1>14, <1>15,
       <1>16, <1>17, <1>18, <1>19, <1>20, <1>21, <1>22
       DEF Next, Environment, Aging, Resolving, Executing, Cycle

\* The books are exact at the start.
LEMMA InitExact == Init => Exact
  BY QtyAssumption DEF Init, Exact, NeverDoubleCounted, NoRow, Reported

\* Exact is inductive, given WatchInv and BookInv.
LEMMA StepExact ==
  ASSUME ~Overlap, ~TornCrash
  PROVE  WatchInv /\ BookInv /\ Exact /\ [Next]_vars => Exact'
  BY ExactStep

\* The books are exact as long as one task runs at a time and fills are whole.
THEOREM ExactHolds ==
  ASSUME ~Overlap, ~TornCrash
  PROVE  Spec => []Exact
<1>1. QED
  BY InitExact, StepExact, WatchInvHolds, BookInvHolds, PTL DEF Spec

\* "re-reading an order can never double count" (executor.py:11), on the same
\* terms.
THEOREM NothingIsDoubleCounted ==
  ASSUME ~Overlap, ~TornCrash
  PROVE  Spec => []NeverDoubleCounted
<1>1. Exact => NeverDoubleCounted
  BY DEF Exact
<1>2. QED
  BY <1>1, ExactHolds, PTL

\* The executor implements the abstract books of OrderBooking: each order's
\* executions are booked once, never ahead of the exchange, and a row is closed
\* only when at most the dust of a step is left.
THEOREM ExecutorBooksExactlyOnce ==
  ASSUME ~Overlap, ~TornCrash
  PROVE  Spec => BooksExactlyOnce
<1>1. Init => Booking!Init
  BY DEF Init, Booking!Init, NoRow, Resolved
<1>2. WatchInv /\ BookInv /\ Exact /\ [Next]_vars => [Booking!Next]_(Booking!vars)
  <2> SUFFICES ASSUME WatchInv, BookInv, Exact, [Next]_vars
               PROVE  [Booking!Next]_(Booking!vars)
    OBVIOUS
  <2>1. CASE Unseen
    BY <2>1, UnseenStutters
  <2>2. CASE \E x \in Orders : Booking!Execute(x) \/ Booking!Book(x) \/ Booking!Settle(x)
    BY <2>2 DEF Booking!Next
  <2>3. QED
    BY <2>1, <2>2, RefineStep DEF Abstracted
<1>3. QED
  BY <1>1, <1>2, WatchInvHolds, BookInvHolds, ExactHolds, PTL DEF Spec, BooksExactlyOnce, Booking!Spec

-----------------------------------------------------------------------------
\* The two sides of a pair's fills, and the ledger as their difference.
Entries(p) == {o \in Buys : PairOf[o] = p}
Exits(p) == {o \in Sells : PairOf[o] = p}
LedgerIsTable ==
  \A p \in Pairs : held[p] + SumOver(booked, Exits(p)) = SumOver(booked, Entries(p))

\* Both sides are finite sets of orders.
LEMMA SidesFinite ==
  ASSUME NEW p
  PROVE  /\ IsFiniteSet(Entries(p)) /\ Entries(p) \subseteq Orders
         /\ IsFiniteSet(Exits(p)) /\ Exits(p) \subseteq Orders
<1>1. Entries(p) \subseteq Orders /\ Exits(p) \subseteq Orders
  BY DEF Entries, Exits, Orders
<1>2. QED
  BY <1>1, OrdersAssumption, FS_Subset

\* An empty ledger agrees with an empty table.
LEMMA InitLedger == Init => LedgerIsTable
<1> SUFFICES ASSUME Init, NEW p \in Pairs
             PROVE  held[p] + SumOver(booked, Exits(p)) = SumOver(booked, Entries(p))
  BY DEF LedgerIsTable
<1>1. \A o \in Orders : booked[o] = 0
  BY DEF Init
<1>2. SumOver(booked, Exits(p)) = 0 /\ SumOver(booked, Entries(p)) = 0
  BY <1>1, SidesFinite, SumZero
<1>3. held[p] = 0
  BY DEF Init
<1>4. QED
  BY <1>2, <1>3

\* Only BookFill touches the ledger or the table, and it touches both alike.
LEMMA LedgerStep ==
  ASSUME WatchInv, LedgerIsTable, [Next]_vars
  PROVE  LedgerIsTable'
<1>1. CASE UNCHANGED <<held, booked>>
  <2>1. \A p \in Pairs : held'[p] + SumOver(booked', Exits(p)) = SumOver(booked', Entries(p))
    BY <1>1 DEF LedgerIsTable
  <2>2. QED
    BY <2>1 DEF LedgerIsTable, Exits, Entries
<1>2. ASSUME NEW t \in Tasks, BookFill(t)
      PROVE  LedgerIsTable'
  <2> DEFINE o == cur[t]
             p == PairOf[o]
             q == FillQty(t)
  <2>1. TypeOK /\ o \in Orders /\ p \in Pairs
    BY <1>2, OrdersAssumption DEF WatchInv, Watch, WorksOnRows, Working, BookFill, HasFillToBook
  <2>2. q \in Int
    BY <2>1, CumulativeNat, OrdersAssumption DEF FillQty, Least, TypeOK
  <2>3. /\ booked' = [booked EXCEPT ![o] = @ + q]
        /\ held' = [held EXCEPT ![p] = IF o \in Buys THEN @ + q ELSE @ - q]
    BY <1>2 DEF BookFill
  <2>4. booked \in [Orders -> Nat] /\ held \in [Pairs -> Nat] /\ \A x \in Orders : booked[x] \in Int /\ booked'[x] \in Int
    BY <2>1, <2>2, <2>3 DEF TypeOK
  <2> HIDE DEF o, p, q
  <2>5. ASSUME NEW r \in Pairs
        PROVE  held'[r] + SumOver(booked', Exits(r)) = SumOver(booked', Entries(r))
    <3>1. held[r] + SumOver(booked, Exits(r)) = SumOver(booked, Entries(r))
      BY DEF LedgerIsTable
    <3>2. /\ SumOver(booked, Exits(r)) \in Int /\ SumOver(booked, Entries(r)) \in Int
          /\ held[r] \in Int
      BY <2>4, SidesFinite, SumInt
    <3>3. \A S \in {Exits(r), Entries(r)} : o \notin S => SumOver(booked', S) = SumOver(booked, S)
      <4>1. ASSUME NEW S \in {Exits(r), Entries(r)}, o \notin S
            PROVE  SumOver(booked', S) = SumOver(booked, S)
        <5>1. IsFiniteSet(S) /\ S \subseteq Orders
          BY SidesFinite
        <5>2. \A x \in S : booked'[x] = booked[x]
          BY <2>3, <2>4, <4>1, <5>1
        <5>3. QED
          BY <5>1, <5>2, SumSame
      <4>2. QED
        BY <4>1
    <3>4. \A S \in {Exits(r), Entries(r)} : o \in S => SumOver(booked', S) = SumOver(booked, S) + q
      <4>1. ASSUME NEW S \in {Exits(r), Entries(r)}, o \in S
            PROVE  SumOver(booked', S) = SumOver(booked, S) + q
        <5>1. IsFiniteSet(S) /\ S \subseteq Orders
          BY SidesFinite
        <5>2. \A x \in S : x # o => booked[x] = booked'[x]
          BY <2>3, <2>4, <5>1
        <5>3. SumOver(booked', S) = SumOver(booked, S) + booked'[o] - booked[o]
          <6>1. \A x \in S : booked[x] \in Int /\ booked'[x] \in Int
            BY <2>4, <5>1
          <6>2. \A v, w : (\A x \in S : v[x] \in Int /\ w[x] \in Int) /\ (\A x \in S : x # o => v[x] = w[x])
                          => SumOver(w, S) = SumOver(v, S) + w[o] - v[o]
            BY <4>1, <5>1, SumChange
          <6>3. QED
            BY <5>2, <6>1, <6>2
        <5>4. booked'[o] = booked[o] + q
          BY <2>1, <2>3, <2>4
        <5>5. SumOver(booked, S) \in Int /\ booked[o] \in Int
          BY <2>1, <2>4, <5>1, SumInt
        <5>6. QED
          BY <2>2, <5>3, <5>4, <5>5
      <4>2. QED
        BY <4>1
    <3>5. held'[r] = IF r # p THEN held[r] ELSE IF o \in Buys THEN held[r] + q ELSE held[r] - q
      BY <2>1, <2>3, <2>4
    <3>6. /\ o \in Entries(r) <=> r = p /\ o \in Buys
          /\ o \in Exits(r) <=> r = p /\ o \notin Buys
      BY <2>1, OrdersAssumption DEF Entries, Exits, p, Orders
    <3>7. QED
      BY <2>2, <3>1, <3>2, <3>3, <3>4, <3>5, <3>6
  <2>6. QED
    BY <2>5 DEF LedgerIsTable, Exits, Entries
<1>3. [Next]_vars => UNCHANGED <<held, booked>> \/ \E t \in Tasks : BookFill(t)
  BY DEF Next, Environment, Arrive, Drop, Match, CancelledElsewhere, Aging, Expire, BecomeOverdue,
     Resolving, LookupAnswered, LookupFails, NotFound, NothingToBook, RecordStoploss, SaveStops, UpdateRow,
     CancelAnswered, CancelFails, Cycle, CycleStart, SyncNext, TtlCancel, SyncDone, CycleEnd,
     Executing, ExecuteBuy, ExecuteSell, ReplaceNext, SubmitSell, GiveUpSell, SubmitAcked, UpdateAckedRow,
     SubmitRefused, SubmitUnknown, Command, CommandStart, CancelAllNext, CommandEnd, Crash,
     vars, tables, ledger, external
<1>4. QED
  BY <1>1, <1>2, <1>3

\* The coin the ledger holds of a pair is what the fills table says was bought
\* less what it says was sold, in every setting: a rebuild from the table
\* (rebuild_portfolio) finds what the ledger held, as Crash assumes.
THEOREM LedgerAndTableAgree == Spec => []LedgerIsTable
<1>1. QED
  BY InitLedger, LedgerStep, WatchInvHolds, PTL DEF Spec

\* Executed, as a sum over a function.
LEMMA ExecutedIsSum ==
  ASSUME NEW S \in SUBSET Orders
  PROVE  Executed(S) = SumOver([o \in Orders |-> exch[o].done], S)
<1> DEFINE w == [o \in Orders |-> exch[o].done]
<1>1. \A T \in SUBSET S : T # {} => w[Chosen(T)] = exch[Chosen(T)].done
  BY ChosenIn
<1> DEFINE ByDone(g) == g = [T \in SUBSET S |-> IF T = {} THEN 0 ELSE exch[Chosen(T)].done + g[T \ {Chosen(T)}]]
<1>2. ASSUME NEW g
      PROVE  Sums(g, w, S) <=> ByDone(g)
  BY <1>1 DEF Sums
<1> HIDE DEF w
<1>3. (CHOOSE g : Sums(g, w, S)) = (CHOOSE g : ByDone(g))
  BY <1>2
<1>4. SumOver(w, S) = (CHOOSE g : Sums(g, w, S))[S]
  BY DEF SumOver, MapThenSumSet, MapThenFoldSet, Sums, Chosen
<1>5. Executed(S) = (CHOOSE g : ByDone(g))[S]
  BY DEF Executed, MapThenSumSet, MapThenFoldSet, Chosen
<1>6. QED
  BY <1>3, <1>4, <1>5 DEF w

\* A sell that traded: what the exchange executed of it is booked up to the
\* dust of a step, except of the one sell of the pair that may be open, of
\* which all that is left is still held.
LEMMA SoldIsBooked ==
  ASSUME ~Overlap, WatchInv, BookInv, Exact, NEW o \in Sells, exch[o].done > 0
  PROVE  IF row[o].status \in Open THEN exch[o].done <= held[PairOf[o]] + booked[o]
         ELSE exch[o].done <= booked[o] + (Step - 1)
<1>1. TypeOK /\ o \in Orders /\ PairOf[o] \in Pairs
  BY OrdersAssumption DEF WatchInv, Orders
<1>2. /\ exch[o] \in ExchType /\ exch[o].done \in Nat /\ row[o].qty \in Nat /\ booked[o] \in Nat /\ held[PairOf[o]] \in Nat
      /\ Step \in Nat \ {0} /\ row[o].status \in RowStatus
  BY <1>1, QtyAssumption DEF TypeOK, RowType, ExchType
<1>3. exch[o].done <= row[o].qty
  BY <1>1 DEF BookInv, AnswersKnown
<1>4. CASE row[o].status \in Open
  <2>1. held[PairOf[o]] + booked[o] >= row[o].qty
    BY <1>4 DEF BookInv, SalesTraced, Covered, InHand
  <2>2. QED
    BY <1>2, <1>3, <1>4, <2>1
<1>5. CASE row[o].status \in Resolved
  <2>1. booked[o] >= FilledFor(exch[o], row[o].qty)
    BY <1>1, <1>5 DEF BookInv, BooksKnown, Traced, SalesTraced
  <2>2. FilledFor(exch[o], row[o].qty) \in Nat
    BY <1>2, FilledForNat
  <2>3. exch[o].done <= FilledFor(exch[o], row[o].qty) + (Step - 1)
    BY <1>1, <1>2, <1>3, FilledForSlack DEF Exact
  <2>4. row[o].status \notin Open
    BY <1>5 DEF Resolved, Open
  <2>5. QED
    BY <1>2, <2>1, <2>2, <2>3, <2>4
<1>6. row[o].status \in Open \cup Resolved
  <2>1. exch[o].st # "none"
    BY <1>1 DEF BookInv, AnswersKnown
  <2>2. row[o].status # "NONE" /\ row[o].status # "REJECTED"
    BY <1>1, <2>1 DEF WatchInv, Watch, SubmittedOnce, RejectedNeverLive
  <2>3. QED
    BY <1>2, <2>2 DEF RowStatus
<1>7. QED
  BY <1>4, <1>5, <1>6

\* The executions of the pair's sells come out of those of its buys.
LEMMA SoldWasBought ==
  ASSUME ~Overlap, WatchInv, BookInv, Exact, LedgerIsTable
  PROVE  SellsOnlyItsOwn
<1> SUFFICES ASSUME NEW p \in Pairs
             PROVE  LET sold == {o \in Sells : PairOf[o] = p /\ exch[o].done > 0}
                    IN Executed(sold) <= Executed(Entries(p)) + (Step - 1) * Cardinality(sold)
  BY DEF SellsOnlyItsOwn, Entries
<1> DEFINE sold == {o \in Sells : PairOf[o] = p /\ exch[o].done > 0}
           open == {o \in sold : row[o].status \in Open}
           done == [o \in Orders |-> exch[o].done]
           k == Step - 1
<1>1. TypeOK /\ Step \in Nat \ {0}
  BY QtyAssumption DEF WatchInv
<1>2. /\ sold \subseteq Exits(p) /\ sold \subseteq Orders
      /\ IsFiniteSet(sold) /\ IsFiniteSet(Exits(p)) /\ IsFiniteSet(Entries(p)) /\ Exits(p) \subseteq Orders /\ Entries(p) \subseteq Orders
  <2>1. sold \subseteq Exits(p)
    BY DEF Exits
  <2>2. QED
    BY <2>1, SidesFinite, FS_Subset
<1>3. \A o \in Orders : done[o] \in Int /\ done[o] \in Nat /\ booked[o] \in Nat /\ booked[o] \in Int /\ booked[o] <= done[o]
  BY <1>1 DEF TypeOK, ExchType, Exact, NeverDoubleCounted
<1>4. /\ Executed(sold) = SumOver(done, sold)
      /\ Executed(Entries(p)) = SumOver(done, Entries(p))
  BY <1>2, ExecutedIsSum
<1>5. /\ SumOver(booked, Entries(p)) <= SumOver(done, Entries(p))
      /\ SumOver(booked, Entries(p)) \in Int /\ SumOver(done, Entries(p)) \in Int
  BY <1>2, <1>3, SumMonotone, SumInt
<1>6. /\ SumOver(booked, sold) <= SumOver(booked, Exits(p))
      /\ SumOver(booked, Exits(p)) \in Int /\ SumOver(booked, sold) \in Int
  BY <1>2, <1>3, SumSubset, SumInt
<1>7. held[p] + SumOver(booked, Exits(p)) = SumOver(booked, Entries(p)) /\ held[p] \in Nat
  BY <1>1 DEF LedgerIsTable, TypeOK
<1>8. \A o \in sold : IF o \in open THEN done[o] <= held[p] + booked[o] ELSE done[o] <= booked[o] + k
  BY <1>2, SoldIsBooked
<1>9. k \in Int /\ k >= 0 /\ Cardinality(sold) \in Nat
  BY <1>1, <1>2, FS_CardinalityType
<1>10. \A x, y \in open : x = y
  BY DEF BookInv, OneInHand, InHand
<1>11. SumOver(done, sold) \in Int /\ SumOver(done, sold) <= held[p] + SumOver(booked, sold) + k * Cardinality(sold)
  <2> HIDE DEF sold, done, k
  <2>1. SumOver(done, sold) \in Int
    BY <1>2, <1>3, SumInt
  <2>2. CASE open = {}
    <3>1. \A o \in sold : done[o] \in Int /\ booked[o] \in Int /\ done[o] <= booked[o] + k
      BY <1>2, <1>3, <1>8, <2>2
    <3>2. SumOver(done, sold) <= SumOver(booked, sold) + k * Cardinality(sold)
      BY <1>2, <1>9, <3>1, SumSlack
    <3>3. k * Cardinality(sold) \in Int
      BY <1>9
    <3>4. QED
      BY <1>6, <1>7, <2>1, <3>2, <3>3
  <2>3. CASE open # {}
    <3>1. PICK u \in open : TRUE
      BY <2>3
    <3> DEFINE rest == sold \ {u}
    <3>2. u \in sold /\ IsFiniteSet(rest) /\ rest \subseteq Orders /\ \A o \in rest : o \notin open
      BY <1>2, <1>10, <3>1, FS_Subset
    <3>3. \A o \in rest : done[o] \in Int /\ booked[o] \in Int /\ done[o] <= booked[o] + k
      BY <1>2, <1>3, <1>8, <3>2
    <3> HIDE DEF open
    <3>4. SumOver(done, rest) <= SumOver(booked, rest) + k * Cardinality(rest)
      BY <1>9, <3>2, <3>3, SumSlack
    <3>5. /\ SumOver(done, sold) = done[u] + SumOver(done, rest)
          /\ SumOver(booked, sold) = booked[u] + SumOver(booked, rest)
      BY <1>2, <1>3, <3>2, SumRemove
    <3>6. SumOver(done, rest) \in Int /\ SumOver(booked, rest) \in Int
      BY <3>2, <3>3, SumInt
    <3>7. done[u] <= held[p] + booked[u] /\ done[u] \in Int /\ booked[u] \in Int
      BY <1>2, <1>3, <1>8, <3>1, <3>2
    <3>8. k * Cardinality(rest) <= k * Cardinality(sold) /\ k * Cardinality(rest) \in Int /\ k * Cardinality(sold) \in Int
      <4>1. Cardinality(rest) \in Nat /\ Cardinality(sold) = Cardinality(rest) + 1
        <5>1. Cardinality(rest) = Cardinality(sold) - 1
          BY <1>2, <3>2, FS_RemoveElement
        <5>2. Cardinality(rest) \in Nat
          BY <3>2, FS_CardinalityType
        <5>3. QED
          BY <1>9, <5>1, <5>2
      <4>2. \A c \in Nat : k * (c + 1) = k * c + k
        BY <1>9
      <4>3. QED
        BY <1>9, <4>1, <4>2
    <3> HIDE DEF rest
    <3>9. QED
      BY <1>7, <2>1, <3>4, <3>5, <3>6, <3>7, <3>8
  <2>4. QED
    BY <2>2, <2>3
<1>12. SumOver(done, sold) <= SumOver(done, Entries(p)) + k * Cardinality(sold)
  <2> HIDE DEF sold, done, k
  <2>1. k * Cardinality(sold) \in Int
    BY <1>9
  <2>2. QED
    BY <1>5, <1>6, <1>7, <1>11, <2>1
<1>13. QED
  BY <1>4, <1>12

\* The agent sells only coin it bought, up to the dust of each sell (execute,
\* _fill): whatever else lies in the account is the owner's.
THEOREM AgentSellsOnlyItsOwn ==
  ASSUME ~Overlap, ~TornCrash
  PROVE  Spec => []SellsOnlyItsOwn
<1>1. WatchInv /\ BookInv /\ Exact /\ LedgerIsTable => SellsOnlyItsOwn
  BY SoldWasBought
<1>2. QED
  BY <1>1, WatchInvHolds, BookInvHolds, ExactHolds, LedgerAndTableAgree, PTL
=============================================================================
