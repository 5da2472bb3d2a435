---------------------------- MODULE LiveExecutor ----------------------------
(***************************************************************************)
(* The live order executor (agent/execution/executor.py) with the exchange *)
(* behind it, the SQLite rows it writes and the ledger it keeps in memory. *)
(*                                                                         *)
(* Two asyncio tasks call it: the trading cycle (check_resting, then one   *)
(* execute per approved decision) and a command (/kill, or the shutdown of *)
(* agent/main.py), which calls cancel_all.  They interleave at every await *)
(* and nowhere else; the code between two awaits is a chain of steps that  *)
(* no other task interrupts but that a crash of the process may cut, one   *)
(* step per database transaction.                                          *)
(*                                                                         *)
(* Quantities are counted in indivisible units of the coin, Step of which  *)
(* make the pair's qty_step.  Prices, fees and pairs' metadata are left    *)
(* out.                                                                    *)
(*                                                                         *)
(* A definition marked "mutant of" is a bug that the runs must catch, put  *)
(* in the place of the definition it names; nothing else uses it.          *)
(***************************************************************************)
EXTENDS Integers, FiniteSets, FiniteSetsExt

CONSTANTS
  Buys, Sells,   \* decisions (one order each) by side
  StopExits,     \* the sells whose decision carries setup = "stop_loss"
  MakerExits,    \* the sells whose setup is pm_trim_maker or pm_exit_maker
  Pairs, PairOf, \* traded pairs, and the pair of each decision
  Qty,           \* approved quantity of each decision
  Step,          \* units per qty_step
  Overlap,       \* may a command run while a cycle is in progress?
  TornCrash,     \* may the process die between the transactions of one fill?
  MaxCrashes     \* bound on the number of crashes

Orders == Buys \cup Sells
Tasks == {"cycle", "command"}

ASSUME OrdersAssumption ==
  /\ IsFiniteSet(Orders)
  /\ Buys \cap Sells = {}
  /\ StopExits \subseteq Sells
  /\ MakerExits \subseteq Sells
  /\ PairOf \in [Orders -> Pairs]

ASSUME QtyAssumption ==
  /\ Step \in Nat \ {0}
  /\ Qty \in [Orders -> Nat \ {0}]
  /\ \A o \in Orders : Qty[o] % Step = 0

ASSUME FaultAssumption ==
  /\ Overlap \in BOOLEAN
  /\ TornCrash \in BOOLEAN
  /\ MaxCrashes \in Nat

VARIABLES
  exch,       \* the exchange: status and executed quantity of each order
  wire,       \* submissions that were sent and may still arrive
  row,        \* table orders: status, filled_qty and qty of each row
  trades,     \* table fills: the cumulative quantities in the trade_ids of an order
  booked,     \* table fills: total quantity of an order's rows
  saved,      \* state "<mode>:stops": the pairs with a stored stop-loss
  stoplosses, \* table stoploss_events: the pairs with an event
  held,       \* the ledger in memory: coin held per pair
  stop,       \* the ledger in memory: the positions that have a stop-loss
  expired,    \* orders older than entry_ttl_s
  overdue,    \* orders older than pending_grace_s
  pc,         \* where each task is
  cur,        \* the order a task is working on
  todo,       \* what is left of the snapshot a task iterates over
  seen,       \* the order row _resolve read before it awaited the lookup
  reply,      \* the answer a task has received and not yet acted on
  back,       \* where _resolve returns to
  decision,   \* the sell that waits for cancel_pair
  crashes     \* number of crashes so far

external == <<exch, wire>>
tables == <<row, trades, booked, saved, stoplosses>>
ledger == <<held, stop>>
ages == <<expired, overdue>>
control == <<pc, cur, todo, seen, reply, back, decision>>
vars == <<external, tables, ledger, ages, control, crashes>>

-----------------------------------------------------------------------------
(* Values                                                                  *)

NoOrder == "no order"

Open == {"PENDING_SUBMIT", "NEW", "PARTIALLY_FILLED"}
Resolved == {"FILLED", "CANCELLED"}
RowStatus == {"NONE", "REJECTED"} \cup Open \cup Resolved
RowType == [status : RowStatus, filled : Nat, qty : Nat]
NoRow == [status |-> "NONE", filled |-> 0, qty |-> 0]

ExchType == [st : {"none", "open", "filled", "cancelled"}, done : Nat]
ReplyType == [st : {"none", "open", "filled", "cancelled", "ack"}, done : Nat]
NoReply == [st |-> "none", done |-> 0]

\* Where a task has given up the loop, and where it holds it.
Awaiting == {"lookup", "answered", "cancel", "submit", "decide"}
Running == {"sync", "ttl", "replace", "cancelall", "stoploss", "stops", "row", "acked", "ackrow"}
Places == {"idle"} \cup Awaiting \cup Running
Returns == {"idle", "sync", "ttl", "decide", "replace", "cancelall"}

TypeOK ==
  /\ exch \in [Orders -> ExchType]
  /\ wire \subseteq Orders
  /\ row \in [Orders -> RowType]
  /\ trades \in [Orders -> SUBSET Nat]
  /\ booked \in [Orders -> Nat]
  /\ saved \subseteq Pairs
  /\ stoplosses \subseteq Pairs
  /\ held \in [Pairs -> Nat]
  /\ stop \subseteq Pairs
  /\ expired \subseteq Orders
  /\ overdue \subseteq Orders
  /\ pc \in [Tasks -> Places]
  /\ cur \in [Tasks -> Orders \cup {NoOrder}]
  /\ todo \in [Tasks -> SUBSET Orders]
  /\ seen \in [Tasks -> RowType]
  /\ reply \in [Tasks -> ReplyType]
  /\ back \in [Tasks -> Returns]
  /\ decision \in Sells \cup {NoOrder}
  /\ crashes \in Nat

-----------------------------------------------------------------------------
(* Helpers                                                                 *)

Least(a, b) == IF a <= b THEN a ELSE b

\* PairInfo.round_qty, and the rounding of filled_for: down to whole steps.
RoundDown(q) == q - (q % Step)

\* OrderState.filled_for: all of a filled order, whole steps of any other.
FilledFor(st, qty) ==
  Least(IF st.st = "filled" THEN qty ELSE RoundDown(st.done), qty)

Resting == {o \in Orders : row[o].status \in Open}
HasId(o) == row[o].status \in {"NEW", "PARTIALLY_FILLED"}

\* Entries and maker exits are cancelled after entry_ttl_s, other sells rest.
OnlyMakersExpire(o) == o \in MakerExits                  \* mutant of Expires
Expires(o) == o \in Buys \cup MakerExits

\* The stops save_stops writes and rebuild_portfolio restores.
Stopped(s, h) == {p \in s : h[p] > 0}

\* asyncio: a task takes a step only if no other task holds the loop.
HasLoop(t) == \A u \in Tasks \ {t} : pc[u] \notin Running

Goto(t, place) == pc' = [pc EXCEPT ![t] = place]

\* The start of _resolve: read the row, then await the lookup of the order.
Resolve(t, o, r, return) ==
  /\ Goto(t, "lookup")
  /\ cur' = [cur EXCEPT ![t] = o]
  /\ seen' = [seen EXCEPT ![t] = r]
  /\ back' = [back EXCEPT ![t] = return]

\* The end of _resolve.
Return(t) ==
  /\ Goto(t, back[t])
  /\ seen' = [seen EXCEPT ![t] = NoRow]
  /\ reply' = [reply EXCEPT ![t] = NoReply]
  /\ UNCHANGED <<cur, todo, back, decision>>

\* A task that ends forgets its local variables.
Finish(t) ==
  /\ Goto(t, "idle")
  /\ cur' = [cur EXCEPT ![t] = NoOrder]
  /\ back' = [back EXCEPT ![t] = "idle"]
  /\ UNCHANGED <<todo, seen, reply, decision>>

-----------------------------------------------------------------------------
Init ==
  /\ exch = [o \in Orders |-> [st |-> "none", done |-> 0]]
  /\ wire = {}
  /\ row = [o \in Orders |-> NoRow]
  /\ trades = [o \in Orders |-> {}]
  /\ booked = [o \in Orders |-> 0]
  /\ saved = {}
  /\ stoplosses = {}
  /\ held = [p \in Pairs |-> 0]
  /\ stop = {}
  /\ expired = {}
  /\ overdue = {}
  /\ pc = [t \in Tasks |-> "idle"]
  /\ cur = [t \in Tasks |-> NoOrder]
  /\ todo = [t \in Tasks |-> {}]
  /\ seen = [t \in Tasks |-> NoRow]
  /\ reply = [t \in Tasks |-> NoReply]
  /\ back = [t \in Tasks |-> "idle"]
  /\ decision = NoOrder
  /\ crashes = 0

-----------------------------------------------------------------------------
(* The exchange and the network                                            *)

\* A submission arrives and is accepted; it may be matched at once.
Arrive(o) ==
  /\ o \in wire
  /\ wire' = wire \ {o}
  /\ \E n \in 0..row[o].qty :
       exch' = [exch EXCEPT ![o] = [st |-> IF n = row[o].qty THEN "filled" ELSE "open", done |-> n]]
  /\ UNCHANGED <<tables, ledger, ages, control, crashes>>

\* A submission is lost, or its timestamp leaves recvWindow before it arrives.
Drop(o) ==
  /\ o \in wire
  /\ wire' = wire \ {o}
  /\ UNCHANGED <<exch, tables, ledger, ages, control, crashes>>

\* The exchange executes more of a resting order.
Match(o) ==
  /\ exch[o].st = "open"
  /\ \E n \in (exch[o].done + 1)..row[o].qty :
       exch' = [exch EXCEPT ![o] = [st |-> IF n = row[o].qty THEN "filled" ELSE "open", done |-> n]]
  /\ UNCHANGED <<wire, tables, ledger, ages, control, crashes>>

\* A resting order is cancelled by something other than the agent: the
\* Deadman timer, the owner, or a cancel request that arrives late.
CancelledElsewhere(o) ==
  /\ exch[o].st = "open"
  /\ exch' = [exch EXCEPT ![o].st = "cancelled"]
  /\ UNCHANGED <<wire, tables, ledger, ages, control, crashes>>

-----------------------------------------------------------------------------
(* Time.  A cycle measures every age from its own start, and an order is   *)
(* stamped with the start of the cycle that created it, so ages advance    *)
(* only between cycles.  A submission is outside recvWindow long before it *)
(* is overdue: module PendingGrace says when that is so.                   *)

Expire(o) ==
  /\ pc["cycle"] = "idle"
  /\ o \in Resting
  /\ expired' = expired \cup {o}
  /\ UNCHANGED <<external, tables, ledger, overdue, control, crashes>>

BecomeOverdue(o) ==
  /\ pc["cycle"] = "idle"
  /\ row[o].status = "PENDING_SUBMIT"
  /\ o \notin wire
  /\ overdue' = overdue \cup {o}
  /\ UNCHANGED <<external, tables, ledger, expired, control, crashes>>

-----------------------------------------------------------------------------
(* _resolve: look an order up and act on the answer                        *)

LookupAnswered(t) ==
  /\ pc[t] = "lookup"
  /\ reply' = [reply EXCEPT ![t] = exch[cur[t]]]
  /\ Goto(t, "answered")
  /\ UNCHANGED <<external, tables, ledger, ages, cur, todo, seen, back, decision, crashes>>

\* IndodaxError: nothing is recorded, the next cycle tries again.
LookupFails(t) ==
  /\ pc[t] = "lookup"
  /\ HasLoop(t)
  /\ Return(t)
  /\ UNCHANGED <<external, tables, ledger, ages, crashes>>

\* The exchange does not know the order: it is given up if it is pending and
\* overdue.
GivenUpAtOnce(t) == seen[t].status = "PENDING_SUBMIT"    \* mutant of GivenUp
GivenUp(t) == seen[t].status = "PENDING_SUBMIT" /\ cur[t] \in overdue

NotFound(t) ==
  /\ pc[t] = "answered"
  /\ HasLoop(t)
  /\ reply[t].st = "none"
  /\ row' = IF GivenUp(t) THEN [row EXCEPT ![cur[t]].status = "REJECTED"] ELSE row
  /\ Return(t)
  /\ UNCHANGED <<external, trades, booked, saved, stoplosses, ledger, ages, crashes>>

\* The cumulative quantity an answer reports, and the part of it that is
\* new to the row the task has read.
CancelledIsEmpty(t) ==                                   \* mutant of Cumulative
  IF reply[t].st = "cancelled" THEN seen[t].filled
  ELSE IF reply[t].st = "ack" THEN reply[t].done
  ELSE FilledFor(reply[t], seen[t].qty)
Cumulative(t) ==
  IF reply[t].st = "ack" THEN reply[t].done ELSE FilledFor(reply[t], seen[t].qty)
AllOfIt(t) == Cumulative(t)                              \* mutant of Fresh
Fresh(t) == Cumulative(t) - (IF reply[t].st = "ack" THEN 0 ELSE seen[t].filled)

\* _fill books at most what the ledger holds when it books a sell, and
\* nothing under a trade_id that is already in the table.
FillQty(t) ==
  LET o == cur[t] IN IF o \in Sells THEN Least(Fresh(t), held[PairOf[o]]) ELSE Fresh(t)
Bookable(t) == FillQty(t) > 0 /\ Cumulative(t) \notin trades[cur[t]]

HasFillToBook(t) == pc[t] = "acked" \/ (pc[t] = "answered" /\ reply[t].st # "none")

\* _fill up to the fills row: ledger and table change in one step, because a
\* crash before the transaction commits loses both.
BookFill(t) ==
  LET o == cur[t]
      p == PairOf[o]
      q == FillQty(t)
  IN /\ HasFillToBook(t)
     /\ HasLoop(t)
     /\ Bookable(t)
     /\ trades' = [trades EXCEPT ![o] = @ \cup {Cumulative(t)}]
     /\ booked' = [booked EXCEPT ![o] = @ + q]
     /\ IF o \in Buys
          THEN /\ held' = [held EXCEPT ![p] = @ + q]
               /\ stop' = stop \cup {p}
          ELSE /\ held' = [held EXCEPT ![p] = @ - q]
               /\ stop' = IF held[p] = q THEN stop \ {p} ELSE stop
     /\ Goto(t, IF o \in StopExits THEN "stoploss" ELSE "stops")
     /\ UNCHANGED <<external, row, saved, stoplosses, ages,
                    cur, todo, seen, reply, back, decision, crashes>>

NothingToBook(t) ==
  /\ HasFillToBook(t)
  /\ HasLoop(t)
  /\ ~Bookable(t)
  /\ Goto(t, IF reply[t].st = "ack" THEN "ackrow" ELSE "row")
  /\ UNCHANGED <<external, tables, ledger, ages,
                 cur, todo, seen, reply, back, decision, crashes>>

RecordStoploss(t) ==
  /\ pc[t] = "stoploss"
  /\ stoplosses' = stoplosses \cup {PairOf[cur[t]]}
  /\ Goto(t, "stops")
  /\ UNCHANGED <<external, row, trades, booked, saved, ledger, ages,
                 cur, todo, seen, reply, back, decision, crashes>>

StopsUnsaved(t) ==                                       \* mutant of SaveStops
  /\ pc[t] = "stops"
  /\ Goto(t, IF reply[t].st = "ack" THEN "ackrow" ELSE "row")
  /\ UNCHANGED <<external, tables, ledger, ages,
                 cur, todo, seen, reply, back, decision, crashes>>
SaveStops(t) ==
  /\ pc[t] = "stops"
  /\ saved' = Stopped(stop, held)
  /\ Goto(t, IF reply[t].st = "ack" THEN "ackrow" ELSE "row")
  /\ UNCHANGED <<external, row, trades, booked, stoplosses, ledger, ages,
                 cur, todo, seen, reply, back, decision, crashes>>

\* The last statement of _apply_state.
ClosedIsFilled(st, cumulative) ==                        \* mutant of StatusFor
  IF st # "open" THEN "FILLED" ELSE IF cumulative > 0 THEN "PARTIALLY_FILLED" ELSE "NEW"
StatusFor(st, cumulative) ==
  CASE st = "filled" -> "FILLED"
    [] st = "cancelled" -> "CANCELLED"
    [] OTHER -> IF cumulative > 0 THEN "PARTIALLY_FILLED" ELSE "NEW"

UpdateRow(t) ==
  LET o == cur[t]
      c == Cumulative(t)
  IN /\ pc[t] = "row"
     /\ row' = [row EXCEPT ![o].status = StatusFor(reply[t].st, c),
                           ![o].filled = IF c >= seen[t].filled THEN c ELSE seen[t].filled]
     /\ Return(t)
     /\ UNCHANGED <<external, trades, booked, saved, stoplosses, ledger, ages, crashes>>

-----------------------------------------------------------------------------
(* The trading cycle: check_resting                                        *)

CycleStart ==
  /\ pc["cycle"] = "idle"
  /\ Overlap \/ pc["command"] = "idle"
  /\ HasLoop("cycle")
  /\ Goto("cycle", "sync")
  /\ todo' = [todo EXCEPT !["cycle"] = Resting]
  /\ UNCHANGED <<external, tables, ledger, ages, cur, seen, reply, back, decision, crashes>>

SyncNext ==
  /\ pc["cycle"] = "sync"
  /\ \E o \in todo["cycle"] :
       /\ todo' = [todo EXCEPT !["cycle"] = @ \ {o}]
       /\ Resolve("cycle", o, row[o], "ttl")
  /\ UNCHANGED <<external, tables, ledger, ages, reply, decision, crashes>>

\* After the sync of one order: cancel it if it has outlived entry_ttl_s.
TtlCancel ==
  LET o == cur["cycle"] IN
  /\ pc["cycle"] = "ttl"
  /\ IF HasId(o) /\ Expires(o) /\ o \in expired
       THEN Goto("cycle", "cancel") /\ back' = [back EXCEPT !["cycle"] = "sync"]
       ELSE Goto("cycle", "sync") /\ UNCHANGED back
  /\ UNCHANGED <<external, tables, ledger, ages, cur, todo, seen, reply, decision, crashes>>

SyncDone ==
  /\ pc["cycle"] = "sync"
  /\ todo["cycle"] = {}
  /\ Goto("cycle", "decide")
  /\ UNCHANGED <<external, tables, ledger, ages, cur, todo, seen, reply, back, decision, crashes>>

-----------------------------------------------------------------------------
(* _cancel_row                                                             *)

\* The exchange cancels the order, or answers that it is no longer open.
CancelAnswered(t) ==
  LET o == cur[t] IN
  /\ pc[t] = "cancel"
  /\ HasLoop(t)
  /\ exch' = IF exch[o].st = "open" THEN [exch EXCEPT ![o].st = "cancelled"] ELSE exch
  /\ Resolve(t, o, row[o], back[t])
  /\ UNCHANGED <<wire, tables, ledger, ages, todo, reply, decision, crashes>>

\* IndodaxError: the row is left as it is.
CancelFails(t) ==
  /\ pc[t] = "cancel"
  /\ HasLoop(t)
  /\ Goto(t, back[t])
  /\ UNCHANGED <<external, tables, ledger, ages, cur, todo, seen, reply, back, decision, crashes>>

-----------------------------------------------------------------------------
(* The trading cycle: execute                                              *)

\* The row is written before the request is sent.
Submit(o, qty) ==
  /\ row' = [row EXCEPT ![o] = [status |-> "PENDING_SUBMIT", filled |-> 0, qty |-> qty]]
  /\ wire' = wire \cup {o}
  /\ Goto("cycle", "submit")
  /\ cur' = [cur EXCEPT !["cycle"] = o]
  /\ back' = [back EXCEPT !["cycle"] = "decide"]

ExecuteBuy(o) ==
  /\ pc["cycle"] = "decide"
  /\ HasLoop("cycle")
  /\ o \in Buys
  /\ row[o].status = "NONE"
  /\ Submit(o, Qty[o])
  /\ UNCHANGED <<exch, trades, booked, saved, stoplosses, ledger, ages,
                 todo, seen, reply, decision, crashes>>

\* A sell first cancels the older agent orders of its pair.
ExecuteSell(o) ==
  /\ pc["cycle"] = "decide"
  /\ HasLoop("cycle")
  /\ o \in Sells
  /\ row[o].status = "NONE"
  /\ held[PairOf[o]] > 0
  /\ decision' = o
  /\ todo' = [todo EXCEPT !["cycle"] = {x \in Orders : HasId(x) /\ PairOf[x] = PairOf[o]}]
  /\ Goto("cycle", "replace")
  /\ UNCHANGED <<external, tables, ledger, ages, cur, seen, reply, back, crashes>>

ReplaceNext ==
  /\ pc["cycle"] = "replace"
  /\ \E x \in todo["cycle"] :
       /\ todo' = [todo EXCEPT !["cycle"] = @ \ {x}]
       /\ cur' = [cur EXCEPT !["cycle"] = x]
  /\ back' = [back EXCEPT !["cycle"] = "replace"]
  /\ Goto("cycle", "cancel")
  /\ UNCHANGED <<external, tables, ledger, ages, seen, reply, decision, crashes>>

WholeDecision(o) == Qty[o]                               \* mutant of SellQty
SellQty(o) == RoundDown(Least(Qty[o], held[PairOf[o]]))
KnownResting(p) == \E x \in Orders : HasId(x) /\ PairOf[x] = p   \* mutant of StillResting
StillResting(p) == \E x \in Resting : PairOf[x] = p

SubmitSell ==
  /\ pc["cycle"] = "replace"
  /\ todo["cycle"] = {}
  /\ ~StillResting(PairOf[decision])
  /\ SellQty(decision) > 0
  /\ Submit(decision, SellQty(decision))
  /\ decision' = NoOrder
  /\ UNCHANGED <<exch, trades, booked, saved, stoplosses, ledger, ages,
                 todo, seen, reply, crashes>>

\* The early returns: an older order still rests, nothing is held any more,
\* or a market exit finds no bid.
GiveUpSell ==
  /\ pc["cycle"] = "replace"
  /\ todo["cycle"] = {}
  /\ \/ StillResting(PairOf[decision])
     \/ SellQty(decision) = 0
     \/ decision \in StopExits
  /\ decision' = NoOrder
  /\ Goto("cycle", "decide")
  /\ back' = [back EXCEPT !["cycle"] = "decide"]
  /\ UNCHANGED <<external, tables, ledger, ages, cur, todo, seen, reply, crashes>>

\* place_limit returns an order id and the quantity that filled at once.
SubmitAcked ==
  LET o == cur["cycle"] IN
  /\ pc["cycle"] = "submit"
  /\ HasLoop("cycle")
  /\ exch[o].st # "none"
  /\ row' = [row EXCEPT ![o].status = "NEW"]
  /\ \E k \in 0..exch[o].done :
       IF k > 0
         THEN /\ reply' = [reply EXCEPT !["cycle"] = [st |-> "ack", done |-> k]]
              /\ Goto("cycle", "acked")
              /\ UNCHANGED <<cur, seen, back>>
         ELSE /\ Resolve("cycle", o, row'[o], "decide")
              /\ UNCHANGED reply
  /\ UNCHANGED <<external, trades, booked, saved, stoplosses, ledger, ages,
                 todo, decision, crashes>>

\* The row takes the acknowledged quantity, then the order is looked up.
UpdateAckedRow ==
  LET o == cur["cycle"] IN
  /\ pc["cycle"] = "ackrow"
  /\ row' = [row EXCEPT ![o].filled = reply["cycle"].done]
  /\ Resolve("cycle", o, row'[o], "decide")
  /\ reply' = [reply EXCEPT !["cycle"] = NoReply]
  /\ UNCHANGED <<external, trades, booked, saved, stoplosses, ledger, ages,
                 todo, decision, crashes>>

\* The exchange refuses the order.
SubmitRefused ==
  LET o == cur["cycle"] IN
  /\ pc["cycle"] = "submit"
  /\ HasLoop("cycle")
  /\ o \in wire
  /\ wire' = wire \ {o}
  /\ row' = [row EXCEPT ![o].status = "REJECTED"]
  /\ Goto("cycle", "decide")
  /\ UNCHANGED <<exch, trades, booked, saved, stoplosses, ledger, ages,
                 cur, todo, seen, reply, back, decision, crashes>>

\* A network or format error, or an answer that the id already exists: the
\* outcome is unknown and the order is looked up.
SubmitUnknown ==
  LET o == cur["cycle"] IN
  /\ pc["cycle"] = "submit"
  /\ HasLoop("cycle")
  /\ Resolve("cycle", o, row[o], "decide")
  /\ UNCHANGED <<external, tables, ledger, ages, todo, reply, decision, crashes>>

CycleEnd ==
  /\ pc["cycle"] = "decide"
  /\ HasLoop("cycle")
  /\ saved' = Stopped(stop, held)
  /\ Finish("cycle")
  /\ UNCHANGED <<external, row, trades, booked, stoplosses, ledger, ages, crashes>>

-----------------------------------------------------------------------------
(* cancel_all, called by /kill and by the shutdown                         *)

CommandStart ==
  /\ pc["command"] = "idle"
  /\ Overlap \/ pc["cycle"] = "idle"
  /\ HasLoop("command")
  /\ todo' = [todo EXCEPT !["command"] = {o \in Orders : HasId(o)}]
  /\ Goto("command", "cancelall")
  /\ UNCHANGED <<external, tables, ledger, ages, cur, seen, reply, back, decision, crashes>>

CancelAllNext ==
  /\ pc["command"] = "cancelall"
  /\ \E o \in todo["command"] :
       /\ todo' = [todo EXCEPT !["command"] = @ \ {o}]
       /\ cur' = [cur EXCEPT !["command"] = o]
  /\ back' = [back EXCEPT !["command"] = "cancelall"]
  /\ Goto("command", "cancel")
  /\ UNCHANGED <<external, tables, ledger, ages, seen, reply, decision, crashes>>

CommandEnd ==
  /\ pc["command"] = "cancelall"
  /\ todo["command"] = {}
  /\ Finish("command")
  /\ UNCHANGED <<external, tables, ledger, ages, crashes>>

-----------------------------------------------------------------------------
\* The process dies and is started again.  The ledger is rebuilt from the
\* fills table, which holds what the ledger held; the stops come from the
\* stored ones.
Crash ==
  /\ crashes < MaxCrashes
  /\ TornCrash \/ \A t \in Tasks : pc[t] \notin Running
  /\ crashes' = crashes + 1
  /\ stop' = Stopped(saved, held)
  /\ pc' = [t \in Tasks |-> "idle"]
  /\ cur' = [t \in Tasks |-> NoOrder]
  /\ todo' = [t \in Tasks |-> {}]
  /\ seen' = [t \in Tasks |-> NoRow]
  /\ reply' = [t \in Tasks |-> NoReply]
  /\ back' = [t \in Tasks |-> "idle"]
  /\ decision' = NoOrder
  /\ UNCHANGED <<external, tables, held, ages>>

-----------------------------------------------------------------------------
Environment ==
  \E o \in Orders : Arrive(o) \/ Drop(o) \/ Match(o) \/ CancelledElsewhere(o)

Aging == \E o \in Orders : Expire(o) \/ BecomeOverdue(o)

Resolving(t) ==
  \/ LookupAnswered(t) \/ LookupFails(t) \/ NotFound(t)
  \/ BookFill(t) \/ NothingToBook(t) \/ RecordStoploss(t) \/ SaveStops(t) \/ UpdateRow(t)
  \/ CancelAnswered(t) \/ CancelFails(t)

Executing ==
  \/ \E o \in Orders : ExecuteBuy(o) \/ ExecuteSell(o)
  \/ ReplaceNext \/ SubmitSell \/ GiveUpSell
  \/ SubmitAcked \/ UpdateAckedRow \/ SubmitRefused \/ SubmitUnknown

Cycle == CycleStart \/ SyncNext \/ TtlCancel \/ SyncDone \/ Executing \/ CycleEnd

Command == CommandStart \/ CancelAllNext \/ CommandEnd

Next ==
  \/ Environment
  \/ Aging
  \/ \E t \in Tasks : Resolving(t)
  \/ Cycle
  \/ Command
  \/ Crash

Spec == Init /\ [][Next]_vars

\* The steps of a task that holds the loop.
Synchronous ==
  \/ \E t \in Tasks : RecordStoploss(t) \/ SaveStops(t) \/ UpdateRow(t)
  \/ \E t \in Tasks : pc[t] = "acked" /\ (BookFill(t) \/ NothingToBook(t))
  \/ SyncNext \/ TtlCancel \/ SyncDone \/ ReplaceNext \/ SubmitSell \/ GiveUpSell \/ UpdateAckedRow
  \/ CancelAllNext \/ CommandEnd

\* A task that holds the loop goes on.  asyncio's ready queue is first in,
\* first out, so a cycle that is ready gets the loop although commands keep
\* coming (strong fairness); the scheduler starts cycles for ever; requests
\* end and time passes; and the exchange does not fail for ever: a lookup or a
\* cancel that is asked again and again is answered in the end.
Fairness ==
  /\ WF_vars(Synchronous)
  /\ SF_vars(CycleStart)
  /\ SF_vars(CycleEnd)
  /\ SF_vars(SubmitAcked \/ SubmitRefused \/ SubmitUnknown)
  /\ SF_vars(Resolving("cycle"))
  /\ SF_vars(LookupAnswered("cycle"))
  /\ SF_vars(CancelAnswered("cycle"))
  /\ \A o \in Orders : WF_vars(Drop(o)) /\ SF_vars(Expire(o)) /\ SF_vars(BecomeOverdue(o))

FairSpec == Spec /\ Fairness

-----------------------------------------------------------------------------
(* What must never go wrong, whatever overlaps and wherever it crashes     *)

\* An order the agent gave up as "never reached the exchange" (or as refused)
\* is not on the exchange and cannot get there any more: otherwise it would
\* trade with nobody watching it (executor.py, _resolve and execute).
RejectedNeverLive ==
  \A o \in Orders : row[o].status = "REJECTED" => exch[o].st = "none" /\ o \notin wire

\* A row that says FILLED or CANCELLED is about an order the exchange has
\* closed, so the agent never stops watching an order that can still trade.
ClosedRowIsClosed ==
  \A o \in Orders :
    /\ row[o].status = "FILLED" => exch[o].st = "filled"
    /\ row[o].status = "CANCELLED" => exch[o].st = "cancelled"

\* No execution is lost: once a row is closed, the fills table holds at least
\* the quantity filled_for credits, through lost answers, partial fills,
\* cancels that race a match, and crashes.
NoFillLost ==
  \A o \in Orders :
    row[o].status \in Resolved => booked[o] >= FilledFor(exch[o], row[o].qty)

\* A sell is sent only when no other agent order of its pair can trade
\* (executor.py, "cancel/replace older agent orders").
SellStandsAlone ==
  [][\A o \in Sells : o \in wire' \ wire =>
       \A x \in Orders \ {o} :
         PairOf[x] = PairOf[o] => exch[x].st # "open" /\ x \notin wire]_vars

\* Why these three hold, as an inductive invariant.  A task only works on
\* orders that have a row, and a command only on orders that have an id; the
\* sell in hand has none yet.  An order is submitted once; an overdue one is
\* not on its way; and what a task has been told of a closed order, or of an
\* overdue order the exchange does not know, is still so when it acts on it.
Working == {"lookup", "answered", "cancel", "submit", "ttl", "stoploss", "stops", "row", "acked", "ackrow"}
Answered == {"answered", "acked", "stoploss", "stops", "row", "ackrow"}

WorksOnRows ==
  /\ \A t \in Tasks : pc[t] \in Working => cur[t] \in Orders /\ row[cur[t]].status # "NONE"
  /\ \A t \in Tasks : \A o \in todo[t] : row[o].status # "NONE"
  /\ pc["cycle"] = "replace" \/ back["cycle"] = "replace" =>
       decision \in Sells /\ row[decision].status = "NONE"

CommandWorksOnIds ==
  /\ pc["command"] \in Working => row[cur["command"]].status # "PENDING_SUBMIT"
  /\ \A o \in todo["command"] : row[o].status # "PENDING_SUBMIT"
  /\ seen["command"].status # "PENDING_SUBMIT"

SubmittedOnce ==
  \A o \in Orders :
    /\ o \in wire => exch[o].st = "none" /\ o \notin overdue
    /\ row[o].status = "NONE" => exch[o].st = "none" /\ o \notin wire /\ o \notin overdue

AnswersHold ==
  /\ \A t \in Tasks : reply[t].st # "none" => pc[t] \in Answered
  /\ \A t \in Tasks : reply[t].st \in {"filled", "cancelled"} => exch[cur[t]].st = reply[t].st
  /\ pc["cycle"] = "answered" /\ reply["cycle"].st = "none" /\ cur["cycle"] \in overdue =>
       exch[cur["cycle"]].st = "none"

Watch ==
  /\ WorksOnRows
  /\ CommandWorksOnIds
  /\ SubmittedOnce
  /\ AnswersHold
  /\ RejectedNeverLive
  /\ ClosedRowIsClosed

WatchInv == TypeOK /\ Watch

\* An entry never rests for ever: it is booked to the end, cancelled after
\* entry_ttl_s, or given up, although submissions, lookups and cancels fail
\* and the process crashes (check_resting).
EntriesSettle ==
  \A o \in Buys : row[o].status \in Open ~> row[o].status \notin Open

-----------------------------------------------------------------------------
(* What needs one resolver at a time and fills that are written whole      *)

\* "re-reading an order can never double count" (executor.py:11): the ledger
\* never holds more of an order than the exchange executed.
NeverDoubleCounted == \A o \in Orders : booked[o] <= exch[o].done

\* The agent sells only coin it bought, up to the dust of each sell that is
\* less than a step and so not booked: whatever else lies in the account is
\* the owner's.
Executed(S) == MapThenSumSet(LAMBDA o : exch[o].done, S)
SellsOnlyItsOwn ==
  \A p \in Pairs :
    LET sold == {o \in Sells : PairOf[o] = p /\ exch[o].done > 0}
    IN Executed(sold) <= Executed({o \in Buys : PairOf[o] = p}) + (Step - 1) * Cardinality(sold)

\* Every position has a stop-loss, after a restart too.
PositionsKeepTheirStop == \A p \in Pairs : held[p] > 0 => p \in stop

\* A stop-loss exit that was booked has its event, on which the cooldown of
\* the pair rests, before any other task can decide on the pair.
StoplossRemembered ==
  \A o \in StopExits :
    booked[o] > 0 /\ (\A t \in Tasks : pc[t] \notin Running) => PairOf[o] \in stoplosses

\* What protects a position outlives a crash at any moment: the stop-loss while
\* it is held, the memory of the loss once the stop-loss has sold it.
ProtectionKept == PositionsKeepTheirStop /\ StoplossRemembered

\* The executor implements the abstract booking of module OrderBooking.
Booking == INSTANCE OrderBooking WITH
  Dust <- Step - 1,
  executed <- [o \in Orders |-> exch[o].done],
  settled <- {o \in Orders : row[o].status \in Resolved}
BooksExactlyOnce == Booking!Spec
=============================================================================
