---------------------------- MODULE OrderBooking ----------------------------
(***************************************************************************)
(* What agent/execution/executor.py promises about the books, with nothing *)
(* of how it keeps the promise: each order has a quantity executed by the  *)
(* exchange and a quantity booked in the agent's ledger.  The ledger only  *)
(* ever books quantity that was executed and that it has not booked yet,   *)
(* and it declares an order settled only when nothing is left to book.     *)
(*                                                                         *)
(* LiveExecutor implements this specification as long as only one task     *)
(* resolves orders at a time and the process does not die between the      *)
(* transactions of one fill (see LiveExecutor!BooksExactlyOnce).           *)
(***************************************************************************)
EXTENDS Naturals

CONSTANTS
  Orders,     \* the decisions the agent may turn into orders
  Qty,        \* [Orders -> Nat]: the most an order may execute
  Dust        \* quantity below one pair step that rounding may leave unbooked

VARIABLES
  executed,   \* executed by the exchange, per order
  booked,     \* booked in the ledger, per order
  settled     \* orders the agent considers final

vars == <<executed, booked, settled>>

Init ==
  /\ executed = [o \in Orders |-> 0]
  /\ booked = [o \in Orders |-> 0]
  /\ settled = {}

\* The exchange executes some more of an order that is not settled yet.
Execute(o) ==
  /\ o \notin settled
  /\ \E n \in executed[o]..Qty[o] : executed' = [executed EXCEPT ![o] = n]
  /\ UNCHANGED <<booked, settled>>

\* The agent learns of executed quantity and books what is new in it.
Book(o) ==
  /\ o \notin settled
  /\ \E n \in booked[o]..executed[o] : booked' = [booked EXCEPT ![o] = n]
  /\ UNCHANGED <<executed, settled>>

\* The agent closes its order row: nothing executed is left unbooked.
Settle(o) ==
  /\ executed[o] - booked[o] <= Dust
  /\ settled' = settled \cup {o}
  /\ UNCHANGED <<executed, booked>>

Next == \E o \in Orders : Execute(o) \/ Book(o) \/ Settle(o)

Spec == Init /\ [][Next]_vars
=============================================================================
