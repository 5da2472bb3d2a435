----------------------------- MODULE OrderCheck -----------------------------
(***************************************************************************)
(* The check of the order interface on the real account before going live  *)
(* (scripts/live_order_check.py): a resting buy that is read and cancelled *)
(* (order "A"), a buy that is filled ("B") and sold back ("S"), in front   *)
(* of an exchange where every call can fail before or after it took effect *)
(* and open orders can be filled at any time.  A run can be killed; the    *)
(* owner can have it cancel order A by its number afterwards.              *)
(*                                                                         *)
(* A definition marked "mutant of" is a bug that the runs must catch, put  *)
(* in the place of the definition it names; nothing else uses it.          *)
(***************************************************************************)
VARIABLES
  key,       \* what the API key may do: "trade" or "withdraw"
  fill,      \* --fill
  doing,     \* the step of the script
  good,      \* ok
  pending,   \* pending_a is set
  number,    \* the number of order A was printed
  read,      \* the status of B that was read, stb
  book,      \* the state of each order at the exchange
  exit       \* how the script ended

checkVars == <<key, fill, doing, good, pending, number, read, book, exit>>

Steps == {"permission", "A.place", "A.read", "A.open", "A.cancel", "A.after", "B.buy",
          "B.read", "B.sell", "B.sell read", "cleanup", "end", "cancel-order", "still open"}

CheckTypes ==
  /\ key \in {"trade", "withdraw"} /\ fill \in BOOLEAN
  /\ doing \in Steps /\ good \in BOOLEAN /\ pending \in BOOLEAN /\ number \in BOOLEAN
  /\ read \in {"none", "open", "filled", "cancelled"}
  /\ book \in [{"A", "B", "S"} -> {"none", "open", "filled", "cancelled"}]
  /\ exit \in {"none", "passed", "failed", "abort", "killed", "not open", "open"}

CheckInit ==
  /\ key \in {"trade", "withdraw"} /\ fill \in BOOLEAN
  /\ doing = "permission" /\ good = TRUE /\ pending = FALSE /\ number = FALSE
  /\ read = "none" /\ book = [o \in {"A", "B", "S"} |-> "none"] /\ exit = "none"

CheckEnds(code) == doing' = "end" /\ exit' = code

\* What withdraw_possible can come out as: the legacy probe succeeds, is
\* refused for want of the permission or remains unclear, and the account of
\* the v2 interface is believed where the probe was unclear.
Withdraw ==
  {IF "yes" \in {p, v} THEN "yes" ELSE IF p # "unclear" THEN p ELSE v :
     p \in {"unclear", IF key = "withdraw" THEN "yes" ELSE "no"},
     v \in {"unclear", IF key = "withdraw" THEN "yes" ELSE "no"}}

Proven(w) == w = "no"

\* The market's smallest order may also be above HARD_CAP_IDR.
Permission ==
  /\ doing = "permission"
  /\ \/ (\E w \in Withdraw : Proven(w)) /\ doing' = "A.place" /\ UNCHANGED exit
     \/ CheckEnds("abort")
  /\ UNCHANGED <<key, fill, good, pending, number, read, book>>

-----------------------------------------------------------------------------
(* Test A.                                                                 *)

PlaceA ==
  /\ doing = "A.place"
  /\ book' = [book EXCEPT !.A = "open"]
  /\ doing' = "A.read" /\ pending' = TRUE /\ number' = TRUE
  /\ UNCHANGED <<key, fill, good, read, exit>>

\* The order is read back, by its own number and among the open orders.
ReadA ==
  /\ doing \in {"A.read", "A.open"}
  /\ doing' = IF doing = "A.read" THEN "A.open" ELSE "A.cancel"
  /\ good' = (good /\ book["A"] = "open")
  /\ UNCHANGED <<key, fill, pending, number, read, book, exit>>

\* cancel takes an order that is gone already for a success.
Cancelled == book' = [book EXCEPT !.A = IF @ = "open" THEN "cancelled" ELSE @]

CancelA ==
  /\ doing = "A.cancel"
  /\ Cancelled
  /\ pending' = FALSE /\ doing' = "A.after"
  /\ UNCHANGED <<key, fill, good, number, read, exit>>

PassOrFail(ok) ==
  /\ good' = ok
  /\ CheckEnds(IF ok THEN "passed" ELSE "failed")

AfterA ==
  /\ doing = "A.after"
  /\ LET ok == good /\ book["A"] = "cancelled"
     IN IF fill THEN good' = ok /\ doing' = "B.buy" /\ UNCHANGED exit ELSE PassOrFail(ok)
  /\ UNCHANGED <<key, fill, pending, number, read, book>>

-----------------------------------------------------------------------------
(* Test B.                                                                 *)

\* A marketable order can be left in part on the book.
PlaceB ==
  /\ doing = "B.buy"
  /\ \E s \in {"open", "filled"} : book' = [book EXCEPT !.B = s]
  /\ doing' = "B.read"
  /\ UNCHANGED <<key, fill, good, pending, number, read, exit>>

ReadB ==
  /\ doing = "B.read"
  /\ read' = book["B"] /\ doing' = "B.sell"
  /\ UNCHANGED <<key, fill, good, pending, number, book, exit>>

\* mutant of Confirmed: the order was found, whatever its status
AnyStatus(status) == status # "none"
Confirmed(status) == status = "filled"

\* What was bought, as far as the balance shows it, is sold unless it is
\* nothing, or less than the smallest order.
Sell ==
  /\ doing = "B.sell"
  /\ \/ /\ \E s \in {"open", "filled"} : book' = [book EXCEPT !.S = s]
        /\ doing' = "B.sell read" /\ UNCHANGED <<good, exit>>
     \/ PassOrFail(good /\ Confirmed(read)) /\ UNCHANGED book
     \/ PassOrFail(FALSE) /\ UNCHANGED book
  /\ UNCHANGED <<key, fill, pending, number, read>>

ReadS ==
  /\ doing = "B.sell read"
  /\ PassOrFail(good /\ Confirmed(book["S"]) /\ Confirmed(read))
  /\ UNCHANGED <<key, fill, pending, number, read, book>>

-----------------------------------------------------------------------------
(* What goes wrong.                                                        *)

Calling == Steps \ {"permission", "cleanup", "end", "cancel-order", "still open"}

\* A call raises.  What it asked for may have been done all the same.
Raises ==
  /\ doing \in Calling
  /\ \/ UNCHANGED book
     \/ doing = "A.place" /\ book' = [book EXCEPT !.A = "open"]
     \/ doing = "A.cancel" /\ Cancelled
     \/ doing = "B.buy" /\ \E s \in {"open", "filled"} : book' = [book EXCEPT !.B = s]
     \/ doing = "B.sell" /\ \E s \in {"open", "filled"} : book' = [book EXCEPT !.S = s]
  /\ good' = FALSE /\ doing' = "cleanup"
  /\ UNCHANGED <<key, fill, pending, number, read, exit>>

\* The finally clause: "never leave the resting test order behind".  Its own
\* call can fail too; then the number is printed once more.
Cleanup ==
  /\ doing = "cleanup"
  /\ (pending /\ Cancelled) \/ UNCHANGED book
  /\ CheckEnds("failed")
  /\ UNCHANGED <<key, fill, good, pending, number, read>>

Killed ==
  /\ doing \in Calling \cup {"cleanup"}
  /\ CheckEnds("killed")
  /\ UNCHANGED <<key, fill, good, pending, number, read, book>>

Filled ==
  /\ \E o \in DOMAIN book : book[o] = "open" /\ book' = [book EXCEPT ![o] = "filled"]
  /\ UNCHANGED <<key, fill, doing, good, pending, number, read, exit>>

-----------------------------------------------------------------------------
(* The script is run again with --cancel-order.                            *)

CancelOrder ==
  /\ doing = "end" /\ number
  /\ doing' = "cancel-order" /\ exit' = "none"
  /\ UNCHANGED <<key, fill, good, pending, number, read, book>>

\* Its cancel can fail, before it took effect or after; the exception ends it.
Recancel ==
  /\ doing = "cancel-order"
  /\ \/ Cancelled /\ doing' = "still open" /\ UNCHANGED exit
     \/ (Cancelled \/ UNCHANGED book) /\ CheckEnds("failed")
  /\ UNCHANGED <<key, fill, good, pending, number, read>>

StillOpen ==
  /\ doing = "still open"
  /\ CheckEnds(IF book["A"] = "open" THEN "open" ELSE "not open")
  /\ UNCHANGED <<key, fill, good, pending, number, read, book>>

Stays == doing = "end" /\ UNCHANGED checkVars

CheckNext ==
  \/ Permission \/ PlaceA \/ ReadA \/ CancelA \/ AfterA
  \/ PlaceB \/ ReadB \/ Sell \/ ReadS
  \/ Raises \/ Cleanup \/ Killed \/ Filled
  \/ CancelOrder \/ Recancel \/ StillOpen \/ Stays

CheckSpec == CheckInit /\ [][CheckNext]_checkVars

-----------------------------------------------------------------------------
(* Properties                                                              *)

\* A check that says PASSED, or "not open any more", leaves no order of its
\* own on the book of the real account, whatever failed, was filled at an odd
\* moment or took effect without an answer; and a key that could withdraw was
\* not used for an order at all ("key must be proven WITHOUT withdraw
\* permission").
PassedIsClean ==
  /\ exit = "passed" => \A o \in DOMAIN book : book[o] # "open"
  /\ exit = "not open" => book["A"] # "open"
  /\ key = "withdraw" => \A o \in DOMAIN book : book[o] = "none"
=============================================================================
