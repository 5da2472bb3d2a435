---------------------------- MODULE PendingGrace ----------------------------
(***************************************************************************)
(* The timing behind one line of LiveExecutor: when may an order that the  *)
(* exchange does not know be given up (agent/execution/executor.py,        *)
(* _resolve)?                                                              *)
(*                                                                         *)
(* One order, the clock, and the times the code compares: an order row is  *)
(* stamped with the start of the cycle that created it, the request is     *)
(* signed when it is sent, which is later, and the exchange takes it until *)
(* recvWindow after that.  A later cycle compares the row's stamp with its *)
(* own start, and may give the order up if a lookup does not find it.      *)
(*                                                                         *)
(* A definition marked "mutant of" is a bug that the runs must catch, put  *)
(* in the place of the definition it names; nothing else uses it.          *)
(***************************************************************************)
EXTENDS Integers

CONSTANTS
  Grace,      \* pending_grace_s
  Window,     \* recvWindow, with the error of the clock that stamps requests
  MaxDelay,   \* longest time from the start of a cycle to the sending of an order
  Horizon     \* bound on the clock

ASSUME GraceTimes ==
  /\ Grace \in Nat /\ Window \in Nat /\ MaxDelay \in Nat /\ Horizon \in Nat

\* What the settings have to satisfy (300 s against 5 s, and a cycle of at
\* most a few minutes).
ASSUME GraceAssumption == MaxDelay + Window < Grace

VARIABLES
  clock,
  pc,        \* where the trading cycle is
  cycleNow,     \* its start: the "now" of everything it does
  row,       \* status of the order's row
  created,   \* ts_created of the row
  signed,    \* timestamp of the request
  request    \* not sent, on the wire, gone, or live: an order on the exchange

graceVars == <<clock, pc, cycleNow, row, created, signed, request>>

Rows == {"NONE", "PENDING_SUBMIT", "NEW", "REJECTED"}
RequestStates == {"unsent", "wire", "gone", "live"}

GraceTypes ==
  /\ clock \in Nat /\ cycleNow \in Nat /\ created \in Nat /\ signed \in Nat
  /\ pc \in {"idle", "sync", "decide", "signing", "sent", "lookup", "absent"}
  /\ row \in Rows
  /\ request \in RequestStates

GraceInit ==
  /\ clock = 0 /\ cycleNow = 0 /\ created = 0 /\ signed = 0
  /\ pc = "idle"
  /\ row = "NONE"
  /\ request = "unsent"

-----------------------------------------------------------------------------
ClockTick ==
  /\ clock < Horizon
  /\ clock' = clock + 1
  /\ UNCHANGED <<pc, cycleNow, row, created, signed, request>>

\* The exchange refuses a request whose timestamp is older than recvWindow.
InTime == clock <= signed + Window

RequestArrives ==
  /\ request = "wire"
  /\ request' = IF InTime THEN "live" ELSE "gone"
  /\ UNCHANGED <<clock, pc, cycleNow, row, created, signed>>

RequestLost ==
  /\ request = "wire"
  /\ request' = "gone"
  /\ UNCHANGED <<clock, pc, cycleNow, row, created, signed>>

-----------------------------------------------------------------------------
(* The trading cycle                                                       *)

StartCycle ==
  /\ pc = "idle"
  /\ cycleNow' = clock
  /\ pc' = "sync"
  /\ UNCHANGED <<clock, row, created, signed, request>>

\* check_resting looks a pending order up.
Sync ==
  /\ pc = "sync"
  /\ pc' = IF row = "PENDING_SUBMIT" THEN "lookup" ELSE "decide"
  /\ UNCHANGED <<clock, cycleNow, row, created, signed, request>>

\* execute writes the row; the request then waits for the rate limiter.
Record ==
  /\ pc = "decide"
  /\ row = "NONE"
  /\ row' = "PENDING_SUBMIT"
  /\ created' = cycleNow
  /\ pc' = "signing"
  /\ UNCHANGED <<clock, cycleNow, signed, request>>

SendRequest ==
  /\ pc = "signing"
  /\ clock <= cycleNow + MaxDelay
  /\ signed' = clock
  /\ request' = "wire"
  /\ pc' = "sent"
  /\ UNCHANGED <<clock, cycleNow, row, created>>

Acknowledged ==
  /\ pc = "sent" /\ request = "live"
  /\ row' = "NEW"
  /\ pc' = "decide"
  /\ UNCHANGED <<clock, cycleNow, created, signed, request>>

OrderRefused ==
  /\ pc = "sent" /\ request = "wire"
  /\ request' = "gone"
  /\ row' = "REJECTED"
  /\ pc' = "decide"
  /\ UNCHANGED <<clock, cycleNow, created, signed>>

\* No answer, or none that can be read.
Unknown ==
  /\ pc \in {"signing", "sent"}
  /\ pc' = "lookup"
  /\ UNCHANGED <<clock, cycleNow, row, created, signed, request>>

OrderFound ==
  /\ pc = "lookup" /\ request = "live"
  /\ row' = "NEW"
  /\ pc' = "decide"
  /\ UNCHANGED <<clock, cycleNow, created, signed, request>>

\* The exchange answers that it has no such order: true when it answers,
\* perhaps not any more when the answer is read.
Absent ==
  /\ pc = "lookup" /\ request # "live"
  /\ pc' = "absent"
  /\ UNCHANGED <<clock, cycleNow, row, created, signed, request>>

Impatient == row = "PENDING_SUBMIT" /\ cycleNow - created >= Window   \* mutant of GivenUp
GivenUp == row = "PENDING_SUBMIT" /\ cycleNow - created >= Grace

ActOnAbsent ==
  /\ pc = "absent"
  /\ row' = IF GivenUp THEN "REJECTED" ELSE row
  /\ pc' = "decide"
  /\ UNCHANGED <<clock, cycleNow, created, signed, request>>

LookupFails ==
  /\ pc = "lookup"
  /\ pc' = "decide"
  /\ UNCHANGED <<clock, cycleNow, row, created, signed, request>>

\* The cycle ends, or the process dies and is started again.
CycleOver ==
  /\ pc # "idle"
  /\ pc' = "idle"
  /\ UNCHANGED <<clock, cycleNow, row, created, signed, request>>

GraceNext ==
  \/ ClockTick \/ RequestArrives \/ RequestLost
  \/ StartCycle \/ Sync \/ Record \/ SendRequest
  \/ Acknowledged \/ OrderRefused \/ Unknown \/ OrderFound \/ Absent \/ ActOnAbsent
  \/ LookupFails \/ CycleOver

GraceSpec == GraceInit /\ [][GraceNext]_graceVars

-----------------------------------------------------------------------------
\* An order whose row says REJECTED is not on the exchange, and its request
\* can no longer be accepted there (_resolve, pending_grace_s): the guard
\* "o \notin wire" of BecomeOverdue in LiveExecutor.
RejectedStaysOut ==
  row = "REJECTED" => request # "live" /\ ~(request = "wire" /\ InTime)

\* The inductive strengthening of RejectedStaysOut: a request is signed in the
\* cycle that stamped the row, and once a cycle is old enough to give the row
\* up, the window of the request has closed.
GraceInv ==
  /\ GraceTypes
  /\ RejectedStaysOut
  /\ cycleNow <= clock
  /\ row = "NONE" => request = "unsent"
  /\ pc \in {"signing", "sent"} => row = "PENDING_SUBMIT" /\ created = cycleNow
  /\ pc = "signing" => request = "unsent"
  /\ row # "NONE" => created <= cycleNow
  /\ request # "unsent" => signed <= created + MaxDelay
  /\ pc = "absent" /\ GivenUp => request # "live"
=============================================================================
