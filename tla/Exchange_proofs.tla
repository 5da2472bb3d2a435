-------------------------- MODULE Exchange_proofs ---------------------------
(***************************************************************************)
(* Proofs about what lies between the agent and the exchange.              *)
(*                                                                         *)
(* PendingGrace: whatever the times are, as long as a request is signed at *)
(* most MaxDelay after the start of its cycle and MaxDelay + Window <      *)
(* Grace, an order that was given up cannot trade.  ApiCalls: for any      *)
(* number of tasks, any limit and period, any number of retries and any    *)
(* delays, the rate limiter keeps its window, a submission opens at most   *)
(* one order, and a cancel that returns has taken its order off the book.  *)
(* CandleFeed: whatever the duration, the lookback, the chunks and the lag *)
(* of the clock, a cycle is given the last closed candles, all of them and *)
(* no other.  The types of ApiCalls and CandleFeed are at the end.         *)
(***************************************************************************)
EXTENDS PendingGrace, ApiCalls, CandleFeed, FiniteSetTheorems, TLAPS

-----------------------------------------------------------------------------
(* PendingGrace                                                            *)

\* Inv holds before the first cycle.
LEMMA GraceStarts == GraceInit => GraceInv
  BY GraceTimes, GraceAssumption
  DEF GraceInit, GraceInv, GraceTypes, RejectedStaysOut, GivenUp, InTime, Rows, RequestStates

\* Inv is preserved by the clock, the network and every step of the cycle.
LEMMA GraceKeeps == GraceInv /\ [GraceNext]_graceVars => GraceInv'
<1> SUFFICES ASSUME GraceInv, [GraceNext]_graceVars
             PROVE  GraceInv'
  OBVIOUS
<1> USE GraceTimes, GraceAssumption
       DEF GraceInv, GraceTypes, RejectedStaysOut, GivenUp, InTime, Rows, RequestStates
<1>1. CASE ClockTick
  BY <1>1 DEF ClockTick
<1>2. CASE RequestArrives
  \* The only step that puts the order on the exchange: it needs an open
  \* window, which an old cycle excludes.
  <2>1. pc = "absent" /\ GivenUp /\ request = "wire" => ~InTime
    OBVIOUS
  <2>2. QED
    BY <1>2, <2>1 DEF RequestArrives
<1>3. CASE RequestLost
  BY <1>3 DEF RequestLost
<1>4. CASE StartCycle
  BY <1>4 DEF StartCycle
<1>5. CASE Sync
  BY <1>5 DEF Sync
<1>6. CASE Record
  BY <1>6 DEF Record
<1>7. CASE SendRequest
  BY <1>7 DEF SendRequest
<1>8. CASE Acknowledged
  BY <1>8 DEF Acknowledged
<1>9. CASE OrderRefused
  BY <1>9 DEF OrderRefused
<1>10. CASE Unknown
  BY <1>10 DEF Unknown
<1>11. CASE OrderFound
  BY <1>11 DEF OrderFound
<1>12. CASE Absent
  BY <1>12 DEF Absent
<1>13. CASE ActOnAbsent
  \* The order is given up in a cycle that began after the window closed.
  <2>1. GivenUp => request # "live" /\ ~(request = "wire" /\ InTime)
    BY <1>13 DEF ActOnAbsent
  <2>2. QED
    BY <1>13, <2>1 DEF ActOnAbsent
<1>14. CASE LookupFails
  BY <1>14 DEF LookupFails
<1>15. CASE CycleOver
  BY <1>15 DEF CycleOver
<1>16. CASE UNCHANGED graceVars
  BY <1>16 DEF graceVars
<1>17. QED
  BY <1>1, <1>2, <1>3, <1>4, <1>5, <1>6, <1>7, <1>8, <1>9, <1>10, <1>11,
     <1>12, <1>13, <1>14, <1>15, <1>16 DEF GraceNext

\* The inductive invariant holds in every reachable state.
THEOREM GraceInvHolds == GraceSpec => []GraceInv
<1>1. QED
  BY GraceStarts, GraceKeeps, PTL DEF GraceSpec

\* For every grace period, window and delay that satisfy GraceAssumption, an
\* order the agent gave up (_resolve, status REJECTED) is not on the exchange
\* and its request can no longer be accepted there.
THEOREM GivenUpOrdersStayOut == GraceSpec => []RejectedStaysOut
<1>1. GraceInv => RejectedStaysOut
  BY DEF GraceInv
<1>2. QED
  BY <1>1, GraceInvHolds, PTL

-----------------------------------------------------------------------------
(* ApiCalls.                                                               *)
(*                                                                         *)
(* The window.  What makes it inductive: the slots that left the deque are *)
(* a period old, so a new slot may follow max_calls after any of them.     *)

SlotsTyped ==
  /\ now \in Nat /\ popped \in Nat
  /\ granted \in Seq(Nat)
  /\ popped <= Len(granted)

DroppedAreOld == \A i \in 1..popped : now - granted[i] >= Period

LimiterInv ==
  /\ SlotsTyped
  /\ DroppedAreOld
  /\ Len(granted) - popped <= MaxCalls
  /\ WindowBounded

\* No slot is granted at the start.
LEMMA LimiterStarts == ApiInit => LimiterInv
  BY LimiterAssumption
  DEF ApiInit, LimiterInv, SlotsTyped, DroppedAreOld, WindowBounded

\* A slot is granted only when fewer than max_calls are left in the deque.
LEMMA GrantKeepsWindow ==
  ASSUME LimiterInv, NEW c \in Callers, Grant(c)
  PROVE  LimiterInv'
<1> USE LimiterAssumption DEF LimiterInv, SlotsTyped
<1>1. PICK k \in popped..Len(granted) :
        /\ Drops(k)
        /\ Len(granted) - k < MaxCalls
        /\ popped' = k
  BY DEF Grant
<1>2. granted' = Append(granted, now) /\ now' = now
  BY DEF Grant
<1>3. Len(granted') = Len(granted) + 1 /\ granted' \in Seq(Nat)
  BY <1>2
<1>4. \A i \in 1..Len(granted) : granted'[i] = granted[i] /\ granted[i] \in Nat
  BY <1>2
<1>5. granted'[Len(granted) + 1] = now
  BY <1>2
<1>6. \A i \in 1..k : now - granted[i] >= Period
  BY <1>1, SMTT(60) DEF Drops, DroppedAreOld
<1>7. DroppedAreOld'
  BY <1>1, <1>2, <1>4, <1>6 DEF DroppedAreOld
<1>8. WindowBounded'
  <2> SUFFICES ASSUME NEW i \in 1..Len(granted'), i + MaxCalls <= Len(granted')
               PROVE  granted'[i + MaxCalls] - granted'[i] >= Period
    BY DEF WindowBounded
  <2>1. CASE i + MaxCalls <= Len(granted)
    <3>1. i \in 1..Len(granted) /\ i + MaxCalls \in 1..Len(granted)
      BY <2>1, <1>3
    <3>2. granted[i + MaxCalls] - granted[i] >= Period
      BY <3>1, <2>1 DEF WindowBounded
    <3> QED
      BY <3>1, <3>2, <1>4
  <2>2. CASE ~ (i + MaxCalls <= Len(granted))
    <3>a. Len(granted) \in Nat /\ MaxCalls \in Nat
      OBVIOUS
    <3>b. i \in Nat /\ i + MaxCalls <= Len(granted) + 1
      BY <1>3
    <3>c. i + MaxCalls = Len(granted) + 1
      BY <3>a, <3>b, <2>2
    <3>1. i \in 1..k
      BY <3>a, <3>b, <3>c, <1>1
    <3>2. granted'[i] = granted[i] /\ granted'[i + MaxCalls] = now
      BY <3>1, <3>c, <1>4, <1>5, <1>1
    <3> QED
      BY <3>1, <3>2, <1>6
  <2> QED
    BY <2>1, <2>2
<1> QED
  BY <1>1, <1>2, <1>3, <1>7, <1>8

\* A caller that finds the window full leaves it as it is.
LEMMA ThrottleKeepsWindow ==
  ASSUME LimiterInv, NEW c \in Callers, Throttle(c)
  PROVE  LimiterInv'
<1> USE LimiterAssumption DEF LimiterInv, SlotsTyped
<1>1. PICK k \in popped..Len(granted) : Drops(k) /\ popped' = k
  BY DEF Throttle
<1>2. granted' = granted /\ now' = now
  BY DEF Throttle
<1>3. DroppedAreOld'
  BY <1>1, <1>2, SMTT(60) DEF Drops, DroppedAreOld
<1>4. WindowBounded'
  BY <1>2 DEF WindowBounded
<1> QED
  BY <1>1, <1>2, <1>3, <1>4

\* Time only moves slots out of the window.
LEMMA TickKeepsWindow ==
  ASSUME LimiterInv, ClockTicks
  PROVE  LimiterInv'
<1> USE LimiterAssumption DEF LimiterInv, SlotsTyped
<1>1. now' = now + 1 /\ popped' = popped /\ granted' = granted
  BY DEF ClockTicks
<1>2. \A i \in 1..popped : granted[i] \in Nat
  OBVIOUS
<1>3. DroppedAreOld'
  BY <1>1, <1>2, SMTT(60) DEF DroppedAreOld
<1>4. WindowBounded'
  BY <1>1 DEF WindowBounded
<1> QED
  BY <1>1, <1>3, <1>4

\* The other steps grant no slot.
LEMMA OthersKeepSlots ==
  ASSUME UNCHANGED <<now, granted, popped>>, LimiterInv
  PROVE  LimiterInv'
  BY DEF LimiterInv, SlotsTyped, DroppedAreOld, WindowBounded

\* What is known of the slots holds throughout.
LEMMA LimiterInvHolds == ApiSpec => []LimiterInv
<1>1. ApiInit => LimiterInv
  BY LimiterStarts
<1>2. LimiterInv /\ [ApiNext]_apiVars => LimiterInv'
  <2> SUFFICES ASSUME LimiterInv, [ApiNext]_apiVars
               PROVE  LimiterInv'
    OBVIOUS
  <2>1. CASE ClockTicks
    BY <2>1, TickKeepsWindow
  <2>2. ASSUME NEW c \in Callers, Grant(c) PROVE LimiterInv'
    BY <2>2, GrantKeepsWindow
  <2>3. ASSUME NEW c \in Callers, Throttle(c) PROVE LimiterInv'
    BY <2>3, ThrottleKeepsWindow
  <2>4. ASSUME NEW c \in Callers, NEW o \in Private \cup {"get"}, Call(c, o)
        PROVE  LimiterInv'
    BY <2>4, OthersKeepSlots DEF Call
  <2>5. ASSUME NEW c \in Callers, TransportFails(c) \/ Busy(c) \/ Returns(c)
        PROVE  LimiterInv'
    BY <2>5, OthersKeepSlots DEF TransportFails, Busy, Returns, limiter
  <2>6. ASSUME NEW c \in Callers, Again(c) PROVE LimiterInv'
    BY <2>6, OthersKeepSlots DEF Again
  <2>7. ASSUME NEW c \in Callers, NEW k \in Calls, Fills(c, k) PROVE LimiterInv'
    BY <2>7, OthersKeepSlots DEF Fills, limiter
  <2>8. ASSUME NEW r \in wire, Arrive(r) PROVE LimiterInv'
    BY <2>8, OthersKeepSlots DEF Arrive, limiter
  <2>9. CASE UNCHANGED apiVars
    BY <2>9, OthersKeepSlots DEF apiVars, limiter
  <2> QED
    BY <2>1, <2>2, <2>3, <2>4, <2>5, <2>6, <2>7, <2>8, <2>9 DEF ApiNext, OutOfTime
<1>3. QED
  BY <1>1, <1>2, PTL DEF ApiSpec

\* Whatever the number of tasks, no window of a period holds more than
\* max_calls requests (AsyncRateLimiter.acquire).
THEOREM WindowHolds == ApiSpec => []WindowBounded
<1>1. LimiterInv => WindowBounded
  BY DEF LimiterInv
<1>2. QED
  BY <1>1, LimiterInvHolds, PTL

CallsTyped ==
  /\ at \in [Callers -> {"idle", "lock", "wire", "backoff"}]
  /\ op \in [Callers -> Private \cup {"get", "none"}]
  /\ attempt \in [Callers -> Nat] /\ calls \in [Callers -> Nat]
  /\ queue \in Seq(Callers)
  /\ \A r \in wire : r.by \in Callers /\ r.call \in Calls
  /\ opened \in [Callers -> [Calls -> Nat]]
  /\ \A c \in Callers :
       /\ calls[c] <= MaxOps
       /\ at[c] # "idle" => calls[c] \in Calls

QueueHolds ==
  /\ \A i, j \in 1..Len(queue) : queue[i] = queue[j] => i = j
  /\ \A i \in 1..Len(queue) : at[queue[i]] = "lock"

Submits(r) == r \in wire /\ r.op = "trade"

WireHolds ==
  /\ \A r \in wire : r.call <= calls[r.by]
  /\ \A r, s \in wire :
       Submits(r) /\ Submits(s) /\ r.by = s.by /\ r.call = s.call => r = s
  /\ \A r \in wire : Submits(r) => opened[r.by][r.call] = 0

SubmissionsHold ==
  /\ \A c \in Callers : at[c] = "backoff" => op[c] # "trade"
  /\ \A c \in Callers :
       at[c] = "lock" /\ op[c] = "trade" =>
         /\ opened[c][calls[c]] = 0
         /\ \A r \in wire : ~ (Submits(r) /\ r.by = c /\ r.call = calls[c])
  /\ \A c \in Callers, k \in Calls : k > calls[c] => opened[c][k] = 0

SubmitInv ==
  CallsTyped /\ QueueHolds /\ WireHolds /\ SubmissionsHold /\ OneOrderPerCall

\* No submission is under way at the start.
LEMMA SubmitStarts == ApiInit => SubmitInv
  BY LimiterAssumption
  DEF ApiInit, SubmitInv, CallsTyped, QueueHolds, WireHolds, SubmissionsHold,
      OneOrderPerCall, Private, Calls

\* A task that takes its place at the lock was not there yet.
LEMMA JoinsQueue ==
  ASSUME CallsTyped, QueueHolds, NEW c \in Callers, at[c] # "lock",
         queue' = Append(queue, c), at' = [at EXCEPT ![c] = "lock"]
  PROVE  QueueHolds' /\ queue' \in Seq(Callers)
<1> USE DEF CallsTyped
<1>1. /\ Len(queue') = Len(queue) + 1
      /\ queue'[Len(queue) + 1] = c
      /\ \A i \in 1..Len(queue) : queue'[i] = queue[i] /\ queue[i] \in Callers
      /\ queue' \in Seq(Callers)
  OBVIOUS
<1>2. \A i \in 1..Len(queue) : queue[i] # c
  BY DEF QueueHolds
<1>3. Len(queue) \in Nat /\ \A i \in 1..Len(queue') : i = Len(queue) + 1 \/ i \in 1..Len(queue)
  BY <1>1
<1>4. \A i, j \in 1..Len(queue') : queue'[i] = queue'[j] => i = j
  BY <1>1, <1>2, <1>3 DEF QueueHolds
<1>5. at'[c] = "lock" /\ \A d \in Callers : at[d] = "lock" => at'[d] = "lock"
  OBVIOUS
<1>6. \A i \in 1..Len(queue') : at'[queue'[i]] = "lock"
  BY <1>1, <1>3, <1>5 DEF QueueHolds
<1>7. QED
  BY <1>1, <1>4, <1>6 DEF QueueHolds

\* A new call: nothing is on the wire under its number.
LEMMA CallKeepsSubmit ==
  ASSUME SubmitInv, NEW c \in Callers, NEW o \in Private \cup {"get"}, Call(c, o)
  PROVE  SubmitInv'
<1> USE LimiterAssumption DEF SubmitInv
<1>1. /\ at[c] = "idle" /\ calls[c] < MaxOps
      /\ op' = [op EXCEPT ![c] = o]
      /\ attempt' = [attempt EXCEPT ![c] = 0]
      /\ calls' = [calls EXCEPT ![c] = @ + 1]
      /\ at' = [at EXCEPT ![c] = "lock"]
      /\ queue' = Append(queue, c)
      /\ UNCHANGED <<wire, opened>>
  BY DEF Call, market
<1> HIDE DEF SubmitInv
<1>2. CallsTyped /\ QueueHolds /\ WireHolds /\ SubmissionsHold /\ OneOrderPerCall
  BY DEF SubmitInv
<1>3. QueueHolds' /\ queue' \in Seq(Callers)
  BY <1>1, <1>2, JoinsQueue
<1>4. calls[c] + 1 \in Calls /\ calls'[c] = calls[c] + 1
  BY <1>1, <1>2 DEF CallsTyped, Calls
<1>5. CallsTyped'
  BY <1>1, <1>2, <1>3, <1>4 DEF CallsTyped
<1>6. WireHolds'
  BY <1>1, <1>2 DEF CallsTyped, WireHolds, Submits, Calls
<1>7. SubmissionsHold'
  <2>1. \A d \in Callers : at'[d] = "backoff" => op'[d] # "trade"
    BY <1>1, <1>2 DEF CallsTyped, SubmissionsHold
  <2>2. opened[c][calls'[c]] = 0
    BY <1>1, <1>2, <1>4 DEF CallsTyped, SubmissionsHold
  <2>3. \A r \in wire : ~ (r.by = c /\ r.call = calls'[c])
    BY <1>1, <1>2, <1>4 DEF CallsTyped, WireHolds, Calls
  <2>4. \A d \in Callers, k \in Calls : k > calls'[d] => opened[d][k] = 0
    BY <1>1, <1>2, <1>4 DEF CallsTyped, SubmissionsHold, Calls
  <2>5. \A d \in Callers : d # c => at'[d] = at[d] /\ op'[d] = op[d] /\ calls'[d] = calls[d]
    BY <1>1, <1>2 DEF CallsTyped
  <2> QED
    BY <1>1, <1>2, <2>1, <2>2, <2>3, <2>4, <2>5 DEF SubmissionsHold, Submits
<1>8. OneOrderPerCall'
  BY <1>1, <1>2 DEF OneOrderPerCall
<1> QED
  BY <1>3, <1>5, <1>6, <1>7, <1>8 DEF SubmitInv

\* Another attempt sends what opened nothing.
LEMMA AgainKeepsSubmit ==
  ASSUME SubmitInv, NEW c \in Callers, Again(c)
  PROVE  SubmitInv'
<1>1. /\ at[c] = "backoff"
      /\ attempt' = [attempt EXCEPT ![c] = @ + 1]
      /\ at' = [at EXCEPT ![c] = "lock"]
      /\ queue' = Append(queue, c)
      /\ UNCHANGED <<op, calls, wire, opened>>
  BY DEF Again, market
<1>2. CallsTyped /\ QueueHolds /\ WireHolds /\ SubmissionsHold /\ OneOrderPerCall
  BY DEF SubmitInv
<1>3. QueueHolds' /\ queue' \in Seq(Callers)
  BY <1>1, <1>2, JoinsQueue
<1>5. CallsTyped'
  BY <1>1, <1>2, <1>3 DEF CallsTyped
<1>6. WireHolds'
  BY <1>1, <1>2 DEF WireHolds, Submits
<1>7. SubmissionsHold'
  BY <1>1, <1>2 DEF CallsTyped, SubmissionsHold, Submits
<1>8. OneOrderPerCall'
  BY <1>1, <1>2 DEF OneOrderPerCall
<1> QED
  BY <1>3, <1>5, <1>6, <1>7, <1>8 DEF SubmitInv

\* The holder leaves the queue and its request is the only one of its call.
LEMMA GrantKeepsSubmit ==
  ASSUME SubmitInv, NEW c \in Callers, Grant(c)
  PROVE  SubmitInv'
<1> DEFINE q == [by |-> c, call |-> calls[c], op |-> op[c],
                 n |-> attempt[c], stamp |-> now]
<1>1. /\ queue # <<>> /\ c = queue[1] /\ queue' = Tail(queue)
      /\ wire' = wire \cup {q}
      /\ at' = [at EXCEPT ![c] = "wire"]
      /\ UNCHANGED <<op, attempt, calls, opened>>
  BY DEF Grant, Holder
<1>2. CallsTyped /\ QueueHolds /\ WireHolds /\ SubmissionsHold /\ OneOrderPerCall
  BY DEF SubmitInv
<1>3. q.op = op[c] /\ q.by = c /\ q.call = calls[c]
  OBVIOUS
<1> HIDE DEF q
<1>4. at[c] = "lock" /\ calls[c] \in Calls
  BY <1>1, <1>2 DEF QueueHolds, CallsTyped
<1>5. /\ Len(queue') = Len(queue) - 1 /\ queue' \in Seq(Callers)
      /\ \A i \in 1..Len(queue') : i + 1 \in 1..Len(queue) /\ queue'[i] = queue[i + 1]
  BY <1>1, <1>2 DEF CallsTyped
<1>6. \A i \in 1..Len(queue') : queue'[i] # c
  BY <1>1, <1>2, <1>5 DEF QueueHolds, CallsTyped
<1>7. QueueHolds'
  BY <1>1, <1>2, <1>5, <1>6 DEF CallsTyped, QueueHolds
<1>8. CallsTyped'
  BY <1>1, <1>2, <1>3, <1>4, <1>5 DEF CallsTyped
<1>9. WireHolds'
  BY <1>1, <1>2, <1>3, <1>4 DEF CallsTyped, WireHolds, SubmissionsHold, Submits
<1>10. SubmissionsHold'
  BY <1>1, <1>2, <1>3 DEF CallsTyped, WireHolds, SubmissionsHold, Submits
<1>11. OneOrderPerCall'
  BY <1>1, <1>2 DEF OneOrderPerCall
<1> QED
  BY <1>7, <1>8, <1>9, <1>10, <1>11 DEF SubmitInv

\* A submission is never retried: Retries is 0 for it.
LEMMA TransportKeepsSubmit ==
  ASSUME SubmitInv, NEW c \in Callers, TransportFails(c)
  PROVE  SubmitInv'
<1>1. /\ at[c] = "wire"
      /\ \/ at' = [at EXCEPT ![c] = "idle"]
         \/ ~ (attempt[c] >= Retries(c)) /\ at' = [at EXCEPT ![c] = "backoff"]
      /\ UNCHANGED <<queue, op, attempt, calls, wire, opened>>
  BY DEF TransportFails, Await, limiter, market
<1>2. CallsTyped /\ QueueHolds /\ WireHolds /\ SubmissionsHold /\ OneOrderPerCall
  BY DEF SubmitInv
<1>3. op[c] = "trade" => attempt[c] >= Retries(c)
  BY <1>2 DEF CallsTyped, Retries
<1>4. CallsTyped'
  BY <1>1, <1>2 DEF CallsTyped
<1>a. \A i \in 1..Len(queue) : queue[i] \in Callers /\ queue[i] # c
  BY <1>1, <1>2 DEF CallsTyped, QueueHolds
<1>b. \A i \in 1..Len(queue) : at'[queue[i]] = at[queue[i]]
  BY <1>1, <1>2, <1>a DEF CallsTyped
<1>c. QueueHolds'
  BY <1>1, <1>2, <1>b DEF QueueHolds
<1>5. WireHolds' /\ OneOrderPerCall'
  BY <1>1, <1>2 DEF WireHolds, Submits, OneOrderPerCall
<1>6. SubmissionsHold'
  BY <1>1, <1>2, <1>3 DEF CallsTyped, SubmissionsHold, Submits
<1> QED
  BY <1>4, <1>c, <1>5, <1>6 DEF SubmitInv

\* An answer ends the attempt.
LEMMA AnswersKeepSubmit ==
  ASSUME SubmitInv, NEW c \in Callers, Busy(c) \/ Returns(c)
  PROVE  SubmitInv'
<1>1. /\ at[c] = "wire"
      /\ \/ at' = [at EXCEPT ![c] = "idle"]
         \/ op[c] = "get" /\ at' = [at EXCEPT ![c] = "backoff"]
      /\ UNCHANGED <<queue, op, attempt, calls, wire, opened>>
  BY DEF Busy, Returns, Await, limiter, market
<1>2. CallsTyped /\ QueueHolds /\ WireHolds /\ SubmissionsHold /\ OneOrderPerCall
  BY DEF SubmitInv
<1>4. CallsTyped'
  BY <1>1, <1>2 DEF CallsTyped
<1>a. \A i \in 1..Len(queue) : queue[i] \in Callers /\ queue[i] # c
  BY <1>1, <1>2 DEF CallsTyped, QueueHolds
<1>b. \A i \in 1..Len(queue) : at'[queue[i]] = at[queue[i]]
  BY <1>1, <1>2, <1>a DEF CallsTyped
<1>c. QueueHolds'
  BY <1>1, <1>2, <1>b DEF QueueHolds
<1>5. WireHolds' /\ OneOrderPerCall'
  BY <1>1, <1>2 DEF WireHolds, Submits, OneOrderPerCall
<1>6. SubmissionsHold'
  BY <1>1, <1>2 DEF CallsTyped, SubmissionsHold, Submits
<1> QED
  BY <1>4, <1>c, <1>5, <1>6 DEF SubmitInv

\* The exchange takes a submission from the wire and opens its order.
LEMMA ArriveKeepsSubmit ==
  ASSUME SubmitInv, NEW r \in wire, Arrive(r)
  PROVE  SubmitInv'
<1>1. /\ wire' = wire \ {r}
      /\ \/ opened' = opened
         \/ r.op = "trade" /\ opened' = [opened EXCEPT ![r.by][r.call] = @ + 1]
      /\ UNCHANGED <<queue, at, op, attempt, calls>>
  BY DEF Arrive, Carry, limiter
<1>2. CallsTyped /\ QueueHolds /\ WireHolds /\ SubmissionsHold /\ OneOrderPerCall
  BY DEF SubmitInv
<1>3. r.by \in Callers /\ r.call \in Calls
  BY <1>2 DEF CallsTyped
<1>4. CASE opened' = opened
  BY <1>1, <1>2, <1>4
  DEF SubmitInv, CallsTyped, QueueHolds, WireHolds, SubmissionsHold, Submits,
      OneOrderPerCall
<1>5. CASE r.op = "trade" /\ opened' = [opened EXCEPT ![r.by][r.call] = @ + 1]
  <2>1. /\ opened' \in [Callers -> [Calls -> Nat]]
        /\ opened'[r.by][r.call] = 1
        /\ \A c \in Callers, k \in Calls :
             c # r.by \/ k # r.call => opened'[c][k] = opened[c][k]
    BY <1>2, <1>3, <1>5 DEF CallsTyped, WireHolds, Submits
  <2>2. CallsTyped' /\ QueueHolds'
    BY <1>1, <1>2, <2>1 DEF CallsTyped, QueueHolds
  <2>3. WireHolds'
    BY <1>1, <1>2, <1>3, <1>5, <2>1 DEF CallsTyped, WireHolds, Submits
  <2>4. SubmissionsHold'
    <3>1. r.call <= calls[r.by] /\ Submits(r)
      BY <1>2, <1>5 DEF WireHolds, Submits
    <3>2. \A c \in Callers, k \in Calls :
            k > calls[c] => opened'[c][k] = opened[c][k]
      BY <1>2, <2>1, <3>1 DEF CallsTyped, Calls
    <3>3. \A c \in Callers :
            at[c] = "lock" /\ op[c] = "trade" =>
              calls[c] \in Calls /\ opened'[c][calls[c]] = opened[c][calls[c]]
      BY <1>2, <2>1, <3>1 DEF CallsTyped, SubmissionsHold
    <3> QED
      BY <1>1, <1>2, <3>2, <3>3 DEF SubmissionsHold, Submits
  <2>5. OneOrderPerCall'
    BY <1>2, <1>3, <2>1 DEF OneOrderPerCall
  <2> QED
    BY <2>2, <2>3, <2>4, <2>5 DEF SubmitInv
<1> QED
  BY <1>1, <1>4, <1>5

\* The other steps concern no submission.
LEMMA OthersKeepSubmit ==
  ASSUME UNCHANGED <<queue, at, op, attempt, calls, wire, opened>>, SubmitInv
  PROVE  SubmitInv'
  BY DEF SubmitInv, CallsTyped, QueueHolds, WireHolds, SubmissionsHold, Submits,
         OneOrderPerCall

\* Every step keeps it.
LEMMA SubmitStep == SubmitInv /\ [ApiNext]_apiVars => SubmitInv'
<1> SUFFICES ASSUME SubmitInv, [ApiNext]_apiVars
             PROVE  SubmitInv'
  OBVIOUS
<1>1. CASE ClockTicks
  BY <1>1, OthersKeepSubmit DEF ClockTicks, tasks, market
<1>2. ASSUME NEW c \in Callers, Grant(c) PROVE SubmitInv'
  BY <1>2, GrantKeepsSubmit
<1>3. ASSUME NEW c \in Callers, Throttle(c) PROVE SubmitInv'
  BY <1>3, OthersKeepSubmit DEF Throttle, tasks, market
<1>4. ASSUME NEW c \in Callers, NEW o \in Private \cup {"get"}, Call(c, o)
      PROVE  SubmitInv'
  BY <1>4, CallKeepsSubmit
<1>5. ASSUME NEW c \in Callers, TransportFails(c) PROVE SubmitInv'
  BY <1>5, TransportKeepsSubmit
<1>6. ASSUME NEW c \in Callers, Busy(c) \/ Returns(c) PROVE SubmitInv'
  BY <1>6, AnswersKeepSubmit
<1>7. ASSUME NEW c \in Callers, Again(c) PROVE SubmitInv'
  BY <1>7, AgainKeepsSubmit
<1>8. ASSUME NEW c \in Callers, NEW k \in Calls, Fills(c, k) PROVE SubmitInv'
  BY <1>8, OthersKeepSubmit DEF Fills, limiter, tasks
<1>9. ASSUME NEW r \in wire, Arrive(r) PROVE SubmitInv'
  BY <1>9, ArriveKeepsSubmit
<1>10. CASE UNCHANGED apiVars
  BY <1>10, OthersKeepSubmit DEF apiVars, limiter, tasks, market
<1> QED
  BY <1>1, <1>2, <1>3, <1>4, <1>5, <1>6, <1>7, <1>8, <1>9, <1>10
  DEF ApiNext, OutOfTime

\* What is known of submissions holds throughout.
LEMMA SubmitInvHolds == ApiSpec => []SubmitInv
  BY SubmitStarts, SubmitStep, PTL DEF ApiSpec

\* One call of place_limit opens at most one order: retries = 0 for
\* NON_IDEMPOTENT (PrivateReadOnlyClient.legacy).
THEOREM OneOrderHolds == ApiSpec => []OneOrderPerCall
<1>1. SubmitInv => OneOrderPerCall
  BY DEF SubmitInv
<1>2. QED
  BY <1>1, SubmitInvHolds, PTL

-----------------------------------------------------------------------------
(* What a cancel is told.  An order that was opened stays known; once it   *)
(* is gone no submission is left that could open it again.                 *)

OrdersTyped ==
  /\ order \in [Callers -> [Calls -> {"none", "live", "gone"}]]
  /\ answer \in [Callers -> {"none", "ok", "not found", "busy", "stale",
                             "done", "raised"}]
  /\ \A c \in Callers : op[c] # "none" => calls[c] \in Calls

\* The exchange knows an order from the moment it was opened.
OpenedIsKnown ==
  \A c \in Callers, k \in Calls : order[c][k] # "none" <=> opened[c][k] # 0

\* A request of the call that is being made asks what the call asks.
RequestsMatch == \A r \in wire : r.call = calls[r.by] => r.op = op[r.by]

\* A submission that was told "ok" has opened its order.
SubmissionIsOpened ==
  \A c \in Callers :
    op[c] = "trade" /\ answer[c] \in {"ok", "done"} => opened[c][calls[c]] # 0

\* A cancel, and a cancel on the wire, is about an order that was opened.
CancelsOpened ==
  /\ \A c \in Callers :
       op[c] = "cancel" => calls[c] - 1 \in Calls /\ opened[c][calls[c] - 1] # 0
  /\ \A r \in wire :
       r.op = "cancel" => r.call - 1 \in Calls /\ opened[r.by][r.call - 1] # 0

\* A cancel that was told "ok" or "not found" is about an order that is gone.
CancelTold ==
  \A c \in Callers :
    op[c] = "cancel" /\ answer[c] \in {"ok", "not found", "done"}
    => order[c][calls[c] - 1] = "gone"

CancelInv ==
  /\ OrdersTyped /\ OpenedIsKnown /\ RequestsMatch
  /\ SubmissionIsOpened /\ CancelsOpened /\ CancelTold

\* Nothing was submitted or cancelled at the start.
LEMMA CancelStarts == ApiInit => CancelInv
  BY LimiterAssumption
  DEF ApiInit, CancelInv, OrdersTyped, OpenedIsKnown, RequestsMatch,
      SubmissionIsOpened, CancelsOpened, CancelTold

\* A new call has no request on the wire; a cancel follows a submission that
\* was told its order.
LEMMA CallKeepsCancel ==
  ASSUME SubmitInv, CancelInv, NEW c \in Callers, NEW o \in Private \cup {"get"}, Call(c, o)
  PROVE  CancelInv'
<1>1. /\ calls[c] < MaxOps
      /\ o = "cancel" => op[c] = "trade" /\ answer[c] = "done"
      /\ op' = [op EXCEPT ![c] = o]
      /\ answer' = [answer EXCEPT ![c] = "none"]
      /\ calls' = [calls EXCEPT ![c] = @ + 1]
      /\ UNCHANGED <<wire, order, opened>>
  BY DEF Call, market
<1>2. CallsTyped /\ WireHolds
  BY DEF SubmitInv
<1>3. OrdersTyped /\ OpenedIsKnown /\ RequestsMatch /\ SubmissionIsOpened /\ CancelsOpened /\ CancelTold
  BY DEF CancelInv
<1>4. calls[c] \in Nat /\ calls[c] + 1 \in Calls /\ calls'[c] = calls[c] + 1
  BY <1>1, <1>2, LimiterAssumption DEF CallsTyped, Calls
<1>5. \A d \in Callers : d # c => op'[d] = op[d] /\ answer'[d] = answer[d] /\ calls'[d] = calls[d]
  BY <1>1, <1>2, <1>3 DEF CallsTyped, OrdersTyped
<1>6. op'[c] = o /\ answer'[c] = "none"
  BY <1>1, <1>2, <1>3 DEF CallsTyped, OrdersTyped
<1>7. OrdersTyped'
  BY <1>1, <1>3, <1>4, <1>5 DEF OrdersTyped
<1>8. OpenedIsKnown'
  BY <1>1, <1>3 DEF OpenedIsKnown
<1>9. RequestsMatch'
  <2>1. \A r \in wire : r.by = c => r.call <= calls[c] /\ r.call \in Nat
    BY <1>2 DEF WireHolds, CallsTyped, Calls
  <2>2. QED
    BY <1>1, <1>2, <1>3, <1>4, <1>5, <2>1 DEF RequestsMatch, CallsTyped
<1>10. SubmissionIsOpened'
  BY <1>1, <1>3, <1>5, <1>6 DEF SubmissionIsOpened
<1>11. CancelsOpened'
  <2>a. calls'[c] - 1 = calls[c]
    BY <1>4
  <2>b. o = "cancel" => calls[c] \in Calls
    BY <1>1, <1>3 DEF OrdersTyped
  <2>c. o = "cancel" => opened[c][calls[c]] # 0
    BY <1>1, <1>3 DEF SubmissionIsOpened
  <2>1. o = "cancel" => calls'[c] - 1 \in Calls /\ opened[c][calls'[c] - 1] # 0
    BY <2>a, <2>b, <2>c
  <2>2. QED
    BY <1>1, <1>3, <1>5, <1>6, <2>1 DEF CancelsOpened
<1>12. CancelTold'
  <2>1. SUFFICES ASSUME NEW d \in Callers, op'[d] = "cancel",
                        answer'[d] \in {"ok", "not found", "done"}
                 PROVE  order'[d][calls'[d] - 1] = "gone"
    BY Zenon DEF CancelTold
  <2>2. d # c
    BY <1>6, <2>1
  <2>3. op[d] = "cancel" /\ answer[d] \in {"ok", "not found", "done"} /\ calls'[d] = calls[d]
    BY <1>5, <2>1, <2>2
  <2>4. order[d][calls[d] - 1] = "gone"
    BY <1>3, <2>3, Zenon DEF CancelTold
  <2>5. QED
    BY <1>1, <2>3, <2>4
<1>13. QED
  BY <1>7, <1>8, <1>9, <1>10, <1>11, <1>12 DEF CancelInv

\* The request that is sent asks what the call asks.
LEMMA GrantKeepsCancel ==
  ASSUME SubmitInv, CancelInv, NEW c \in Callers, Grant(c)
  PROVE  CancelInv'
<1>1. /\ wire' = wire \cup {[by |-> c, call |-> calls[c], op |-> op[c],
                             n |-> attempt[c], stamp |-> now]}
      /\ UNCHANGED <<op, answer, calls, order, opened>>
  BY DEF Grant
<1> DEFINE q == [by |-> c, call |-> calls[c], op |-> op[c], n |-> attempt[c], stamp |-> now]
<1>2. wire' = wire \cup {q} /\ q.by = c /\ q.call = calls[c] /\ q.op = op[c]
  BY <1>1
<1> HIDE DEF q
<1>3. QED
  BY <1>1, <1>2
  DEF CancelInv, OrdersTyped, OpenedIsKnown, RequestsMatch, SubmissionIsOpened, CancelsOpened, CancelTold

\* A call goes on, or ends, and tells no more than it was told.
LEMMA CallerKeepsCancel ==
  ASSUME CancelInv, NEW c \in Callers, NEW a \in {"none", "done", "raised"},
         answer' = [answer EXCEPT ![c] = a], a = "done" => Succeeds(c),
         UNCHANGED <<op, calls, wire, order, opened>>
  PROVE  CancelInv'
<1>1. OrdersTyped /\ SubmissionIsOpened /\ CancelTold
  BY DEF CancelInv
<1>2. \A d \in Callers : answer'[d] = IF d = c THEN a ELSE answer[d]
  BY <1>1 DEF OrdersTyped
<1>3. OrdersTyped'
  BY <1>1 DEF OrdersTyped
<1>4. SubmissionIsOpened'
  BY <1>1, <1>2 DEF SubmissionIsOpened, Succeeds
<1>5. CancelTold'
  BY <1>1, <1>2 DEF CancelTold, Succeeds
<1>6. QED
  BY <1>3, <1>4, <1>5 DEF CancelInv, OpenedIsKnown, RequestsMatch, CancelsOpened

\* An order that is matched is gone.
LEMMA FillsKeepCancel ==
  ASSUME CancelInv, NEW c \in Callers, NEW k \in Calls, Fills(c, k)
  PROVE  CancelInv'
<1>1. /\ order[c][k] = "live"
      /\ order' = [order EXCEPT ![c][k] = "gone"]
      /\ UNCHANGED <<op, answer, calls, wire, opened>>
  BY DEF Fills, limiter, tasks
<1>2. OrdersTyped /\ OpenedIsKnown /\ CancelsOpened /\ CancelTold
  BY DEF CancelInv
<1>3. \A d \in Callers, j \in Calls :
        order'[d][j] = IF d = c /\ j = k THEN "gone" ELSE order[d][j]
  BY <1>1, <1>2 DEF OrdersTyped
<1>a. OrdersTyped'
  BY <1>1, <1>2 DEF OrdersTyped
<1>b. \A d \in Callers, j \in Calls : order'[d][j] # "none" <=> order[d][j] # "none"
  BY <1>1, <1>3
<1>4. OrdersTyped' /\ OpenedIsKnown'
  BY <1>1, <1>2, <1>a, <1>b DEF OpenedIsKnown
<1>5. CancelTold'
  <2>1. SUFFICES ASSUME NEW d \in Callers, op'[d] = "cancel",
                        answer'[d] \in {"ok", "not found", "done"}
                 PROVE  order'[d][calls'[d] - 1] = "gone"
    BY Zenon DEF CancelTold
  <2>2. op[d] = "cancel" /\ answer[d] \in {"ok", "not found", "done"} /\ calls'[d] = calls[d]
    BY <1>1, <2>1
  <2>3. order[d][calls[d] - 1] = "gone" /\ calls[d] - 1 \in Calls
    BY <1>2, <2>2, Zenon DEF CancelTold, CancelsOpened
  <2>4. QED
    BY <1>3, <2>2, <2>3
<1>6. QED
  BY <1>1, <1>4, <1>5 DEF CancelInv, RequestsMatch, SubmissionIsOpened, CancelsOpened

\* What the exchange does with a request and what it answers: the order of a
\* cancel that was taken, or not found, is gone; none that is gone is opened
\* again.
LEMMA CarriedOut ==
  ASSUME SubmitInv, CancelInv, NEW r \in wire, Arrive(r)
  PROVE  \E a \in {"none", "ok", "not found", "busy", "stale"} :
           /\ wire' = wire \ {r}
           /\ UNCHANGED <<op, calls>>
           /\ answer' \in [Callers -> {"none", "ok", "not found", "busy", "stale", "done", "raised"}]
           /\ \A c \in Callers : answer'[c] = answer[c] \/ (c = r.by /\ calls[c] = r.call /\ answer'[c] = a)
           /\ order' \in [Callers -> [Calls -> {"none", "live", "gone"}]]
           /\ \A c \in Callers, k \in Calls : order[c][k] = "gone" => order'[c][k] = "gone"
           /\ \A c \in Callers, k \in Calls : opened[c][k] # 0 => opened'[c][k] # 0
           /\ OpenedIsKnown'
           /\ r.op = "trade" /\ a = "ok" => opened'[r.by][r.call] # 0
           /\ r.op = "cancel" /\ a \in {"ok", "not found"} => order'[r.by][r.call - 1] = "gone"
           /\ r.op # "cancel" => a # "not found"
<1>1. CallsTyped /\ WireHolds /\ OrdersTyped /\ OpenedIsKnown /\ CancelsOpened
  BY DEF SubmitInv, CancelInv
<1>2. r.by \in Callers /\ r.call \in Calls
  BY <1>1 DEF CallsTyped
<1>3. wire' = wire \ {r} /\ UNCHANGED <<op, calls>>
  BY DEF Arrive
<1> DEFINE Heard(a) ==
      /\ answer' \in [Callers -> {"none", "ok", "not found", "busy", "stale", "done", "raised"}]
      /\ \A c \in Callers : answer'[c] = answer[c] \/ (c = r.by /\ calls[c] = r.call /\ answer'[c] = a)
<1>4. ASSUME NEW a \in {"none", "ok", "not found", "busy", "stale"}, Hears(r, a) PROVE Heard(a)
  <2>1. answer \in [Callers -> {"none", "ok", "not found", "busy", "stale", "done", "raised"}]
    BY <1>1 DEF OrdersTyped
  <2>2. \/ answer' = answer
        \/ calls[r.by] = r.call /\ answer' = [answer EXCEPT ![r.by] = a]
    BY <1>4 DEF Hears
  <2>3. QED
    BY <1>2, <2>1, <2>2
<1>5. \/ Hears(r, "stale") /\ UNCHANGED <<order, opened>>
      \/ Hears(r, Verdict(r)) /\ Carry(r)
      \/ Hears(r, "busy") /\ Carry(r)
      \/ Hears(r, "busy") /\ UNCHANGED <<order, opened>>
  BY DEF Arrive
<1>6. Verdict(r) \in {"ok", "not found"} /\ (r.op # "cancel" => Verdict(r) = "ok")
  BY DEF Verdict
<1> DEFINE Kept ==
      /\ order' \in [Callers -> [Calls -> {"none", "live", "gone"}]]
      /\ \A c \in Callers, k \in Calls : order[c][k] = "gone" => order'[c][k] = "gone"
      /\ \A c \in Callers, k \in Calls : opened[c][k] # 0 => opened'[c][k] # 0
      /\ OpenedIsKnown'
<1>7. ASSUME UNCHANGED <<order, opened>> PROVE Kept
  BY <1>1, <1>7 DEF OrdersTyped, OpenedIsKnown
<1>8. ASSUME Carry(r)
      PROVE  /\ Kept
             /\ r.op = "trade" => opened'[r.by][r.call] # 0
             /\ r.op = "cancel" => order'[r.by][r.call - 1] = "gone"
  <2>1. CASE r.op \in {"read", "get"} /\ UNCHANGED <<order, opened>>
    BY <2>1, <1>7
  <2>2. CASE /\ r.op = "trade"
             /\ order' = [order EXCEPT ![r.by][r.call] = "live"]
             /\ opened' = [opened EXCEPT ![r.by][r.call] = @ + 1]
    <3>1. opened[r.by][r.call] = 0 /\ order[r.by][r.call] = "none"
      BY <1>1, <1>2, <2>2 DEF WireHolds, Submits, OpenedIsKnown
    <3>2. \A c \in Callers, k \in Calls :
            /\ order'[c][k] = IF c = r.by /\ k = r.call THEN "live" ELSE order[c][k]
            /\ opened'[c][k] = IF c = r.by /\ k = r.call THEN 1 ELSE opened[c][k]
      <4>1. order \in [Callers -> [Calls -> {"none", "live", "gone"}]] /\ opened \in [Callers -> [Calls -> Nat]]
        BY <1>1 DEF OrdersTyped, CallsTyped
      <4>2. \A c \in Callers, k \in Calls : order'[c][k] = IF c = r.by /\ k = r.call THEN "live" ELSE order[c][k]
        BY <1>2, <2>2, <4>1
      <4>3. \A c \in Callers, k \in Calls :
              opened'[c][k] = IF c = r.by /\ k = r.call THEN opened[c][k] + 1 ELSE opened[c][k]
        BY <1>2, <2>2, <4>1
      <4>4. QED
        BY <4>2, <4>3, <3>1
    <3>3. order' \in [Callers -> [Calls -> {"none", "live", "gone"}]]
      BY <1>1, <1>2, <2>2 DEF OrdersTyped
    <3>4. QED
      BY <1>1, <1>2, <2>2, <3>1, <3>2, <3>3 DEF OpenedIsKnown
  <2>3. CASE /\ r.op = "cancel"
             /\ order' = [order EXCEPT ![r.by][r.call - 1] = "gone"]
             /\ UNCHANGED opened
    <3>1. r.call - 1 \in Calls /\ opened[r.by][r.call - 1] # 0
      BY <1>1, <2>3 DEF CancelsOpened
    <3>2. \A c \in Callers, k \in Calls :
            order'[c][k] = IF c = r.by /\ k = r.call - 1 THEN "gone" ELSE order[c][k]
      BY <1>1, <1>2, <2>3, <3>1 DEF OrdersTyped
    <3>3. order' \in [Callers -> [Calls -> {"none", "live", "gone"}]]
      BY <1>1, <1>2, <2>3 DEF OrdersTyped
    <3>4. QED
      BY <1>1, <1>2, <2>3, <3>1, <3>2, <3>3 DEF OpenedIsKnown
  <2>4. QED
    BY <1>8, <2>1, <2>2, <2>3 DEF Carry
<1> HIDE DEF Heard, Kept
<1>9. CASE Hears(r, "stale") /\ UNCHANGED <<order, opened>>
  BY <1>3, <1>4, <1>7, <1>9 DEF Heard, Kept
<1>10. CASE Hears(r, Verdict(r)) /\ Carry(r)
  <2>1. Heard(Verdict(r))
    BY <1>4, <1>6, <1>10
  <2>2. QED
    BY <1>3, <1>6, <1>8, <1>10, <2>1 DEF Heard, Kept
<1>11. CASE Hears(r, "busy") /\ Carry(r)
  BY <1>3, <1>4, <1>8, <1>11 DEF Heard, Kept
<1>12. CASE Hears(r, "busy") /\ UNCHANGED <<order, opened>>
  BY <1>3, <1>4, <1>7, <1>12 DEF Heard, Kept
<1>13. QED
  BY <1>5, <1>9, <1>10, <1>11, <1>12

\* The exchange takes a request from the wire.
LEMMA ArriveKeepsCancel ==
  ASSUME SubmitInv, CancelInv, NEW r \in wire, Arrive(r)
  PROVE  CancelInv'
<1>1. CallsTyped /\ OrdersTyped /\ RequestsMatch /\ SubmissionIsOpened /\ CancelsOpened /\ CancelTold
  BY DEF SubmitInv, CancelInv
<1>2. PICK a \in {"none", "ok", "not found", "busy", "stale"} :
           /\ wire' = wire \ {r}
           /\ UNCHANGED <<op, calls>>
           /\ answer' \in [Callers -> {"none", "ok", "not found", "busy", "stale", "done", "raised"}]
           /\ \A c \in Callers : answer'[c] = answer[c] \/ (c = r.by /\ calls[c] = r.call /\ answer'[c] = a)
           /\ order' \in [Callers -> [Calls -> {"none", "live", "gone"}]]
           /\ \A c \in Callers, k \in Calls : order[c][k] = "gone" => order'[c][k] = "gone"
           /\ \A c \in Callers, k \in Calls : opened[c][k] # 0 => opened'[c][k] # 0
           /\ OpenedIsKnown'
           /\ r.op = "trade" /\ a = "ok" => opened'[r.by][r.call] # 0
           /\ r.op = "cancel" /\ a \in {"ok", "not found"} => order'[r.by][r.call - 1] = "gone"
           /\ r.op # "cancel" => a # "not found"
  BY CarriedOut
<1>3. r.by \in Callers /\ r.call \in Calls
  BY <1>1 DEF CallsTyped
<1>4. calls[r.by] = r.call => op[r.by] = r.op
  BY <1>1 DEF RequestsMatch
<1>5. OrdersTyped' /\ RequestsMatch'
  BY <1>1, <1>2 DEF OrdersTyped, RequestsMatch
<1>6. SubmissionIsOpened'
  <2> SUFFICES ASSUME NEW c \in Callers, op[c] = "trade", answer'[c] \in {"ok", "done"}
               PROVE  opened'[c][calls[c]] # 0
    BY <1>2 DEF SubmissionIsOpened
  <2>1. calls[c] \in Calls
    BY <1>1 DEF OrdersTyped
  <2>2. QED
    BY <1>1, <1>2, <1>4, <2>1 DEF SubmissionIsOpened
<1>7. CancelsOpened'
  <2>1. \A c \in Callers :
          op'[c] = "cancel" => calls'[c] - 1 \in Calls /\ opened'[c][calls'[c] - 1] # 0
    BY <1>1, <1>2 DEF CancelsOpened
  <2>2. \A s \in wire' : s.op = "cancel" => s.call - 1 \in Calls /\ opened'[s.by][s.call - 1] # 0
    <3> SUFFICES ASSUME NEW s \in wire, s.op = "cancel"
                 PROVE  s.call - 1 \in Calls /\ opened'[s.by][s.call - 1] # 0
      BY <1>2
    <3>1. s.by \in Callers /\ s.call - 1 \in Calls /\ opened[s.by][s.call - 1] # 0
      BY <1>1 DEF CancelsOpened, CallsTyped
    <3>2. QED
      BY <1>2, <3>1
  <2>3. QED
    BY <2>1, <2>2 DEF CancelsOpened
<1>8. CancelTold'
  <2> SUFFICES ASSUME NEW c \in Callers, op[c] = "cancel", answer'[c] \in {"ok", "not found", "done"}
               PROVE  order'[c][calls[c] - 1] = "gone"
    BY <1>2 DEF CancelTold
  <2>1. calls[c] - 1 \in Calls
    BY <1>1 DEF CancelsOpened
  <2>2. QED
    BY <1>1, <1>2, <1>4, <2>1 DEF CancelTold
<1>9. QED
  BY <1>2, <1>5, <1>6, <1>7, <1>8 DEF CancelInv

\* The other steps concern neither requests nor orders.
LEMMA OthersKeepCancel ==
  ASSUME UNCHANGED <<op, answer, calls, wire, order, opened>>, CancelInv
  PROVE  CancelInv'
  BY DEF CancelInv, OrdersTyped, OpenedIsKnown, RequestsMatch, SubmissionIsOpened,
         CancelsOpened, CancelTold

\* What is known of cancels holds throughout.
LEMMA CancelInvHolds == ApiSpec => []CancelInv
<1>1. SubmitInv /\ CancelInv /\ [ApiNext]_apiVars => CancelInv'
  <2> SUFFICES ASSUME SubmitInv, CancelInv, [ApiNext]_apiVars
               PROVE  CancelInv'
    OBVIOUS
  <2>1. CASE ClockTicks
    BY <2>1, OthersKeepCancel DEF ClockTicks, tasks, market
  <2>2. ASSUME NEW c \in Callers, Grant(c) PROVE CancelInv'
    BY <2>2, GrantKeepsCancel
  <2>3. ASSUME NEW c \in Callers, Throttle(c) PROVE CancelInv'
    BY <2>3, OthersKeepCancel DEF Throttle, tasks, market
  <2>4. ASSUME NEW c \in Callers, NEW o \in Private \cup {"get"}, Call(c, o)
        PROVE  CancelInv'
    BY <2>4, CallKeepsCancel
  <2>5. ASSUME NEW c \in Callers, TransportFails(c) \/ Busy(c) \/ Returns(c) PROVE CancelInv'
    <3>1. \E a \in {"none", "done", "raised"} :
            /\ answer' = [answer EXCEPT ![c] = a] /\ (a = "done" => Succeeds(c))
            /\ UNCHANGED <<op, calls, wire, order, opened>>
      BY <2>5 DEF TransportFails, Busy, Returns, limiter, market
    <3>2. QED
      BY <3>1, CallerKeepsCancel
  <2>6. ASSUME NEW c \in Callers, Again(c) PROVE CancelInv'
    BY <2>6, OthersKeepCancel DEF Again, market
  <2>7. ASSUME NEW c \in Callers, NEW k \in Calls, Fills(c, k) PROVE CancelInv'
    BY <2>7, FillsKeepCancel
  <2>8. ASSUME NEW r \in wire, Arrive(r) PROVE CancelInv'
    BY <2>8, ArriveKeepsCancel
  <2>9. CASE UNCHANGED apiVars
    BY <2>9, OthersKeepCancel DEF apiVars, tasks, market
  <2> QED
    BY <2>1, <2>2, <2>3, <2>4, <2>5, <2>6, <2>7, <2>8, <2>9
    DEF ApiNext, OutOfTime
<1>2. QED
  BY CancelStarts, SubmitInvHolds, <1>1, PTL DEF ApiSpec

\* When cancel returns without an error its order is off the book, whichever
\* attempt did it and whatever the earlier ones were told (cancel_order).
THEOREM CancelledOrdersAreGone == ApiSpec => []CancelledIsGone
<1>1. CancelInv => CancelledIsGone
  BY DEF CancelInv, CancelTold, CancelledIsGone
<1>2. QED
  BY <1>1, CancelInvHolds, PTL

-----------------------------------------------------------------------------
(* CandleFeed: multiples of the duration                                   *)

\* They grow with the factor, one duration at a time.
LEMMA TimesGrow ==
  ASSUME NEW j \in Int, NEW k \in Int
  PROVE  /\ j * Duration \in Int /\ (k + 1) * Duration = k * Duration + Duration
         /\ j < k <=> j * Duration < k * Duration
         /\ j <= k <=> j * Duration <= k * Duration
         /\ j = k <=> j * Duration = k * Duration
  BY FeedAssumption

\* The times at which a candle opens are the multiples.
LEMMA Opens ==
  ASSUME NEW x \in Int
  PROVE  x % Duration = 0 <=> \E k \in Int : x = k * Duration
<1>1. (x \div Duration) \in Int /\ (x % Duration = 0 <=> x = (x \div Duration) * Duration)
  BY FeedAssumption
<1>2. \A k \in Int : (k * Duration) % Duration = 0
  BY FeedAssumption
<1>3. QED
  BY <1>1, <1>2

\* The last period that is over.
LEMMA LastPeriod ==
  ASSUME NEW a \in Int
  PROVE  /\ (a \div Duration) \in Int
         /\ (a \div Duration) * Duration <= a
         /\ a < (a \div Duration) * Duration + Duration
  BY FeedAssumption

-----------------------------------------------------------------------------
(* Candles                                                                 *)

Bar(o) == [open |-> o, final |-> TRUE]

\* The candles that opened in a range and were closed at time t.
ClosedBars(from, to, t) == {Bar(x) : x \in {o \in from..to : o % Duration = 0 /\ o + Duration <= t}}

\* The k-th candle, counted from time zero.
Nth(k) == Bar(k * Duration)

\* A candle is known by its number.
LEMMA NthInjective ==
  ASSUME NEW j \in Int, NEW k \in Int
  PROVE  /\ Nth(j).open = j * Duration
         /\ Nth(j) = Nth(k) => j = k
         /\ Nth(j).open > Nth(k).open <=> k < j
<1>1. /\ Nth(j).open = j * Duration /\ Nth(k).open = k * Duration
  BY DEF Nth, Bar
<1>2. QED
  BY <1>1, TimesGrow

\* Consecutive candles are as many as their numbers.
LEMMA CountBars ==
  ASSUME NEW m \in Int, NEW n \in Int, m <= n + 1
  PROVE  Cardinality({Nth(k) : k \in m..n}) = n + 1 - m
<1> DEFINE S == m..n
           T == {Nth(k) : k \in S}
           f == [k \in S |-> Nth(k)]
<1>1. IsFiniteSet(S) /\ Cardinality(S) = n + 1 - m
  <2>1. IsFiniteSet(m..n) /\ Cardinality(m..n) = IF m > n THEN 0 ELSE n - m + 1
    BY FS_Interval
  <2>2. QED
    BY <2>1
<1>2. ExistsBijection(S, T)
  <2>1. f \in [S -> T] /\ \A t \in T : \E k \in S : f[k] = t
    OBVIOUS
  <2>2. \A j, k \in S : f[j] = f[k] => j = k
    BY NthInjective
  <2> HIDE DEF f, T, S
  <2>3. f \in Bijection(S, T)
    BY <2>1, <2>2 DEF Bijection, Injection, Surjection, IsInjective
  <2>4. QED
    BY <2>3 DEF ExistsBijection
<1> HIDE DEF S, T
<1>3. Cardinality(T) = Cardinality(S)
  BY <1>1, <1>2, FS_Bijection
<1>4. QED
  BY <1>1, <1>3 DEF S, T

\* Of the closed candles since Start(a), which may be one or two more than
\* asked for, the newest are the last closed ones.
LEMMA NewestIsLast ==
  ASSUME NEW a \in Int
  PROVE  Newest(ClosedBars(Start(a), a, a)) = LastClosed(a)
<1> DEFINE q == a \div Duration
           from == Start(a)
           K == {k \in Int : from <= k * Duration /\ k <= q - 1}
           B == ClosedBars(from, a, a)
<1>1. Duration \in Nat \ {0} /\ Lookback \in Nat \ {0}
  BY FeedAssumption
<1>2. q \in Int /\ q * Duration <= a /\ a < q * Duration + Duration
  BY LastPeriod
<1>3. from \in Int /\ from < (q - Lookback) * Duration
  <2>1. (q - Lookback) * Duration = q * Duration - Lookback * Duration
    BY <1>1, <1>2
  <2>2. Duration * (Lookback + 2) = Lookback * Duration + 2 * Duration
    BY <1>1
  <2>3. q * Duration \in Int /\ Lookback * Duration \in Int
    BY <1>1, <1>2
  <2> HIDE DEF q
  <2>4. QED
    BY <1>1, <1>2, <2>1, <2>2, <2>3 DEF Start
<1> HIDE DEF q, from
<1>4. ASSUME NEW k \in Int PROVE k * Duration + Duration <= a <=> k <= q - 1
  <2>1. (k + 1) * Duration = k * Duration + Duration /\ k * Duration \in Int /\ q * Duration \in Int
    BY <1>2, TimesGrow
  <2>2. CASE k <= q - 1
    <3>1. k + 1 \in Int /\ k + 1 <= q
      BY <1>2, <2>2
    <3>2. (k + 1) * Duration <= q * Duration
      BY <1>2, <3>1, TimesGrow
    <3>3. QED
      BY <1>1, <1>2, <2>1, <2>2, <3>2
  <2>3. CASE ~(k <= q - 1)
    <3>1. q <= k
      BY <1>2, <2>3
    <3>2. q * Duration <= k * Duration
      BY <1>2, <3>1, TimesGrow
    <3>3. QED
      BY <1>1, <1>2, <2>1, <2>3, <3>2
  <2>4. QED
    BY <2>2, <2>3
<1>5. B = {Nth(k) : k \in K}
  <2>1. ASSUME NEW x \in from..a, x % Duration = 0, x + Duration <= a
        PROVE  \E k \in K : Bar(x) = Nth(k)
    <3>1. x \in Int /\ from <= x
      BY <1>3
    <3>2. PICK k \in Int : x = k * Duration
      BY <2>1, <3>1, Opens
    <3>3. k \in K
      BY <1>4, <2>1, <3>1, <3>2
    <3>4. QED
      BY <3>2, <3>3 DEF Nth
  <2>2. ASSUME NEW k \in K
        PROVE  /\ k * Duration \in from..a /\ (k * Duration) % Duration = 0
               /\ k * Duration + Duration <= a
    <3>1. k \in Int /\ from <= k * Duration /\ k <= q - 1
      OBVIOUS
    <3>2. k * Duration \in Int /\ (k * Duration) % Duration = 0
      BY <3>1, TimesGrow, Opens
    <3>3. QED
      BY <1>1, <1>3, <1>4, <3>1, <3>2
  <2> HIDE DEF K
  <2>3. QED
    BY <2>1, <2>2 DEF ClosedBars, Nth
<1>6. ASSUME NEW k \in K, NEW j \in Int, k <= j, j <= q - 1 PROVE j \in K
  <2>1. k * Duration <= j * Duration /\ k * Duration \in Int /\ j * Duration \in Int
    BY <1>6, TimesGrow
  <2>2. QED
    BY <1>3, <1>6, <2>1
<1>7. ASSUME NEW k \in (q - Lookback)..(q - 1) PROVE k \in K
  <2>1. q - Lookback \in Int /\ k \in Int /\ q - Lookback <= k /\ k <= q - 1
    BY <1>1, <1>2
  <2>2. (q - Lookback) * Duration <= k * Duration
    BY <2>1, TimesGrow
  <2>3. (q - Lookback) * Duration \in Int /\ k * Duration \in Int
    BY <2>1, TimesGrow
  <2>4. QED
    BY <1>3, <2>1, <2>2, <2>3
<1>8. \A k \in K : k \in Int /\ k <= q - 1
  OBVIOUS
<1> HIDE DEF K, B
<1>9. ASSUME NEW k \in K
      PROVE  Cardinality({c \in B : c.open > Nth(k).open}) < Lookback <=> k \in (q - Lookback)..(q - 1)
  <2>1. k \in Int /\ k <= q - 1
    BY <1>8
  <2>2. {c \in B : c.open > Nth(k).open} = {Nth(j) : j \in (k + 1)..(q - 1)}
    <3>1. ASSUME NEW j \in K PROVE Nth(j).open > Nth(k).open <=> j \in (k + 1)..(q - 1)
      <4>1. j \in Int /\ j <= q - 1
        BY <1>8
      <4>2. Nth(j).open > Nth(k).open <=> k < j
        BY <2>1, <4>1, NthInjective
      <4>3. QED
        BY <1>2, <2>1, <4>1, <4>2
    <3>2. \A j \in (k + 1)..(q - 1) : j \in K
      BY <1>2, <1>6, <2>1
    <3>3. QED
      BY <1>5, <3>1, <3>2
  <2>3. Cardinality({Nth(j) : j \in (k + 1)..(q - 1)}) = q - 1 - k
    <3>1. k + 1 \in Int /\ q - 1 \in Int /\ k + 1 <= (q - 1) + 1
      BY <1>2, <2>1
    <3>2. Cardinality({Nth(j) : j \in (k + 1)..(q - 1)}) = (q - 1) + 1 - (k + 1)
      BY <3>1, CountBars
    <3>3. QED
      BY <1>2, <2>1, <3>2
  <2>4. PICK n : n = Cardinality({c \in B : c.open > Nth(k).open})
    OBVIOUS
  <2>5. n = q - 1 - k
    BY <2>2, <2>3, <2>4
  <2>6. n < Lookback <=> k \in (q - Lookback)..(q - 1)
    BY <1>1, <1>2, <2>1, <2>5
  <2>7. QED
    BY <2>4, <2>6
<1>10. Newest(B) = {Nth(k) : k \in (q - Lookback)..(q - 1)}
  BY <1>5, <1>7, <1>9 DEF Newest
<1>11. LastClosed(a) = {Nth(k) : k \in (q - Lookback)..(q - 1)}
  <2>1. LastClosed(a) = {Nth(q - i) : i \in 1..Lookback}
    BY DEF LastClosed, Nth, Bar, q
  <2>2. \A i \in 1..Lookback : q - i \in (q - Lookback)..(q - 1)
    BY <1>1, <1>2
  <2>3. \A k \in (q - Lookback)..(q - 1) : q - k \in 1..Lookback /\ q - (q - k) = k
    BY <1>1, <1>2
  <2>4. QED
    BY <2>1, <2>2, <2>3
<1>12. QED
  BY <1>10, <1>11 DEF B, from

-----------------------------------------------------------------------------
(* The inductive invariant.                                                *)

FeedTyped ==
  /\ lag \in Nat /\ moment \in Nat /\ lag <= moment
  /\ fetching \subseteq Fetchers
  /\ askedAt \in [Fetchers -> Nat] /\ cursor \in [Fetchers -> Int]
  /\ gathered = [f \in Fetchers |-> gathered[f]] /\ shown = [f \in Fetchers |-> shown[f]]

\* Of what was closed when a request began, its chunks have brought everything
\* up to the cursor, and nothing else.
Gathers(a, c, bars) ==
  /\ a <= moment /\ Start(a) <= c /\ c <= a + 1
  /\ ClosedOnly(bars, a) = ClosedBars(Start(a), c - 1, a)

FetchesKnown ==
  \A f \in Fetchers :
    IF f \in fetching THEN Gathers(askedAt[f], cursor[f], gathered[f]) ELSE gathered[f] = {}

Exact(c) == c # NoCandles => c.bars = LastClosed(c.at)
CandlesExact == Exact(store) /\ \A f \in Fetchers : Exact(shown[f])

FeedInv == FeedTyped /\ FetchesKnown /\ CandlesExact

\* Where a request starts.
LEMMA StartBefore == ASSUME NEW a \in Nat PROVE Start(a) \in Int /\ Start(a) <= a
<1>1. Duration * (Lookback + 2) \in Nat
  BY FeedAssumption
<1>2. QED
  BY <1>1 DEF Start

\* An answer holds the closed candles of its window, which is short enough.
LEMMA AnswerIsWhole ==
  ASSUME FeedTyped, NEW a \in Nat, a <= moment, NEW from \in Int, NEW to \in Int,
         to <= a, to - from < ServerSpan
  PROVE  ClosedOnly(History(from, to), a) = ClosedBars(from, to, a)
<1>1. Duration \in Nat \ {0} /\ ServerSpan \in Int /\ moment \in Nat
  BY FeedAssumption DEF FeedTyped
<1> DEFINE At(x) == [open |-> x, final |-> x + Duration <= moment]
<1>2. ASSUME NEW x \in Int, x + Duration <= a PROVE At(x) = Bar(x)
  <2>1. x + Duration <= moment
    BY <1>1, <1>2
  <2>2. (x + Duration <= moment) = TRUE
    BY <2>1
  <2>3. QED
    BY <2>2, Zenon DEF Bar
<1>3. \A x \in Int : At(x).open = x
  OBVIOUS
<1>4. \A x \in from..to : x \in Int /\ x <= moment /\ x > to - ServerSpan
  BY <1>1
<1>5. History(from, to) = {At(x) : x \in {o \in from..to : o % Duration = 0}}
  <2>1. {x \in from..to : x % Duration = 0 /\ x <= moment /\ x > to - ServerSpan}
          = {x \in from..to : x % Duration = 0}
    BY <1>4
  <2>2. QED
    BY <2>1, Zenon DEF History
<1> HIDE DEF At
<1>6. QED
  BY <1>2, <1>3, <1>4, <1>5 DEF ClosedOnly, ClosedBars

\* Two windows that meet leave nothing out between them.
LEMMA Seam ==
  ASSUME NEW from \in Int, NEW c \in Int, NEW to \in Int, NEW a, from <= c, c <= to + 1
  PROVE  ClosedBars(from, c - 1, a) \cup ClosedBars(c, to, a) = ClosedBars(from, to, a)
<1>1. from..to = (from..(c - 1)) \cup (c..to)
  OBVIOUS
<1>2. QED
  BY <1>1 DEF ClosedBars

-----------------------------------------------------------------------------
(* Steps                                                                   *)

\* Time takes nothing away from a request.
LEMMA OthersGather ==
  ASSUME FeedInv, moment' \in Nat, moment <= moment', NEW f \in Fetchers,
         f \in fetching <=> f \in fetching',
         askedAt'[f] = askedAt[f], cursor'[f] = cursor[f], gathered'[f] = gathered[f]
  PROVE  IF f \in fetching' THEN Gathers(askedAt[f], cursor[f], gathered[f])' ELSE gathered'[f] = {}
<1>1. moment \in Nat /\ askedAt[f] \in Nat
  BY DEF FeedInv, FeedTyped
<1>2. CASE f \in fetching
  <2>1. Gathers(askedAt[f], cursor[f], gathered[f])
    BY <1>2 DEF FeedInv, FetchesKnown
  <2>2. QED
    BY <1>1, <1>2, <2>1 DEF Gathers
<1>3. CASE f \notin fetching
  BY <1>3 DEF FeedInv, FetchesKnown
<1>4. QED
  BY <1>2, <1>3

\* A chunk extends what was gathered to the end of its window.
LEMMA ChunkGathers ==
  ASSUME FeedInv, NEW f \in Fetchers, FetchChunk(f)
  PROVE  FeedInv'
<1>1. /\ f \in fetching /\ cursor[f] <= askedAt[f]
      /\ gathered' = [gathered EXCEPT ![f] = @ \cup History(cursor[f], ChunkEnd(f))]
      /\ cursor' = [cursor EXCEPT ![f] = ChunkEnd(f) + 1]
      /\ UNCHANGED <<moment, lag, fetching, askedAt, shown, store>>
  BY DEF FetchChunk
<1>2. PICK a, c, e : a = askedAt[f] /\ c = cursor[f] /\ e = ChunkEnd(f)
  OBVIOUS
<1>3. /\ a \in Nat /\ c \in Int /\ moment \in Nat /\ FeedTyped
      /\ Gathers(a, c, gathered[f]) /\ c <= a
  BY <1>1, <1>2 DEF FeedInv, FeedTyped, FetchesKnown
<1>4. e \in Int /\ c <= e /\ e <= a /\ e - c < ServerSpan
  <2>1. ChunkSpan \in Nat \ {0} /\ ServerSpan \in Nat /\ ChunkSpan <= ServerSpan
    BY FeedAssumption
  <2>2. e = IF c + ChunkSpan - 1 < a THEN c + ChunkSpan - 1 ELSE a
    BY <1>2 DEF ChunkEnd
  <2>3. QED
    BY <1>3, <2>1, <2>2
<1>5. Gathers(a, e + 1, gathered[f] \cup History(c, e))
  <2>1. a <= moment /\ Start(a) <= c /\ ClosedOnly(gathered[f], a) = ClosedBars(Start(a), c - 1, a)
    BY <1>3 DEF Gathers
  <2>2. ClosedOnly(History(c, e), a) = ClosedBars(c, e, a)
    BY <1>3, <1>4, <2>1, AnswerIsWhole
  <2>3. ClosedOnly(gathered[f] \cup History(c, e), a) = ClosedOnly(gathered[f], a) \cup ClosedOnly(History(c, e), a)
    BY DEF ClosedOnly
  <2>4. Start(a) \in Int
    BY <1>3, StartBefore
  <2>5. ClosedBars(Start(a), c - 1, a) \cup ClosedBars(c, e, a) = ClosedBars(Start(a), e, a)
    BY <1>3, <1>4, <2>1, <2>4, Seam
  <2>6. (e + 1) - 1 = e /\ Start(a) <= e + 1 /\ e + 1 <= a + 1
    BY <1>3, <1>4, <2>1, <2>4
  <2>7. QED
    BY <2>1, <2>2, <2>3, <2>5, <2>6 DEF Gathers
<1>6. FeedTyped'
  <2>1. gathered' = [g \in Fetchers |-> gathered'[g]]
    BY <1>1 DEF FeedInv, FeedTyped
  <2>2. cursor' \in [Fetchers -> Int]
    BY <1>1, <1>2, <1>4 DEF FeedInv, FeedTyped
  <2>3. QED
    BY <1>1, <2>1, <2>2 DEF FeedInv, FeedTyped
<1>7. FetchesKnown'
  <2>1. ASSUME NEW g \in Fetchers
        PROVE  IF g \in fetching' THEN Gathers(askedAt[g], cursor[g], gathered[g])' ELSE gathered'[g] = {}
    <3>1. CASE g = f
      <4>1. cursor'[f] = e + 1 /\ gathered'[f] = gathered[f] \cup History(c, e) /\ askedAt'[f] = a
        BY <1>1, <1>2 DEF FeedInv, FeedTyped
      <4>2. QED
        BY <1>1, <1>5, <3>1, <4>1 DEF Gathers
    <3>2. CASE g # f
      <4>1. cursor'[g] = cursor[g] /\ gathered'[g] = gathered[g] /\ askedAt'[g] = askedAt[g]
        BY <1>1, <3>2 DEF FeedInv, FeedTyped
      <4>2. moment' \in Nat /\ moment <= moment' /\ (g \in fetching <=> g \in fetching')
        BY <1>1, <1>3
      <4>3. QED
        BY <4>1, <4>2, OthersGather
    <3>3. QED
      BY <3>1, <3>2
  <2>2. QED
    BY <2>1 DEF FetchesKnown
<1>8. CandlesExact'
  BY <1>1 DEF FeedInv, CandlesExact
<1>9. QED
  BY <1>6, <1>7, <1>8 DEF FeedInv

\* A request starts with nothing, at the time on the clock.
LEMMA AskGathers ==
  ASSUME FeedInv, NEW f \in Fetchers, AskCandles(f)
  PROVE  FeedInv'
<1>1. /\ f \notin fetching /\ fetching' = fetching \cup {f}
      /\ askedAt' = [askedAt EXCEPT ![f] = Here]
      /\ cursor' = [cursor EXCEPT ![f] = Start(Here)]
      /\ UNCHANGED <<moment, lag, gathered, shown, store>>
  BY DEF AskCandles
<1>2. PICK a : a = Here
  OBVIOUS
<1>3. a \in Nat /\ a <= moment /\ moment \in Nat /\ Start(a) \in Int /\ Start(a) <= a
  <2>1. a \in Nat /\ a <= moment /\ moment \in Nat
    BY <1>2 DEF FeedInv, FeedTyped, Here
  <2>2. QED
    BY <2>1, StartBefore
<1>4. Gathers(a, Start(a), {})
  <2>1. ClosedOnly({}, a) = {}
    BY DEF ClosedOnly
  <2>2. ClosedBars(Start(a), Start(a) - 1, a) = {}
    BY <1>3 DEF ClosedBars
  <2>3. QED
    BY <1>3, <2>1, <2>2 DEF Gathers
<1>5. FeedTyped'
  BY <1>1, <1>2, <1>3 DEF FeedInv, FeedTyped
<1>6. FetchesKnown'
  <2>1. ASSUME NEW g \in Fetchers
        PROVE  IF g \in fetching' THEN Gathers(askedAt[g], cursor[g], gathered[g])' ELSE gathered'[g] = {}
    <3>1. CASE g = f
      <4>1. cursor'[f] = Start(a) /\ gathered'[f] = {} /\ askedAt'[f] = a
        BY <1>1, <1>2 DEF FeedInv, FeedTyped, FetchesKnown
      <4>2. QED
        BY <1>1, <1>4, <3>1, <4>1 DEF Gathers
    <3>2. CASE g # f
      <4>1. cursor'[g] = cursor[g] /\ gathered'[g] = gathered[g] /\ askedAt'[g] = askedAt[g]
        BY <1>1, <3>2 DEF FeedInv, FeedTyped
      <4>2. moment' \in Nat /\ moment <= moment' /\ (g \in fetching <=> g \in fetching')
        BY <1>1, <1>3, <3>2
      <4>3. QED
        BY <4>1, <4>2, OthersGather
    <3>3. QED
      BY <3>1, <3>2
  <2>2. QED
    BY <2>1 DEF FetchesKnown
<1>7. CandlesExact'
  BY <1>1 DEF FeedInv, CandlesExact
<1>8. QED
  BY <1>5, <1>6, <1>7 DEF FeedInv

\* A request that ends, with its candles or without, leaves nothing behind.
LEMMA EndGathers ==
  ASSUME FeedInv, NEW f \in Fetchers, fetching' = fetching \ {f},
         cursor' = [cursor EXCEPT ![f] = 0], askedAt' = [askedAt EXCEPT ![f] = 0],
         gathered' = [gathered EXCEPT ![f] = {}], UNCHANGED <<moment, lag>>
  PROVE  FetchesKnown'
<1>1. ASSUME NEW g \in Fetchers
      PROVE  IF g \in fetching' THEN Gathers(askedAt[g], cursor[g], gathered[g])' ELSE gathered'[g] = {}
  <2>1. CASE g = f
    BY <2>1 DEF FeedInv, FeedTyped
  <2>2. CASE g # f
    <3>1. cursor'[g] = cursor[g] /\ gathered'[g] = gathered[g] /\ askedAt'[g] = askedAt[g]
      BY <2>2 DEF FeedInv, FeedTyped
    <3>2. moment' \in Nat /\ moment <= moment' /\ (g \in fetching <=> g \in fetching')
      BY <2>2 DEF FeedInv, FeedTyped
    <3>3. QED
      BY <3>1, <3>2, OthersGather
  <2>3. QED
    BY <2>1, <2>2
<1>2. QED
  BY <1>1 DEF FetchesKnown

\* When the last chunk is in, the newest closed candles are the last closed ones.
LEMMA GatheredIsExact ==
  ASSUME FeedInv, NEW f \in Fetchers, Gathered(f)
  PROVE  FeedInv'
<1>1. /\ f \in fetching /\ cursor[f] > askedAt[f]
      /\ store' = [at |-> askedAt[f], bars |-> Newest(ClosedOnly(gathered[f], askedAt[f]))]
      /\ shown' = [shown EXCEPT ![f] = store']
      /\ fetching' = fetching \ {f} /\ cursor' = [cursor EXCEPT ![f] = 0]
      /\ askedAt' = [askedAt EXCEPT ![f] = 0] /\ gathered' = [gathered EXCEPT ![f] = {}]
      /\ UNCHANGED <<moment, lag>>
  BY DEF Gathered
<1>2. PICK a : a = askedAt[f]
  OBVIOUS
<1>3. a \in Nat /\ cursor[f] \in Int /\ Gathers(a, cursor[f], gathered[f])
  BY <1>1, <1>2 DEF FeedInv, FeedTyped, FetchesKnown
<1>4. ClosedOnly(gathered[f], a) = ClosedBars(Start(a), a, a)
  <2>1. cursor[f] - 1 = a
    BY <1>1, <1>2, <1>3 DEF Gathers
  <2>2. QED
    BY <1>3, <2>1 DEF Gathers
<1>5. store'.bars = LastClosed(store'.at)
  BY <1>1, <1>2, <1>3, <1>4, NewestIsLast
<1>6. CandlesExact'
  <2>1. \A g \in Fetchers : shown'[g] = IF g = f THEN store' ELSE shown[g]
    BY <1>1 DEF FeedInv, FeedTyped
  <2>2. QED
    BY <1>5, <2>1 DEF FeedInv, CandlesExact, Exact
<1>7. FeedTyped'
  <2>1. shown' = [g \in Fetchers |-> shown'[g]]
    BY <1>1 DEF FeedInv, FeedTyped
  <2>2. gathered' = [g \in Fetchers |-> gathered'[g]]
    BY <1>1 DEF FeedInv, FeedTyped
  <2>3. QED
    BY <1>1, <2>1, <2>2 DEF FeedInv, FeedTyped
<1>8. FetchesKnown'
  BY <1>1, EndGathers
<1>9. QED
  BY <1>6, <1>7, <1>8 DEF FeedInv

\* The cache serves candles of the same period.
LEMMA ServedIsExact ==
  ASSUME FeedInv, NEW f \in Fetchers, Serve(f)
  PROVE  FeedInv'
<1>1. /\ store # NoCandles /\ Here \div Duration = store.at \div Duration
      /\ shown' = [shown EXCEPT ![f] = [at |-> Here, bars |-> store.bars]]
      /\ UNCHANGED <<moment, lag, fetching, askedAt, cursor, gathered, store>>
  BY DEF Serve, Cached
<1>2. store.bars = LastClosed(store.at)
  BY <1>1 DEF FeedInv, CandlesExact, Exact
<1>3. LastClosed(Here) = LastClosed(store.at)
  BY <1>1 DEF LastClosed
<1>4. CandlesExact'
  <2>1. PICK c : c = [at |-> Here, bars |-> store.bars]
    OBVIOUS
  <2>2. Exact(c)
    BY <1>2, <1>3, <2>1 DEF Exact
  <2>3. \A g \in Fetchers : shown'[g] = IF g = f THEN c ELSE shown[g]
    BY <1>1, <2>1 DEF FeedInv, FeedTyped
  <2>4. QED
    BY <1>1, <2>2, <2>3 DEF FeedInv, CandlesExact, Exact
<1>5. FeedTyped'
  <2>1. shown' = [g \in Fetchers |-> shown'[g]]
    BY <1>1 DEF FeedInv, FeedTyped
  <2>2. QED
    BY <1>1, <2>1 DEF FeedInv, FeedTyped
<1>6. FetchesKnown'
  BY <1>1 DEF FeedInv, FetchesKnown, Gathers
<1>7. QED
  BY <1>4, <1>5, <1>6 DEF FeedInv

\* What is known of requests and candles holds throughout.
LEMMA FeedInvHolds == FeedSpec => []FeedInv
<1>1. FeedInit => FeedInv
  <2>1. SUFFICES ASSUME FeedInit PROVE FeedInv
    OBVIOUS
  <2>2. FeedTyped
    BY <2>1, FeedAssumption DEF FeedInit, FeedTyped
  <2>3. FetchesKnown /\ CandlesExact
    BY <2>1 DEF FeedInit, FetchesKnown, CandlesExact, Exact
  <2>4. QED
    BY <2>2, <2>3 DEF FeedInv
<1>2. FeedInv /\ [FeedNext]_feedVars => FeedInv'
  <2>1. SUFFICES ASSUME FeedInv, [FeedNext]_feedVars PROVE FeedInv'
    OBVIOUS
  <2>2. CASE MomentPasses
    <3>1. /\ moment' = moment + 1 /\ moment \in Nat
          /\ UNCHANGED <<lag, fetching, askedAt, cursor, gathered, shown, store>>
      BY <2>1, <2>2 DEF MomentPasses, FeedInv, FeedTyped
    <3>2. FeedTyped'
      BY <2>1, <3>1 DEF FeedInv, FeedTyped
    <3>3. FetchesKnown'
      <4>1. moment' \in Nat /\ moment <= moment'
        BY <3>1
      <4>2. QED
        BY <2>1, <3>1, <4>1, OthersGather DEF FetchesKnown
    <3>4. CandlesExact'
      BY <2>1, <3>1 DEF FeedInv, CandlesExact
    <3>5. QED
      BY <3>2, <3>3, <3>4 DEF FeedInv
  <2>3. ASSUME NEW f \in Fetchers, ChunkFails(f) PROVE FeedInv'
    <3>1. /\ fetching' = fetching \ {f} /\ cursor' = [cursor EXCEPT ![f] = 0]
          /\ askedAt' = [askedAt EXCEPT ![f] = 0] /\ gathered' = [gathered EXCEPT ![f] = {}]
          /\ UNCHANGED <<moment, lag, shown, store>>
      BY <2>3 DEF ChunkFails
    <3>2. FeedTyped'
      <4>1. gathered' = [g \in Fetchers |-> gathered'[g]]
        BY <2>1, <3>1 DEF FeedInv, FeedTyped
      <4>2. QED
        BY <2>1, <3>1, <4>1 DEF FeedInv, FeedTyped
    <3>3. FetchesKnown'
      BY <2>1, <3>1, EndGathers
    <3>4. CandlesExact'
      BY <2>1, <3>1 DEF FeedInv, CandlesExact
    <3>5. QED
      BY <3>2, <3>3, <3>4 DEF FeedInv
  <2>4. CASE UNCHANGED feedVars
    BY <2>1, <2>4 DEF feedVars, FeedInv, FeedTyped, FetchesKnown, CandlesExact, Gathers
  <2>5. QED
    BY <2>1, <2>2, <2>3, <2>4, ServedIsExact, AskGathers, GatheredIsExact, ChunkGathers DEF FeedNext
<1>3. QED
  BY <1>1, <1>2, PTL DEF FeedSpec

\* Whoever asks gets exactly the last closed candles of the time at which it
\* asked, for any duration, lookback, chunks and clock lag, whatever fails and
\* however requests overlap.
THEOREM CandlesAreExact == FeedSpec => []FeedIsExact
<1>1. FeedInv => FeedIsExact
  BY DEF FeedInv, CandlesExact, Exact, FeedIsExact
<1>2. QED
  BY <1>1, FeedInvHolds, PTL

-----------------------------------------------------------------------------
(* Types.                                                                  *)

\* What the limiter and the calls leave out: the kind of the client, the end of a
\* sleep, the fields of a request; whoever is in a call makes one.
CallsFramed ==
  /\ client \in {"private", "public"} /\ wake \in Nat
  /\ wire \subseteq Requests
  /\ \A c \in Callers : at[c] # "idle" => op[c] \in Private \cup {"get"}

\* Every step leaves them so.
LEMMA FrameKept ==
  ASSUME LimiterInv, SubmitInv, CallsFramed, [ApiNext]_apiVars
  PROVE  CallsFramed'
<1>0. /\ now \in Nat /\ popped \in Nat /\ granted \in Seq(Nat)
      /\ Period \in Nat /\ MaxCalls \in Nat \ {0} /\ CallsTyped
  BY LimiterAssumption DEF LimiterInv, SlotsTyped, SubmitInv
<1> DEFINE InCall(c) == at[c] # "idle" => op[c] \in Private \cup {"get"}
<1>1. CASE ClockTicks \/ UNCHANGED apiVars
  BY <1>1 DEF ClockTicks, apiVars, limiter, tasks, market, CallsFramed
<1>2. ASSUME NEW c \in Callers, Grant(c) PROVE CallsFramed'
  <2> DEFINE r == [by |-> c, call |-> calls[c], op |-> op[c], n |-> attempt[c], stamp |-> now]
  <2>1. at[c] = "lock"
    <3>1. 1 \in 1..Len(queue) /\ queue[1] = c
      BY <1>0, <1>2 DEF Grant, Holder, CallsTyped
    <3>2. QED
      BY <3>1 DEF SubmitInv, QueueHolds
  <2>2. calls[c] \in Calls /\ attempt[c] \in Nat
    BY <1>0, <2>1 DEF CallsTyped
  <2>3. op[c] \in Private \cup {"get"}
    BY <2>1 DEF CallsFramed
  <2>4. r \in Requests
    BY <1>0, <2>2, <2>3 DEF Requests
  <2> HIDE DEF r
  <2>5. wire' = wire \cup {r} /\ UNCHANGED <<client, wake, op>>
    BY <1>2 DEF Grant, r
  <2>6. \A d \in Callers : at'[d] = IF d = c THEN "wire" ELSE at[d]
    BY <1>0, <1>2 DEF Grant, CallsTyped
  <2>7. \A d \in Callers : InCall(d)'
    BY <2>3, <2>5, <2>6 DEF CallsFramed
  <2>8. QED
    BY <2>4, <2>5, <2>7 DEF CallsFramed
<1>3. ASSUME NEW c \in Callers, Throttle(c) PROVE CallsFramed'
  <2>1. PICK k \in popped..Len(granted) :
          Len(granted) - k >= MaxCalls /\ wake' = granted[k + 1] + Period
    BY <1>3 DEF Throttle
  <2>2. k + 1 \in 1..Len(granted)
    BY <1>0, <2>1
  <2>3. wake' \in Nat
    BY <1>0, <2>1, <2>2
  <2>4. UNCHANGED <<client, at, op, wire>>
    BY <1>3 DEF Throttle, tasks, market
  <2>5. QED
    BY <2>3, <2>4 DEF CallsFramed
<1>4. ASSUME NEW c \in Callers, NEW o \in Private \cup {"get"}, Call(c, o) PROVE CallsFramed'
  <2>1. UNCHANGED <<client, wake, wire>>
    BY <1>4 DEF Call, market
  <2>2. \A d \in Callers : /\ at'[d] = IF d = c THEN "lock" ELSE at[d]
                           /\ op'[d] = IF d = c THEN o ELSE op[d]
    BY <1>0, <1>4 DEF Call, CallsTyped
  <2>3. QED
    BY <2>1, <2>2 DEF CallsFramed
<1>5. ASSUME NEW c \in Callers, TransportFails(c) \/ Busy(c) \/ Returns(c) \/ Again(c)
      PROVE  CallsFramed'
  <2>1. UNCHANGED <<client, wake, wire, op>> /\ at[c] # "idle"
    BY <1>5 DEF TransportFails, Busy, Returns, Again, Await, limiter, market
  <2>2. \A d \in Callers : d # c => at'[d] = at[d]
    BY <1>0, <1>5 DEF TransportFails, Busy, Returns, Again, CallsTyped
  <2>3. QED
    BY <2>1, <2>2 DEF CallsFramed
<1>6. ASSUME NEW c \in Callers, NEW k \in Calls, Fills(c, k) PROVE CallsFramed'
  BY <1>6 DEF Fills, limiter, tasks, CallsFramed
<1>7. ASSUME NEW r \in wire, Arrive(r) PROVE CallsFramed'
  BY <1>7 DEF Arrive, limiter, CallsFramed
<1>8. QED
  BY <1>1, <1>2, <1>3, <1>4, <1>5, <1>6, <1>7 DEF ApiNext, OutOfTime

\* The types of ApiCalls hold.
LEMMA ApiTypesHold == ApiSpec => []ApiTypes
<1>1. ApiInit => CallsFramed
  BY DEF ApiInit, CallsFramed
<1>2. LimiterInv /\ SubmitInv /\ CancelInv /\ CallsFramed => ApiTypes
  BY DEF LimiterInv, SlotsTyped, SubmitInv, CallsTyped, CancelInv, OrdersTyped, CallsFramed, ApiTypes
<1>3. QED
  BY LimiterInvHolds, SubmitInvHolds, CancelInvHolds, FrameKept, <1>1, <1>2, PTL DEF ApiSpec

\* Candles, and when they were asked for.
Fetched(c) == c.at \in 0..LastMoment /\ c.bars \subseteq Candles

\* The types of CandleFeed, given what is known of the requests.
LEMMA FeedTypesStep ==
  ASSUME FeedInv, FeedTypes, [FeedNext]_feedVars
  PROVE  FeedTypes'
<1>1. /\ lag \in Lags /\ lag \in Nat /\ LastMoment \in Nat /\ moment \in lag..LastMoment /\ moment \in Nat
      /\ Here \in 0..LastMoment
  BY FeedAssumption DEF FeedTypes, Here
<1>2. /\ FeedTyped /\ Fetched(store) /\ (\A f \in Fetchers : Fetched(shown[f]))
  BY DEF FeedInv, FeedTypes, Fetched
<1>3. /\ \A a \in 0..LastMoment : Start(a) \in Start(0)..(LastMoment + 1)
      /\ 0 \in Start(0)..(LastMoment + 1) /\ Start(0) \in Int
  <2>1. Duration * (Lookback + 2) \in Nat
    BY FeedAssumption
  <2> DEFINE d == Duration * (Lookback + 2)
  <2> HIDE DEF d
  <2>2. d \in Nat /\ \A a : Start(a) = a - d
    BY <2>1 DEF d, Start
  <2>3. QED
    BY <1>1, <2>2
<1>4. SUFFICES /\ moment' \in lag..LastMoment /\ lag' = lag
               /\ fetching' \subseteq Fetchers
               /\ askedAt' \in [Fetchers -> 0..LastMoment]
               /\ cursor' \in [Fetchers -> Start(0)..(LastMoment + 1)]
               /\ \A f \in Fetchers : gathered'[f] \subseteq Candles
               /\ Fetched(store') /\ \A f \in Fetchers : Fetched(shown'[f])
  BY <1>1, FeedAssumption DEF FeedTypes, Fetched, Start
<1> DEFINE Rest == /\ moment' = moment /\ lag' = lag
<1>5. CASE MomentPasses \/ UNCHANGED feedVars
  BY <1>1, <1>2, <1>5 DEF MomentPasses, feedVars, FeedTypes
<1>6. ASSUME NEW f \in Fetchers, Serve(f) PROVE <1>4!1
  <2>1. Fetched([at |-> Here, bars |-> store.bars])
    BY <1>1, <1>2 DEF Fetched
  <2>2. \A g \in Fetchers : shown'[g] = IF g = f THEN [at |-> Here, bars |-> store.bars] ELSE shown[g]
    BY <1>2, <1>6 DEF Serve, FeedTyped
  <2>3. QED
    BY <1>1, <1>2, <1>6, <2>1, <2>2 DEF Serve, FeedTypes
<1>7. ASSUME NEW f \in Fetchers, AskCandles(f) PROVE <1>4!1
  <2>1. Start(Here) \in Start(0)..(LastMoment + 1)
    BY <1>1, <1>3
  <2>2. QED
    BY <1>1, <1>2, <1>7, <2>1 DEF AskCandles, FeedTypes
<1>8. ASSUME NEW f \in Fetchers, Gathered(f) PROVE <1>4!1
  <2>1. Fetched(store') /\ askedAt[f] \in 0..LastMoment
    BY <1>8 DEF Gathered, Fetched, FeedTypes, Newest, ClosedOnly
  <2>2. \A g \in Fetchers : /\ shown'[g] = IF g = f THEN store' ELSE shown[g]
                            /\ gathered'[g] = IF g = f THEN {} ELSE gathered[g]
    BY <1>2, <1>8 DEF Gathered, FeedTyped
  <2>3. QED
    BY <1>1, <1>2, <1>3, <1>8, <2>1, <2>2 DEF Gathered, FeedTypes
<1>9. ASSUME NEW f \in Fetchers, FetchChunk(f) PROVE <1>4!1
  <2>1. ChunkEnd(f) + 1 \in Start(0)..(LastMoment + 1)
    <3>1. cursor[f] \in Start(0)..(LastMoment + 1) /\ askedAt[f] \in 0..LastMoment /\ cursor[f] <= askedAt[f]
      BY <1>9 DEF FetchChunk, FeedTypes
    <3>2. QED
      BY <1>1, <1>3, <3>1, FeedAssumption DEF ChunkEnd
  <2>2. History(cursor[f], ChunkEnd(f)) \subseteq Candles
    <3>1. cursor[f] \in Int /\ ChunkEnd(f) \in Int
      BY <1>1, <1>2, FeedAssumption DEF FeedTyped, ChunkEnd
    <3>2. \A x \in cursor[f]..ChunkEnd(f) : [open |-> x, final |-> x + Duration <= moment] \in Candles
      BY <3>1 DEF Candles
    <3>3. QED
      BY <3>2 DEF History
  <2>3. \A g \in Fetchers : gathered'[g] = IF g = f THEN gathered[f] \cup History(cursor[f], ChunkEnd(f)) ELSE gathered[g]
    BY <1>2, <1>9 DEF FetchChunk, FeedTyped
  <2>4. \A g \in Fetchers : gathered'[g] \subseteq Candles
    BY <2>2, <2>3 DEF FeedTypes
  <2>5. QED
    BY <1>1, <1>2, <1>9, <2>1, <2>4 DEF FetchChunk, FeedTypes
<1>10. ASSUME NEW f \in Fetchers, ChunkFails(f) PROVE <1>4!1
  <2>1. \A g \in Fetchers : gathered'[g] = IF g = f THEN {} ELSE gathered[g]
    BY <1>2, <1>10 DEF ChunkFails, FeedTyped
  <2>2. QED
    BY <1>1, <1>2, <1>3, <1>10, <2>1 DEF ChunkFails, FeedTypes
<1>11. QED
  BY <1>5, <1>6, <1>7, <1>8, <1>9, <1>10 DEF FeedNext

\* The types of CandleFeed hold.
LEMMA FeedTypesHold == FeedSpec => []FeedTypes
<1>1. FeedInit => FeedTypes
  <2>1. SUFFICES ASSUME FeedInit PROVE FeedTypes
    OBVIOUS
  <2>2. lag \in Nat /\ LastMoment \in Nat /\ lag <= LastMoment /\ Start(0) \in Int /\ Start(0) <= 0
    BY <2>1, FeedAssumption, StartBefore DEF FeedInit
  <2>3. QED
    BY <2>1, <2>2 DEF FeedInit, FeedTypes, NoCandles, Candles
<1>2. QED
  BY FeedInvHolds, FeedTypesStep, <1>1, PTL DEF FeedSpec
=============================================================================
