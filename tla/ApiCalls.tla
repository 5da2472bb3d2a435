------------------------------ MODULE ApiCalls ------------------------------
(***************************************************************************)
(* What a call of the exchange clients does between the task that makes it *)
(* and the exchange (agent/exchange/rate_limiter.py, private_client.py,    *)
(* trade_client.py, public_client.py): the slot of the rate limiter, the   *)
(* attempts, the transport that may lose a request or its answer, or       *)
(* deliver it after the client gave up, and what the caller is told.       *)
(*                                                                         *)
(* The deque of the limiter is the suffix, after "popped", of the history  *)
(* of all the slots it granted.  Tasks wait for its asyncio.Lock in order: *)
(* the first of the queue holds it, also while it sleeps.  Nothing awaits  *)
(* between the grant of a slot, the signature and the sending.             *)
(*                                                                         *)
(* A definition marked "mutant of" is a bug that the runs must catch, put  *)
(* in the place of the definition it names; nothing else uses it.          *)
(***************************************************************************)
EXTENDS Integers, Sequences

CONSTANTS
  Callers,      \* the tasks that share one client
  MaxCalls,     \* max_calls of its limiter
  Period,       \* period_s
  MaxRetries,   \* max_retries
  RecvWindow,   \* how long the exchange takes a signed request
  MaxOps,       \* bound: calls per task
  LastTick      \* bound: the clock

ASSUME LimiterAssumption ==
  /\ MaxCalls \in Nat \ {0} /\ Period \in Nat \ {0}
  /\ MaxRetries \in Nat /\ RecvWindow \in Nat
  /\ MaxOps \in Nat /\ LastTick \in Nat

VARIABLES
  client,    \* "private" (signed) or "public"
  now,
  granted,   \* when each slot was granted, oldest first
  popped,    \* how many of them the deque has dropped
  queue,     \* tasks at the lock; the first holds it
  wake,      \* end of the holder's sleep
  at,        \* where each task is in its call
  op,        \* what it calls
  attempt,
  answer,    \* what the exchange answered, or what the caller was told
  calls,     \* number of calls the task has made
  wire,      \* requests between client and exchange
  order,     \* what became of the order of each of a task's calls
  opened     \* how many orders the exchange opened for it

limiter == <<now, granted, popped, queue, wake>>
tasks == <<at, op, attempt, answer, calls>>
market == <<wire, order, opened>>
apiVars == <<client, limiter, tasks, market>>

Private == {"trade", "cancel", "read"}
Calls == 1..MaxOps
Requests ==
  [by : Callers, call : Calls, op : Private \cup {"get"}, n : Nat, stamp : Nat]

ApiTypes ==
  /\ client \in {"private", "public"}
  /\ now \in Nat /\ wake \in Nat /\ popped \in Nat
  /\ granted \in Seq(Nat) /\ queue \in Seq(Callers)
  /\ at \in [Callers -> {"idle", "lock", "wire", "backoff"}]
  /\ op \in [Callers -> Private \cup {"get", "none"}]
  /\ answer \in [Callers -> {"none", "ok", "not found", "busy", "stale",
                             "done", "raised"}]
  /\ attempt \in [Callers -> Nat] /\ calls \in [Callers -> Nat]
  /\ wire \subseteq Requests
  /\ order \in [Callers -> [Calls -> {"none", "live", "gone"}]]
  /\ opened \in [Callers -> [Calls -> Nat]]

ApiInit ==
  /\ client \in {"private", "public"}
  /\ now = 0 /\ wake = 0 /\ popped = 0
  /\ granted = <<>> /\ queue = <<>>
  /\ at = [c \in Callers |-> "idle"]
  /\ op = [c \in Callers |-> "none"]
  /\ answer = [c \in Callers |-> "none"]
  /\ attempt = [c \in Callers |-> 0] /\ calls = [c \in Callers |-> 0]
  /\ wire = {}
  /\ order = [c \in Callers |-> [k \in Calls |-> "none"]]
  /\ opened = [c \in Callers |-> [k \in Calls |-> 0]]

ClockTicks ==
  /\ now < LastTick
  /\ now' = now + 1
  /\ UNCHANGED <<client, granted, popped, queue, wake, tasks, market>>

-----------------------------------------------------------------------------
(* The limiter.                                                            *)

DropsAll(k) ==   \* mutant of Drops: one slot a period old starts a new window
  k = IF popped < Len(granted) /\ now - granted[popped + 1] >= Period
      THEN Len(granted) ELSE popped

\* acquire's inner loop: the oldest slots that are a period old leave.
Drops(k) ==
  /\ k \in popped..Len(granted)
  /\ \A i \in popped + 1..k : now - granted[i] >= Period
  /\ k < Len(granted) => now - granted[k + 1] < Period

Holder(c) == queue # <<>> /\ c = Head(queue) /\ wake <= now

\* A slot, and in the same step of the event loop the request leaves, signed
\* now.
Grant(c) ==
  /\ Holder(c)
  /\ \E k \in popped..Len(granted) :
       /\ Drops(k)
       /\ Len(granted) - k < MaxCalls
       /\ popped' = k
  /\ granted' = Append(granted, now)
  /\ queue' = Tail(queue)
  /\ at' = [at EXCEPT ![c] = "wire"]
  /\ wire' = wire \cup {[by |-> c, call |-> calls[c], op |-> op[c],
                         n |-> attempt[c], stamp |-> now]}
  /\ UNCHANGED <<client, now, wake, op, attempt, answer, calls, order, opened>>

\* No slot: the holder sleeps until the oldest one is a period old.
Throttle(c) ==
  /\ Holder(c)
  /\ \E k \in popped..Len(granted) :
       /\ Drops(k)
       /\ Len(granted) - k >= MaxCalls
       /\ popped' = k
       /\ wake' = granted[k + 1] + Period
  /\ UNCHANGED <<client, now, granted, queue, tasks, market>>

-----------------------------------------------------------------------------
(* A call.                                                                 *)

Call(c, o) ==
  /\ at[c] = "idle" /\ calls[c] < MaxOps
  /\ o \in IF client = "public" THEN {"get"} ELSE Private
  \* an order is cancelled by the id that its submission returned
  /\ o = "cancel" => op[c] = "trade" /\ answer[c] = "done"
  /\ op' = [op EXCEPT ![c] = o]
  /\ attempt' = [attempt EXCEPT ![c] = 0]
  /\ answer' = [answer EXCEPT ![c] = "none"]
  /\ calls' = [calls EXCEPT ![c] = @ + 1]
  /\ at' = [at EXCEPT ![c] = "lock"]
  /\ queue' = Append(queue, c)
  /\ UNCHANGED <<client, now, granted, popped, wake, market>>

AlwaysRetry(c) == MaxRetries   \* mutant of Retries: NON_IDEMPOTENT forgotten
Retries(c) == IF op[c] = "trade" THEN 0 ELSE MaxRetries

Await(c) == at[c] = "wire"

\* The transport reports an error.  The request, or its answer, may be lost;
\* or the request is still under way.
TransportFails(c) ==
  /\ Await(c)
  /\ IF attempt[c] >= Retries(c)
     THEN /\ at' = [at EXCEPT ![c] = "idle"]
          /\ answer' = [answer EXCEPT ![c] = "raised"]
     ELSE /\ at' = [at EXCEPT ![c] = "backoff"]
          /\ answer' = [answer EXCEPT ![c] = "none"]
  /\ UNCHANGED <<client, limiter, op, attempt, calls, market>>

\* The jittered sleep ends at any time; each attempt takes a slot of its own.
Again(c) ==
  /\ at[c] = "backoff"
  /\ attempt' = [attempt EXCEPT ![c] = @ + 1]
  /\ at' = [at EXCEPT ![c] = "lock"]
  /\ queue' = Append(queue, c)
  /\ UNCHANGED <<client, now, granted, popped, wake, op, answer, calls, market>>

\* The public client alone tries again when it is told 429 or 5xx.
Busy(c) ==
  /\ Await(c) /\ answer[c] = "busy"
  /\ op[c] = "get" /\ attempt[c] < MaxRetries
  /\ at' = [at EXCEPT ![c] = "backoff"]
  /\ answer' = [answer EXCEPT ![c] = "none"]
  /\ UNCHANGED <<client, limiter, op, attempt, calls, market>>

\* What the call makes of an answer: cancel takes "not found" for success.
AllErrorsMeanGone(c) ==   \* mutant of Succeeds
  answer[c] = "ok" \/ (op[c] = "cancel" /\ answer[c] # "none")
Succeeds(c) == answer[c] = "ok" \/ (op[c] = "cancel" /\ answer[c] = "not found")

Returns(c) ==
  /\ Await(c) /\ answer[c] # "none"
  /\ ~ (op[c] = "get" /\ answer[c] = "busy" /\ attempt[c] < MaxRetries)
  /\ at' = [at EXCEPT ![c] = "idle"]
  /\ answer' = [answer EXCEPT ![c] = IF Succeeds(c) THEN "done" ELSE "raised"]
  /\ UNCHANGED <<client, limiter, op, attempt, calls, market>>

-----------------------------------------------------------------------------
(* The exchange.                                                           *)

\* The answer reaches the client if the call still waits for this attempt.
Hears(r, a) ==
  answer' = IF Await(r.by) /\ calls[r.by] = r.call /\ attempt[r.by] = r.n
            THEN [answer EXCEPT ![r.by] = a] ELSE answer

Verdict(r) ==
  IF r.op = "cancel" /\ order[r.by][r.call - 1] # "live" THEN "not found" ELSE "ok"

Carry(r) ==
  \/ /\ r.op \in {"read", "get"}
     /\ UNCHANGED <<order, opened>>
  \/ /\ r.op = "trade"
     /\ order' = [order EXCEPT ![r.by][r.call] = "live"]
     /\ opened' = [opened EXCEPT ![r.by][r.call] = @ + 1]
  \/ /\ r.op = "cancel"
     /\ order' = [order EXCEPT ![r.by][r.call - 1] = "gone"]
     /\ UNCHANGED opened

\* A signed request is taken until recvWindow after its stamp.  A gateway may
\* answer "busy" (429, 5xx) before the exchange has acted, or after.  A
\* request may also never arrive: then no step takes it from the wire.
Arrive(r) ==
  /\ r \in wire
  /\ wire' = wire \ {r}
  /\ LET late == r.op # "get" /\ now > r.stamp + RecvWindow
     IN \/ late /\ Hears(r, "stale") /\ UNCHANGED <<order, opened>>
        \/ ~late /\ Hears(r, Verdict(r)) /\ Carry(r)
        \/ ~late /\ Hears(r, "busy") /\ Carry(r)
        \/ ~late /\ Hears(r, "busy") /\ UNCHANGED <<order, opened>>
  /\ UNCHANGED <<client, limiter, at, op, attempt, calls>>

Fills(c, k) ==
  /\ order[c][k] = "live"
  /\ order' = [order EXCEPT ![c][k] = "gone"]
  /\ UNCHANGED <<client, limiter, tasks, wire, opened>>

\* The bounds are used up.
OutOfTime == now = LastTick /\ UNCHANGED apiVars

ApiNext ==
  \/ ClockTicks \/ OutOfTime
  \/ \E c \in Callers :
       \/ Grant(c) \/ Throttle(c)
       \/ \E o \in Private \cup {"get"} : Call(c, o)
       \/ TransportFails(c) \/ Again(c) \/ Busy(c) \/ Returns(c)
       \/ \E k \in Calls : Fills(c, k)
  \/ \E r \in wire : Arrive(r)

ApiSpec == ApiInit /\ [][ApiNext]_apiVars

-----------------------------------------------------------------------------
\* The promise of AsyncRateLimiter: whatever the number of tasks that wait,
\* no window of a period holds more than max_calls requests.  (The slots,
\* not the calls: a retry takes one too.)
WindowBounded ==
  \A i \in 1..Len(granted) :
    i + MaxCalls <= Len(granted) => granted[i + MaxCalls] - granted[i] >= Period

\* One call of place_limit opens at most one order, also when its answer is
\* lost and when it arrives after the client has given up.
OneOrderPerCall == \A c \in Callers, k \in Calls : opened[c][k] <= 1

\* When cancel returns without an error the order is off the book, whichever
\* of its attempts did it and whatever the earlier ones were told.
CancelledIsGone ==
  \A c \in Callers :
    op[c] = "cancel" /\ at[c] = "idle" /\ answer[c] = "done"
    => order[c][calls[c] - 1] = "gone"
=============================================================================
