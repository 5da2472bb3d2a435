----------------------------- MODULE CandleFeed -----------------------------
(***************************************************************************)
(* How the candles of a pair and timeframe reach the analysis: the cache   *)
(* of MarketDataService (agent/data/market_data.py) and the request to the *)
(* exchange that is split into chunks (public_client.ohlc), while time     *)
(* passes, chunks fail and another cycle asks for the same candles.        *)
(*                                                                         *)
(* A candle is its open time and whether its values were final when it was *)
(* fetched.  The exchange has a candle for every period, the one that is   *)
(* still forming included (candles that come late are the subject of       *)
(* PortfolioPlan); of a window that is too long it "silently returns only  *)
(* the last" part.                                                         *)
(*                                                                         *)
(* A definition marked "mutant of" is a bug that the runs must catch, put  *)
(* in the place of the definition it names; nothing else uses it.          *)
(***************************************************************************)
EXTENDS Integers, FiniteSets

CONSTANTS
  Fetchers,    \* the cycles that can be in flight
  Duration,    \* of a candle
  Lookback,    \* lookback_bars
  ChunkSpan,   \* longest window of one request
  ServerSpan,  \* longest window that the exchange answers in full
  Lags,        \* how far the VPS clock can be behind the exchange's
  LastMoment   \* bound: the clock

\* A VPS clock that is ahead is left out: a candle would pass for closed before it is.
ASSUME FeedAssumption ==
  /\ Duration \in Nat \ {0} /\ Lookback \in Nat \ {0} /\ ChunkSpan \in Nat \ {0}
  /\ ServerSpan \in Nat /\ ChunkSpan <= ServerSpan /\ LastMoment \in Nat
  /\ Lags \subseteq 0..LastMoment

VARIABLES
  moment,    \* the exchange's clock
  lag,       \* of the VPS clock
  fetching,  \* the cycles whose request is under way
  askedAt,   \* when each of them asked, on the VPS clock
  cursor,    \* start of its next chunk
  gathered,  \* what its chunks have brought
  shown,     \* the candles each cycle got last, and when it had asked
  store      \* _candle_cache: when its candles were asked for, and the candles

feedVars == <<moment, lag, fetching, askedAt, cursor, gathered, shown, store>>

Here == moment - lag

\* A cycle or a cache that holds no candles yet.
NoCandles == [at |-> 0, bars |-> {}]

FeedInit ==
  /\ lag \in Lags /\ moment = lag
  /\ fetching = {}
  /\ askedAt = [f \in Fetchers |-> 0]
  /\ cursor = [f \in Fetchers |-> 0]
  /\ gathered = [f \in Fetchers |-> {}]
  /\ shown = [f \in Fetchers |-> NoCandles]
  /\ store = NoCandles

MomentPasses ==
  /\ moment < LastMoment
  /\ moment' = moment + 1
  /\ UNCHANGED <<lag, fetching, askedAt, cursor, gathered, shown, store>>

-----------------------------------------------------------------------------
(* MarketDataService.candles                                               *)

\* No candle has closed since the last request.
Cached == store # NoCandles /\ Here \div Duration = store.at \div Duration

Serve(f) ==
  /\ f \notin fetching /\ Cached
  /\ shown' = [shown EXCEPT ![f] = [at |-> Here, bars |-> store.bars]]
  /\ UNCHANGED <<moment, lag, fetching, askedAt, cursor, gathered, store>>

Start(t) == t - Duration * (Lookback + 2)

AskCandles(f) ==
  /\ f \notin fetching /\ ~Cached
  /\ fetching' = fetching \cup {f}
  /\ askedAt' = [askedAt EXCEPT ![f] = Here]
  /\ cursor' = [cursor EXCEPT ![f] = Start(Here)]
  /\ UNCHANGED <<moment, lag, gathered, shown, store>>

\* closed_only, and of these the newest.
ClosedOnly(bars, t) == {b \in bars : b.open + Duration <= t}
Newest(bars) == {b \in bars : Cardinality({c \in bars : c.open > b.open}) < Lookback}

Gathered(f) ==
  /\ f \in fetching /\ cursor[f] > askedAt[f]
  /\ store' = [at |-> askedAt[f], bars |-> Newest(ClosedOnly(gathered[f], askedAt[f]))]
  /\ shown' = [shown EXCEPT ![f] = store']
  /\ fetching' = fetching \ {f}
  /\ cursor' = [cursor EXCEPT ![f] = 0]
  /\ askedAt' = [askedAt EXCEPT ![f] = 0]
  /\ gathered' = [gathered EXCEPT ![f] = {}]
  /\ UNCHANGED <<moment, lag>>

-----------------------------------------------------------------------------
(* IndodaxPublicClient.ohlc                                                *)

WholeRange(f) == askedAt[f]   \* mutant of ChunkEnd
ChunkEnd(f) ==
  IF cursor[f] + ChunkSpan - 1 < askedAt[f] THEN cursor[f] + ChunkSpan - 1 ELSE askedAt[f]

\* The exchange's answer to a window.
History(from, to) ==
  {[open |-> o, final |-> o + Duration <= moment] :
     o \in {x \in from..to : x % Duration = 0 /\ x <= moment /\ x > to - ServerSpan}}

FetchChunk(f) ==
  /\ f \in fetching /\ cursor[f] <= askedAt[f]
  /\ gathered' = [gathered EXCEPT ![f] = @ \cup History(cursor[f], ChunkEnd(f))]
  /\ cursor' = [cursor EXCEPT ![f] = ChunkEnd(f) + 1]
  /\ UNCHANGED <<moment, lag, fetching, askedAt, shown, store>>

\* The pair is left out of the cycle.
ChunkFails(f) ==
  /\ f \in fetching /\ cursor[f] <= askedAt[f]
  /\ fetching' = fetching \ {f}
  /\ cursor' = [cursor EXCEPT ![f] = 0]
  /\ askedAt' = [askedAt EXCEPT ![f] = 0]
  /\ gathered' = [gathered EXCEPT ![f] = {}]
  /\ UNCHANGED <<moment, lag, shown, store>>

FeedNext ==
  \/ MomentPasses
  \/ \E f \in Fetchers :
       Serve(f) \/ AskCandles(f) \/ Gathered(f) \/ FetchChunk(f) \/ ChunkFails(f)

FeedSpec == FeedInit /\ [][FeedNext]_feedVars

-----------------------------------------------------------------------------
(* Properties                                                              *)

Candles == [open : Int, final : BOOLEAN]

\* Both clocks start together; a window may begin before them.
FeedTypes ==
  /\ lag \in Lags /\ moment \in lag..LastMoment
  /\ fetching \subseteq Fetchers
  /\ askedAt \in [Fetchers -> 0..LastMoment]
  /\ cursor \in [Fetchers -> Start(0)..(LastMoment + 1)]
  /\ \A f \in Fetchers : gathered[f] \subseteq Candles
  /\ \A held \in {store} \cup {shown[f] : f \in Fetchers} :
        held.at \in 0..LastMoment /\ held.bars \subseteq Candles

\* The candles that have closed at this time, as they are for good.
LastClosed(t) ==
  {[open |-> (t \div Duration - i) * Duration, final |-> TRUE] : i \in 1..Lookback}

\* Whoever asks gets exactly the last closed candles of the time at which it
\* asked: none is missing at the seam of two chunks or cut off by the exchange,
\* none was still forming when it was fetched, and the cache, which a slower
\* request may overwrite with older candles, never shows a candle too few.
FeedIsExact ==
  \A f \in Fetchers : shown[f] # NoCandles => shown[f].bars = LastClosed(shown[f].at)
=============================================================================
