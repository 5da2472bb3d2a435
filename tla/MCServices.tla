----------------------------- MODULE MCServices -----------------------------
(***************************************************************************)
(* One run for the parts that work beside the trading cycle or below it.   *)
(* They share no state: "subject" says which of them a behaviour is about, *)
(* and the others stay in one of their initial states.                     *)
(***************************************************************************)
EXTENDS PendingGrace, ApiCalls, Deadman, Watchdog, OrderCheck, AgentProcess,
        Bulletins, CapitalRebase, OrderNumbers, CandleFeed, TLC

VARIABLE subject   \* the part that moves

\* The choices of the parts that stay are made once.
SuiteInit ==
  /\ subject \in {"grace", "api", "deadman", "watch", "check", "process",
                  "bulletins", "capital", "numbers", "candles"}
  /\ GraceInit /\ ApiInit /\ DeadmanInit /\ WatchInit /\ CheckInit
  /\ ProcInit /\ BulInit /\ CapInit /\ NumInit /\ FeedInit
  /\ subject # "api" => client = "public"
  /\ subject # "check" => key = "trade" /\ ~fill
  /\ subject # "process" => mode = "paper" /\ token
  /\ subject # "capital" => entry = 0 /\ capital = Min(Capitals)
  /\ subject # "numbers" => quote = Min(BestBids)
  /\ subject # "candles" => lag = Min(Lags)

SuiteNext ==
  /\ UNCHANGED subject
  /\ \/ subject = "grace" /\ GraceNext
           /\ UNCHANGED <<apiVars, deadmanVars, watchVars, checkVars, procVars,
                         bulVars, capVars, numVars, feedVars>>
     \/ subject = "api" /\ ApiNext
           /\ UNCHANGED <<graceVars, deadmanVars, watchVars, checkVars, procVars,
                         bulVars, capVars, numVars, feedVars>>
     \/ subject = "deadman" /\ DeadmanNext
           /\ UNCHANGED <<graceVars, apiVars, watchVars, checkVars, procVars,
                         bulVars, capVars, numVars, feedVars>>
     \/ subject = "watch" /\ WatchNext
           /\ UNCHANGED <<graceVars, apiVars, deadmanVars, checkVars, procVars,
                         bulVars, capVars, numVars, feedVars>>
     \/ subject = "check" /\ CheckNext
           /\ UNCHANGED <<graceVars, apiVars, deadmanVars, watchVars, procVars,
                         bulVars, capVars, numVars, feedVars>>
     \/ subject = "process" /\ ProcNext
           /\ UNCHANGED <<graceVars, apiVars, deadmanVars, watchVars, checkVars,
                         bulVars, capVars, numVars, feedVars>>
     \/ subject = "bulletins" /\ BulNext
           /\ UNCHANGED <<graceVars, apiVars, deadmanVars, watchVars, checkVars,
                         procVars, capVars, numVars, feedVars>>
     \/ subject = "capital" /\ CapNext
           /\ UNCHANGED <<graceVars, apiVars, deadmanVars, watchVars, checkVars,
                         procVars, bulVars, numVars, feedVars>>
     \/ subject = "numbers" /\ NumNext
           /\ UNCHANGED <<graceVars, apiVars, deadmanVars, watchVars, checkVars,
                         procVars, bulVars, capVars, feedVars>>
     \/ subject = "candles" /\ FeedNext
           /\ UNCHANGED <<graceVars, apiVars, deadmanVars, watchVars, checkVars,
                         procVars, bulVars, capVars, numVars>>

SuiteSpec ==
  SuiteInit /\ [][SuiteNext]_<<subject, graceVars, apiVars, deadmanVars, watchVars,
                             checkVars, procVars, bulVars, capVars, numVars,
                             feedVars>>

\* The types of the part that moves.
Types ==
  /\ subject = "grace" => GraceTypes
  /\ subject = "api" => ApiTypes
  /\ subject = "deadman" => DeadmanTypes
  /\ subject = "watch" => WatchTypes
  /\ subject = "check" => CheckTypes
  /\ subject = "process" => ProcTypes
  /\ subject = "bulletins" => BulTypes
  /\ subject = "capital" => CapTypes
  /\ subject = "numbers" => NumTypes
  /\ subject = "candles" => FeedTypes

\* The tasks that share a client are alike.
Tasks == Permutations(Callers)
=============================================================================
