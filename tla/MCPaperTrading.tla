-------------------------- MODULE MCPaperTrading --------------------------
(***************************************************************************)
(* One run for trading on paper (PaperTrading), for the backtester         *)
(* (Backtest) and for the account that the live agent shares with the      *)
(* skills (SharedAccount).  They share no state: "subject" says which of   *)
(* them a behaviour is about, and the others stay in an initial state.     *)
(*                                                                         *)
(* PaperTrading has one pair whose price moves so far that a resting sell  *)
(* can be overtaken by a stop, and others whose price stands.              *)
(***************************************************************************)
EXTENDS PaperTrading, Backtest, SharedAccount, TLC

CONSTANTS btc, eth, sol

MCBids == [p \in Pairs |-> IF p = btc THEN {1, 2, 3} ELSE {2}]

\* eth and sol are interchangeable.
PairSymmetry == Permutations(Pairs \ {btc})

\* The account: two units of each asset are the agent's, the skills' book says
\* a unit of the coin and two of IDR, one unit of each is nobody's.
MCAgent == [a \in Assets |-> 2]
MCBook == [a \in Assets |-> IF a = Idr THEN 2 ELSE 1]
MCSpare == [a \in Assets |-> 1]
MCBuffer == [a \in Assets |-> IF a = Idr THEN 1 ELSE 0]

VARIABLE subject   \* the part that moves

\* The choices of the parts that stay are made once.
SuiteInit ==
  /\ subject \in {"paper", "backtest", "account"}
  /\ Init /\ BtInit /\ ShareInit
  /\ subject # "paper" => mode = "manager" /\ \A p \in Pairs : bid[p] = 2
  /\ subject # "backtest" => bars = {}

SuiteNext ==
  /\ UNCHANGED subject
  /\ \/ subject = "paper" /\ Next /\ UNCHANGED <<btVars, shareVars>>
     \/ subject = "backtest" /\ BtNext /\ UNCHANGED <<vars, shareVars>>
     \/ subject = "account" /\ ShareNext /\ UNCHANGED <<vars, btVars>>

SuiteSpec == SuiteInit /\ [][SuiteNext]_<<subject, vars, btVars, shareVars>>

\* The types of the part that moves.
Types ==
  /\ subject = "paper" => TypeOK
  /\ subject = "backtest" => BtTypes
  /\ subject = "account" => ShareTypes
=============================================================================
