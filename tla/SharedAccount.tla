---------------------------- MODULE SharedAccount ----------------------------
(***************************************************************************)
(* Two programs trade on one exchange account: the live agent and, beside  *)
(* it, the skills pipeline (scripts/skills.py), which is started by a      *)
(* timer and may only use the money "fenced" for it.  Before it trades it  *)
(* reads its book, then the account, then the agent's database, and        *)
(* computes from the three what is its own.  The agent on its side         *)
(* compares its ledger with the account in every cycle                     *)
(* (agent/execution/reconcile.py) and stops trading when the account holds *)
(* less than the ledger says.                                              *)
(*                                                                         *)
(* An asset is IDR or a coin; an order of the agent gives one for the      *)
(* other, one unit for one.  Fees, the owner's own deposits and orders are *)
(* left out.  The broker of the skills, which is not part of the source,   *)
(* trades at once, at most what the fence allows, and leaves no orders.    *)
(*                                                                         *)
(* A definition marked "mutant of" is a bug that the runs must catch, put  *)
(* in the place of the definition it names; nothing else uses it.          *)
(***************************************************************************)
EXTENDS Integers

CONSTANTS
  Idr, Coins,  \* the assets
  AgentOwns,   \* what the agent owns of each asset at the start
  SkillsBook,  \* what the book of the skills says they own
  Spare,       \* what the account has beyond the agent's part
  Buffer,      \* IDR_BUFFER; none for a coin
  MaxTrades,   \* bound: orders of the agent
  Quiet        \* the skills read only while no fill is waiting to be booked

Assets == {Idr} \cup Coins

ASSUME SharesAssumption ==
  /\ AgentOwns \in [Assets -> Nat] /\ SkillsBook \in [Assets -> Nat]
  /\ Spare \in [Assets -> Nat] /\ Buffer \in [Assets -> Nat]
  /\ MaxTrades \in Nat /\ Quiet \in BOOLEAN

VARIABLES
  free, locked,  \* the account: per asset, free and in orders
  mine,          \* the agent's ledger, as its database has it
  resting,       \* its order: none, open, filled but not booked
  turn,          \* where its cycle is
  recon,         \* the last reconciliation
  filled,        \* an order has filled since the cycle looked at its orders
  trades,        \* orders the agent has sent
  stage,         \* where the skills are
  book,          \* their book
  seen,          \* the account as they read it
  fenced         \* what they may use of each asset

account == <<free, locked>>
agent == <<mine, resting, turn, recon, filled, trades>>
skills == <<stage, book, seen, fenced>>
shareVars == <<account, agent, skills>>

NoOrder == [st |-> "none"]
Orders == {NoOrder} \cup
  [st : {"open", "filled"}, from : Assets, to : Assets, qty : Nat]

ShareTypes ==
  /\ free \in [Assets -> Nat] /\ locked \in [Assets -> Nat]
  /\ mine \in [Assets -> Nat]
  /\ resting \in Orders
  /\ turn \in {"idle", "synced", "checked"}
  /\ recon \in {"ok", "mismatch"} /\ filled \in BOOLEAN
  /\ trades \in 0..MaxTrades
  /\ stage \in {"idle", "book", "account", "fenced"}
  /\ book \in [Assets -> Nat] /\ fenced \in [Assets -> Nat]
  /\ seen \in [free : [Assets -> Nat], locked : [Assets -> Nat]]

ShareInit ==
  /\ free = [a \in Assets |-> AgentOwns[a] + Spare[a]]
  /\ locked = [a \in Assets |-> 0]
  /\ mine = AgentOwns
  /\ resting = NoOrder /\ turn = "idle" /\ recon = "ok" /\ filled = FALSE
  /\ trades = 0
  /\ stage = "idle" /\ book = SkillsBook
  /\ seen = [free |-> free, locked |-> locked]
  /\ fenced = [a \in Assets |-> 0]

-----------------------------------------------------------------------------
(* The agent                                                               *)

\* The skills are between their reads of the account and of the ledger.
Reading == stage = "account"
Undisturbed == Quiet => ~Reading

\* check_resting: a fill is booked, and the cycle goes on.
SyncOrders ==
  /\ turn = "idle" /\ Undisturbed
  /\ IF resting.st = "filled"
     THEN /\ mine' = [mine EXCEPT ![resting.from] = @ - resting.qty,
                                  ![resting.to] = @ + resting.qty]
          /\ resting' = NoOrder
     ELSE UNCHANGED <<mine, resting>>
  /\ turn' = "synced"
  /\ filled' = FALSE
  /\ UNCHANGED <<account, recon, trades, skills>>

\* reconcile: does the account still hold the coins of the ledger?
FreeOnly(a) == free[a]               \* mutant of Total
Total(a) == free[a] + locked[a]
Reconcile ==
  /\ turn = "synced"
  /\ recon' = IF \E a \in Coins : Total(a) < mine[a] THEN "mismatch" ELSE "ok"
  /\ turn' = "checked"
  /\ UNCHANGED <<account, mine, resting, filled, trades, skills>>

\* The agent's part of the free balance.
AgentFree(a) ==
  IF resting.st # "none" /\ resting.from = a THEN mine[a] - resting.qty ELSE mine[a]

\* A mismatch stops all orders of the cycle.
SendOrder ==
  /\ turn = "checked" /\ recon = "ok" /\ Undisturbed
  /\ resting = NoOrder /\ trades < MaxTrades
  /\ \E from, to \in Assets :
       /\ from # to
       /\ \E qty \in 1..mine[from] :
            /\ qty <= free[from]
            /\ resting' = [st |-> "open", from |-> from, to |-> to, qty |-> qty]
            /\ free' = [free EXCEPT ![from] = @ - qty]
            /\ locked' = [locked EXCEPT ![from] = @ + qty]
  /\ trades' = trades + 1
  /\ turn' = "idle"
  /\ UNCHANGED <<mine, recon, filled, skills>>

EndCycle ==
  /\ turn = "checked"
  /\ turn' = "idle"
  /\ UNCHANGED <<account, mine, resting, recon, filled, trades, skills>>

\* The exchange fills the order: the coins arrive, the row does not know yet.
OrderFills ==
  /\ resting.st = "open" /\ Undisturbed
  /\ resting' = [resting EXCEPT !.st = "filled"]
  /\ locked' = [locked EXCEPT ![resting.from] = @ - resting.qty]
  /\ free' = [free EXCEPT ![resting.to] = @ + resting.qty]
  /\ filled' = TRUE
  /\ UNCHANGED <<mine, turn, recon, trades, skills>>

-----------------------------------------------------------------------------
(* The skills: write_fence, and a trade within it                          *)

ReadBook ==
  /\ stage = "idle"
  /\ stage' = "book"
  /\ UNCHANGED <<account, agent, book, seen, fenced>>

ReadAccount ==
  /\ stage = "book" /\ (Quiet => resting.st # "filled")
  /\ seen' = [free |-> free, locked |-> locked]
  /\ stage' = "account"
  /\ UNCHANGED <<account, agent, book, fenced>>

AtLeast0(x) == IF x > 0 THEN x ELSE 0
Smaller(x, y) == IF x < y THEN x ELSE y

\* fence: the agent's claim is its ledger less what is locked, as the account
\* was read; what is free beyond it, up to the book, may be used.
Claim(a) == AtLeast0(mine[a] - seen.locked[a])
ReadClaim ==
  /\ stage = "account"
  /\ fenced' = [a \in Assets |->
       AtLeast0(Smaller(book[a], seen.free[a] - Claim(a) - Buffer[a]))]
  /\ stage' = "fenced"
  /\ UNCHANGED <<account, agent, book, seen>>

\* The skills' own cycle: it buys or sells at once, within the fence.
SkillsTrade ==
  /\ stage = "fenced"
  /\ \E from, to \in Assets :
       /\ from # to
       /\ \E qty \in 1..Smaller(fenced[from], free[from]) :
            /\ free' = [free EXCEPT ![from] = @ - qty, ![to] = @ + qty]
            /\ book' = [book EXCEPT ![from] = @ - qty, ![to] = @ + qty]
            /\ fenced' = [fenced EXCEPT ![from] = @ - qty]
  /\ UNCHANGED <<locked, agent, stage, seen>>

SkillsDone ==
  /\ stage = "fenced"
  /\ stage' = "idle"
  /\ fenced' = [a \in Assets |-> 0]
  /\ seen' = [free |-> free, locked |-> locked]
  /\ UNCHANGED <<account, agent, book>>

ShareNext ==
  \/ SyncOrders \/ Reconcile \/ SendOrder \/ EndCycle \/ OrderFills
  \/ ReadBook \/ ReadAccount \/ ReadClaim \/ SkillsTrade \/ SkillsDone

ShareSpec == ShareInit /\ [][ShareNext]_shareVars

-----------------------------------------------------------------------------
\* What is free on the account always covers the agent's part of it: "the
\* skills can never spend the agent's IDR or sell the agent's coins"
\* (skills.py:19).
AgentCovered == \A a \in Assets : free[a] >= AgentFree(a)

\* The agent stops for a mismatch only when one of its own orders filled
\* between its look at the orders and its look at the balances: never for its
\* resting orders, and never for what the skills do.
MismatchIsOwnFill == turn = "checked" /\ recon = "mismatch" => filled
=============================================================================
