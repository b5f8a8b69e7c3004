---------------------------- MODULE SpendBudget ----------------------------
(***************************************************************************)
(* What the MCP server's spend guard promises (spendGuard.ts), with no     *)
(* processes, files or locks: on every UTC day, the budget granted and not *)
(* given back stays within the daily limit, no grant is larger than the    *)
(* per-order limit, and a grant is given back at most once, on the day it  *)
(* was made, by the call that got it, in full.                             *)
(***************************************************************************)
EXTENDS Integers

CONSTANTS
  Call,           \* calls that ask for budget
  Sizes,          \* order sizes a caller may ask for, in USD
  MaxOrderUsd,    \* config.maxOrderUsd
  DailyLimitUsd,  \* config.dailyLimitUsd
  LastDay         \* bound: the last UTC day a behaviour reaches

Day == 1..LastDay

NoGrant == [day |-> 0, usd |-> 0]

VARIABLES
  clock,   \* the current UTC day
  ledger,  \* ledger[d]: USD granted on day d and not given back
  grant    \* grant[c]: the day and size of what call c was granted

budgetVars == <<clock, ledger, grant>>

BudgetInit ==
  /\ clock = 1
  /\ ledger = [d \in Day |-> 0]
  /\ grant = [c \in Call |-> NoGrant]

(* A grant fits the per-order limit and what is left of today's limit. *)
Grant(c, a) ==
  /\ grant[c] = NoGrant
  /\ a > 0
  /\ a <= MaxOrderUsd
  /\ ledger[clock] + a <= DailyLimitUsd
  /\ ledger' = [ledger EXCEPT ![clock] = @ + a]
  /\ grant' = [grant EXCEPT ![c] = [day |-> clock, usd |-> a]]
  /\ UNCHANGED clock

Refund(c) ==
  /\ grant[c].day = clock
  /\ ledger' = [ledger EXCEPT ![clock] = @ - grant[c].usd]
  /\ grant' = [grant EXCEPT ![c] = NoGrant]
  /\ UNCHANGED clock

Midnight ==
  /\ clock < LastDay
  /\ clock' = clock + 1
  /\ UNCHANGED <<ledger, grant>>

BudgetNext ==
  \/ \E c \in Call, a \in Sizes : Grant(c, a)
  \/ \E c \in Call : Refund(c)
  \/ Midnight

BudgetSpec == BudgetInit /\ [][BudgetNext]_budgetVars

============================================================================
