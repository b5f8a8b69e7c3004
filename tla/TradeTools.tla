----------------------------- MODULE TradeTools -----------------------------
(***************************************************************************)
(* packages/mcp-server/src: the trading tools of one MCP server process,   *)
(* from the geo gate to the exchange's answer (index.ts, tools/*Order.ts,  *)
(* tradingSession.ts, geoGate.ts, clobClient.ts).                          *)
(*                                                                         *)
(* Tool calls are async functions of one event loop: they interleave at    *)
(* their awaits.  A step is what a call does between two awaits.  The      *)
(* spend guard is the budget of SpendBudget, which SpendGuard implements;  *)
(* it may also say no, or skip a refund, when its lock is busy.            *)
(*                                                                         *)
(* The exchange and the SDK in front of it are external: the SDK posts an  *)
(* order, repeats the post once when no usable answer comes, and resolves  *)
(* with the last answer.  The exchange has dealt with the first post, or   *)
(* never will, by the time it sees the second.                             *)
(***************************************************************************)
EXTENDS SpendBudget, FiniteSets, FiniteSetsExt

CONSTANTS
  Sells,      \* the calls of sell_order; the others are place_order's
  Verdicts,   \* what the worker's /geo may say: a subset of Verdict
  GeoTtl,     \* ticks a verdict is kept, for CACHE_TTL_MS
  MaxCrashes  \* bound on process crashes

Verdict == {"open", "closeOnly", "blocked"}

ASSUME TradeAssumption ==
  /\ IsFiniteSet(Call)
  /\ DailyLimitUsd \in Nat
  /\ Sells \subseteq Call
  /\ Verdicts \subseteq Verdict
  /\ GeoTtl \in Nat \ {0}
  /\ MaxCrashes \in Nat
  /\ Sizes \subseteq Nat
  /\ LastDay \in Nat \ {0}

VARIABLES
  geo,       \* geoGate.ts: cached, "none" before the first answer
  geoAge,    \* ticks since cachedAt
  creds,     \* tradingSession.ts: credsPromise
  stage,     \* stage[c]: where call c is
  attempt,   \* attempt[c]: which post of the SDK is out
  wire,      \* wire[c]: the post is on its way to the exchange
  reply,     \* reply[c]: the exchange's answer on its way back, or NoReply
  order,     \* order[c]: what the exchange holds for call c
  outcome,   \* outcome[c]: what the tool reported
  charge,    \* history: what call c was ever granted, given back or not
  crashes

geoVars == <<geo, geoAge>>
exchangeVars == <<attempt, wire, reply, order>>
vars == <<budgetVars, geoVars, creds, stage, exchangeVars, outcome, charge, crashes>>

(* What postOrder resolves to, as far as classifyOrderPost looks at it.    *)
Response == [success : {"true", "false", "absent"},
             error : {"none", "reason", "duplicate"},
             status : {"absent", "4xx", "5xx"}]
Resp(su, e, st) == [success |-> su, error |-> e, status |-> st]
NoReply == Resp("absent", "none", "absent")
Accepted == Resp("true", "none", "absent")
Refusals == {Resp("false", "reason", "absent"), Resp("absent", "reason", "4xx")}
Duplicates == {Resp("false", "duplicate", "absent"), Resp("absent", "duplicate", "4xx")}
ServerError == Resp("absent", "reason", "5xx")
NoAnswer == Resp("absent", "reason", "absent")

Active == {"asking", "gated", "creds", "threw", "posting"}

TradeTypeOK ==
  /\ clock \in Day
  /\ ledger \in [Day -> Int]
  /\ grant \in [Call -> [day : 0..LastDay, usd : Nat]]
  /\ geo \in Verdict \cup {"none"}
  /\ geoAge \in 0..GeoTtl
  /\ creds \in {"none", "deriving", "have"}
  /\ stage \in [Call -> {"new", "done", "lost"} \cup Active]
  /\ attempt \in [Call -> 0..2]
  /\ wire \in [Call -> BOOLEAN]
  /\ reply \in [Call -> Response]
  /\ order \in [Call -> {"absent", "held", "canceled"}]
  /\ outcome \in [Call -> {"none", "ok", "refused", "unknown"}]
  /\ charge \in [Call -> [day : 0..LastDay, usd : Nat]]
  /\ crashes \in 0..MaxCrashes

TradeInit ==
  /\ BudgetInit
  /\ geo = "none"
  /\ geoAge = 0
  /\ creds = "none"
  /\ stage = [c \in Call |-> "new"]
  /\ attempt = [c \in Call |-> 0]
  /\ wire = [c \in Call |-> FALSE]
  /\ reply = [c \in Call |-> NoReply]
  /\ order = [c \in Call |-> "absent"]
  /\ outcome = [c \in Call |-> "none"]
  /\ charge = [c \in Call |-> NoGrant]
  /\ crashes = 0

-----------------------------------------------------------------------------
(* The tool answers and is finished with call c. *)
Report(c, what) ==
  /\ stage' = [stage EXCEPT ![c] = "done"]
  /\ outcome' = [outcome EXCEPT ![c] = what]

(* The jurisdiction gate: a sell closes a position, which close-only allows. *)
MayTrade(c, v) == v = "open" \/ (c \in Sells /\ v = "closeOnly")

PassGate(c, v) ==
  \/ /\ MayTrade(c, v)
     /\ stage' = [stage EXCEPT ![c] = "gated"]
     /\ UNCHANGED outcome
  \/ /\ ~MayTrade(c, v)
     /\ Report(c, "refused")

(* checkTradingGeoGate with a verdict in the cache. *)
GateCached(c) ==
  /\ stage[c] = "new"
  /\ geo # "none"
  /\ geoAge < GeoTtl
  /\ PassGate(c, geo)
  /\ UNCHANGED <<budgetVars, geoVars, creds, exchangeVars, charge, crashes>>

(* checkTradingGeoGate without one: ask the worker. *)
GateAsk(c) ==
  /\ stage[c] = "new"
  /\ geo = "none" \/ geoAge = GeoTtl
  /\ stage' = [stage EXCEPT ![c] = "asking"]
  /\ UNCHANGED <<budgetVars, geoVars, creds, exchangeVars, outcome, charge, crashes>>

FailedLookup == "blocked"

(* The worker's answer, or a failure, which is taken and kept as blocked.  *)
GeoAnswer(c) ==
  /\ stage[c] = "asking"
  /\ geo' \in Verdicts \cup {FailedLookup}
  /\ geoAge' = 0
  /\ PassGate(c, geo')
  /\ UNCHANGED <<budgetVars, creds, exchangeVars, charge, crashes>>

(* No market, no tick price or a size below the market's minimum; or the   *)
(* spend guard says no: over a limit, busy or unable to save.              *)
RejectInput(c) ==
  /\ stage[c] = "gated"
  /\ Report(c, "refused")
  /\ UNCHANGED <<budgetVars, geoVars, creds, exchangeVars, charge, crashes>>

(* spendGuard.reserve says yes, and signAndSubmit starts in the same turn: *)
(* getCreds joins the derivation under way or starts one.                  *)
ReserveAndSign(c, a) ==
  /\ stage[c] = "gated"
  /\ Grant(c, a)
  /\ charge' = [charge EXCEPT ![c] = [day |-> clock, usd |-> a]]
  /\ stage' = [stage EXCEPT ![c] = "creds"]
  /\ creds' = IF creds = "none" THEN "deriving" ELSE creds
  /\ UNCHANGED <<geoVars, exchangeVars, outcome, crashes>>

DerivationSucceeds ==
  /\ creds = "deriving"
  /\ creds' = "have"
  /\ UNCHANGED <<budgetVars, geoVars, stage, exchangeVars, outcome, charge, crashes>>

(* spendGuard.release: refunds, or does nothing when the day is over or    *)
(* the lock is busy.                                                       *)
SpendRelease(c) == Refund(c) \/ UNCHANGED budgetVars

(* The failed derivation is forgotten, so that a later call tries again,   *)
(* and every call that waits for it throws.                                *)
DerivationFails ==
  /\ creds = "deriving"
  /\ creds' = "none"
  /\ stage' = [c \in Call |-> IF stage[c] = "creds" THEN "threw" ELSE stage[c]]
  /\ UNCHANGED <<budgetVars, geoVars, exchangeVars, outcome, charge, crashes>>

(* A call whose derivation failed, or whose signing throws: no builder     *)
(* code, or the SDK refuses to build the order.                            *)
SignThrows(c) ==
  /\ stage[c] = "threw" \/ (creds = "have" /\ stage[c] = "creds")
  /\ Report(c, "refused")
  /\ SpendRelease(c)
  /\ UNCHANGED <<geoVars, creds, exchangeVars, charge, crashes>>

(* Signed: the SDK posts the order. *)
Post(c) ==
  /\ creds = "have"
  /\ stage[c] = "creds"
  /\ stage' = [stage EXCEPT ![c] = "posting"]
  /\ attempt' = [attempt EXCEPT ![c] = 1]
  /\ wire' = [wire EXCEPT ![c] = TRUE]
  /\ UNCHANGED <<budgetVars, geoVars, creds, reply, order, outcome, charge, crashes>>

-----------------------------------------------------------------------------
(* The exchange and the network (external). *)

(* A post arrives.  The exchange takes or refuses a new order, and calls a *)
(* repeat a duplicate; a gateway may answer for it either way.             *)
ExchangeAnswers(c) ==
  /\ wire[c]
  /\ wire' = [wire EXCEPT ![c] = FALSE]
  /\ \/ /\ order[c] = "absent"
        /\ order' = [order EXCEPT ![c] = "held"]
        /\ \E r \in {Accepted, ServerError} : reply' = [reply EXCEPT ![c] = r]
     \/ /\ \E r \in {ServerError} \cup
                   (IF order[c] = "absent" THEN Refusals ELSE Duplicates) :
             reply' = [reply EXCEPT ![c] = r]
        /\ UNCHANGED order
  /\ UNCHANGED <<budgetVars, geoVars, creds, stage, attempt, outcome, charge, crashes>>

PostLost(c) ==
  /\ wire[c]
  /\ wire' = [wire EXCEPT ![c] = FALSE]
  /\ UNCHANGED <<budgetVars, geoVars, creds, stage, attempt, reply, order, outcome, charge, crashes>>

(* cancel_order: the exchange withdraws an order.  No budget comes back.   *)
CancelOrder(c) ==
  /\ outcome[c] = "ok"
  /\ order[c] = "held"
  /\ order' = [order EXCEPT ![c] = "canceled"]
  /\ UNCHANGED <<budgetVars, geoVars, creds, stage, attempt, wire, reply, outcome, charge, crashes>>

-----------------------------------------------------------------------------
(* Mutant: a repeat the exchange refuses as a duplicate counts as refused. *)
ClassifyNoDuplicate(r) ==
  CASE r.success = "true" -> "accepted"
    [] r.status = "5xx" -> "unknown"
    [] r.success = "absent" /\ r.error # "none" /\ r.status = "absent" -> "unknown"
    [] OTHER -> "rejected"

(* Mutant: every answer with a status is the exchange saying no. *)
ClassifyAnyStatus(r) ==
  CASE r.success = "true" -> "accepted"
    [] r.error = "duplicate" -> "unknown"
    [] r.success = "absent" /\ r.error # "none" /\ r.status = "absent" -> "unknown"
    [] OTHER -> "rejected"

classifyOrderPost(r) ==
  CASE r.success = "true" -> "accepted"
    [] r.success # "true" /\ r.error = "duplicate" -> "unknown"
    [] r.success # "true" /\ r.error # "duplicate" /\ r.status # "absent" ->
         IF r.status = "5xx" THEN "unknown" ELSE "rejected"
    [] OTHER -> IF r.success = "absent" /\ r.error # "none" THEN "unknown" ELSE "rejected"

(* What the SDK may take for the answer of the post under way: the reply,  *)
(* or none, once the exchange has dealt with the post; none at any time    *)
(* for the last post.                                                      *)
Heard(c, r) ==
  /\ stage[c] = "posting"
  /\ \/ r = reply[c] /\ reply[c] # NoReply
     \/ r = NoAnswer /\ (~wire[c] \/ attempt[c] = 2)

(* Mutant: the SDK never stops repeating. *)
SameAttempt(c) == attempt[c]

NextAttempt(c) == attempt[c] + 1

(* The SDK repeats a post that got no usable answer, once. *)
Repost(c) ==
  /\ attempt[c] = 1
  /\ Heard(c, NoAnswer) \/ Heard(c, ServerError)
  /\ attempt' = [attempt EXCEPT ![c] = NextAttempt(c)]
  /\ wire' = [wire EXCEPT ![c] = TRUE]
  /\ reply' = [reply EXCEPT ![c] = NoReply]
  /\ UNCHANGED <<budgetVars, geoVars, creds, stage, order, outcome, charge, crashes>>

(* submitSignedOrder and the end of placeOrder/sellOrder: an accepted or   *)
(* an unclear result keeps its budget, a refusal gives it back.            *)
Conclude(c, r) ==
  /\ Heard(c, r)
  /\ attempt[c] = 1 => r \notin {NoAnswer, ServerError}
  /\ \/ /\ classifyOrderPost(r) = "accepted"
        /\ Report(c, "ok")
        /\ UNCHANGED budgetVars
     \/ /\ classifyOrderPost(r) = "unknown"
        /\ Report(c, "unknown")
        /\ UNCHANGED budgetVars
     \/ /\ classifyOrderPost(r) = "rejected"
        /\ Report(c, "refused")
        /\ SpendRelease(c)
  /\ UNCHANGED <<geoVars, creds, exchangeVars, charge, crashes>>

(* postOrder throws after all: the post may have left. *)
PostThrows(c) ==
  /\ stage[c] = "posting"
  /\ Report(c, "unknown")
  /\ UNCHANGED <<budgetVars, geoVars, creds, exchangeVars, charge, crashes>>

-----------------------------------------------------------------------------
(* The process dies: its calls are lost, its caches are empty, what it has *)
(* sent still arrives, and its budget is on disk.                          *)
Crash ==
  /\ crashes < MaxCrashes
  /\ crashes' = crashes + 1
  /\ stage' = [c \in Call |-> IF stage[c] \in Active THEN "lost" ELSE stage[c]]
  /\ creds' = "none"
  /\ geo' = "none"
  /\ geoAge' = 0
  /\ UNCHANGED <<budgetVars, exchangeVars, outcome, charge>>

Tick ==
  /\ geo # "none"
  /\ geoAge < GeoTtl
  /\ geoAge' = geoAge + 1
  /\ UNCHANGED <<budgetVars, geo, creds, stage, exchangeVars, outcome, charge, crashes>>

NextDay ==
  /\ Midnight
  /\ UNCHANGED <<geoVars, creds, stage, exchangeVars, outcome, charge, crashes>>

(* The next thing the event loop does for a call that has begun. *)
Advance(c) ==
  \/ GeoAnswer(c)
  \/ RejectInput(c)
  \/ \E a \in Sizes : ReserveAndSign(c, a)
  \/ SignThrows(c)
  \/ Post(c)
  \/ Repost(c)
  \/ \E r \in Response : Conclude(c, r)
  \/ PostThrows(c)

TradeNext ==
  \/ \E c \in Call :
       \/ GateCached(c)
       \/ GateAsk(c)
       \/ Advance(c)
       \/ ExchangeAnswers(c)
       \/ PostLost(c)
       \/ CancelOrder(c)
  \/ DerivationSucceeds
  \/ DerivationFails
  \/ Crash
  \/ Tick
  \/ NextDay

TradeSpec == TradeInit /\ [][TradeNext]_vars

(* Promises settle: the event loop resumes a call whose answer is there,   *)
(* fetches and derivations end, posts arrive or are lost.                  *)
TradeFairness ==
  /\ \A c \in Call : WF_vars(Advance(c)) /\ WF_vars(ExchangeAnswers(c) \/ PostLost(c))
  /\ WF_vars(DerivationSucceeds \/ DerivationFails)

FairTradeSpec == TradeSpec /\ TradeFairness

-----------------------------------------------------------------------------
(* Properties. *)

(* Real money: the orders the exchange took, counted on the day they were  *)
(* charged to, stay within dailyLimitUsd, whatever answers were lost.      *)
Took(d) == {c \in Call : order[c] # "absent" /\ charge[c].day = d}
charged == [c \in Call |-> charge[c].usd]
ExchangeWithinDailyLimit ==
  \A d \in Day : MapThenSumSet(LAMBDA c : charged[c], Took(d)) <= DailyLimitUsd

(* No refund for an order that was placed or may still be: as long as a    *)
(* post is out or the exchange holds the order, its budget stays reserved. *)
PlacedOrderKeepsBudget ==
  \A c \in Call : wire[c] \/ order[c] # "absent" => grant[c] # NoGrant

(* What a tool tells its agent is true: "refused" means nothing was placed *)
(* nor will be, so a retry is safe; "ok" means the order was placed.       *)
ReportIsTrue ==
  \A c \in Call :
    /\ outcome[c] = "refused" => order[c] = "absent" /\ ~wire[c]
    /\ outcome[c] = "ok" => order[c] # "absent"

(* The inductive invariant behind the theorems of AgentProofs: what         *)
(* the stage of a call, its post and its answer say about its order.       *)
CallSound(c) ==
  /\ stage[c] \in {"new", "asking", "gated"} => grant[c] = NoGrant
  /\ stage[c] \in {"creds", "threw", "posting"} => grant[c] # NoGrant
  /\ stage[c] \in {"new", "asking", "gated", "creds", "threw"} =>
       ~wire[c] /\ reply[c] = NoReply /\ order[c] = "absent"
  /\ outcome[c] # "none" <=> stage[c] = "done"
  /\ reply[c] \in {NoReply, Accepted, ServerError} \cup Refusals \cup Duplicates
  /\ reply[c] # NoReply => ~wire[c]
  /\ reply[c] \in Refusals => order[c] = "absent"
  /\ reply[c] = Accepted => order[c] # "absent"

TradeIInv ==
  /\ TradeTypeOK
  /\ \A c \in Call : CallSound(c)
  /\ PlacedOrderKeepsBudget
  /\ ReportIsTrue

(* What the calls hold adds up to the ledger, and a call holds what it was *)
(* charged.                                                                *)
HeldOn(d) == {c \in Call : grant[c].day = d}
held == [c \in Call |-> grant[c].usd]
BudgetSound ==
  \A d \in Day :
    /\ ledger[d] = MapThenSumSet(LAMBDA c : held[c], HeldOn(d))
    /\ ledger[d] <= DailyLimitUsd
HeldWasCharged == \A c \in Call : grant[c] # NoGrant => charge[c] = grant[c]
BudgetIInv == TradeIInv /\ BudgetSound /\ HeldWasCharged

(* Every call that got going is answered, or dies with the process. *)
CallEnds == \A c \in Call : stage[c] \in Active ~> stage[c] \in {"done", "lost"}

=============================================================================
