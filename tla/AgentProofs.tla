---------------------------- MODULE AgentProofs ----------------------------
(***************************************************************************)
(* Machine-checked facts about what an agent is told and what it may       *)
(* spend: TradeTools, for every set of calls, sizes, limits, verdicts and  *)
(* crashes, and MarketSupply, for every listing, number of jobs and calls, *)
(* order of moves, failures and answers.                                   *)
(***************************************************************************)
EXTENDS TradeTools, MarketSupply, SumTheorems, SequenceTheorems

-----------------------------------------------------------------------------
(* Trades and their budget.                                                *)

(* What classifyOrderPost makes of each answer that can be heard. *)
LEMMA Classification ==
  /\ classifyOrderPost(Accepted) = "accepted"
  /\ classifyOrderPost(ServerError) = "unknown"
  /\ classifyOrderPost(NoAnswer) = "unknown"
  /\ \A r \in Refusals : classifyOrderPost(r) = "rejected"
  /\ \A r \in Duplicates : classifyOrderPost(r) = "unknown"
BY DEF classifyOrderPost, Accepted, ServerError, NoAnswer, Refusals, Duplicates, Resp

(* The answers differ from one another and are responses. *)
LEMMA AnswersDiffer ==
  /\ {NoReply, NoAnswer, Accepted, ServerError} \cup Refusals \cup Duplicates
       \subseteq Response
  /\ NoReply \notin {NoAnswer, Accepted, ServerError} \cup Refusals \cup Duplicates
  /\ Accepted \notin Refusals \cup Duplicates \cup {ServerError, NoAnswer}
  /\ ServerError \notin Refusals \cup Duplicates \cup {NoAnswer}
  /\ NoAnswer \notin Refusals \cup Duplicates
  /\ Refusals \cap Duplicates = {}
BY DEF NoReply, NoAnswer, Accepted, ServerError, Refusals, Duplicates, Resp, Response

(* The other calls, and the budget, exactly as they were. *)
LEMMA OthersSound ==
  ASSUME TradeIInv, NEW c \in Call,
         \A k \in Call \ {c} :
           /\ stage'[k] = stage[k]
           /\ grant'[k] = grant[k]
           /\ wire'[k] = wire[k]
           /\ reply'[k] = reply[k]
           /\ order'[k] = order[k]
           /\ outcome'[k] = outcome[k],
         TradeTypeOK',
         CallSound(c)',
         wire'[c] \/ order'[c] # "absent" => grant'[c] # NoGrant,
         outcome'[c] = "refused" => order'[c] = "absent" /\ ~wire'[c],
         outcome'[c] = "ok" => order'[c] # "absent"
  PROVE  TradeIInv'
<1>1. \A k \in Call : CallSound(k)'
  <2>1. ASSUME NEW k \in Call \ {c} PROVE CallSound(k)'
    BY <2>1 DEF TradeIInv, CallSound
  <2>2. QED
    BY <2>1
<1>2. PlacedOrderKeepsBudget'
  BY DEF TradeIInv, PlacedOrderKeepsBudget
<1>3. ReportIsTrue'
  BY DEF TradeIInv, ReportIsTrue
<1>4. QED
  BY <1>1, <1>2, <1>3 DEF TradeIInv

(* What a release may do to the budget. *)
LEMMA ReleaseType ==
  ASSUME TradeTypeOK, NEW c \in Call, SpendRelease(c)
  PROVE  /\ clock' \in Day
         /\ ledger' \in [Day -> Int]
         /\ grant' \in [Call -> [day : 0..LastDay, usd : Nat]]
         /\ \A k \in Call \ {c} : grant'[k] = grant[k]
<1>1. CASE UNCHANGED budgetVars
  BY <1>1 DEF TradeTypeOK, budgetVars
<1>2. CASE Refund(c)
  <2>1. NoGrant \in [day : 0..LastDay, usd : Nat]
    BY TradeAssumption DEF NoGrant
  <2>2. ledger' \in [Day -> Int]
    BY <1>2 DEF TradeTypeOK, Refund
  <2>3. QED
    BY <1>2, <2>1, <2>2 DEF TradeTypeOK, Refund
<1>3. QED
  BY <1>1, <1>2 DEF SpendRelease

LEMMA TradeInitInv == TradeInit => TradeIInv
<1> SUFFICES ASSUME TradeInit PROVE TradeIInv
  OBVIOUS
<1>1. TradeTypeOK
  BY TradeAssumption, AnswersDiffer
  DEF TradeInit, BudgetInit, TradeTypeOK, Day, NoGrant, Active
<1>2. \A c \in Call : CallSound(c)
  BY AnswersDiffer DEF TradeInit, BudgetInit, CallSound
<1>3. PlacedOrderKeepsBudget /\ ReportIsTrue
  BY DEF TradeInit, PlacedOrderKeepsBudget, ReportIsTrue
<1>4. QED
  BY <1>1, <1>2, <1>3 DEF TradeIInv

-----------------------------------------------------------------------------
(* Before an order is posted. *)

LEMMA GateInv ==
  ASSUME TradeIInv, NEW c \in Call, GateCached(c) \/ GateAsk(c) \/ GeoAnswer(c)
  PROVE  TradeIInv'
<1>1. stage[c] \in {"new", "asking"}
  BY DEF GateCached, GateAsk, GeoAnswer
<1>2. PICK p \in {"asking", "gated", "done"} :
        /\ stage' = [stage EXCEPT ![c] = p]
        /\ \/ p # "done" /\ UNCHANGED outcome
           \/ p = "done" /\ outcome' = [outcome EXCEPT ![c] = "refused"]
  BY DEF GateCached, GateAsk, GeoAnswer, PassGate, Report
<1>3. UNCHANGED <<budgetVars, creds, exchangeVars, charge, crashes>>
  BY DEF GateCached, GateAsk, GeoAnswer
<1>4. /\ geo' \in Verdict \cup {"none"}
      /\ geoAge' \in 0..GeoTtl
  <2>1. CASE UNCHANGED geoVars
    BY <2>1 DEF geoVars, TradeIInv, TradeTypeOK
  <2>2. CASE GeoAnswer(c)
    <3>1. geo' \in Verdicts \cup {"blocked"} /\ geoAge' = 0
      BY <2>2 DEF GeoAnswer, FailedLookup
    <3>2. QED
      BY <3>1, TradeAssumption DEF TradeIInv, TradeTypeOK, Verdict
  <2>3. QED
    BY <2>1, <2>2 DEF GateCached, GateAsk
<1>5. TradeTypeOK'
  BY <1>2, <1>3, <1>4 DEF TradeIInv, TradeTypeOK, budgetVars, exchangeVars, Active
<1>6. QED
  BY <1>1, <1>2, <1>3, <1>5, OthersSound, SMTT(30)
  DEF TradeIInv, TradeTypeOK, CallSound, budgetVars, exchangeVars

LEMMA RejectInputInv ==
  ASSUME TradeIInv, NEW c \in Call, RejectInput(c)
  PROVE  TradeIInv'
<1>1. TradeTypeOK'
  BY DEF RejectInput, Report, TradeIInv, TradeTypeOK, budgetVars, geoVars, exchangeVars
<1>2. QED
  BY <1>1, OthersSound, SMTT(30)
  DEF RejectInput, Report, TradeIInv, TradeTypeOK, CallSound, budgetVars, exchangeVars

LEMMA ReserveInv ==
  ASSUME TradeIInv, NEW c \in Call, NEW a \in Sizes, ReserveAndSign(c, a)
  PROVE  TradeIInv'
<1>1. /\ stage[c] = "gated"
      /\ stage' = [stage EXCEPT ![c] = "creds"]
      /\ grant' = [grant EXCEPT ![c] = [day |-> clock, usd |-> a]]
      /\ ledger' = [ledger EXCEPT ![clock] = @ + a]
      /\ charge' = [charge EXCEPT ![c] = [day |-> clock, usd |-> a]]
      /\ UNCHANGED <<clock, geoVars, exchangeVars, outcome, crashes>>
      /\ creds' \in {creds, "deriving"}
  BY DEF ReserveAndSign, Grant
<1>2. clock \in 0..LastDay /\ clock # 0 /\ a \in Nat
  BY TradeAssumption DEF TradeIInv, TradeTypeOK, Day
<1>3. grant'[c] # NoGrant
  BY <1>1, <1>2 DEF TradeIInv, TradeTypeOK, NoGrant
<1>4. TradeTypeOK'
  <2>1. ledger' \in [Day -> Int]
    BY <1>1, <1>2 DEF TradeIInv, TradeTypeOK
  <2>2. QED
    BY <1>1, <1>2, <2>1 DEF TradeIInv, TradeTypeOK, geoVars, exchangeVars, Active
<1>5. QED
  BY <1>1, <1>3, <1>4, OthersSound, SMTT(30) DEF TradeIInv, TradeTypeOK, CallSound, exchangeVars

LEMMA DerivationInv ==
  ASSUME TradeIInv, DerivationSucceeds \/ DerivationFails
  PROVE  TradeIInv'
<1>1. UNCHANGED <<budgetVars, geoVars, exchangeVars, outcome, charge, crashes>>
  BY DEF DerivationSucceeds, DerivationFails
<1>2. TradeTypeOK'
  BY <1>1 DEF DerivationSucceeds, DerivationFails, TradeIInv, TradeTypeOK, budgetVars,
              geoVars, exchangeVars, Active
<1>3. \A k \in Call : stage'[k] = stage[k] \/ (stage[k] = "creds" /\ stage'[k] = "threw")
  BY DEF DerivationSucceeds, DerivationFails
<1>4. \A k \in Call : CallSound(k)'
  BY <1>1, <1>3 DEF TradeIInv, CallSound, budgetVars, exchangeVars
<1>5. PlacedOrderKeepsBudget' /\ ReportIsTrue'
  BY <1>1 DEF TradeIInv, PlacedOrderKeepsBudget, ReportIsTrue, budgetVars, exchangeVars
<1>6. QED
  BY <1>2, <1>4, <1>5 DEF TradeIInv

LEMMA SignThrowsInv ==
  ASSUME TradeIInv, NEW c \in Call, SignThrows(c)
  PROVE  TradeIInv'
<1>1. /\ stage[c] \in {"threw", "creds"}
      /\ stage' = [stage EXCEPT ![c] = "done"]
      /\ outcome' = [outcome EXCEPT ![c] = "refused"]
      /\ SpendRelease(c)
      /\ UNCHANGED <<geoVars, creds, exchangeVars, charge, crashes>>
  BY DEF SignThrows, Report
<1>2. TradeTypeOK'
  BY <1>1, ReleaseType DEF TradeIInv, TradeTypeOK, geoVars, exchangeVars
<1>3. order[c] = "absent" /\ ~wire[c] /\ reply[c] = NoReply
  BY <1>1 DEF TradeIInv, CallSound
<1>4. stage'[c] = "done" /\ outcome'[c] = "refused"
  BY <1>1 DEF TradeIInv, TradeTypeOK
<1>5. CallSound(c)'
  BY <1>1, <1>3, <1>4, AnswersDiffer DEF CallSound, exchangeVars
<1>6. \A k \in Call \ {c} : grant'[k] = grant[k]
  BY <1>1, ReleaseType DEF TradeIInv
<1>7. QED
  BY <1>1, <1>2, <1>3, <1>4, <1>5, <1>6, OthersSound DEF TradeIInv, TradeTypeOK, exchangeVars

-----------------------------------------------------------------------------
(* The order is posted, and answered. *)

LEMMA PostInv ==
  ASSUME TradeIInv, NEW c \in Call, Post(c)
  PROVE  TradeIInv'
<1>1. TradeTypeOK'
  BY DEF Post, TradeIInv, TradeTypeOK, budgetVars, geoVars, Active
<1>2. stage[c] = "creds" /\ order[c] = "absent" /\ reply[c] = NoReply /\ grant[c] # NoGrant
  BY DEF Post, TradeIInv, CallSound
<1>3. /\ stage' = [stage EXCEPT ![c] = "posting"]
      /\ wire' = [wire EXCEPT ![c] = TRUE]
      /\ UNCHANGED <<grant, reply, order, outcome>>
  BY DEF Post, budgetVars
<1>4. outcome[c] = "none"
  BY <1>2 DEF TradeIInv, TradeTypeOK, CallSound
<1>5. QED
  BY <1>1, <1>2, <1>3, <1>4, OthersSound, AnswersDiffer, ZenonT(40) DEF TradeIInv, TradeTypeOK, CallSound

LEMMA RepostInv ==
  ASSUME TradeIInv, NEW c \in Call, Repost(c)
  PROVE  TradeIInv'
<1>1. stage[c] = "posting"
  BY DEF Repost, Heard
<1>2. TradeTypeOK'
  BY AnswersDiffer DEF Repost, NextAttempt, TradeIInv, TradeTypeOK, budgetVars, geoVars
<1>3. grant[c] # NoGrant /\ outcome[c] = "none"
  BY <1>1 DEF TradeIInv, TradeTypeOK, CallSound
<1>4. /\ wire' = [wire EXCEPT ![c] = TRUE]
      /\ reply' = [reply EXCEPT ![c] = NoReply]
      /\ UNCHANGED <<grant, stage, order, outcome>>
  BY DEF Repost, budgetVars
<1>5. reply'[c] = NoReply /\ wire'[c]
  BY <1>4 DEF TradeIInv, TradeTypeOK
<1>6. CallSound(c)'
  BY <1>1, <1>3, <1>4, <1>5, AnswersDiffer DEF CallSound
<1>7. outcome'[c] = "none" /\ grant'[c] # NoGrant
  BY <1>3, <1>4
<1>8. QED
  BY <1>2, <1>4, <1>6, <1>7, OthersSound DEF TradeIInv, TradeTypeOK

LEMMA ConcludeInv ==
  ASSUME TradeIInv, NEW c \in Call, NEW r \in Response, Conclude(c, r)
  PROVE  TradeIInv'
<1>1. /\ stage[c] = "posting"
      /\ r = NoAnswer \/ (r = reply[c] /\ reply[c] # NoReply)
      /\ UNCHANGED <<geoVars, creds, exchangeVars, charge, crashes>>
      /\ stage' = [stage EXCEPT ![c] = "done"]
  BY DEF Conclude, Heard, Report
<1>2. CASE /\ classifyOrderPost(r) = "accepted"
           /\ outcome' = [outcome EXCEPT ![c] = "ok"]
           /\ UNCHANGED budgetVars
  <2>1. r = Accepted /\ order[c] # "absent"
    BY <1>1, <1>2, Classification, AnswersDiffer DEF TradeIInv, CallSound
  <2>2. TradeTypeOK'
    BY <1>1, <1>2 DEF TradeIInv, TradeTypeOK, budgetVars, geoVars, exchangeVars
  <2>3. stage'[c] = "done" /\ outcome'[c] = "ok" /\ order'[c] = order[c]
    BY <1>1, <1>2 DEF TradeIInv, TradeTypeOK, exchangeVars
  <2>4. CallSound(c)'
    BY <1>1, <1>2, <2>1, <2>3 DEF TradeIInv, CallSound, budgetVars, exchangeVars
  <2>5. wire'[c] \/ order'[c] # "absent" => grant'[c] # NoGrant
    BY <1>1, <1>2 DEF TradeIInv, PlacedOrderKeepsBudget, budgetVars, exchangeVars
  <2>6. QED
    BY <1>1, <1>2, <2>1, <2>2, <2>3, <2>4, <2>5, OthersSound
    DEF TradeIInv, TradeTypeOK, budgetVars, exchangeVars
<1>3. CASE outcome' = [outcome EXCEPT ![c] = "unknown"] /\ UNCHANGED budgetVars
  <2>1. TradeTypeOK'
    BY <1>1, <1>3 DEF TradeIInv, TradeTypeOK, budgetVars, geoVars, exchangeVars
  <2>2. stage'[c] = "done" /\ outcome'[c] = "unknown"
    BY <1>1, <1>3 DEF TradeIInv, TradeTypeOK
  <2>3. CallSound(c)'
    BY <1>1, <1>3, <2>2 DEF TradeIInv, CallSound, budgetVars, exchangeVars
  <2>4. wire'[c] \/ order'[c] # "absent" => grant'[c] # NoGrant
    BY <1>1, <1>3 DEF TradeIInv, PlacedOrderKeepsBudget, budgetVars, exchangeVars
  <2>5. QED
    BY <1>1, <1>3, <2>1, <2>2, <2>3, <2>4, OthersSound
    DEF TradeIInv, TradeTypeOK, budgetVars, exchangeVars
<1>4. CASE /\ classifyOrderPost(r) = "rejected"
           /\ outcome' = [outcome EXCEPT ![c] = "refused"]
           /\ SpendRelease(c)
  <2>1. order[c] = "absent" /\ ~wire[c]
    BY <1>1, <1>4, Classification, AnswersDiffer DEF TradeIInv, CallSound
  <2>2. TradeTypeOK'
    BY <1>1, <1>4, ReleaseType DEF TradeIInv, TradeTypeOK, geoVars, exchangeVars
  <2>3. stage'[c] = "done" /\ outcome'[c] = "refused"
    BY <1>1, <1>4 DEF TradeIInv, TradeTypeOK
  <2>4. CallSound(c)'
    BY <1>1, <2>1, <2>3 DEF TradeIInv, CallSound, exchangeVars
  <2>5. \A k \in Call \ {c} : grant'[k] = grant[k]
    BY <1>4, ReleaseType DEF TradeIInv
  <2>6. QED
    BY <1>1, <1>4, <2>1, <2>2, <2>3, <2>4, <2>5, OthersSound
    DEF TradeIInv, TradeTypeOK, exchangeVars
<1>5. QED
  BY <1>2, <1>3, <1>4 DEF Conclude, Report

LEMMA PostThrowsInv ==
  ASSUME TradeIInv, NEW c \in Call, PostThrows(c)
  PROVE  TradeIInv'
<1>1. TradeTypeOK'
  BY DEF PostThrows, Report, TradeIInv, TradeTypeOK, budgetVars, geoVars, exchangeVars
<1>2. /\ stage' = [stage EXCEPT ![c] = "done"]
      /\ outcome' = [outcome EXCEPT ![c] = "unknown"]
      /\ UNCHANGED <<grant, wire, reply, order>>
  BY DEF PostThrows, Report, budgetVars, exchangeVars
<1>3. CallSound(c)'
  BY <1>2 DEF TradeIInv, TradeTypeOK, CallSound
<1>4. wire'[c] \/ order'[c] # "absent" => grant'[c] # NoGrant
  BY <1>2 DEF TradeIInv, PlacedOrderKeepsBudget
<1>5. QED
  BY <1>1, <1>2, <1>3, <1>4, OthersSound DEF TradeIInv, TradeTypeOK

-----------------------------------------------------------------------------
(* The exchange, and the rest of the world. *)

LEMMA ExchangeAnswersInv ==
  ASSUME TradeIInv, NEW c \in Call, ExchangeAnswers(c)
  PROVE  TradeIInv'
<1>1. PICK r \in {Accepted, ServerError} \cup Refusals \cup Duplicates :
        /\ reply' = [reply EXCEPT ![c] = r]
        /\ r \in Refusals => order[c] = "absent" /\ UNCHANGED order
        /\ r = Accepted => order' = [order EXCEPT ![c] = "held"]
        /\ order' \in {order, [order EXCEPT ![c] = "held"]}
  BY AnswersDiffer DEF ExchangeAnswers
<1>2. /\ wire[c]
      /\ wire' = [wire EXCEPT ![c] = FALSE]
      /\ UNCHANGED <<budgetVars, geoVars, creds, stage, attempt, outcome, charge, crashes>>
  BY DEF ExchangeAnswers
<1>3. grant[c] # NoGrant
  BY <1>2 DEF TradeIInv, PlacedOrderKeepsBudget
<1>4. stage[c] \notin {"new", "asking", "gated", "creds", "threw"} /\ outcome[c] # "refused"
  BY <1>2 DEF TradeIInv, CallSound, ReportIsTrue
<1>5. TradeTypeOK'
  BY <1>1, <1>2, AnswersDiffer DEF TradeIInv, TradeTypeOK, budgetVars, geoVars
<1>6. CallSound(c)'
  BY <1>1, <1>2, <1>3, <1>4, AnswersDiffer DEF TradeIInv, TradeTypeOK, CallSound, budgetVars
<1>7. outcome[c] = "ok" => order'[c] # "absent"
  BY <1>1 DEF TradeIInv, TradeTypeOK, ReportIsTrue
<1>8. QED
  BY <1>1, <1>2, <1>3, <1>4, <1>5, <1>6, <1>7, OthersSound DEF TradeIInv, TradeTypeOK, budgetVars

LEMMA PostLostInv ==
  ASSUME TradeIInv, NEW c \in Call, PostLost(c)
  PROVE  TradeIInv'
<1>1. TradeTypeOK'
  BY DEF PostLost, TradeIInv, TradeTypeOK, budgetVars, geoVars
<1>2. QED
  BY <1>1, OthersSound
  DEF PostLost, TradeIInv, TradeTypeOK, CallSound, PlacedOrderKeepsBudget, ReportIsTrue, budgetVars

LEMMA CancelOrderInv ==
  ASSUME TradeIInv, NEW c \in Call, CancelOrder(c)
  PROVE  TradeIInv'
<1>1. TradeTypeOK'
  BY DEF CancelOrder, TradeIInv, TradeTypeOK, budgetVars, geoVars
<1>2. QED
  BY <1>1, OthersSound
  DEF CancelOrder, TradeIInv, TradeTypeOK, CallSound, PlacedOrderKeepsBudget, ReportIsTrue,
      budgetVars

LEMMA CrashInv ==
  ASSUME TradeIInv, Crash
  PROVE  TradeIInv'
<1>1. TradeTypeOK'
  BY TradeAssumption DEF Crash, TradeIInv, TradeTypeOK, budgetVars, exchangeVars, Active
<1>2. \A k \in Call : CallSound(k)'
  BY DEF Crash, TradeIInv, CallSound, budgetVars, exchangeVars, Active
<1>3. PlacedOrderKeepsBudget' /\ ReportIsTrue'
  BY DEF Crash, TradeIInv, PlacedOrderKeepsBudget, ReportIsTrue, budgetVars, exchangeVars
<1>4. QED
  BY <1>1, <1>2, <1>3 DEF TradeIInv

(* Time passes: no call and no order is touched. *)
LEMMA TimeInv ==
  ASSUME TradeIInv, Tick \/ NextDay \/ UNCHANGED vars
  PROVE  TradeIInv'
<1>1. UNCHANGED <<ledger, grant, creds, stage, exchangeVars, outcome, geo, charge, crashes>>
  BY DEF Tick, NextDay, Midnight, vars, budgetVars, geoVars
<1>2. clock' \in Day /\ geoAge' \in 0..GeoTtl
  BY TradeAssumption
  DEF Tick, NextDay, Midnight, vars, budgetVars, geoVars, TradeIInv, TradeTypeOK, Day
<1>3. QED
  BY <1>1, <1>2
  DEF TradeIInv, TradeTypeOK, CallSound, PlacedOrderKeepsBudget, ReportIsTrue, exchangeVars

-----------------------------------------------------------------------------
LEMMA TradeNextInv == TradeIInv /\ [TradeNext]_vars => TradeIInv'
<1> SUFFICES ASSUME TradeIInv, [TradeNext]_vars PROVE TradeIInv'
  OBVIOUS
<1>1. ASSUME NEW c \in Call, Advance(c) PROVE TradeIInv'
  BY <1>1, GateInv, RejectInputInv, ReserveInv, SignThrowsInv, PostInv, RepostInv,
     ConcludeInv, PostThrowsInv
  DEF Advance
<1>2. ASSUME NEW c \in Call,
             \/ GateCached(c) \/ GateAsk(c)
             \/ ExchangeAnswers(c) \/ PostLost(c) \/ CancelOrder(c)
      PROVE  TradeIInv'
  BY <1>2, GateInv, ExchangeAnswersInv, PostLostInv, CancelOrderInv
<1>3. CASE DerivationSucceeds \/ DerivationFails \/ Crash
  BY <1>3, DerivationInv, CrashInv
<1>4. CASE Tick \/ NextDay \/ UNCHANGED vars
  BY <1>4, TimeInv
<1>5. QED
  BY <1>1, <1>2, <1>3, <1>4 DEF TradeNext

LEMMA TradeInvariance == TradeSpec => []TradeIInv
<1>1. TradeInit => TradeIInv
  BY TradeInitInv
<1>2. TradeIInv /\ [TradeNext]_vars => TradeIInv'
  BY TradeNextInv
<1>3. QED
  BY <1>1, <1>2, PTL DEF TradeSpec

(* No budget comes back for an order that was placed or may still be.      *)
THEOREM BudgetKept == TradeSpec => []PlacedOrderKeepsBudget
<1>1. TradeIInv => PlacedOrderKeepsBudget
  BY DEF TradeIInv
<1>2. QED
  BY <1>1, TradeInvariance, PTL

(* "refused" means nothing was placed nor will be; "ok" means it was.      *)
THEOREM ReportsHold == TradeSpec => []ReportIsTrue
<1>1. TradeIInv => ReportIsTrue
  BY DEF TradeIInv
<1>2. QED
  BY <1>1, TradeInvariance, PTL

-----------------------------------------------------------------------------
(* The budget behind the tools: every step is one of SpendBudget's, or     *)
(* leaves the budget alone.                                                *)

LEMMA TradeMoves ==
  ASSUME [TradeNext]_vars
  PROVE  \/ \E c \in Call, a \in Sizes : ReserveAndSign(c, a)
         \/ (\E c \in Call : Refund(c)) /\ UNCHANGED charge
         \/ Midnight /\ UNCHANGED charge
         \/ UNCHANGED <<budgetVars, charge>>
<1> DEFINE quiet == \/ (\E c \in Call : Refund(c)) /\ UNCHANGED charge
                    \/ UNCHANGED <<budgetVars, charge>>
<1>1. ASSUME NEW c \in Call, SpendRelease(c), UNCHANGED charge PROVE quiet
  BY <1>1 DEF SpendRelease
<1>2. ASSUME NEW c \in Call,
             \/ GateCached(c) \/ GateAsk(c) \/ GeoAnswer(c) \/ RejectInput(c)
             \/ Post(c) \/ Repost(c) \/ PostThrows(c)
             \/ ExchangeAnswers(c) \/ PostLost(c) \/ CancelOrder(c)
      PROVE  quiet
  BY <1>2 DEF GateCached, GateAsk, GeoAnswer, RejectInput, Post, Repost, PostThrows,
              ExchangeAnswers, PostLost, CancelOrder
<1>3. ASSUME NEW c \in Call, SignThrows(c) PROVE quiet
  BY <1>1, <1>3 DEF SignThrows
<1>4. ASSUME NEW c \in Call, NEW r \in Response, Conclude(c, r) PROVE quiet
  BY <1>1, <1>4 DEF Conclude
<1>5. ASSUME DerivationSucceeds \/ DerivationFails \/ Crash \/ Tick \/ UNCHANGED vars
      PROVE  quiet
  BY <1>5 DEF DerivationSucceeds, DerivationFails, Crash, Tick, vars
<1> HIDE DEF quiet
<1>6. quiet \/ NextDay \/ \E c \in Call, a \in Sizes : ReserveAndSign(c, a)
  BY <1>2, <1>3, <1>4, <1>5 DEF TradeNext, Advance
<1>7. QED
  BY <1>6 DEF quiet, NextDay

(* The tools use the guard only as SpendBudget allows.                     *)
THEOREM TradeImplementsBudget == TradeSpec => BudgetSpec
<1>1. TradeInit => BudgetInit
  BY DEF TradeInit
<1>2. [TradeNext]_vars => [BudgetNext]_budgetVars
  <2> SUFFICES ASSUME [TradeNext]_vars PROVE [BudgetNext]_budgetVars
    OBVIOUS
  <2>1. ASSUME NEW c \in Call, NEW a \in Sizes, ReserveAndSign(c, a) PROVE BudgetNext
    BY <2>1 DEF ReserveAndSign, BudgetNext
  <2>2. QED
    BY <2>1, TradeMoves DEF BudgetNext
<1>3. QED
  BY <1>1, <1>2, PTL DEF TradeSpec, BudgetSpec

LEMMA HeldFacts ==
  ASSUME TradeTypeOK, NEW d \in Day
  PROVE  /\ IsFiniteSet(HeldOn(d))
         /\ \A c \in HeldOn(d) : held[c] \in Nat
         /\ d # 0
<1>1. IsFiniteSet(HeldOn(d))
  BY TradeAssumption, FS_Subset DEF HeldOn
<1>2. QED
  BY <1>1, TradeAssumption DEF HeldOn, held, TradeTypeOK, Day

(* The budget invariant in the next state, with the sum by its name.       *)
LEMMA HeldNext ==
  ASSUME NEW d \in Day
  PROVE  /\ MapThenSumSet(LAMBDA c : held[c], HeldOn(d)) = Sum(held, HeldOn(d))
         /\ MapThenSumSet(LAMBDA c : held[c], HeldOn(d))' = Sum(held', HeldOn(d)')
         /\ HeldOn(d)' = {c \in Call : grant'[c].day = d}
         /\ held' = [c \in Call |-> grant'[c].usd]
<1>1. MapThenSumSet(LAMBDA c : held[c], HeldOn(d)) = Sum(held, HeldOn(d))
  BY DEF Sum
<1>2. MapThenSumSet(LAMBDA c : held[c], HeldOn(d))' = Sum(held', HeldOn(d)')
  BY DEF Sum, MapThenSumSet, MapThenFoldSet
<1>3. QED
  BY <1>1, <1>2 DEF HeldOn, held

(* A grant joins today's sum, and the ledger stays within the limit.       *)
LEMMA GrantSound ==
  ASSUME TradeTypeOK, BudgetSound, NEW c \in Call, NEW a \in Sizes, Grant(c, a)
  PROVE  BudgetSound'
<1> SUFFICES ASSUME NEW d \in Day
             PROVE  ledger'[d] = Sum(held', HeldOn(d)') /\ ledger'[d] <= DailyLimitUsd
  BY HeldNext DEF BudgetSound
<1>1. /\ a \in Nat /\ clock \in Day
      /\ grant[c].day = 0
      /\ grant'[c] = [day |-> clock, usd |-> a]
      /\ \A k \in Call \ {c} : grant'[k] = grant[k]
      /\ ledger' = [ledger EXCEPT ![clock] = @ + a]
      /\ ledger[clock] + a <= DailyLimitUsd
  BY TradeAssumption DEF Grant, NoGrant, TradeTypeOK
<1>2. IsFiniteSet(HeldOn(d)) /\ (\A k \in HeldOn(d) : held[k] \in Nat) /\ d # 0
  BY HeldFacts
<1>3. ledger[d] = Sum(held, HeldOn(d)) /\ ledger[d] <= DailyLimitUsd
  BY HeldNext DEF BudgetSound
<1>4. /\ held'[c] = a
      /\ \A k \in Call \ {c} : held'[k] = held[k]
  BY <1>1, HeldNext DEF held
<1>5. CASE d = clock
  <2>1. c \notin HeldOn(d) /\ HeldOn(d)' = HeldOn(d) \cup {c}
    BY <1>1, <1>2, <1>5, HeldNext DEF HeldOn
  <2>2. IsFiniteSet(HeldOn(d)') /\ HeldOn(d)' \ {c} = HeldOn(d)
    BY <1>2, <2>1, FS_AddElement
  <2>3. \A k \in HeldOn(d) : held'[k] = held[k]
    BY <1>4, <2>1 DEF HeldOn
  <2>4. Sum(held', HeldOn(d)') = a + Sum(held', HeldOn(d))
    <3>1. \A k \in HeldOn(d)' : held'[k] \in Nat
      BY <1>1, <1>2, <1>4, <2>1, <2>3
    <3>2. QED
      BY <1>4, <2>1, <2>2, <3>1, SumStep
  <2>5. Sum(held', HeldOn(d)) = Sum(held, HeldOn(d))
    BY <1>2, <2>3, SumEqual
  <2>6. QED
    BY <1>1, <1>3, <1>5, <2>4, <2>5 DEF TradeTypeOK
<1>6. CASE d # clock
  <2>1. HeldOn(d)' = HeldOn(d)
    <3>1. \A k \in Call : grant'[k].day = d <=> grant[k].day = d
      BY <1>1, <1>2, <1>6
    <3>2. QED
      BY <3>1, HeldNext DEF HeldOn
  <2>2. \A k \in HeldOn(d) : held'[k] = held[k]
    BY <1>1, <1>2, <1>4 DEF HeldOn
  <2>3. Sum(held', HeldOn(d)) = Sum(held, HeldOn(d))
    BY <1>2, <2>2, SumEqual
  <2>4. QED
    BY <1>1, <1>3, <1>6, <2>1, <2>3 DEF TradeTypeOK
<1>7. QED
  BY <1>5, <1>6

(* A refund leaves today's sum.                                            *)
LEMMA RefundSound ==
  ASSUME TradeTypeOK, BudgetSound, NEW c \in Call, Refund(c)
  PROVE  BudgetSound'
<1> SUFFICES ASSUME NEW d \in Day
             PROVE  ledger'[d] = Sum(held', HeldOn(d)') /\ ledger'[d] <= DailyLimitUsd
  BY HeldNext DEF BudgetSound
<1>1. /\ clock \in Day
      /\ grant[c].day = clock
      /\ grant'[c].day = 0
      /\ \A k \in Call \ {c} : grant'[k] = grant[k]
      /\ ledger' = [ledger EXCEPT ![clock] = @ - grant[c].usd]
      /\ grant[c].usd \in Nat
      /\ held[c] = grant[c].usd
  BY DEF Refund, NoGrant, TradeTypeOK, held
<1>2. IsFiniteSet(HeldOn(d)) /\ (\A k \in HeldOn(d) : held[k] \in Nat) /\ d # 0
  BY HeldFacts
<1>3. ledger[d] = Sum(held, HeldOn(d)) /\ ledger[d] <= DailyLimitUsd
  BY HeldNext DEF BudgetSound
<1>4. \A k \in Call \ {c} : held'[k] = held[k]
  BY <1>1, HeldNext DEF held
<1>5. CASE d = clock
  <2>1. c \in HeldOn(d) /\ HeldOn(d)' = HeldOn(d) \ {c}
    BY <1>1, <1>2, <1>5, HeldNext DEF HeldOn
  <2>2. IsFiniteSet(HeldOn(d)') /\ \A k \in HeldOn(d)' : held[k] \in Nat /\ held'[k] = held[k]
    <3>1. IsFiniteSet(HeldOn(d) \ {c})
      BY <1>2, FS_RemoveElement
    <3>2. QED
      BY <1>2, <1>4, <2>1, <3>1 DEF HeldOn
  <2>3. Sum(held, HeldOn(d)) = held[c] + Sum(held, HeldOn(d)')
    BY <1>2, <2>1, SumStep
  <2>4. Sum(held', HeldOn(d)') = Sum(held, HeldOn(d)') /\ Sum(held, HeldOn(d)') \in Nat
    BY <2>2, SumEqual, SumNat
  <2>5. QED
    BY <1>1, <1>3, <1>5, <2>3, <2>4, TradeAssumption DEF TradeTypeOK
<1>6. CASE d # clock
  <2>1. HeldOn(d)' = HeldOn(d)
    <3>1. \A k \in Call : grant'[k].day = d <=> grant[k].day = d
      BY <1>1, <1>2, <1>6
    <3>2. QED
      BY <3>1, HeldNext DEF HeldOn
  <2>2. \A k \in HeldOn(d) : held'[k] = held[k]
    BY <1>1, <1>2, <1>4, <1>6 DEF HeldOn
  <2>3. Sum(held', HeldOn(d)) = Sum(held, HeldOn(d))
    BY <1>2, <2>2, SumEqual
  <2>4. QED
    BY <1>1, <1>3, <1>6, <2>1, <2>3 DEF TradeTypeOK
<1>7. QED
  BY <1>5, <1>6

(* A call is charged when it is granted, and holds nothing after a refund. *)
LEMMA ChargeNext ==
  ASSUME TradeTypeOK, HeldWasCharged, [TradeNext]_vars
  PROVE  HeldWasCharged'
<1>1. ASSUME NEW c \in Call, NEW a \in Sizes, ReserveAndSign(c, a) PROVE HeldWasCharged'
  BY <1>1 DEF ReserveAndSign, Grant, TradeTypeOK, HeldWasCharged
<1>2. ASSUME NEW c \in Call, Refund(c), UNCHANGED charge PROVE HeldWasCharged'
  BY <1>2 DEF Refund, TradeTypeOK, HeldWasCharged
<1>3. CASE UNCHANGED <<grant, charge>>
  BY <1>3 DEF HeldWasCharged
<1>4. QED
  BY <1>1, <1>2, <1>3, TradeMoves DEF Midnight, budgetVars

LEMMA BudgetInvariance == TradeSpec => []BudgetIInv
<1>1. TradeInit => BudgetSound /\ HeldWasCharged
  <2> SUFFICES ASSUME TradeInit PROVE BudgetSound /\ HeldWasCharged
    OBVIOUS
  <2>1. ASSUME NEW d \in Day
        PROVE  ledger[d] = MapThenSumSet(LAMBDA c : held[c], HeldOn(d)) /\ ledger[d] <= DailyLimitUsd
    <3>1. d # 0
      BY TradeAssumption DEF Day
    <3>2. HeldOn(d) = {}
      BY <3>1 DEF TradeInit, BudgetInit, NoGrant, HeldOn
    <3>3. Sum(held, HeldOn(d)) = 0
      BY <3>2, SumEmpty
    <3>4. ledger[d] = 0 /\ 0 <= DailyLimitUsd
      BY TradeAssumption DEF TradeInit, BudgetInit
    <3>5. QED
      BY <3>3, <3>4, HeldNext
  <2>2. QED
    BY <2>1 DEF BudgetSound, HeldWasCharged, TradeInit, BudgetInit
<1>2. TradeIInv /\ BudgetSound /\ HeldWasCharged /\ [TradeNext]_vars
      => BudgetSound' /\ HeldWasCharged'
  <2> SUFFICES ASSUME TradeTypeOK, BudgetSound, HeldWasCharged, [TradeNext]_vars
               PROVE  BudgetSound' /\ HeldWasCharged'
    BY DEF TradeIInv
  <2>1. ASSUME NEW c \in Call, NEW a \in Sizes, ReserveAndSign(c, a) PROVE BudgetSound'
    BY <2>1, GrantSound DEF ReserveAndSign
  <2>2. ASSUME NEW c \in Call, Refund(c) PROVE BudgetSound'
    BY <2>2, RefundSound
  <2>3. ASSUME UNCHANGED <<ledger, grant>> PROVE BudgetSound'
    <3> SUFFICES ASSUME NEW d \in Day
                 PROVE  ledger'[d] = Sum(held', HeldOn(d)') /\ ledger'[d] <= DailyLimitUsd
      BY HeldNext DEF BudgetSound
    <3>1. held' = held /\ HeldOn(d)' = HeldOn(d)
      BY <2>3 DEF held, HeldOn
    <3>2. QED
      BY <2>3, <3>1, HeldNext DEF BudgetSound
  <2>4. BudgetSound'
    BY <2>1, <2>2, <2>3, TradeMoves DEF Midnight, budgetVars
  <2>5. QED
    BY <2>4, ChargeNext
<1>3. QED
  BY <1>1, <1>2, TradeInvariance, PTL DEF TradeSpec, BudgetIInv

(* Real money: what the exchange took on a day's account stays within the  *)
(* daily limit, whatever was lost, refused, refunded or crashed.           *)
THEOREM ExchangeCap == TradeSpec => []ExchangeWithinDailyLimit
<1>1. BudgetIInv => ExchangeWithinDailyLimit
  <2> SUFFICES ASSUME BudgetIInv, NEW d \in Day
               PROVE  MapThenSumSet(LAMBDA c : charged[c], Took(d)) <= DailyLimitUsd
    BY DEF ExchangeWithinDailyLimit
  <2>1. IsFiniteSet(HeldOn(d)) /\ \A c \in HeldOn(d) : held[c] \in Nat
    BY HeldFacts DEF BudgetIInv, TradeIInv
  <2>2. \A c \in Took(d) : c \in HeldOn(d) /\ charged[c] = held[c]
    BY DEF BudgetIInv, TradeIInv, PlacedOrderKeepsBudget, HeldWasCharged, Took, HeldOn,
           charged, held
  <2>3. Sum(charged, Took(d)) <= Sum(held, HeldOn(d))
    BY <2>1, <2>2, SumMonotonic
  <2>4. Sum(held, HeldOn(d)) <= DailyLimitUsd
    BY HeldNext DEF BudgetIInv, BudgetSound
  <2>5. IsFiniteSet(Took(d)) /\ Sum(charged, Took(d)) \in Nat /\ Sum(held, HeldOn(d)) \in Nat
    <3>1. IsFiniteSet(Took(d))
      BY <2>1, <2>2, FS_Subset
    <3>2. \A c \in Took(d) : charged[c] \in Nat
      BY <2>1, <2>2
    <3>3. QED
      BY <2>1, <3>1, <3>2, SumNat
  <2>6. MapThenSumSet(LAMBDA c : charged[c], Took(d)) = Sum(charged, Took(d))
    BY DEF Sum
  <2>7. QED
    BY <2>3, <2>4, <2>5, <2>6, TradeAssumption
<1>2. QED
  BY <1>1, BudgetInvariance, PTL

-----------------------------------------------------------------------------
(* The supply of markets.                                                  *)

(* What a sequence has at the first n of a set of its indices. *)
LEMMA FirstIndices ==
  ASSUME NEW S, NEW seq \in Seq(S), NEW I \in SUBSET (DOMAIN seq), NEW n \in 0..Cardinality(I)
  PROVE  /\ FirstOf(n, I, seq) \in Seq(S) /\ Len(FirstOf(n, I, seq)) = n
         /\ \A k \in 1..n : \E i \in I : FirstOf(n, I, seq)[k] = seq[i]
         /\ (\A a, b \in I : seq[a] = seq[b] => a = b) => IsInjective(FirstOf(n, I, seq))
         /\ n = Cardinality(I) => \A i \in I : \E k \in 1..n : FirstOf(n, I, seq)[k] = seq[i]
<1>1. I \in SUBSET (1..Len(seq)) /\ Len(seq) \in Nat
  OBVIOUS
<1>2. /\ Cardinality(I) \in Nat
      /\ \A i \in I : Cardinality(Below(I, i)) + 1 \in 1..Cardinality(I)
      /\ \A a, b \in I : Cardinality(Below(I, a)) = Cardinality(Below(I, b)) => a = b
      /\ \A k \in 1..Cardinality(I) : \E i \in I : Cardinality(Below(I, i)) = k - 1
  BY <1>1, NthIndex
<1>3. \A k \in 1..Cardinality(I) : Nth(I, k) \in I /\ Cardinality(Below(I, Nth(I, k))) = k - 1
  BY <1>2 DEF Nth, Below
<1>4. \A i \in I : Nth(I, Cardinality(Below(I, i)) + 1) = i
  <2> TAKE i \in I
  <2> DEFINE k == Cardinality(Below(I, i)) + 1
  <2>1. k \in 1..Cardinality(I) /\ Cardinality(Below(I, i)) = k - 1
    <3>1. Cardinality(Below(I, i)) + 1 \in 1..Cardinality(I)
      BY <1>2
    <3>2. Cardinality(Below(I, i)) \in Int
      <4>1. IsFiniteSet(Below(I, i))
        <5>1. IsFiniteSet(1..Len(seq))
          BY <1>1, FS_Interval
        <5>2. Below(I, i) \in SUBSET (1..Len(seq))
          BY <1>1 DEF Below
        <5> QED BY <5>1, <5>2, FS_Subset
      <4> QED BY <4>1, FS_CardinalityType
    <3> QED BY <3>1, <3>2
  <2> HIDE DEF k
  <2>2. Nth(I, k) \in I /\ Cardinality(Below(I, Nth(I, k))) = Cardinality(Below(I, i))
    BY <1>3, <2>1
  <2>3. Nth(I, k) = i
    BY <1>2, <2>2
  <2> QED BY <2>3 DEF k
<1>5. FirstOf(n, I, seq) = [k \in 1..n |-> seq[Nth(I, k)]]
  BY DEF FirstOf
<1>6. \A k \in 1..n : k \in 1..Cardinality(I) /\ Nth(I, k) \in I /\ seq[Nth(I, k)] \in S
  <2>1. \A k \in 1..n : k \in 1..Cardinality(I)
    BY <1>2
  <2>2. \A i \in I : seq[i] \in S
    BY <1>1
  <2> QED BY <1>3, <2>1, <2>2
<1>7. FirstOf(n, I, seq) \in Seq(S) /\ Len(FirstOf(n, I, seq)) = n
  BY <1>2, <1>5, <1>6
<1>8. \A k \in 1..n : \E i \in I : FirstOf(n, I, seq)[k] = seq[i]
  BY <1>5, <1>6
<1>9. ASSUME \A a, b \in I : seq[a] = seq[b] => a = b
      PROVE  IsInjective(FirstOf(n, I, seq))
  <2>1. DOMAIN FirstOf(n, I, seq) = 1..n
    BY <1>5
  <2>2. ASSUME NEW k \in 1..n, NEW l \in 1..n, seq[Nth(I, k)] = seq[Nth(I, l)] PROVE k = l
    <3>1. Nth(I, k) = Nth(I, l)
      BY <1>6, <1>9, <2>2
    <3>2. k - 1 = l - 1
      BY <1>3, <1>6, <3>1
    <3> QED BY <3>2
  <2> QED BY <1>5, <2>1, <2>2 DEF IsInjective
<1>10. ASSUME n = Cardinality(I), NEW i \in I
       PROVE  \E k \in 1..n : FirstOf(n, I, seq)[k] = seq[i]
  <2> DEFINE k == Cardinality(Below(I, i)) + 1
  <2>1. k \in 1..n /\ Nth(I, k) = i
    BY <1>2, <1>4, <1>10
  <2> QED BY <1>5, <2>1
<1> QED BY <1>7, <1>8, <1>9, <1>10

(* A page adds rows that were not there, no fixture, up to the limit; what  *)
(* it leaves out below the limit is a fixture or there already.             *)
LEMMA PageAdds ==
  ASSUME SupplyAssumption, NEW found \in Seq(GammaRow), NEW rows \in Seq(GammaRow), NEW upTo \in Nat,
         IsInjective(found), \A i \in DOMAIN found : found[i] \notin PerGame, Len(found) <= upTo
  PROVE  LET next == found \o Taken(found, rows, upTo)
         IN /\ next \in Seq(GammaRow) /\ IsInjective(next) /\ Len(next) <= upTo
            /\ \A i \in DOMAIN next : next[i] \notin PerGame
            /\ ToSet(found) \subseteq ToSet(next)
            /\ Len(next) # upTo => \A i \in DOMAIN rows : rows[i] \in PerGame \cup ToSet(next)
<1> DEFINE unseen == Unseen(found, rows)
           room == upTo - Len(found)
           n == Min({Cardinality(unseen), room})
           taken == FirstOf(n, unseen, rows)
<1>1. unseen \in SUBSET (DOMAIN rows) /\ room \in Nat /\ Len(found) \in Nat
  BY DEF Unseen
<1>2. Cardinality(unseen) \in Nat
  <2>1. IsFiniteSet(1..Len(rows)) /\ unseen \in SUBSET (1..Len(rows))
    <3>1. Len(rows) \in Nat /\ DOMAIN rows = 1..Len(rows)
      OBVIOUS
    <3> QED BY <1>1, <3>1, FS_Interval, SMTT(30)
  <2> QED BY <2>1, FS_Subset, FS_CardinalityType
<1>3. /\ n \in 0..Cardinality(unseen) /\ n <= room
      /\ n # room => n = Cardinality(unseen)
  <2>1. n \in Nat /\ n <= Cardinality(unseen) /\ n <= room
    <3> HIDE DEF unseen, room
    <3> QED BY <1>1, <1>2, MinOfTwo
  <2>2. n \in {Cardinality(unseen), room}
    <3> HIDE DEF unseen, room
    <3>1. \E x \in {Cardinality(unseen), room} : \A y \in {Cardinality(unseen), room} : x <= y
      BY <1>1, <1>2
    <3> QED BY <3>1 DEF Min
  <2> QED BY <1>2, <2>1, <2>2
<1>4. \A a, b \in unseen : rows[a] = rows[b] => a = b
  <2>1. \A i \in unseen : i \in DOMAIN rows /\ \A j \in 1..i - 1 : rows[j] # rows[i]
    BY DEF Unseen
  <2> HIDE DEF unseen
  <2>2. DOMAIN rows \subseteq Nat \ {0}
    OBVIOUS
  <2>3. \A a, b \in unseen : a < b => a \in 1..b - 1
    BY <2>1, <2>2
  <2>4. \A a, b \in unseen : a < b \/ b < a \/ a = b
    BY <2>1, <2>2
  <2> QED BY ONLY <2>1, <2>3, <2>4, Zenon
<1>5. /\ taken \in Seq(GammaRow) /\ Len(taken) = n
      /\ \A k \in 1..n : \E i \in unseen : taken[k] = rows[i]
      /\ IsInjective(taken)
      /\ n = Cardinality(unseen) => \A i \in unseen : \E k \in 1..n : taken[k] = rows[i]
  <2> HIDE DEF n, unseen
  <2>1. unseen \in SUBSET (DOMAIN rows) /\ n \in 0..Cardinality(unseen)
    BY <1>1, <1>3
  <2>2. /\ taken \in Seq(GammaRow) /\ Len(taken) = n
        /\ \A k \in 1..n : \E i \in unseen : taken[k] = rows[i]
        /\ (\A a, b \in unseen : rows[a] = rows[b] => a = b) => IsInjective(taken)
        /\ n = Cardinality(unseen) => \A i \in unseen : \E k \in 1..n : taken[k] = rows[i]
    BY ONLY <2>1, rows \in Seq(GammaRow), FirstIndices, Zenon
  <2> QED BY <1>4, <2>2, Zenon
<1> DEFINE next == found \o taken
<1>6. next = found \o Taken(found, rows, upTo)
  BY DEF Taken
<1>7. \A i \in unseen : rows[i] \notin PerGame /\ \A k \in DOMAIN found : found[k] # rows[i]
  BY DEF Unseen, ToSet
<1>8. \A i \in DOMAIN rows \ unseen : rows[i] \in PerGame \cup ToSet(found)
                                       \/ \E j \in 1..i - 1 : rows[j] = rows[i]
  BY DEF Unseen
<1> HIDE DEF unseen, n, room, taken
<1>9. /\ next \in Seq(GammaRow) /\ Len(next) = Len(found) + n
      /\ \A i \in 1..Len(found) : next[i] = found[i]
      /\ \A i \in 1..n : next[Len(found) + i] = taken[i]
      /\ DOMAIN next = 1..Len(found) + n
      /\ n \in Nat /\ DOMAIN found = 1..Len(found) /\ DOMAIN taken = 1..n
  <2>1. /\ next \in Seq(GammaRow) /\ Len(taken) \in Nat
        /\ Len(next) = Len(found) + Len(taken) /\ DOMAIN next = 1..Len(found) + Len(taken)
        /\ DOMAIN found = 1..Len(found) /\ DOMAIN taken = 1..Len(taken)
        /\ \A i \in 1..Len(found) : next[i] = found[i]
        /\ \A i \in 1..Len(taken) : next[Len(found) + i] = taken[i]
    <3> HIDE DEF n
    <3>1. taken \in Seq(GammaRow)
      BY <1>5
    <3> QED BY <3>1, Joined
  <2> QED BY <1>5, <2>1
<1> HIDE DEF next
<1>10. \A i \in DOMAIN next :
         \/ i \in 1..Len(found) /\ next[i] = found[i]
         \/ i - Len(found) \in 1..n /\ next[i] = taken[i - Len(found)] /\ i > Len(found)
  <2> TAKE i \in DOMAIN next
  <2>1. CASE i <= Len(found)
    BY <1>1, <1>9, <2>1, SMTT(30)
  <2>2. CASE i > Len(found)
    <3>1. i - Len(found) \in 1..n /\ Len(found) + (i - Len(found)) = i
      BY <1>1, <1>3, <1>9, <2>2, SMTT(30)
    <3> QED BY <1>9, <3>1, <2>2
  <2> QED BY <1>1, <1>9, <2>1, <2>2, SMTT(30)
<1>11. \A i \in DOMAIN next : next[i] \notin PerGame
  <2> TAKE i \in DOMAIN next
  <2>1. CASE i \in 1..Len(found) /\ next[i] = found[i]
    BY <1>9, <2>1
  <2>2. CASE i - Len(found) \in 1..n /\ next[i] = taken[i - Len(found)]
    BY <1>5, <1>7, <2>2
  <2> QED BY <1>10, <2>1, <2>2
<1>12. IsInjective(next)
  <2>1. \A a, b \in 1..Len(found) : found[a] = found[b] => a = b
    BY <1>9 DEF IsInjective
  <2>2. \A a, b \in 1..n : taken[a] = taken[b] => a = b
    BY <1>5, <1>9 DEF IsInjective
  <2>3. \A a \in 1..Len(found), b \in 1..n : found[a] # taken[b]
    <3> TAKE a \in 1..Len(found), b \in 1..n
    <3>1. PICK i \in unseen : taken[b] = rows[i]
      BY <1>5
    <3>2. found[a] # rows[i]
      BY <1>7, <1>9
    <3> QED BY <3>1, <3>2
  <2>4. ASSUME NEW a \in DOMAIN next, NEW b \in DOMAIN next, next[a] = next[b] PROVE a = b
    <3>1. CASE a \in 1..Len(found) /\ b \in 1..Len(found)
      BY <1>9, <2>1, <2>4, <3>1
    <3>2. CASE a \notin 1..Len(found) /\ b \notin 1..Len(found)
      <4>1. a - Len(found) = b - Len(found)
        BY <1>10, <2>2, <2>4, <3>2
      <4>2. a \in Int /\ b \in Int
        BY <1>1, <1>9
      <4> QED BY <1>1, <4>1, <4>2, SMTT(30)
    <3>3. CASE a \in 1..Len(found) /\ b \notin 1..Len(found)
      <4>1. next[a] = found[a] /\ b - Len(found) \in 1..n /\ next[b] = taken[b - Len(found)]
        BY <1>9, <1>10, <3>3
      <4> QED BY <2>3, <2>4, <3>3, <4>1
    <3>4. CASE a \notin 1..Len(found) /\ b \in 1..Len(found)
      <4>1. next[b] = found[b] /\ a - Len(found) \in 1..n /\ next[a] = taken[a - Len(found)]
        BY <1>9, <1>10, <3>4
      <4> QED BY <2>3, <2>4, <3>4, <4>1
    <3> QED BY <3>1, <3>2, <3>3, <3>4
  <2> QED BY <2>4 DEF IsInjective
<1>13. ToSet(found) \subseteq ToSet(next)
  <2>1. DOMAIN found = 1..Len(found) /\ \A i \in 1..Len(found) : i \in DOMAIN next
    BY <1>1, <1>3, <1>9
  <2> QED BY <1>9, <2>1 DEF ToSet
<1>14. Len(next) <= upTo
  BY <1>1, <1>3, <1>9 DEF room
<1>15. ASSUME Len(next) # upTo
       PROVE  \A i \in DOMAIN rows : rows[i] \in PerGame \cup ToSet(next)
  <2>1. n = Cardinality(unseen)
    BY <1>1, <1>3, <1>9, <1>15 DEF room
  <2>2. \A i \in unseen : rows[i] \in ToSet(next)
    <3> TAKE i \in unseen
    <3>1. PICK k \in 1..n : taken[k] = rows[i]
      BY <1>5, <2>1
    <3>2. next[Len(found) + k] = taken[k]
      BY ONLY <1>9, <3>1, Zenon
    <3>3. Len(found) + k \in 1..Len(found) + n
      BY ONLY <1>1, <1>9, <3>1
    <3>4. Len(found) + k \in DOMAIN next
      BY ONLY <1>9, <3>3, Zenon
    <3> QED BY <3>1, <3>2, <3>4 DEF ToSet
  <2> DEFINE Left == {i \in DOMAIN rows : rows[i] \notin PerGame \cup ToSet(next)}
  <2>3. ASSUME Left # {} PROVE FALSE
    <3>1. Left \in SUBSET (1..Len(rows)) /\ Len(rows) \in Nat
      OBVIOUS
    <3>2. PICK i \in Left : \A j \in Left : i <= j
      <4> HIDE DEF Left
      <4> QED BY <2>3, <3>1, LeastIndex
    <3>3. i \in DOMAIN rows \ unseen /\ rows[i] \notin PerGame \cup ToSet(found)
      BY <1>13, <2>2
    <3>4. PICK j \in 1..i - 1 : rows[j] = rows[i]
      BY <1>8, <3>3
    <3>5. j \in Left /\ j < i
      BY <3>1, <3>4, SMTT(30)
    <3> QED BY <3>1, <3>2, <3>5, SMTT(30)
  <2> QED BY <2>3
<1> QED BY <1>6, <1>9, <1>11, <1>12, <1>13, <1>14, <1>15

(* What the constants are. *)
LEMMA SupplyBounds ==
  ASSUME SupplyAssumption
  PROVE  /\ Total \in Nat \ {0} /\ MaxMarkets \in Nat \ {0} /\ PageSize \in Nat \ {0}
         /\ FetchAttempts \in Nat \ {0} /\ Passes \in Nat \ {0}
         /\ MaxPage \in Nat /\ MaxAge \in Nat /\ MaxNow \in Nat /\ MaxShifts \in Nat
         /\ Ttl \in Nat
         /\ Len(Slices) \in Nat /\ \A i \in 1..Len(Slices) : Slices[i].quota \in Nat
         /\ \A i \in 1..Len(Slices) : Slices[i].order \in Order
         /\ "volumeNum" \in Order
<1>1. /\ {Total, MaxMarkets, PageSize, FetchAttempts, Passes} \subseteq Nat \ {0}
      /\ {MaxPage, Ttl, MaxAge, MaxNow, MaxShifts} \subseteq Nat
      /\ Slices \in Seq([order : STRING, quota : Nat \ {0}])
  BY DEF SupplyAssumption
<1>2. Len(Slices) \in Nat /\ DOMAIN Slices = 1..Len(Slices)
      /\ \A i \in 1..Len(Slices) : Slices[i] \in [order : STRING, quota : Nat \ {0}]
  <2> DEFINE S == [order : STRING, quota : Nat \ {0}]
  <2>1. Slices \in Seq(S)
    BY <1>1
  <2> HIDE DEF S
  <2>2. Len(Slices) \in Nat /\ DOMAIN Slices = 1..Len(Slices) /\ \A i \in 1..Len(Slices) : Slices[i] \in S
    BY <2>1
  <2> QED BY <2>2 DEF S
<1>3. \A i \in 1..Len(Slices) : Slices[i].quota \in Nat
  BY <1>2
<1>4. "volumeNum" \in Order /\ \A i \in 1..Len(Slices) : Slices[i].order \in Order
  BY <1>2 DEF Order
<1> QED BY <1>1, <1>2, <1>3, <1>4

(* What a run becomes is a run. *)
LEMMA RunTypes ==
  ASSUME NEW s \in Runs, NEW found \in Seq(GammaRow), NEW slice \in Nat, NEW limit \in Nat
  PROVE  /\ NoJob \in Runs
         /\ \A at \in {"idle", "done", "failed"} : Over(at) \in Runs
         /\ [NoJob EXCEPT !.at = "model", !.out = found, !.quiet = s.quiet] \in Runs
         /\ [s EXCEPT !.at = "page", !.slice = slice, !.page = 0, !.attempt = 0,
                      !.upTo = limit, !.out = found] \in Runs
<1>1. <<>> \in Seq(GammaRow)
  OBVIOUS
<1>2. NoJob \in Runs
  BY <1>1 DEF NoJob, Runs
<1>3. \A at \in {"idle", "done", "failed"} : Over(at) \in Runs
  BY <1>2 DEF Over, Runs
<1>4. [NoJob EXCEPT !.at = "model", !.out = found, !.quiet = s.quiet] \in Runs
  BY <1>2 DEF Runs
<1>5. [s EXCEPT !.at = "page", !.slice = slice, !.page = 0, !.attempt = 0,
                !.upTo = limit, !.out = found] \in Runs
  BY DEF Runs
<1> QED BY <1>2, <1>3, <1>4, <1>5

(* So is what it becomes at a page, a retry, the model and the blob. *)
LEMMA RunChanges ==
  ASSUME NEW s \in Runs, NEW found \in Seq(GammaRow), NEW n \in Nat
  PROVE  /\ [s EXCEPT !.page = n, !.attempt = 0, !.out = found] \in Runs
         /\ [s EXCEPT !.attempt = n] \in Runs /\ [s EXCEPT !.pass = n] \in Runs
         /\ [s EXCEPT !.at = "embed", !.builtAt = n] \in Runs /\ [s EXCEPT !.at = "put"] \in Runs
<1>1. [s EXCEPT !.page = n, !.attempt = 0, !.out = found] \in Runs
  BY DEF Runs
<1>2. [s EXCEPT !.attempt = n] \in Runs /\ [s EXCEPT !.pass = n] \in Runs
  BY DEF Runs
<1>3. [s EXCEPT !.at = "embed", !.builtAt = n] \in Runs
  <2>1. n \in Int
    OBVIOUS
  <2> QED BY <2>1 DEF Runs
<1>4. [s EXCEPT !.at = "put"] \in Runs
  BY DEF Runs
<1> QED BY <1>1, <1>2, <1>3, <1>4

(* An empty run, and one that is over, keep what every run keeps. *)
LEMMA OverSound ==
  ASSUME SupplyAssumption, NEW at \in {"idle", "done", "failed"}, NEW byVolume, NEW still
  PROVE  Over(at) \in Runs /\ RunSound(Over(at), byVolume, still) /\ Over(at).at = at
<1>1. <<>> \in Seq(GammaRow) /\ Len(<<>>) = 0 /\ DOMAIN <<>> = {}
  OBVIOUS
<1>2. NoJob \in Runs /\ Over(at) \in Runs
  <2>1. NoJob \in Runs
    BY <1>1 DEF NoJob, Runs
  <2> QED BY <2>1 DEF Over, Runs
<1>3. Over(at).at = at /\ Over(at).out = <<>>
  BY DEF Over, NoJob
<1>4. Shelf(Over(at).out) /\ Len(Over(at).out) <= Total
  BY <1>1, <1>3, SupplyBounds DEF Shelf, IsInjective
<1>5. at \notin {"page", "model", "embed", "put"}
  OBVIOUS
<1> QED BY <1>2, <1>3, <1>4, <1>5 DEF RunSound

(* Entering a slice, the backfill or the end keeps it. *)
LEMMA EnterSound ==
  ASSUME SupplyAssumption, NEW s \in Runs, NEW found, Shelf(found), Len(found) <= Total,
         NEW slice \in 1..Len(Slices) + 2, NEW byVolume, NEW still,
         slice = Len(Slices) + 2 /\ still /\ Len(found) < Total =>
           Covered(found, byVolume, (MaxPage + 1) * PageSize),
         byVolume \in Seq(GammaRow)
  PROVE  Enter(s, found, slice) \in Runs /\ RunSound(Enter(s, found, slice), byVolume, still)
<1>1. found \in Seq(GammaRow) /\ Len(found) \in Nat /\ Total \in Nat /\ Len(Slices) \in Nat
  BY SupplyBounds DEF Shelf
<1>2. CASE Len(found) = Total \/ slice > Len(Slices) + 1
  <2> DEFINE t == [NoJob EXCEPT !.at = "model", !.out = found, !.quiet = s.quiet]
  <2>1. Enter(s, found, slice) = t
    BY <1>2 DEF Enter
  <2>2. t \in Runs /\ t.at = "model" /\ t.out = found
    BY <1>1, RunTypes DEF NoJob
  <2>3. still /\ Len(found) < Total => Covered(found, byVolume, (MaxPage + 1) * PageSize)
    BY <1>1, <1>2, SMTT(30)
  <2> HIDE DEF t
  <2> QED BY <1>1, <2>1, <2>2, <2>3 DEF RunSound
<1>3. CASE Len(found) # Total /\ slice <= Len(Slices) + 1
  <2> DEFINE limit == UpTo(found, slice)
             t == [s EXCEPT !.at = "page", !.slice = slice, !.page = 0, !.attempt = 0,
                            !.upTo = limit, !.out = found]
  <2>1. Enter(s, found, slice) = t
    BY <1>1, <1>3 DEF Enter
  <2>2. limit \in Nat /\ limit <= Total /\ Len(found) <= limit /\ (slice > Len(Slices) => limit = Total)
    <3>1. CASE slice <= Len(Slices)
      <4> DEFINE quota == Slices[slice].quota
                 more == Len(found) + quota
      <4>1. limit = Min({Total, more})
        BY <3>1 DEF UpTo
      <4>2. more \in Nat /\ Len(found) <= more
        <5>1. slice \in 1..Len(Slices)
          BY <1>1, <3>1
        <5>2. quota \in Nat
          BY <5>1, SupplyBounds
        <5> HIDE DEF quota
        <5> QED BY <1>1, <5>2
      <4>3. Min({Total, more}) \in {Total, more} /\ Min({Total, more}) <= Total
        <5> HIDE DEF more
        <5>1. \E x \in {Total, more} : \A y \in {Total, more} : x <= y
          BY <1>1, <4>2
        <5> QED BY <5>1 DEF Min
      <4> HIDE DEF more
      <4> QED BY <1>1, <3>1, <4>1, <4>2, <4>3, SMTT(30)
    <3>2. CASE ~(slice <= Len(Slices))
      BY <1>1, <3>2 DEF UpTo
    <3> QED BY <3>1, <3>2
  <2> HIDE DEF limit
  <2>3. /\ t \in Runs /\ t.at = "page" /\ t.slice = slice /\ t.page = 0 /\ t.upTo = limit
        /\ t.out = found
    <3>1. t \in Runs
      <4>1. slice \in Nat
        BY <1>1
      <4> HIDE DEF limit
      <4> QED BY <1>1, <2>2, <4>1, RunTypes
    <3> QED BY <3>1 DEF Runs
  <2> HIDE DEF t
  <2>4. Covered(found, byVolume, 0 * PageSize)
    <3>1. 0 * PageSize = 0
      BY SupplyBounds
    <3>2. \A i \in DOMAIN byVolume : ~(i <= 0)
      OBVIOUS
    <3> QED BY <3>1, <3>2 DEF Covered
  <2>5. slice \in 1..Len(Slices) + 1 /\ 0 <= MaxPage
    BY <1>1, <1>3, SupplyBounds
  <2> QED BY <1>1, <2>1, <2>2, <2>3, <2>4, <2>5 DEF RunSound
<1> QED BY <1>1, <1>2, <1>3

(* A pass starts with nothing. *)
LEMMA PassSound ==
  ASSUME SupplyAssumption, NEW s \in Runs, NEW byVolume \in Seq(GammaRow), NEW still
  PROVE  Pass(s) \in Runs /\ RunSound(Pass(s), byVolume, still)
<1> DEFINE t == [s EXCEPT !.quiet = TRUE]
<1>1. t \in Runs /\ Pass(s) = Enter(t, <<>>, 1)
  BY DEF Runs, Pass
<1>2. Shelf(<<>>) /\ Len(<<>>) = 0
  BY DEF Shelf, IsInjective
<1>3. Len(Slices) \in Nat /\ Total \in Nat
  BY SupplyBounds
<1>4. 1 \in 1..Len(Slices) + 2 /\ 1 # Len(Slices) + 2 /\ Len(<<>>) <= Total
  BY <1>2, <1>3
<1> HIDE DEF t
<1>5. 1 = Len(Slices) + 2 /\ still /\ Len(<<>>) < Total =>
        Covered(<<>>, byVolume, (MaxPage + 1) * PageSize)
  BY <1>4
<1>6. Enter(t, <<>>, 1) \in Runs /\ RunSound(Enter(t, <<>>, 1), byVolume, still)
  <2> DEFINE empty == <<>>
             first == 1
  <2>1. /\ Shelf(empty) /\ Len(empty) <= Total /\ first \in 1..Len(Slices) + 2
        /\ (first = Len(Slices) + 2 /\ still /\ Len(empty) < Total =>
              Covered(empty, byVolume, (MaxPage + 1) * PageSize))
    BY <1>2, <1>4, <1>5
  <2> HIDE DEF empty, first
  <2>2. Enter(t, empty, first) \in Runs /\ RunSound(Enter(t, empty, first), byVolume, still)
    BY <1>1, <2>1, EnterSound
  <2> QED BY <2>2 DEF empty, first
<1> QED BY <1>1, <1>6

(* The page that is asked for. *)
LEMMA PageOfRows ==
  ASSUME SupplyAssumption, NEW page \in Nat, NEW by \in Order, listing \in [Order -> Seq(GammaRow)]
  PROVE  LET rows == Rows(by, page)
             all == listing[by]
         IN /\ rows \in Seq(GammaRow)
            /\ \A i \in DOMAIN all : page * PageSize < i /\ i <= (page + 1) * PageSize =>
                 \E k \in DOMAIN rows : rows[k] = all[i]
<1> DEFINE all == listing[by]
           from == page * PageSize
           upTo == (page + 1) * PageSize
           last == Min({upTo, Len(all)})
           rows == Rows(by, page)
<1>1. all \in Seq(GammaRow) /\ Len(all) \in Nat /\ DOMAIN all = 1..Len(all)
  OBVIOUS
<1>2. from \in Nat /\ upTo \in Nat /\ PageSize \in Nat
  BY SupplyBounds, SMTT(30)
<1>3. rows = SubSeq(all, from + 1, last)
  BY DEF Rows
<1> HIDE DEF all, from, upTo
<1>4. last \in Nat /\ last <= Len(all) /\ last \in {upTo, Len(all)}
  <2>1. \E x \in {upTo, Len(all)} : \A y \in {upTo, Len(all)} : x <= y
    BY <1>1, <1>2
  <2> QED BY <1>1, <1>2, <2>1 DEF Min
<1> HIDE DEF last, rows
<1>5. /\ rows \in Seq(GammaRow) /\ DOMAIN rows = 1..Len(rows)
      /\ Len(rows) = IF from + 1 <= last THEN last - from ELSE 0
      /\ \A k \in 1..Len(rows) : rows[k] = all[from + k]
  <2> DEFINE first == from + 1
  <2>1. first \in Int /\ last \in Int /\ first >= 1 /\ first = from + 1
    BY <1>2, <1>4
  <2>2. \A i \in first..last : all[i] \in GammaRow
    <3> HIDE DEF first
    <3> TAKE i \in first..last
    <3>1. i \in Int /\ first <= i /\ i <= last
      BY <2>1
    <3>2. i \in 1..Len(all)
      <4>1. Len(all) \in Nat /\ last <= Len(all)
        BY <1>1, <1>4
      <4> QED BY <2>1, <3>1, <4>1
    <3> QED BY <1>1, <3>2
  <2>3. rows = SubSeq(all, first, last)
    BY <1>3
  <2> HIDE DEF first
  <2>4. /\ rows \in Seq(GammaRow)
        /\ Len(rows) = IF first <= last THEN last - first + 1 ELSE 0
        /\ \A k \in 1..last - first + 1 : rows[k] = all[first + k - 1]
    <3>1. first \in Int /\ last \in Int
      BY <2>1
    <3> QED BY <2>2, <2>3, <3>1, SubSeqProperties
  <2>5. \A k \in Nat : first + k - 1 = from + k
    BY <1>2, <2>1
  <2>6. last - first + 1 = last - from
    BY <1>2, <1>4, <2>1
  <2>7. Len(rows) \in Nat /\ DOMAIN rows = 1..Len(rows)
    BY <2>4
  <2>8. Len(rows) = IF first <= last THEN last - from ELSE 0
    BY <2>4, <2>6
  <2>9. \A k \in 1..Len(rows) : k \in 1..last - from
    BY <1>2, <1>4, <2>1, <2>8
  <2>10. \A k \in 1..Len(rows) : rows[k] = all[from + k]
    <3> TAKE k \in 1..Len(rows)
    <3>1. k \in 1..last - first + 1 /\ k \in Nat
      BY <2>6, <2>7, <2>9
    <3>2. rows[k] = all[first + k - 1]
      BY <2>4, <3>1
    <3>3. first + k - 1 = from + k
      BY <2>5, <3>1
    <3> QED BY <3>2, <3>3
  <2> QED BY <2>1, <2>4, <2>7, <2>8, <2>10
<1>6. ASSUME NEW i \in DOMAIN all, from < i, i <= upTo
      PROVE  \E k \in DOMAIN rows : rows[k] = all[i]
  <2>1. i \in 1..Len(all) /\ i <= last /\ from + 1 <= last
    <3>1. Len(all) \in Nat /\ i \in 1..Len(all)
      BY <1>1
    <3>2. i <= last
      BY <1>2, <1>4, <1>6, <3>1
    <3> QED BY ONLY <1>2, <1>4, <1>6, <3>1, <3>2
  <2>2. i - from \in 1..last - from
    BY <1>2, <1>4, <1>6, <2>1, SMTT(30)
  <2>3. i - from \in DOMAIN rows /\ from + (i - from) = i
    BY <1>2, <1>5, <2>1, <2>2, SMTT(30)
  <2> QED BY <1>5, <2>3
<1> QED BY <1>5, <1>6 DEF all, from, upTo, rows

(* What is served of a run is clean. *)
LEMMA BlobSound ==
  ASSUME SupplyAssumption, NEW s \in Runs, Shelf(s.out), s.builtAt \in Nat
  PROVE  Blob(s) \in Blobs /\ Sound(Blob(s)) /\ Blob(s) # NoBlob
<1> DEFINE out == s.out
           fit == {i \in DOMAIN out : i <= MaxMarkets /\ out[i] \notin Unfit}
           n == Cardinality(fit)
           markets == FirstOf(n, fit, out)
<1>1. out \in Seq(GammaRow) /\ IsInjective(out) /\ \A i \in DOMAIN out : out[i] \notin PerGame
  BY DEF Shelf
<1>2. Blob(s) = [builtAt |-> s.builtAt, markets |-> markets]
  BY DEF Blob
<1> HIDE DEF out
<1>3. /\ DOMAIN out = 1..Len(out) /\ Len(out) \in Nat /\ fit \in SUBSET (DOMAIN out)
      /\ fit \in SUBSET (1..MaxMarkets) /\ MaxMarkets \in Nat
      /\ \A i \in fit : out[i] \notin PerGame \cup Unfit
  <2>1. DOMAIN out = 1..Len(out) /\ Len(out) \in Nat /\ MaxMarkets \in Nat
    BY <1>1, SupplyBounds
  <2> QED BY <1>1, <2>1
<1> HIDE DEF fit
<1>4. n \in Nat /\ n <= MaxMarkets
  <2> DEFINE all == 1..MaxMarkets
  <2>1. IsFiniteSet(all) /\ Cardinality(all) = MaxMarkets
    <3>1. MaxMarkets \in Nat
      BY <1>3
    <3>2. /\ IsFiniteSet(1..MaxMarkets)
          /\ Cardinality(1..MaxMarkets) = IF 1 > MaxMarkets THEN 0 ELSE MaxMarkets - 1 + 1
      <4>1. 1 \in Int /\ MaxMarkets \in Int
        BY <3>1
      <4> QED BY ONLY <4>1, FS_Interval
    <3> QED BY <3>1, <3>2
  <2>2. fit \in SUBSET all
    BY <1>3
  <2> HIDE DEF all
  <2>3. IsFiniteSet(fit) /\ n <= MaxMarkets
    BY <2>1, <2>2, FS_Subset
  <2> QED BY <2>3, FS_CardinalityType
<1>5. n \in 0..Cardinality(fit) /\ n = Cardinality(fit)
  BY <1>4
<1>6. \A a, b \in fit : out[a] = out[b] => a = b
  BY <1>1, <1>3 DEF IsInjective
<1> HIDE DEF n
<1>7. /\ markets \in Seq(GammaRow) /\ Len(markets) = n
      /\ \A k \in 1..n : \E i \in fit : markets[k] = out[i]
      /\ (\A a, b \in fit : out[a] = out[b] => a = b) => IsInjective(markets)
  <2>1. out \in Seq(GammaRow) /\ fit \in SUBSET (DOMAIN out) /\ n \in 0..Cardinality(fit)
    BY <1>1, <1>3, <1>5
  <2> QED BY ONLY <2>1, FirstIndices, Zenon
<1> HIDE DEF markets
<1>8. DOMAIN markets = 1..n
  BY <1>7
<1>9. \A k \in DOMAIN markets : markets[k] \notin PerGame \cup Unfit
  BY <1>3, <1>7, <1>8
<1>10. Blob(s).builtAt = s.builtAt /\ Blob(s).markets = markets
  BY <1>2
<1>11. Sound(Blob(s))
  BY <1>4, <1>6, <1>7, <1>9, <1>10 DEF Sound, Clean
<1>12. Blob(s) \in Blobs
  BY <1>2, <1>7 DEF Blobs
<1> QED BY <1>10, <1>11, <1>12 DEF NoBlob

(* What the supply starts with is sound. *)
LEMMA SupplyInitInv == ASSUME SupplyAssumption, SupplyInit PROVE SupplyIInv
<1>1. <<>> \in Seq(GammaRow)
  OBVIOUS
<1>2. NoBlob \in Blobs /\ NotCached \in [blob : Blobs, fetchedAt : Int]
  BY <1>1 DEF NoBlob, NotCached, Blobs
<1>3. NoJob \in Runs
  BY <1>1 DEF NoJob, Runs
<1>4. kv \in Blobs /\ (kv # NoBlob => Sound(kv))
  <2>1. CASE kv = NoBlob
    BY <1>2, <2>1
  <2>2. CASE kv # NoBlob
    <3>1. kv \in [builtAt : Int \ {-1}, markets : Seq(GammaRow)] /\ Clean(kv)
      BY <2>2 DEF SupplyInit, SupplyAssumption
    <3> QED BY <3>1 DEF Sound, Blobs
  <2> QED BY <2>1, <2>2
<1>5. listing \in [Order -> Seq(GammaRow)]
  BY DEF SupplyInit, SupplyAssumption
<1>6. [at |-> "idle", blob |-> NoBlob, flagged |-> FALSE] \in Calls
  BY <1>2 DEF Calls
<1>7. job \in [Job -> Runs] /\ call \in [NewsCall -> Calls]
  BY <1>3, <1>6 DEF SupplyInit
<1>8. SupplyTypeOK
  <2>1. now \in Nat /\ shifts \in Nat /\ builtAt \in Int /\ inFlight \in BOOLEAN
    <3>1. now = 0 /\ shifts = 0 /\ builtAt = -1 /\ inFlight = FALSE
      BY DEF SupplyInit
    <3>2. inFlight \in BOOLEAN
      BY <3>1, Zenon
    <3>3. now \in Nat /\ shifts \in Nat /\ builtAt \in Int
      BY <3>1
    <3> QED BY <3>2, <3>3
  <2>2. cached \in [blob : Blobs, fetchedAt : Int]
    BY <1>2 DEF SupplyInit
  <2> QED BY <1>4, <1>5, <1>7, <2>1, <2>2 DEF SupplyTypeOK
<1>9. JobsSound
  <2>1. NoJob = Over("idle")
    BY DEF Over, NoJob
  <2>2. \A byVolume, still : RunSound(NoJob, byVolume, still)
    BY <2>1, OverSound
  <2> QED BY <2>2 DEF JobsSound, SupplyInit
<1>10. StoreSound
  BY <1>4 DEF StoreSound, SupplyInit
<1> QED BY <1>8, <1>9, <1>10 DEF SupplyIInv

(* One run goes on and the listings stay as they are. *)
LEMMA OneRun ==
  ASSUME SupplyAssumption, SupplyIInv, NEW j \in Job, NEW t \in Runs, job' = [job EXCEPT ![j] = t],
         RunSound(t, listing["volumeNum"], shifts = 0), UNCHANGED <<listing, shifts>>
  PROVE  job' \in [Job -> Runs] /\ JobsSound'
<1>1. job \in [Job -> Runs] /\ \A i \in Job : RunSound(job[i], listing["volumeNum"], shifts = 0)
  BY DEF SupplyIInv, SupplyTypeOK, JobsSound
<1>2. \A i \in Job : job'[i] = IF i = j THEN t ELSE job[i]
  BY <1>1
<1>3. \A i \in Job : RunSound(job'[i], listing["volumeNum"], shifts = 0)
  BY <1>1, <1>2
<1> QED BY <1>1, <1>3 DEF JobsSound

(* The store, when nothing of it moves. *)
LEMMA StoreKept ==
  ASSUME StoreSound, UNCHANGED <<cached, builtAt, call>>, kv' = kv \/ Sound(kv')
  PROVE  StoreSound'
BY DEF StoreSound

(* The jobs' steps. *)
LEMMA JobStepInv ==
  ASSUME SupplyAssumption, SupplyIInv, NEW j \in Job, JobStep(j)
  PROVE  SupplyIInv'
<1> DEFINE s == job[j]
           byVolume == listing["volumeNum"]
           still == shifts = 0
<1>1. /\ SupplyTypeOK /\ StoreSound /\ s \in Runs /\ RunSound(s, byVolume, still)
      /\ job \in [Job -> Runs] /\ byVolume \in Seq(GammaRow) /\ now \in Nat
      /\ listing \in [Order -> Seq(GammaRow)]
  BY SupplyBounds DEF SupplyIInv, SupplyTypeOK, JobsSound
<1>2. ASSUME NEW t \in Runs, job' = [job EXCEPT ![j] = t], RunSound(t, byVolume, still),
             kv' \in Blobs, kv' = kv \/ Sound(kv'),
             UNCHANGED <<now, listing, shifts, storeVars>>
      PROVE  SupplyIInv'
  <2>1. job' \in [Job -> Runs] /\ JobsSound'
    BY <1>2, OneRun
  <2>2. StoreSound'
    BY <1>1, <1>2, StoreKept DEF storeVars
  <2>3. SupplyTypeOK'
    BY <1>1, <1>2, <2>1 DEF SupplyTypeOK, storeVars
  <2> QED BY <2>1, <2>2, <2>3 DEF SupplyIInv
<1>3. CASE StartJob(j)
  <2>1. Pass(s) \in Runs /\ RunSound(Pass(s), byVolume, still)
    BY <1>1, PassSound
  <2>2. job' = [job EXCEPT ![j] = Pass(s)]
    BY <1>1, <1>3 DEF StartJob
  <2>3. kv \in Blobs /\ UNCHANGED <<now, listing, shifts, kv, storeVars>>
    BY <1>1, <1>3 DEF StartJob, SupplyTypeOK
  <2> QED BY <1>1, <1>2, <2>1, <2>2, <2>3
<1>4. CASE PageArrives(j)
  <2> DEFINE rows == Rows(OrderOf(s.slice), s.page)
             found == s.out \o Taken(s.out, rows, s.upTo)
             ended == rows = <<>> \/ Len(found) = s.upTo \/ s.page = MaxPage
             t == IF ended THEN Enter(s, found, s.slice + 1)
                  ELSE [s EXCEPT !.page = @ + 1, !.attempt = 0, !.out = found]
  <2>1. s.at = "page" /\ job' = [job EXCEPT ![j] = t]
        /\ UNCHANGED <<now, listing, shifts, kv, storeVars>>
    BY <1>1, <1>4 DEF PageArrives
  <2>2. /\ s.slice \in 1..Len(Slices) + 1 /\ s.page <= MaxPage
        /\ Len(s.out) <= s.upTo /\ s.upTo <= Total
        /\ s.slice > Len(Slices) => s.upTo = Total
        /\ s.slice > Len(Slices) /\ still => Covered(s.out, byVolume, s.page * PageSize)
        /\ s.out \in Seq(GammaRow) /\ IsInjective(s.out) /\ \A i \in DOMAIN s.out : s.out[i] \notin PerGame
    BY <1>1, <2>1 DEF RunSound, Shelf
  <2>3. s.page \in Nat /\ s.upTo \in Nat /\ MaxPage \in Nat /\ PageSize \in Nat /\ Total \in Nat
        /\ Len(Slices) \in Nat
    BY <1>1, SupplyBounds DEF Runs
  <2>4. OrderOf(s.slice) \in Order /\ (s.slice > Len(Slices) => OrderOf(s.slice) = "volumeNum")
    <3>1. CASE s.slice <= Len(Slices)
      <4>1. s.slice \in 1..Len(Slices)
        BY <2>2, <2>3, <3>1
      <4>2. OrderOf(s.slice) = Slices[s.slice].order
        BY <3>1 DEF OrderOf
      <4>3. Slices[s.slice].order \in Order
        BY <4>1, SupplyBounds
      <4>4. ~(s.slice > Len(Slices))
        BY <2>3, <3>1, <4>1
      <4> QED BY <4>2, <4>3, <4>4
    <3>2. CASE ~(s.slice <= Len(Slices))
      BY <3>2, SupplyBounds DEF OrderOf
    <3> QED BY <3>1, <3>2
  <2>5. /\ rows \in Seq(GammaRow)
        /\ \A i \in DOMAIN listing[OrderOf(s.slice)] :
             s.page * PageSize < i /\ i <= (s.page + 1) * PageSize =>
               \E k \in DOMAIN rows : rows[k] = listing[OrderOf(s.slice)][i]
    <3> DEFINE by == OrderOf(s.slice)
               page == s.page
    <3>1. by \in Order /\ page \in Nat
      BY <2>3, <2>4
    <3> HIDE DEF by, page
    <3>2. /\ Rows(by, page) \in Seq(GammaRow)
          /\ \A i \in DOMAIN listing[by] : page * PageSize < i /\ i <= (page + 1) * PageSize =>
               \E k \in DOMAIN Rows(by, page) : Rows(by, page)[k] = listing[by][i]
      BY <1>1, <3>1, PageOfRows
    <3> QED BY <3>2 DEF by, page
  <2> HIDE DEF rows, s
  <2>6. /\ Shelf(found) /\ Len(found) <= s.upTo /\ ToSet(s.out) \subseteq ToSet(found)
        /\ Len(found) # s.upTo => \A i \in DOMAIN rows : rows[i] \in PerGame \cup ToSet(found)
    <3> DEFINE out == s.out
               upTo == s.upTo
    <3>1. out \in Seq(GammaRow) /\ upTo \in Nat /\ IsInjective(out) /\ Len(out) <= upTo
          /\ \A i \in DOMAIN out : out[i] \notin PerGame
      BY <2>2, <2>3
    <3> DEFINE next == out \o Taken(out, rows, upTo)
    <3> HIDE DEF out, upTo
    <3>2. /\ next \in Seq(GammaRow) /\ IsInjective(next) /\ Len(next) <= upTo
          /\ \A i \in DOMAIN next : next[i] \notin PerGame
          /\ ToSet(out) \subseteq ToSet(next)
          /\ Len(next) # upTo => \A i \in DOMAIN rows : rows[i] \in PerGame \cup ToSet(next)
      BY <2>5, <3>1, PageAdds
    <3> QED BY <3>2 DEF Shelf, out, upTo
  <2> HIDE DEF found
  <2>7. Len(found) \in Nat /\ found \in Seq(GammaRow)
    BY <2>6 DEF Shelf
  <2>8. ASSUME s.slice > Len(Slices), still, Len(found) # s.upTo
        PROVE  Covered(found, byVolume, (s.page + 1) * PageSize)
    <3>1. OrderOf(s.slice) = "volumeNum" /\ Covered(s.out, byVolume, s.page * PageSize)
      BY <2>2, <2>4, <2>8
    <3>2. ASSUME NEW i \in DOMAIN byVolume, i <= (s.page + 1) * PageSize
          PROVE  byVolume[i] \in PerGame \cup ToSet(found)
      <4>1. CASE i <= s.page * PageSize
        BY <2>6, <3>1, <4>1 DEF Covered
      <4>2. CASE ~(i <= s.page * PageSize)
        <5>1. i \in Int /\ s.page * PageSize \in Int
          <6>1. i \in Int
            BY <1>1
          <6>2. s.page \in Nat /\ PageSize \in Nat
            BY <2>3
          <6>3. \A a, b \in Nat : a * b \in Int
            BY ONLY TRUE
          <6> QED BY ONLY <6>1, <6>2, <6>3
        <5>2. s.page * PageSize < i
          BY ONLY <4>2, <5>1
        <5>3. PICK k \in DOMAIN rows : rows[k] = byVolume[i]
          BY <2>5, <3>1, <3>2, <5>2
        <5> QED BY <2>6, <2>8, <5>3
      <4> QED BY <4>1, <4>2
    <3> QED BY <3>2 DEF Covered
  <2>9. CASE ended
    <3>1. s.slice + 1 \in 1..Len(Slices) + 2 /\ Len(found) <= Total
      <4>1. s.slice \in Int
        BY <2>2
      <4>2. Len(found) <= Total
        BY <2>2, <2>3, <2>6, <2>7
      <4>3. s.slice + 1 \in 1..Len(Slices) + 2
        <5> DEFINE here == s.slice
                   all == Len(Slices)
        <5>1. here \in 1..all + 1 /\ all \in Nat
          BY <2>2, <2>3
        <5> HIDE DEF here, all
        <5>2. here + 1 \in 1..all + 2
          BY <5>1
        <5> QED BY <5>2 DEF here, all
      <4> QED BY <4>2, <4>3
    <3>2. ASSUME s.slice + 1 = Len(Slices) + 2, still, Len(found) < Total
          PROVE  Covered(found, byVolume, (MaxPage + 1) * PageSize)
      <4>1. s.slice > Len(Slices) /\ s.upTo = Total /\ Len(found) # s.upTo
        BY <2>2, <2>3, <2>7, <3>2, SMTT(30)
      <4>2. Covered(found, byVolume, (s.page + 1) * PageSize)
        BY <2>8, <3>2, <4>1
      <4>3. CASE s.page = MaxPage
        BY <4>2, <4>3
      <4>4. CASE rows = <<>>
        <5>1. \A i \in DOMAIN byVolume : i <= s.page * PageSize
          <6> DEFINE from == s.page * PageSize
          <6> SUFFICES ASSUME NEW i \in DOMAIN byVolume, ~(i <= from) PROVE FALSE
            OBVIOUS
          <6>1. DOMAIN rows = {} /\ DOMAIN byVolume = 1..Len(byVolume) /\ Len(byVolume) \in Nat
            BY <1>1, <4>4
          <6>2. from \in Nat /\ from + 1 <= (s.page + 1) * PageSize
            BY <2>3, SupplyBounds, SMTT(30)
          <6>3. from + 1 \in DOMAIN byVolume /\ from < from + 1
            <7> HIDE DEF from, byVolume
            <7> QED BY <6>1, <6>2
          <6> QED BY <2>4, <2>5, <4>1, <6>1, <6>2, <6>3
        <5>2. Covered(s.out, byVolume, s.page * PageSize)
          BY <2>2, <3>2, <4>1
        <5> QED BY <2>6, <5>1, <5>2 DEF Covered
      <4> QED BY <2>9, <4>1, <4>3, <4>4
    <3> DEFINE slice == s.slice + 1
    <3>3. slice \in 1..Len(Slices) + 2 /\ (slice = Len(Slices) + 2 /\ still /\ Len(found) < Total =>
                                     Covered(found, byVolume, (MaxPage + 1) * PageSize))
      BY <3>1, <3>2
    <3>4. t = Enter(s, found, slice)
      BY <2>9
    <3>5. s \in Runs
      BY <1>1 DEF s
    <3> HIDE DEF slice
    <3>6. Enter(s, found, slice) \in Runs /\ RunSound(Enter(s, found, slice), byVolume, still)
      <4> HIDE DEF byVolume, still
      <4> QED BY <1>1, <2>6, <3>1, <3>3, <3>5, EnterSound
    <3> HIDE DEF t
    <3>7. kv \in Blobs
      BY <1>1 DEF SupplyTypeOK
    <3> QED BY <1>2, <2>1, <3>4, <3>6, <3>7
  <2>10. CASE ~ended
    <3>1. t = [s EXCEPT !.page = @ + 1, !.attempt = 0, !.out = found]
      BY <2>10
    <3>2. t \in Runs /\ t.at = "page" /\ t.page = s.page + 1 /\ t.out = found /\ t.slice = s.slice
          /\ t.upTo = s.upTo
      <4>1. s \in Runs
        BY <1>1 DEF s
      <4>2. s.page + 1 \in Nat
        BY <2>3
      <4>3. t \in Runs
        <5> DEFINE page == s.page + 1
        <5>1. page \in Nat /\ t = [s EXCEPT !.page = page, !.attempt = 0, !.out = found]
          BY <3>1, <4>2
        <5> HIDE DEF page, t
        <5>2. [s EXCEPT !.page = page, !.attempt = 0, !.out = found] \in Runs
          BY <2>7, <4>1, <5>1, RunChanges
        <5> QED BY <5>1, <5>2, Zenon
      <4>4. /\ t.at = s.at /\ t.page = s.page + 1 /\ t.out = found /\ t.slice = s.slice
            /\ t.upTo = s.upTo
        BY <3>1, <4>1 DEF Runs
      <4> QED BY <2>1, <4>3, <4>4
    <3>3. s.page + 1 <= MaxPage /\ Len(found) # s.upTo
      BY <2>2, <2>3, <2>10
    <3> HIDE DEF t
    <3>4. RunSound(t, byVolume, still)
      BY <2>2, <2>3, <2>6, <2>7, <2>8, <3>2, <3>3 DEF RunSound
    <3>5. kv \in Blobs
      BY <1>1 DEF SupplyTypeOK
    <3> QED BY <1>2, <2>1, <3>2, <3>4, <3>5
  <2> QED BY <2>9, <2>10
<1>5. CASE PageFails(j)
  <2>1. s.at = "page" /\ UNCHANGED <<now, listing, shifts, kv, storeVars>>
    BY <1>1, <1>5 DEF PageFails
  <2>2. kv \in Blobs
    BY <1>1 DEF SupplyTypeOK
  <2>3. CASE job' = [job EXCEPT ![j].attempt = @ + 1]
    <3> DEFINE t == [s EXCEPT !.attempt = @ + 1]
    <3>1. job' = [job EXCEPT ![j] = t]
      BY <1>1, <2>3
    <3>2. t \in Runs
      <4>1. s.attempt + 1 \in Nat
        BY <1>1, SMTT(30) DEF Runs
      <4> QED BY <1>1, <4>1, RunChanges
    <3>3. t.at = s.at /\ t.slice = s.slice /\ t.page = s.page /\ t.upTo = s.upTo /\ t.out = s.out
      BY <1>1 DEF Runs
    <3>4. RunSound(t, byVolume, still)
      <4> HIDE DEF t
      <4> QED BY <1>1, <2>1, <3>3 DEF RunSound
    <3> QED BY <1>2, <2>1, <2>2, <3>1, <3>2, <3>4
  <2>4. CASE job' = [job EXCEPT ![j] = Pass([s EXCEPT !.pass = @ + 1])]
    <3>1. [s EXCEPT !.pass = @ + 1] \in Runs
      <4>1. s.pass + 1 \in Nat
        BY <1>1, SMTT(30) DEF Runs
      <4> QED BY <1>1, <4>1, RunChanges
    <3>2. Pass([s EXCEPT !.pass = @ + 1]) \in Runs
          /\ RunSound(Pass([s EXCEPT !.pass = @ + 1]), byVolume, still)
      BY <1>1, <3>1, PassSound
    <3> QED BY <1>2, <2>1, <2>2, <2>4, <3>2
  <2>5. CASE job' = [job EXCEPT ![j] = Over("failed")]
    BY <1>2, <2>1, <2>2, <2>5, OverSound
  <2> QED BY <1>5, <2>3, <2>4, <2>5 DEF PageFails
<1>6. CASE ModelLoads(j)
  <2> DEFINE t == [s EXCEPT !.at = "embed", !.builtAt = now]
  <2>1. job' = [job EXCEPT ![j] = t] /\ UNCHANGED <<now, listing, shifts, kv, storeVars>>
    BY <1>1, <1>6 DEF ModelLoads
  <2>2. t \in Runs /\ t.at = "embed" /\ t.builtAt = now /\ t.out = s.out
    <3>1. t \in Runs
      BY <1>1, RunChanges
    <3>2. t.at = "embed" /\ t.builtAt = now /\ t.out = s.out
      BY <1>1 DEF Runs
    <3> QED BY <3>1, <3>2
  <2>3. kv \in Blobs
    BY <1>1 DEF SupplyTypeOK
  <2> HIDE DEF t
  <2>4. RunSound(t, byVolume, still)
    BY <1>1, <2>2 DEF RunSound
  <2> QED BY <1>1, <1>2, <2>1, <2>2, <2>3, <2>4
<1>7. CASE Embeds(j)
  <2> DEFINE t == [s EXCEPT !.at = "put"]
  <2>1. s.at = "embed" /\ job' = [job EXCEPT ![j] = t]
        /\ UNCHANGED <<now, listing, shifts, kv, storeVars>>
    BY <1>1, <1>7 DEF Embeds
  <2>2. t \in Runs /\ t.at = "put" /\ t.builtAt = s.builtAt /\ t.out = s.out
    BY <1>1 DEF Runs
  <2>3. kv \in Blobs
    BY <1>1 DEF SupplyTypeOK
  <2> HIDE DEF t
  <2>4. RunSound(t, byVolume, still)
    BY <1>1, <2>1, <2>2 DEF RunSound
  <2> QED BY <1>1, <1>2, <2>1, <2>2, <2>3, <2>4
<1>8. CASE Put(j)
  <2>1. s.at = "put" /\ Shelf(s.out) /\ s.builtAt \in Nat
    BY <1>1, <1>8 DEF Put, RunSound
  <2>2. Blob(s) \in Blobs /\ Sound(Blob(s))
    BY <1>1, <2>1, BlobSound
  <2>3. (kv' = Blob(s) \/ kv' = kv) /\ kv \in Blobs
        /\ UNCHANGED <<now, listing, shifts, storeVars>>
    BY <1>1, <1>8, SMTT(30) DEF Put, SupplyTypeOK
  <2>4. job' = [job EXCEPT ![j] = Over("done")] \/ job' = [job EXCEPT ![j] = Over("failed")]
    BY <1>8 DEF Put
  <2> HIDE DEF s
  <2> QED BY <1>2, <2>2, <2>3, <2>4, OverSound
<1>9. CASE RunFails(j)
  <2>1. job' = [job EXCEPT ![j] = Over("failed")] /\ kv \in Blobs
        /\ UNCHANGED <<now, listing, shifts, kv, storeVars>>
    BY <1>1, <1>9 DEF RunFails, SupplyTypeOK
  <2> QED BY <1>2, <2>1, OverSound
<1>10. CASE ModelFails(j)
  <2> DEFINE t == [s EXCEPT !.attempt = @ + 1]
  <2>1. s.at = "model" /\ kv \in Blobs /\ UNCHANGED <<now, listing, shifts, kv, storeVars>>
    BY <1>1, <1>10 DEF ModelFails, SupplyTypeOK
  <2>2. CASE job' = [job EXCEPT ![j] = t]
    <3>1. t \in Runs
      <4>1. s.attempt + 1 \in Nat
        BY <1>1, SMTT(30) DEF Runs
      <4> QED BY <1>1, <4>1, RunChanges
    <3>2. t.at = s.at /\ t.out = s.out
      BY <1>1 DEF Runs
    <3> HIDE DEF t
    <3>3. RunSound(t, byVolume, still)
      BY <1>1, <2>1, <3>2 DEF RunSound
    <3> QED BY <1>2, <2>1, <2>2, <3>1, <3>3
  <2>3. CASE job' = [job EXCEPT ![j] = Over("failed")]
    BY <1>2, <2>1, <2>3, OverSound
  <2> QED BY <1>10, <2>2, <2>3 DEF ModelFails
<1> QED BY <1>3, <1>4, <1>5, <1>6, <1>7, <1>8, <1>9, <1>10 DEF JobStep

(* What a call becomes is a call. *)
LEMMA CallChanges ==
  ASSUME NEW k \in Calls, NEW at \in {"idle", "load", "match", "done", "error"}, NEW blob \in Blobs,
         NEW flag \in BOOLEAN
  PROVE  /\ [k EXCEPT !.at = at] \in Calls
         /\ [k EXCEPT !.at = at, !.blob = blob] \in Calls
         /\ [k EXCEPT !.at = at, !.blob = blob, !.flagged = flag] \in Calls
<1>1. [k EXCEPT !.at = at] \in Calls
  BY DEF Calls
<1>2. [k EXCEPT !.at = at, !.blob = blob] \in Calls
  BY DEF Calls
<1>3. [k EXCEPT !.at = at, !.blob = blob, !.flagged = flag] \in Calls
  BY DEF Calls
<1> QED BY <1>1, <1>2, <1>3

(* The load ends for those who wait on it, and for no one else. *)
LEMMA ReleasedCalls ==
  ASSUME NEW at \in {"match", "error"}, NEW blob \in Blobs, call \in [NewsCall -> Calls]
  PROVE  /\ Released(at, blob) \in [NewsCall -> Calls]
         /\ \A c \in NewsCall : \/ Released(at, blob)[c] = call[c] /\ call[c].at # "load"
                                \/ Released(at, blob)[c].at = at /\ Released(at, blob)[c].blob = blob
<1>1. \A c \in NewsCall : [call[c] EXCEPT !.at = at, !.blob = blob] \in Calls
  <2> TAKE c \in NewsCall
  <2>1. call[c] \in Calls
    OBVIOUS
  <2> HIDE DEF Calls
  <2> QED BY <2>1, CallChanges
<1>2. \A c \in NewsCall :
        Released(at, blob)[c] = IF call[c].at = "load" THEN [call[c] EXCEPT !.at = at, !.blob = blob]
                                ELSE call[c]
  BY DEF Released
<1>3. Released(at, blob) \in [NewsCall -> Calls]
  BY <1>1 DEF Released
<1>4. \A c \in NewsCall : [call[c] EXCEPT !.at = at, !.blob = blob].at = at
                          /\ [call[c] EXCEPT !.at = at, !.blob = blob].blob = blob
  <2> TAKE c \in NewsCall
  <2>1. call[c] \in Calls
    OBVIOUS
  <2> QED BY <2>1 DEF Calls
<1> QED BY <1>2, <1>3, <1>4

(* The store's steps. *)
LEMMA StoreStepInv ==
  ASSUME SupplyAssumption, SupplyIInv,
         (\E c \in NewsCall : AskNews(c) \/ NewsStep(c)) \/ LoadArrives \/ LoadFails
  PROVE  SupplyIInv'
<1>1. /\ SupplyTypeOK /\ JobsSound /\ StoreSound /\ call \in [NewsCall -> Calls]
      /\ kv \in Blobs /\ cached \in [blob : Blobs, fetchedAt : Int] /\ builtAt \in Int /\ inFlight \in BOOLEAN
      /\ now \in Nat
  BY DEF SupplyIInv, SupplyTypeOK
<1>2. NoBlob \in Blobs
  <2>1. <<>> \in Seq(GammaRow)
    OBVIOUS
  <2> QED BY <2>1 DEF NoBlob, Blobs
<1>3. ASSUME call' \in [NewsCall -> Calls], inFlight' \in BOOLEAN, builtAt' \in Int,
             cached' \in [blob : Blobs, fetchedAt : Int], StoreSound',
             UNCHANGED <<now, listing, shifts, jobVars>>
      PROVE  SupplyIInv'
  <2>1. SupplyTypeOK'
    BY <1>1, <1>3 DEF SupplyTypeOK, jobVars
  <2>2. JobsSound'
    BY <1>1, <1>3 DEF JobsSound, jobVars
  <2> QED BY <1>3, <2>1, <2>2 DEF SupplyIInv
<1>4. ASSUME NEW c \in NewsCall, NEW t \in Calls, call' = [call EXCEPT ![c] = t], inFlight' \in BOOLEAN,
             t.at = "match" => cached # NotCached /\ Sound(t.blob),
             UNCHANGED <<now, listing, shifts, jobVars, cached, builtAt>>
      PROVE  SupplyIInv'
  <2>1. call' \in [NewsCall -> Calls]
    BY <1>1, <1>4
  <2>2. \A d \in NewsCall : call'[d] = IF d = c THEN t ELSE call[d]
    BY <1>1, <1>4
  <2>3. \A d \in NewsCall : call'[d].at = "match" => cached # NotCached /\ Sound(call'[d].blob)
    BY <1>1, <1>4, <2>2 DEF StoreSound
  <2>4. StoreSound'
    BY <1>1, <1>4, <2>3 DEF StoreSound, jobVars
  <2> QED BY <1>1, <1>3, <1>4, <2>1, <2>4
<1>5. ASSUME NEW c \in NewsCall, AskNews(c) PROVE SupplyIInv'
  <2>1. call[c] \in Calls /\ UNCHANGED <<now, listing, shifts, jobVars, cached, builtAt>>
    BY <1>1, <1>5 DEF AskNews
  <2>2. CASE Fresh /\ call' = [call EXCEPT ![c].at = "match", ![c].blob = cached.blob] /\ UNCHANGED inFlight
    <3> DEFINE t == [call[c] EXCEPT !.at = "match", !.blob = cached.blob]
    <3>1. t \in Calls
      <4>1. cached.blob \in Blobs
        BY <1>1
      <4> QED BY <2>1, <4>1, CallChanges
    <3>2. t.at = "match" /\ t.blob = cached.blob
      BY <2>1 DEF Calls
    <3>3. cached # NotCached /\ Sound(cached.blob)
      BY <1>1, <2>2 DEF Fresh, StoreSound
    <3>4. call' = [call EXCEPT ![c] = t]
      BY <2>1, <2>2
    <3>5. inFlight' \in BOOLEAN
      BY <1>1, <2>2, Zenon
    <3> HIDE DEF t
    <3> QED BY <1>4, <2>1, <3>1, <3>2, <3>3, <3>4, <3>5
  <2>3. CASE call' = [call EXCEPT ![c].at = "load"] /\ inFlight' = TRUE
    <3> DEFINE t == [call[c] EXCEPT !.at = "load"]
    <3>1. t \in Calls
      BY <1>2, <2>1, CallChanges
    <3>2. t.at = "load"
      BY <2>1 DEF Calls
    <3>3. call' = [call EXCEPT ![c] = t]
      BY <2>1, <2>3
    <3>4. inFlight' \in BOOLEAN
      BY <2>3, Zenon
    <3> HIDE DEF t
    <3> QED BY <1>4, <2>1, <3>1, <3>2, <3>3, <3>4
  <2> QED BY <1>5, <2>2, <2>3 DEF AskNews
<1>6. ASSUME NEW c \in NewsCall, Answers(c) PROVE SupplyIInv'
  <2> DEFINE flag == builtAt # -1 /\ now - builtAt > MaxAge
             t == [call[c] EXCEPT !.at = "done", !.blob = NoBlob, !.flagged = flag]
  <2>1. call[c] \in Calls /\ UNCHANGED <<now, listing, shifts, jobVars, cached, builtAt>> /\ UNCHANGED inFlight
    BY <1>1, <1>6 DEF Answers
  <2>2. call' = [call EXCEPT ![c] = t]
    BY <2>1, <1>6 DEF Answers
  <2>3. t.at = "done"
    BY <2>1 DEF Calls
  <2>4. flag \in BOOLEAN
    OBVIOUS
  <2> HIDE DEF flag
  <2>5. t \in Calls
    BY <1>2, <2>1, <2>4, CallChanges
  <2>6. inFlight' \in BOOLEAN
    BY <1>1, <2>1, Zenon
  <2> HIDE DEF t
  <2> QED BY <1>4, <2>1, <2>2, <2>3, <2>5, <2>6
<1>7. ASSUME NEW c \in NewsCall, MatchFails(c) PROVE SupplyIInv'
  <2> DEFINE t == [call[c] EXCEPT !.at = "error", !.blob = NoBlob]
  <2>1. call[c] \in Calls /\ UNCHANGED <<now, listing, shifts, jobVars, cached, builtAt>> /\ UNCHANGED inFlight
    BY <1>1, <1>7 DEF MatchFails
  <2>2. call' = [call EXCEPT ![c] = t]
    BY <2>1, <1>7 DEF MatchFails
  <2>3. t.at = "error"
    BY <2>1 DEF Calls
  <2>4. t \in Calls
    BY <1>2, <2>1, CallChanges
  <2>5. inFlight' \in BOOLEAN
    BY <1>1, <2>1, Zenon
  <2> HIDE DEF t
  <2> QED BY <1>4, <2>1, <2>2, <2>3, <2>4, <2>5
<1>8. CASE LoadArrives
  <2>1. /\ kv # NoBlob /\ cached' = [blob |-> kv, fetchedAt |-> now] /\ builtAt' = kv.builtAt
        /\ call' = Released("match", kv) /\ inFlight' = FALSE
        /\ UNCHANGED <<now, listing, shifts, jobVars>> /\ kv' = kv
    BY <1>8 DEF LoadArrives, jobVars
  <2>2. Sound(kv)
    BY <1>1, <2>1 DEF StoreSound
  <2>3. /\ call' \in [NewsCall -> Calls]
        /\ \A c \in NewsCall : \/ call'[c] = call[c] /\ call[c].at # "load"
                               \/ call'[c].at = "match" /\ call'[c].blob = kv
    BY <1>1, <2>1, ReleasedCalls
  <2>4. cached' \in [blob : Blobs, fetchedAt : Int] /\ builtAt' \in Int
    BY <1>1, <2>1 DEF Blobs
  <2>5. inFlight' \in BOOLEAN
    BY <2>1, Zenon
  <2>6. cached'.blob = kv /\ cached' # NotCached
    BY <2>1 DEF NotCached
  <2>7. \A c \in NewsCall : call'[c].at = "match" => Sound(call'[c].blob)
    BY <1>1, <2>2, <2>3 DEF StoreSound
  <2>8. StoreSound'
    BY <2>1, <2>2, <2>6, <2>7 DEF StoreSound
  <2> QED BY <1>3, <2>1, <2>3, <2>4, <2>5, <2>8
<1>9. CASE LoadFails
  <2>1. /\ call' = Released("error", NoBlob) /\ inFlight' = FALSE
        /\ UNCHANGED <<now, listing, shifts, jobVars, cached, builtAt>> /\ kv' = kv
    BY <1>9 DEF LoadFails, jobVars
  <2>2. /\ call' \in [NewsCall -> Calls]
        /\ \A c \in NewsCall : \/ call'[c] = call[c] /\ call[c].at # "load"
                               \/ call'[c].at = "error" /\ call'[c].blob = NoBlob
    BY <1>1, <1>2, <2>1, ReleasedCalls
  <2>3. cached' \in [blob : Blobs, fetchedAt : Int] /\ builtAt' \in Int
    BY <1>1, <2>1
  <2>4. inFlight' \in BOOLEAN
    BY <2>1, Zenon
  <2>5. \A c \in NewsCall : call'[c].at = "match" => cached # NotCached /\ Sound(call'[c].blob)
    BY <1>1, <2>2 DEF StoreSound
  <2>6. StoreSound'
    BY <1>1, <2>1, <2>5 DEF StoreSound
  <2> QED BY <1>3, <2>1, <2>2, <2>3, <2>4, <2>6
<1> QED BY <1>5, <1>6, <1>7, <1>8, <1>9 DEF NewsStep

(* Gamma's step: the listings stay lists, and nothing is still any more. *)
LEMMA ShiftInv ==
  ASSUME SupplyAssumption, SupplyIInv, NEW by \in Order, NEW i \in 2..Len(listing[by]), Shift(by, i)
  PROVE  SupplyIInv'
<1> DEFINE all == listing[by]
           moved == <<all[i]>> \o RemoveAt(all, i)
<1>1. /\ SupplyTypeOK /\ JobsSound /\ StoreSound /\ job \in [Job -> Runs] /\ shifts \in Nat
      /\ listing \in [Order -> Seq(GammaRow)] /\ all \in Seq(GammaRow)
  BY DEF SupplyIInv, SupplyTypeOK
<1>2. moved \in Seq(GammaRow)
  <2>1. Len(all) \in Nat /\ i \in 1..Len(all)
    BY <1>1
  <2>2. all[i] \in GammaRow
    BY <1>1, <2>1
  <2>3. SubSeq(all, 1, i - 1) \in Seq(GammaRow) /\ SubSeq(all, i + 1, Len(all)) \in Seq(GammaRow)
    <3>1. i - 1 \in 0..Len(all) /\ i + 1 \in 1..Len(all) + 1 /\ \A k \in 1..i - 1 : k \in 1..Len(all)
      BY <2>1, SMTT(30)
    <3>2. \A k \in i + 1..Len(all) : k \in 1..Len(all)
      BY <2>1
    <3> HIDE DEF all
    <3> QED BY <1>1, <2>1, <3>1, <3>2, SMTT(30)
  <2>4. <<all[i]>> \in Seq(GammaRow)
    BY <2>2
  <2> QED BY <2>3, <2>4 DEF RemoveAt
<1>3. /\ listing' = [listing EXCEPT ![by] = moved] /\ shifts' = shifts + 1
      /\ job' = [j \in Job |-> [job[j] EXCEPT !.quiet = (@ /\ job[j].at # "page")]]
      /\ UNCHANGED <<now, kv, storeVars>>
  BY DEF Shift
<1> HIDE DEF moved, all
<1>4. listing' \in [Order -> Seq(GammaRow)] /\ shifts' \in Nat /\ shifts' # 0
  BY <1>1, <1>2, <1>3, SMTT(30)
<1>5. ASSUME NEW j \in Job
      PROVE  /\ job'[j] \in Runs /\ job'[j].at = job[j].at /\ job'[j].out = job[j].out
             /\ job'[j].slice = job[j].slice /\ job'[j].page = job[j].page
             /\ job'[j].upTo = job[j].upTo /\ job'[j].builtAt = job[j].builtAt
  <2>1. job'[j] = [job[j] EXCEPT !.quiet = (job[j].quiet /\ job[j].at # "page")] /\ job[j] \in Runs
    BY <1>1, <1>3
  <2> DEFINE q == job[j].quiet /\ job[j].at # "page"
  <2>2. q \in BOOLEAN
    OBVIOUS
  <2> HIDE DEF q
  <2>3. job'[j] = [job[j] EXCEPT !.quiet = q]
    BY <2>1 DEF q
  <2> QED BY <2>1, <2>2, <2>3 DEF Runs
<1>6. job' \in [Job -> Runs]
  <2>1. DOMAIN job' = Job /\ job' = [j \in Job |-> job'[j]]
    BY <1>3
  <2> QED BY <1>5, <2>1
<1>7. JobsSound'
  <2>1. ASSUME NEW j \in Job PROVE RunSound(job'[j], listing'["volumeNum"], shifts' = 0)
    <3>1. RunSound(job[j], listing["volumeNum"], shifts = 0)
      BY <1>1 DEF JobsSound
    <3> QED BY <1>4, <1>5, <3>1 DEF RunSound
  <2> QED BY <2>1 DEF JobsSound
<1>8. StoreSound'
  BY <1>1, <1>3, StoreKept DEF storeVars
<1>9. SupplyTypeOK'
  BY <1>1, <1>3, <1>4, <1>6 DEF SupplyTypeOK, storeVars
<1> QED BY <1>7, <1>8, <1>9 DEF SupplyIInv

(* Every step keeps the invariant. *)
LEMMA SupplyNextInv ==
  ASSUME SupplyAssumption, SupplyIInv, [SupplyNext]_supplyVars
  PROVE  SupplyIInv'
<1>1. ASSUME NEW j \in Job, JobStep(j) PROVE SupplyIInv'
  BY <1>1, JobStepInv
<1>2. CASE (\E c \in NewsCall : AskNews(c) \/ NewsStep(c)) \/ LoadArrives \/ LoadFails
  BY <1>2, StoreStepInv
<1>3. ASSUME NEW by \in DOMAIN listing, NEW i \in 2..Len(listing[by]), Shift(by, i)
      PROVE  SupplyIInv'
  <2>1. by \in Order
    BY DEF SupplyIInv, SupplyTypeOK
  <2> QED BY <1>3, <2>1, ShiftInv
<1>4. CASE SupplyTick \/ UNCHANGED supplyVars
  <2>1. /\ now' \in Nat /\ UNCHANGED <<listing, shifts, job, kv, cached, builtAt, inFlight, call>>
    BY <1>4 DEF SupplyTick, supplyVars, jobVars, storeVars, SupplyIInv, SupplyTypeOK
  <2>2. SupplyTypeOK'
    BY <2>1 DEF SupplyIInv, SupplyTypeOK
  <2>3. JobsSound' /\ StoreSound'
    BY <2>1 DEF SupplyIInv, JobsSound, StoreSound
  <2> QED BY <2>2, <2>3 DEF SupplyIInv
<1> QED BY <1>1, <1>2, <1>3, <1>4 DEF SupplyNext

(* Every run of the job is a shelf without fixtures and repetitions that has *)
(* covered what it paged, and what is served, kept and matched is dated and  *)
(* clean (fillFrom, buildBlob, WorkerMarketStore).                           *)
THEOREM SupplyInvariant == SupplySpec => []SupplyIInv
<1>1. SupplyInit => SupplyIInv
  BY SupplyAssumption, SupplyInitInv
<1>2. SupplyIInv /\ [SupplyNext]_supplyVars => SupplyIInv'
  BY SupplyAssumption, SupplyNextInv
<1> QED BY <1>1, <1>2, PTL DEF SupplySpec

(* A pass that ends short of the total while the listings stood still has    *)
(* taken every market within reach of the offsets (fetchActiveMarkets).      *)
THEOREM ShelfIsExhausted == SupplySpec => []ThinShelfIsExhausted
<1>1. SupplyIInv => ThinShelfIsExhausted
  <2> SUFFICES ASSUME SupplyIInv, NEW j \in Job, job[j].at = "model", shifts = 0, Len(job[j].out) < Total,
                      NEW m \in ToSet(SubSeq(listing["volumeNum"], 1,
                                        Min({Len(listing["volumeNum"]), (MaxPage + 1) * PageSize}))),
                      m \notin PerGame
               PROVE  m \in ToSet(job[j].out)
    BY DEF ThinShelfIsExhausted
  <2> DEFINE all == listing["volumeNum"]
             reach == (MaxPage + 1) * PageSize
             n == Min({Len(all), reach})
  <2>1. all \in Seq(GammaRow) /\ Len(all) \in Nat /\ reach \in Nat
    BY SupplyAssumption, SupplyBounds, SMTT(30) DEF SupplyIInv, SupplyTypeOK
  <2>2. Covered(job[j].out, all, reach)
    BY DEF SupplyIInv, JobsSound, RunSound
  <2> HIDE DEF all, reach
  <2>3. n \in Nat /\ n <= Len(all) /\ n <= reach
    BY <2>1, MinOfTwo
  <2>4. m \in ToSet(SubSeq(all, 1, n))
    BY DEF all, reach
  <2> HIDE DEF n
  <2>5. PICK i \in 1..n : m = all[i]
    <3>1. Len(SubSeq(all, 1, n)) = n /\ DOMAIN SubSeq(all, 1, n) = 1..n
          /\ \A i \in 1..n : SubSeq(all, 1, n)[i] = all[i]
      BY <2>1, <2>3
    <3> QED BY <2>4, <3>1 DEF ToSet
  <2>6. i \in DOMAIN all /\ i <= reach
    BY <2>1, <2>3
  <2> QED BY <2>2, <2>5, <2>6 DEF Covered
<1> QED BY <1>1, SupplyInvariant, PTL

(* An answer from markets past their age is flagged, or the store has taken  *)
(* in a younger blob meanwhile (check_news).                                 *)
THEOREM StaleAlwaysTold == SupplySpec => StaleIsTold
<1>1. SupplyIInv /\ [SupplyNext]_supplyVars =>
        [\A c \in NewsCall :
           call[c].at = "match" /\ call'[c].at = "done" /\ now - call[c].blob.builtAt > MaxAge
             => call'[c].flagged \/ cached.blob.builtAt > call[c].blob.builtAt]_supplyVars
  <2> SUFFICES ASSUME SupplyIInv, SupplyNext, NEW c \in NewsCall, call[c].at = "match", call'[c].at = "done",
                      now - call[c].blob.builtAt > MaxAge
               PROVE  call'[c].flagged \/ cached.blob.builtAt > call[c].blob.builtAt
    OBVIOUS
  <2>1. /\ call \in [NewsCall -> Calls] /\ call[c] \in Calls /\ now \in Nat /\ builtAt \in Int
        /\ cached # NotCached /\ builtAt = cached.blob.builtAt /\ builtAt # -1
        /\ call[c].blob.builtAt \in Int /\ MaxAge \in Nat
    BY SupplyAssumption, SupplyBounds
       DEF SupplyIInv, SupplyTypeOK, StoreSound, Sound, Calls, Blobs
  <2>2. Answers(c)
    <3>1. call' # call
      OBVIOUS
    <3>2. ASSUME NEW d \in NewsCall, AskNews(d) PROVE FALSE
      <4>1. call[d].at = "idle" /\ \A e \in NewsCall \ {d} : call'[e] = call[e]
        BY <2>1, <3>2 DEF AskNews
      <4> QED BY <4>1
    <3>3. ASSUME NEW d \in NewsCall, NewsStep(d) PROVE Answers(c)
      <4>1. d = c
        BY <2>1, <3>3 DEF NewsStep, Answers, MatchFails
      <4>2. ~MatchFails(c)
        BY <2>1 DEF MatchFails, Calls
      <4> QED BY <3>3, <4>1, <4>2 DEF NewsStep
    <3>4. ~LoadArrives /\ ~LoadFails
      <4>1. \A at, blob : call' # Released(at, blob)
        BY DEF Released
      <4> QED BY <4>1 DEF LoadArrives, LoadFails
    <3>5. ASSUME NEW j \in Job, JobStep(j) PROVE FALSE
      BY <3>1, <3>5 DEF JobStep, StartJob, PageArrives, PageFails, ModelLoads, ModelFails, Embeds, Put, RunFails,
                         storeVars
    <3>6. ~SupplyTick /\ \A by, i : ~Shift(by, i)
      BY <3>1 DEF SupplyTick, Shift, storeVars
    <3> QED BY <3>2, <3>3, <3>4, <3>5, <3>6 DEF SupplyNext
  <2>3. call'[c].flagged = (builtAt # -1 /\ now - builtAt > MaxAge)
    BY <2>1, <2>2 DEF Answers, Calls
  <2>4. CASE now - builtAt > MaxAge
    BY <2>1, <2>3, <2>4
  <2>5. CASE ~(now - builtAt > MaxAge)
    <3>1. builtAt > call[c].blob.builtAt
      BY <2>1, <2>5
    <3> QED BY <2>1, <3>1
  <2> QED BY <2>4, <2>5
<1> QED BY <1>1, SupplyInvariant, PTL DEF SupplySpec, StaleIsTold

(* What a call matches against is dated and holds no fixture, no market that *)
(* cannot be matched and none twice, whatever the runs of the job and the    *)
(* listings did (buildBlob, the PUT of the Worker, WorkerMarketStore).       *)
THEOREM MatchedIsClean ==
  SupplySpec => [](\A c \in NewsCall : call[c].at = "match" => call[c].blob.builtAt # -1 /\ Clean(call[c].blob))
<1>1. SupplyIInv => \A c \in NewsCall : call[c].at = "match" => call[c].blob.builtAt # -1 /\ Clean(call[c].blob)
  BY DEF SupplyIInv, StoreSound, Sound
<1> QED BY <1>1, SupplyInvariant, PTL
=============================================================================
