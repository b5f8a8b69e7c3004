----------------------------- MODULE OrderHold -----------------------------
(***************************************************************************)
(* extension/src: how the extension keeps "Order failed? Try again" from   *)
(* becoming two orders (background/trade.ts, background/tradeLog.ts,       *)
(* background/clob.ts, offscreen/offscreen.ts).                            *)
(*                                                                         *)
(* A submit nobody answered is searched for once more, reported as         *)
(* unknown and logged; the row then holds back the next order on its       *)
(* token until the exchange has been asked.  The offscreen document runs   *)
(* the orders, interleaved at their awaits; the popup writes the same log. *)
(* A step is what one of them does between two awaits.                     *)
(*                                                                         *)
(* Time is counted in ticks of half a minute.  The exchange is external.   *)
(***************************************************************************)
EXTENDS Integers, Sequences, FiniteSets, SequencesExt

CONSTANTS
  Order,      \* order calls made in one behaviour (a bound)
  None,       \* no order
  Token,      \* outcome tokens
  TokenOf,    \* the token of each order
  Sells,      \* the orders that sell
  Skew,       \* EXCHANGE_CLOCK_SKEW_MS, in ticks
  Settle,     \* UNKNOWN_SETTLE_MS, in ticks
  MaxAge,     \* PENDING_UNKNOWN_MAX_AGE_MS, in ticks
  LogMax,     \* MAX_TRADE_LOG_ITEMS
  LastTick,   \* bound on the clock
  MaxDeaths,  \* bound on the deaths of the offscreen document
  Latency,    \* ticks a submit may take, from the post to its logged row
  Behind,     \* ticks the exchange's clock is behind this computer's
  \* What the environment may do:
  OneAtATime,   \* one popup: an order on a token waits for the one before it
  LogRaces,     \* two writers of the log may overlap
  LogMayFail,   \* writing the log may fail
  MayClear,     \* the user may clear the log
  SplitSearch   \* the lists of one search may be read at different moments

ASSUME HoldAssumption ==
  /\ None \notin Order
  /\ TokenOf \in [Order -> Token]
  /\ Sells \subseteq Order
  /\ {Skew, Settle, MaxAge, LastTick, MaxDeaths, Latency, Behind} \subseteq Nat
  /\ LogMax \in Nat \ {0}
  /\ {OneAtATime, LogRaces, LogMayFail, MayClear, SplitSearch} \subseteq BOOLEAN

VARIABLES
  clock,
  tradeLog,   \* storage: the rows, newest first
  stage,      \* stage[o]: the await order call o is at
  pending,    \* pending[o]: the row findPendingUnknown returned, or NoRow
  lists,      \* lists[o]: the lists o's search has read
  hit,        \* hit[o]: one of them showed an order
  verdict,    \* verdict[o]: what o's guard concluded about the pending row
  items,      \* items[o]: the log as o read it, to be written back, or NoItems
  outcome,    \* outcome[o]: what the call reported
  submittedAt,
  unknownAt,  \* unknownAt[o]: when it was reported unknown
  popup,      \* the cancel the popup is recording
  wire,       \* wire[o]: the post is on its way to the exchange
  reply,      \* reply[o]: what the submit will resolve to
  book,       \* book[o]: what the exchange holds for order o
  createdAt, tradedAt, \* the exchange's times for it
  earlier,    \* history: the orders reported unknown when o asked the log
  told,       \* history: the orders a later one was refused for
  deaths

callVars == <<stage, pending, lists, hit, verdict, items, outcome, submittedAt, unknownAt>>
exchangeVars == <<book, createdAt, tradedAt>>
vars == <<clock, tradeLog, callVars, popup, wire, reply, exchangeVars, earlier, told, deaths>>

Status == {"placed", "failed", "unknown", "cancelled"}
Never == -1 - Behind
Time == Never..LastTick
Lists == {"open", "trades"}
Row == [order : Order, status : Status, at : Time]
NoRow == [order |-> None, status |-> "failed", at |-> Never]
NoItems == <<NoRow>>
NoCancel == [order |-> None, items |-> NoItems]
Logs == {s \in Seq(Row) : Len(s) <= LogMax}
Kind(o) == IF o \in Sells THEN "SELL" ELSE "BUY"

\* The stages in which a submit is out, and in which a call is under way.
Submitting == {"posting", "unanswered"}
UnderWay == {"guard", "search", "settling", "signing", "answered"} \cup Submitting

HoldInit ==
  /\ clock = 0
  /\ tradeLog = <<>>
  /\ stage = [o \in Order |-> "new"]
  /\ pending = [o \in Order |-> NoRow]
  /\ lists = [o \in Order |-> {}]
  /\ hit = [o \in Order |-> FALSE]
  /\ verdict = [o \in Order |-> "none"]
  /\ items = [o \in Order |-> NoItems]
  /\ outcome = [o \in Order |-> "none"]
  /\ submittedAt = [o \in Order |-> Never]
  /\ unknownAt = [o \in Order |-> Never]
  /\ popup = NoCancel
  /\ wire = [o \in Order |-> FALSE]
  /\ reply = [o \in Order |-> "none"]
  /\ book = [o \in Order |-> "absent"]
  /\ createdAt = [o \in Order |-> Never]
  /\ tradedAt = [o \in Order |-> Never]
  /\ earlier = [o \in Order |-> {}]
  /\ told = {}
  /\ deaths = 0

-----------------------------------------------------------------------------
(* The log.  Every write is a get of the whole list and a set of a new one. *)

LogFree == popup.items = NoItems /\ \A o \in Order : items[o] = NoItems

MayRead == LogRaces \/ LogFree

Prepend(row, s) == SubSeq(<<row>> \o s, 1, IF Len(s) < LogMax THEN Len(s) + 1 ELSE LogMax)

SetStatus(s, o, st) ==
  [i \in DOMAIN s |-> IF s[i].order = o THEN [s[i] EXCEPT !.status = st] ELSE s[i]]

(* findPendingUnknown: the newest row on o's token that is still unknown.   *)
IsPending(row, o) ==
  /\ row.status = "unknown"
  /\ TokenOf[row.order] = TokenOf[o]
  /\ clock - row.at < MaxAge

(* Mutant: the lookup looks at the newest row only.                         *)
FindNewestOnly(o) ==
  IF tradeLog # <<>> /\ IsPending(Head(tradeLog), o) THEN Head(tradeLog) ELSE NoRow

findPendingUnknown(o) ==
  LET i == SelectInSeq(tradeLog, LAMBDA row : IsPending(row, o))
  IN IF i = 0 THEN NoRow ELSE tradeLog[i]

-----------------------------------------------------------------------------
(* A call answers the popup; its row is written behind the answer. *)
Answer(o, what) ==
  /\ stage' = [stage EXCEPT ![o] = "answered"]
  /\ outcome' = [outcome EXCEPT ![o] = what]
  /\ unknownAt' = [unknownAt EXCEPT ![o] = IF what = "unknown" THEN clock ELSE @]

(* The user starts an order.  The checks before the guard may refuse it:    *)
(* size, cap, configuration, region.                                        *)
Begin(o) ==
  /\ stage[o] = "new"
  /\ OneAtATime =>
       \A p \in Order \ {o} : TokenOf[p] = TokenOf[o] => stage[p] \in {"new", "done"}
  /\ \/ /\ stage' = [stage EXCEPT ![o] = "guard"]
        /\ UNCHANGED <<outcome, unknownAt>>
     \/ Answer(o, "failed")
  /\ UNCHANGED <<clock, tradeLog, pending, lists, hit, verdict, items, submittedAt,
                 popup, wire, reply, exchangeVars, earlier, told, deaths>>

(* What the user has been told is unknown, its row written behind the answer. *)
ReportedUnknown(o) ==
  {p \in Order \ {o} : /\ stage[p] = "done" /\ outcome[p] = "unknown"
                       /\ TokenOf[p] = TokenOf[o]
                       /\ clock - unknownAt[p] < MaxAge}

(* guardUnconfirmedOrder reads the log. *)
ReadLog(o) ==
  /\ stage[o] = "guard"
  /\ pending' = [pending EXCEPT ![o] = findPendingUnknown(o)]
  /\ stage' = [stage EXCEPT ![o] = IF findPendingUnknown(o) = NoRow THEN "signing" ELSE "search"]
  /\ earlier' = [earlier EXCEPT ![o] = ReportedUnknown(o)]
  /\ UNCHANGED <<clock, tradeLog, lists, hit, verdict, items, outcome, submittedAt, unknownAt,
                 popup, wire, reply, exchangeVars, told, deaths>>

-----------------------------------------------------------------------------
(* findOrderOnExchange: the guard asks for the pending row, the recheck for *)
(* the call itself.                                                         *)
Searching(o) == stage[o] \in {"search", "unanswered"}
SearchedKind(o) == IF stage[o] = "search" THEN Kind(pending[o].order) ELSE Kind(o)
SearchedSince(o) == IF stage[o] = "search" THEN pending[o].at ELSE submittedAt[o]

OpenOrderShows(o) ==
  \E p \in Order : /\ TokenOf[p] = TokenOf[o]
                   /\ book[p] = "resting"
                   /\ Kind(p) = SearchedKind(o)
                   /\ createdAt[p] >= SearchedSince(o) - Skew

TradeShows(o) ==
  \E p \in Order : /\ TokenOf[p] = TokenOf[o]
                   /\ book[p] = "filled"
                   /\ tradedAt[p] >= SearchedSince(o) - Skew

Shows(o, which) == \/ "open" \in which /\ OpenOrderShows(o)
                   \/ "trades" \in which /\ TradeShows(o)

(* What the guard makes of a search: hold the order back, or go on.         *)
(* Only a verdict touches the pending row.                                  *)
GuardConcludes(o, found) ==
  \/ /\ found = "went_through"
     /\ verdict' = [verdict EXCEPT ![o] = "placed"]
     /\ stage' = [stage EXCEPT ![o] = "settling"]
     /\ UNCHANGED <<outcome, unknownAt>>
  \/ /\ found = "not_found"
     /\ clock - pending[o].at >= Settle
     /\ verdict' = [verdict EXCEPT ![o] = "failed"]
     /\ stage' = [stage EXCEPT ![o] = "settling"]
     /\ UNCHANGED <<outcome, unknownAt>>
  \/ /\ found = "unreachable" \/ (found = "not_found" /\ clock - pending[o].at < Settle)
     /\ Answer(o, "unconfirmed")
     /\ UNCHANGED verdict

(* What recheckUnanswered makes of one. *)
RecheckConcludes(o, found) ==
  /\ Answer(o, IF found = "went_through" THEN "ok" ELSE "unknown")
  /\ UNCHANGED verdict

Concludes(o, found) ==
  /\ lists' = [lists EXCEPT ![o] = {}]
  /\ hit' = [hit EXCEPT ![o] = FALSE]
  /\ IF stage[o] = "search" THEN GuardConcludes(o, found) ELSE RecheckConcludes(o, found)

(* One or both of the lists arrive. *)
ListsRead(o, which) ==
  /\ Searching(o)
  /\ which # {} /\ which \cap lists[o] = {}
  /\ ~SplitSearch => which = Lists
  /\ LET seen == hit[o] \/ Shows(o, which)
     IN IF lists[o] \cup which = Lists
        THEN Concludes(o, IF seen THEN "went_through" ELSE "not_found")
        ELSE /\ lists' = [lists EXCEPT ![o] = @ \cup which]
             /\ hit' = [hit EXCEPT ![o] = seen]
             /\ UNCHANGED <<stage, verdict, outcome, unknownAt>>
  /\ UNCHANGED <<clock, tradeLog, pending, items, submittedAt, popup, wire, reply,
                 exchangeVars, earlier, told, deaths>>

SearchFails(o) ==
  /\ Searching(o)
  /\ Concludes(o, "unreachable")
  /\ UNCHANGED <<clock, tradeLog, pending, items, submittedAt, popup, wire, reply,
                 exchangeVars, earlier, told, deaths>>

-----------------------------------------------------------------------------
(* updateTradeStatus on the pending row, then the guard's answer.           *)
SettleRead(o) ==
  /\ stage[o] = "settling"
  /\ items[o] = NoItems
  /\ MayRead
  /\ items' = [items EXCEPT ![o] = tradeLog]
  /\ UNCHANGED <<clock, tradeLog, stage, pending, lists, hit, verdict, outcome, submittedAt,
                 unknownAt, popup, wire, reply, exchangeVars, earlier, told, deaths>>

SettleWrite(o) ==
  /\ stage[o] = "settling"
  /\ items[o] # NoItems
  /\ items' = [items EXCEPT ![o] = NoItems]
  /\ \/ tradeLog' = SetStatus(items[o], pending[o].order, verdict[o])
     \/ LogMayFail /\ UNCHANGED tradeLog
  /\ verdict' = [verdict EXCEPT ![o] = "none"]
  /\ IF verdict[o] = "placed"
     THEN /\ Answer(o, "wentThrough")
          /\ told' = told \cup {pending[o].order}
     ELSE /\ stage' = [stage EXCEPT ![o] = "signing"]
          /\ UNCHANGED <<outcome, unknownAt, told>>
  /\ UNCHANGED <<clock, pending, lists, hit, submittedAt, popup, wire, reply, exchangeVars,
                 earlier, deaths>>

-----------------------------------------------------------------------------
(* The wallet rejects the order, or signs it and it is posted. *)
SignFails(o) ==
  /\ stage[o] = "signing"
  /\ Answer(o, "failed")
  /\ UNCHANGED <<clock, tradeLog, pending, lists, hit, verdict, items, submittedAt,
                 popup, wire, reply, exchangeVars, earlier, told, deaths>>

SignAndSubmit(o) ==
  /\ stage[o] = "signing"
  /\ stage' = [stage EXCEPT ![o] = "posting"]
  /\ submittedAt' = [submittedAt EXCEPT ![o] = clock]
  /\ wire' = [wire EXCEPT ![o] = TRUE]
  /\ UNCHANGED <<clock, tradeLog, pending, lists, hit, verdict, items, outcome, unknownAt,
                 popup, reply, exchangeVars, earlier, told, deaths>>

(* Mutant: an answer that never came is reported as a failure. *)
SubmitResolvesBlunt(o) ==
  /\ stage[o] = "posting"
  /\ reply[o] # "none"
  /\ Answer(o, IF reply[o] = "accepted" THEN "ok" ELSE "failed")
  /\ UNCHANGED <<clock, tradeLog, pending, lists, hit, verdict, items, submittedAt,
                 popup, wire, reply, exchangeVars, earlier, told, deaths>>

(* submitSignedOrder resolves; only an unknown result is searched for. *)
SubmitResolves(o) ==
  /\ stage[o] = "posting"
  /\ \/ /\ reply[o] = "accepted"
        /\ Answer(o, "ok")
     \/ /\ reply[o] = "refused"
        /\ Answer(o, "failed")
     \/ /\ reply[o] = "unknown"
        /\ stage' = [stage EXCEPT ![o] = "unanswered"]
        /\ UNCHANGED <<outcome, unknownAt>>
  /\ UNCHANGED <<clock, tradeLog, pending, lists, hit, verdict, items, submittedAt,
                 popup, wire, reply, exchangeVars, earlier, told, deaths>>

(* Mutant: an unknown outcome is logged like a failure. *)
RowStatusBinary(o) == IF outcome[o] = "ok" THEN "placed" ELSE "failed"

(* void logTrade: the offscreen document reads the log and writes the row.  *)
RowStatus(o) ==
  CASE outcome[o] = "ok" -> "placed"
    [] outcome[o] = "unknown" -> "unknown"
    [] OTHER -> "failed"

LogRead(o) ==
  /\ stage[o] = "answered"
  /\ items[o] = NoItems
  /\ MayRead
  /\ items' = [items EXCEPT ![o] = tradeLog]
  /\ UNCHANGED <<clock, tradeLog, stage, pending, lists, hit, verdict, outcome, submittedAt,
                 unknownAt, popup, wire, reply, exchangeVars, earlier, told, deaths>>

LogWrite(o) ==
  /\ stage[o] = "answered"
  /\ items[o] # NoItems
  /\ \/ tradeLog' = Prepend([order |-> o, status |-> RowStatus(o), at |-> clock], items[o])
     \/ LogMayFail /\ UNCHANGED tradeLog
  /\ items' = [items EXCEPT ![o] = NoItems]
  /\ stage' = [stage EXCEPT ![o] = "done"]
  /\ UNCHANGED <<clock, pending, lists, hit, verdict, outcome, submittedAt, unknownAt,
                 popup, wire, reply, exchangeVars, earlier, told, deaths>>

-----------------------------------------------------------------------------
(* cancelOrder: only an answer that lists the order as canceled counts; a    *)
(* refusal, an answer of another shape or a lost one is an error.           *)
cancelOrder(answer) == answer = "canceled"

(* The popup: a resting order cancelled from its row; the row is marked when *)
(* the exchange confirmed it, and keeps its "placed" when the answer is lost. *)
CancelOrder(o) ==
  /\ popup = NoCancel
  /\ \E i \in DOMAIN tradeLog : tradeLog[i].order = o /\ tradeLog[i].status = "placed"
  /\ book[o] = "resting"
  /\ book' = [book EXCEPT ![o] = "canceled"]
  /\ \E answer \in {"canceled", "lost"} :
       popup' = IF cancelOrder(answer) THEN [order |-> o, items |-> NoItems] ELSE popup
  /\ UNCHANGED <<clock, tradeLog, callVars, wire, reply, createdAt, tradedAt,
                 earlier, told, deaths>>

MarkRead ==
  /\ popup # NoCancel
  /\ popup.items = NoItems
  /\ MayRead
  /\ popup' = [popup EXCEPT !.items = tradeLog]
  /\ UNCHANGED <<clock, tradeLog, callVars, wire, reply, exchangeVars, earlier, told, deaths>>

MarkWrite ==
  /\ popup.items # NoItems
  /\ popup' = NoCancel
  /\ \/ tradeLog' = SetStatus(popup.items, popup.order, "cancelled")
     \/ LogMayFail /\ UNCHANGED tradeLog
  /\ UNCHANGED <<clock, callVars, wire, reply, exchangeVars, earlier, told, deaths>>

ClearTradeLog ==
  /\ MayClear
  /\ MayRead
  /\ tradeLog # <<>>
  /\ tradeLog' = <<>>
  /\ UNCHANGED <<clock, callVars, popup, wire, reply, exchangeVars, earlier, told, deaths>>

-----------------------------------------------------------------------------
(* The exchange: it takes a posted order, resting or filled, or refuses it; *)
(* its answer may be lost, and so may the post.  A resting order may fill.  *)
ExchangeTime == clock - Behind

Accepts(o) ==
  /\ wire[o]
  /\ wire' = [wire EXCEPT ![o] = FALSE]
  /\ \E b \in {"resting", "filled"} :
       /\ book' = [book EXCEPT ![o] = b]
       /\ tradedAt' = [tradedAt EXCEPT ![o] = IF b = "filled" THEN ExchangeTime ELSE @]
  /\ createdAt' = [createdAt EXCEPT ![o] = ExchangeTime]
  /\ reply' = [reply EXCEPT ![o] = IF @ = "none" THEN "accepted" ELSE @]
  /\ UNCHANGED <<clock, tradeLog, callVars, popup, earlier, told, deaths>>

Refuses(o) ==
  /\ wire[o]
  /\ wire' = [wire EXCEPT ![o] = FALSE]
  /\ reply' = [reply EXCEPT ![o] = IF @ = "none" THEN "refused" ELSE @]
  /\ UNCHANGED <<clock, tradeLog, callVars, popup, exchangeVars, earlier, told, deaths>>

(* The connection breaks: the call hears nothing more, the post may still   *)
(* be on its way.                                                           *)
AnswerLost(o) ==
  /\ stage[o] = "posting"
  /\ reply[o] # "unknown"
  /\ reply' = [reply EXCEPT ![o] = "unknown"]
  /\ UNCHANGED <<clock, tradeLog, callVars, popup, wire, exchangeVars, earlier, told, deaths>>

PostLost(o) ==
  /\ wire[o]
  /\ reply[o] = "unknown"
  /\ wire' = [wire EXCEPT ![o] = FALSE]
  /\ UNCHANGED <<clock, tradeLog, callVars, popup, reply, exchangeVars, earlier, told, deaths>>

Fills(o) ==
  /\ book[o] = "resting"
  /\ book' = [book EXCEPT ![o] = "filled"]
  /\ tradedAt' = [tradedAt EXCEPT ![o] = ExchangeTime]
  /\ UNCHANGED <<clock, tradeLog, callVars, popup, wire, reply, createdAt, earlier, told, deaths>>

(* A post is answered, or never will be, within Latency ticks, and so is    *)
(* the search behind it.  Everything else between a call's awaits, but for  *)
(* the wallet, takes less than a tick.                                      *)
Tick ==
  /\ clock < LastTick
  /\ \A o \in Order :
       /\ wire[o] \/ stage[o] \in Submitting => clock < submittedAt[o] + Latency
       /\ stage[o] \notin {"settling", "answered"} /\ lists[o] = {}
  /\ clock' = clock + 1
  /\ UNCHANGED <<tradeLog, callVars, popup, wire, reply, exchangeVars, earlier, told, deaths>>

(* Chrome tears the offscreen document down, with every call in it. *)
DocumentDies ==
  /\ deaths < MaxDeaths
  /\ \E o \in Order : stage[o] \in UnderWay
  /\ deaths' = deaths + 1
  /\ stage' = [o \in Order |-> IF stage[o] \in UnderWay THEN "done" ELSE stage[o]]
  /\ items' = [o \in Order |-> NoItems]
  /\ lists' = [o \in Order |-> {}]
  /\ hit' = [o \in Order |-> FALSE]
  /\ verdict' = [o \in Order |-> "none"]
  /\ UNCHANGED <<clock, tradeLog, pending, outcome, submittedAt, unknownAt, popup, wire, reply,
                 exchangeVars, earlier, told>>

-----------------------------------------------------------------------------
CallStep(o) ==
  \/ Begin(o) \/ ReadLog(o)
  \/ \E which \in SUBSET Lists : ListsRead(o, which)
  \/ SearchFails(o)
  \/ SettleRead(o) \/ SettleWrite(o)
  \/ SignFails(o) \/ SignAndSubmit(o) \/ SubmitResolves(o)
  \/ LogRead(o) \/ LogWrite(o)

PopupStep == \/ \E o \in Order : CancelOrder(o)
             \/ MarkRead \/ MarkWrite \/ ClearTradeLog

ExchangeStep(o) == Accepts(o) \/ Refuses(o) \/ AnswerLost(o) \/ PostLost(o) \/ Fills(o)

HoldNext ==
  \/ \E o \in Order : CallStep(o) \/ ExchangeStep(o)
  \/ PopupStep
  \/ Tick
  \/ DocumentDies

HoldSpec == HoldInit /\ [][HoldNext]_vars

-----------------------------------------------------------------------------
Live(o) == book[o] \in {"resting", "filled"}

(* An order that has passed the guard is not a second one: whatever was     *)
(* reported unknown on its token before it asked (within the day the log is *)
(* believed) is either not at the exchange and not on its way there, or the *)
(* user has been told that it went through (guardUnconfirmedOrder).         *)
NoDoubleOrder ==
  \A o \in Order : stage[o] \in {"signing", "posting", "unanswered"} =>
    \A p \in earlier[o] : p \in told \/ ~(Live(p) \/ wire[p])

(* A failure the user sees is one: nothing the call sent is at the exchange *)
(* or on its way there (submitSignedOrder, failedSubmit).                   *)
FailedMeansAbsent ==
  \A o \in Order : outcome[o] \in {"failed", "unconfirmed", "wentThrough"}
    => book[o] = "absent" /\ ~wire[o]

(* What was reported unknown stays on record: once the call is over its row *)
(* says unknown until a guard has looked at it (logTrade).                  *)
UnknownOnRecord ==
  \A o \in Order : stage[o] = "done" /\ outcome[o] = "unknown" =>
    \E i \in DOMAIN tradeLog :
      /\ tradeLog[i].order = o
      /\ tradeLog[i].status = "unknown" \/ \E p \in Order : pending[p].order = o

(* A call that reports its order placed has placed it (recheckUnanswered).  *)
PlacedMeansPlaced ==
  \A o \in Order : outcome[o] = "ok" => book[o] # "absent"

=============================================================================
