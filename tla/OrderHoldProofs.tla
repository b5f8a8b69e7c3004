--------------------------- MODULE OrderHoldProofs ---------------------------
(***************************************************************************)
(* For any number of orders and tokens and any delay of the exchange:      *)
(* a failure the user sees is one, however the log is raced for, searches  *)
(* split, or the offscreen document dies (HoldIInv); the times of an order *)
(* at the exchange and in the log fit each other (TimeIInv).  As long as   *)
(* the log keeps its rows, an unknown order stays on record (LogIInv), and *)
(* under the conditions of HoldWorks none of them is followed by a second  *)
(* one (GuardIInv).                                                        *)
(***************************************************************************)
EXTENDS OrderHold, SumTheorems

\* How far a call has got says what it has reported and what the exchange may
\* hold; a refusal came from an exchange that took nothing.
Unposted == {"new", "guard", "search", "settling", "signing"}
CallSound(o) ==
  /\ stage[o] \in Unposted => ~wire[o] /\ book[o] = "absent" /\ reply[o] = "none"
  /\ outcome[o] # "none" => stage[o] \in {"answered", "done"}
  /\ wire[o] => book[o] = "absent"
  /\ reply[o] = "refused" => ~wire[o] /\ book[o] = "absent"
  /\ outcome[o] \in {"failed", "unconfirmed", "wentThrough"} => ~wire[o] /\ book[o] = "absent"

HoldIInv ==
  /\ DOMAIN stage = Order /\ DOMAIN outcome = Order /\ DOMAIN wire = Order
  /\ DOMAIN reply = Order /\ DOMAIN book = Order
  /\ \A o \in Order : CallSound(o)

\* A step of one call or of the exchange with one order.
Local(o) ==
  /\ DOMAIN stage' = Order /\ DOMAIN outcome' = Order /\ DOMAIN wire' = Order
  /\ DOMAIN reply' = Order /\ DOMAIN book' = Order
  /\ \A p \in Order \ {o} :
       /\ stage'[p] = stage[p] /\ outcome'[p] = outcome[p] /\ wire'[p] = wire[p]
       /\ reply'[p] = reply[p] /\ book'[p] = book[p]

LEMMA OneOrder ==
  ASSUME HoldIInv, NEW o \in Order, Local(o), CallSound(o)'
  PROVE  HoldIInv'
BY DEF HoldIInv, Local, CallSound

LEMMA AnswerKeeps ==
  ASSUME HoldIInv, NEW o \in Order, NEW what, Answer(o, what), UNCHANGED <<wire, reply, book>>,
         what \in {"failed", "unconfirmed", "wentThrough"} => ~wire[o] /\ book[o] = "absent"
  PROVE  HoldIInv'
<1>1. Local(o) /\ stage'[o] = "answered" /\ outcome'[o] = what
  BY DEF HoldIInv, Answer, Local
<1>2. CallSound(o)'
  BY <1>1 DEF HoldIInv, CallSound, Unposted
<1> QED BY <1>1, <1>2, OneOrder

\* A call moves on without an answer.
LEMMA MoveKeeps ==
  ASSUME HoldIInv, NEW o \in Order, NEW next, stage' = [stage EXCEPT ![o] = next],
         UNCHANGED <<outcome, wire, reply, book>>,
         next \in Unposted => stage[o] \in Unposted,
         outcome[o] # "none" => next \in {"answered", "done"}
  PROVE  HoldIInv'
<1>1. Local(o) /\ stage'[o] = next
  BY DEF HoldIInv, Local
<1>2. CallSound(o)'
  BY <1>1 DEF HoldIInv, CallSound
<1> QED BY <1>1, <1>2, OneOrder

\* What the log, the popup and the clock do concerns no call.
LEMMA AsideKeeps ==
  ASSUME HoldIInv, UNCHANGED <<stage, outcome, wire, reply, book>>
  PROVE  HoldIInv'
BY DEF HoldIInv, CallSound

LEMMA GuardKeeps ==
  ASSUME HoldIInv, NEW o \in Order,
         Begin(o) \/ ReadLog(o) \/ SettleRead(o) \/ SettleWrite(o) \/ SignFails(o)
  PROVE  HoldIInv'
<1>1. stage[o] \in Unposted /\ UNCHANGED <<wire, reply, book>>
  BY DEF Begin, ReadLog, SettleRead, SettleWrite, SignFails, exchangeVars, Unposted
<1>2. outcome[o] = "none" /\ ~wire[o] /\ book[o] = "absent"
  BY <1>1 DEF HoldIInv, CallSound, Unposted
<1>3. CASE UNCHANGED <<stage, outcome>>
  BY <1>1, <1>3, AsideKeeps
<1>4. CASE \E what : Answer(o, what)
  BY <1>1, <1>2, <1>4, AnswerKeeps
<1>5. CASE UNCHANGED outcome /\ \E next \in Unposted : stage' = [stage EXCEPT ![o] = next]
  BY <1>1, <1>2, <1>5, MoveKeeps
<1>6. CASE Begin(o)
  BY <1>4, <1>5, <1>6 DEF Begin, Unposted
<1>7. CASE ReadLog(o)
  BY <1>5, <1>7 DEF ReadLog, Unposted
<1>8. CASE SettleRead(o)
  BY <1>3, <1>8 DEF SettleRead
<1>9. CASE SettleWrite(o)
  BY <1>4, <1>5, <1>9 DEF SettleWrite, Unposted
<1>10. CASE SignFails(o)
  BY <1>4, <1>10 DEF SignFails
<1> QED BY <1>6, <1>7, <1>8, <1>9, <1>10

\* A search: the guard's is before anything was posted, the recheck's reports
\* that the order went through or that nobody knows.
LEMMA SearchKeeps ==
  ASSUME HoldIInv, NEW o \in Order,
         SearchFails(o) \/ \E which \in SUBSET Lists : ListsRead(o, which)
  PROVE  HoldIInv'
<1>1. Searching(o) /\ UNCHANGED <<wire, reply, book>>
  BY DEF SearchFails, ListsRead, exchangeVars
<1>2. \/ UNCHANGED <<stage, outcome>>
      \/ \E found \in {"went_through", "not_found", "unreachable"} : Concludes(o, found)
  BY DEF SearchFails, ListsRead
<1>3. CASE UNCHANGED <<stage, outcome>>
  BY <1>1, <1>3, AsideKeeps
<1>4. ASSUME NEW found, Concludes(o, found) PROVE HoldIInv'
  <2>1. CASE stage[o] = "search"
    <3>1. stage[o] \in Unposted /\ outcome[o] = "none" /\ ~wire[o] /\ book[o] = "absent"
      BY <2>1 DEF HoldIInv, CallSound, Unposted
    <3>2. \/ Answer(o, "unconfirmed")
          \/ UNCHANGED outcome /\ stage' = [stage EXCEPT ![o] = "settling"]
      BY <1>4, <2>1 DEF Concludes, GuardConcludes
    <3> QED BY <1>1, <3>1, <3>2, AnswerKeeps, MoveKeeps
  <2>2. CASE stage[o] # "search"
    <3>1. PICK what \in {"ok", "unknown"} : Answer(o, what)
      BY <1>4, <2>2 DEF Concludes, RecheckConcludes
    <3> QED BY <1>1, <3>1, AnswerKeeps
  <2> QED BY <2>1, <2>2
<1> QED BY <1>2, <1>3, <1>4

LEMMA SubmitKeeps ==
  ASSUME HoldIInv, NEW o \in Order, SignAndSubmit(o) \/ SubmitResolves(o)
  PROVE  HoldIInv'
<1>1. CASE SignAndSubmit(o)
  <2>1. /\ stage[o] = "signing" /\ UNCHANGED <<outcome, reply, book>>
        /\ stage' = [stage EXCEPT ![o] = "posting"] /\ wire' = [wire EXCEPT ![o] = TRUE]
    BY <1>1 DEF SignAndSubmit, exchangeVars
  <2>2. outcome[o] = "none" /\ reply[o] = "none" /\ book[o] = "absent"
    BY <2>1 DEF HoldIInv, CallSound, Unposted
  <2>3. Local(o) /\ stage'[o] = "posting"
    BY <2>1 DEF HoldIInv, Local
  <2>4. CallSound(o)'
    BY <2>1, <2>2, <2>3 DEF CallSound, Unposted
  <2> QED BY <2>3, <2>4, OneOrder
<1>2. CASE SubmitResolves(o)
  <2>1. stage[o] = "posting" /\ UNCHANGED <<wire, reply, book>>
    BY <1>2 DEF SubmitResolves, exchangeVars
  <2>2. outcome[o] = "none"
    BY <2>1 DEF HoldIInv, CallSound
  <2>3. CASE Answer(o, "ok")
    BY <2>1, <2>3, AnswerKeeps
  <2>4. CASE reply[o] = "refused" /\ Answer(o, "failed")
    <3>1. ~wire[o] /\ book[o] = "absent"
      BY <2>4 DEF HoldIInv, CallSound
    <3> QED BY <2>1, <2>4, <3>1, AnswerKeeps
  <2>5. CASE UNCHANGED outcome /\ stage' = [stage EXCEPT ![o] = "unanswered"]
    BY <2>1, <2>2, <2>5, MoveKeeps DEF Unposted
  <2> QED BY <1>2, <2>3, <2>4, <2>5 DEF SubmitResolves
<1> QED BY <1>1, <1>2

LEMMA LogKeeps ==
  ASSUME HoldIInv, NEW o \in Order, LogRead(o) \/ LogWrite(o)
  PROVE  HoldIInv'
<1>1. UNCHANGED <<outcome, wire, reply, book>>
  BY DEF LogRead, LogWrite, exchangeVars
<1>2. CASE LogRead(o)
  BY <1>1, <1>2, AsideKeeps DEF LogRead
<1>3. CASE LogWrite(o)
  BY <1>1, <1>3, MoveKeeps DEF LogWrite, Unposted
<1> QED BY <1>2, <1>3

\* The exchange answers and fills what is on the wire or on its book.
LEMMA ExchangeKeeps ==
  ASSUME HoldIInv, NEW o \in Order, ExchangeStep(o) \/ CancelOrder(o)
  PROVE  HoldIInv'
<1>1. UNCHANGED <<stage, outcome>>
  BY DEF ExchangeStep, Accepts, Refuses, AnswerLost, PostLost, Fills, CancelOrder, callVars
<1>2. CASE Accepts(o)
  <2>1. wire[o] /\ Local(o) /\ ~wire'[o]
    BY <1>1, <1>2 DEF Accepts, HoldIInv, Local
  <2>2. reply'[o] # "refused"
    BY <1>2, <2>1 DEF Accepts, HoldIInv, CallSound
  <2>3. CallSound(o)'
    BY <1>1, <2>1, <2>2 DEF HoldIInv, CallSound
  <2> QED BY <2>1, <2>3, OneOrder
<1>3. CASE Refuses(o) \/ PostLost(o)
  <2>1. wire[o] /\ Local(o) /\ ~wire'[o] /\ UNCHANGED book
    BY <1>1, <1>3 DEF Refuses, PostLost, HoldIInv, Local, exchangeVars
  <2>2. reply'[o] = "refused" => book[o] = "absent"
    BY <1>3, <2>1 DEF Refuses, PostLost, HoldIInv, CallSound
  <2>3. CallSound(o)'
    BY <1>1, <2>1, <2>2 DEF HoldIInv, CallSound
  <2> QED BY <2>1, <2>3, OneOrder
<1>4. CASE AnswerLost(o)
  <2>1. Local(o) /\ reply'[o] = "unknown" /\ UNCHANGED <<wire, book>> /\ stage[o] = "posting"
    BY <1>1, <1>4 DEF AnswerLost, HoldIInv, Local, exchangeVars
  <2>2. CallSound(o)'
    BY <1>1, <2>1 DEF HoldIInv, CallSound, Unposted
  <2> QED BY <2>1, <2>2, OneOrder
<1>5. CASE Fills(o) \/ CancelOrder(o)
  <2>1. Local(o) /\ book[o] # "absent" /\ UNCHANGED <<wire, reply>>
    BY <1>1, <1>5 DEF Fills, CancelOrder, HoldIInv, Local
  <2>2. CallSound(o)'
    BY <1>1, <2>1 DEF HoldIInv, CallSound
  <2> QED BY <2>1, <2>2, OneOrder
<1> QED BY <1>2, <1>3, <1>4, <1>5 DEF ExchangeStep

\* The calls that die report nothing more; what they posted goes on.
LEMMA DeathKeeps ==
  ASSUME HoldIInv, DocumentDies
  PROVE  HoldIInv'
<1>1. /\ UNCHANGED <<outcome, wire, reply, book>>
      /\ DOMAIN stage' = Order
      /\ \A o \in Order : stage'[o] = IF stage[o] \in UnderWay THEN "done" ELSE stage[o]
  BY DEF DocumentDies, exchangeVars
<1> QED BY <1>1 DEF HoldIInv, CallSound, Unposted

-----------------------------------------------------------------------------
(* The theorems.                                                           *)

\* The inductive invariant of the calls, their posts and the exchange.
THEOREM HoldInvariant == HoldSpec => []HoldIInv
<1>1. HoldInit => HoldIInv
  BY DEF HoldInit, HoldIInv, CallSound
<1>2. HoldIInv /\ [HoldNext]_vars => HoldIInv'
  <2> SUFFICES ASSUME HoldIInv, [HoldNext]_vars PROVE HoldIInv'
    OBVIOUS
  <2>1. ASSUME NEW o \in Order, CallStep(o) PROVE HoldIInv'
    BY <2>1, GuardKeeps, SearchKeeps, SubmitKeeps, LogKeeps DEF CallStep
  <2>2. ASSUME NEW o \in Order, ExchangeStep(o) \/ CancelOrder(o) PROVE HoldIInv'
    BY <2>2, ExchangeKeeps
  <2>3. CASE MarkRead \/ MarkWrite \/ ClearTradeLog \/ Tick \/ UNCHANGED vars
    BY <2>3, AsideKeeps
       DEF MarkRead, MarkWrite, ClearTradeLog, Tick, vars, callVars, exchangeVars
  <2>4. CASE DocumentDies
    BY <2>4, DeathKeeps
  <2> QED BY <2>1, <2>2, <2>3, <2>4 DEF HoldNext, PopupStep
<1> QED BY <1>1, <1>2, PTL DEF HoldSpec

\* A failure the user sees is one: a call that reported that its order failed or
\* was held back has nothing at the exchange or on its way there.
THEOREM FailuresAreReal == HoldSpec => []FailedMeansAbsent
<1>1. HoldIInv => FailedMeansAbsent
  BY DEF HoldIInv, CallSound, FailedMeansAbsent
<1> QED BY HoldInvariant, <1>1, PTL
-----------------------------------------------------------------------------
(* What the protection rests on.                                           *)

\* The log keeps every row: it has room for them, is written by one at a time,
\* without failing, and neither a user nor a dying document drops any.
LogKept ==
  /\ IsFiniteSet(Order) /\ Cardinality(Order) <= LogMax
  /\ ~LogRaces /\ ~LogMayFail /\ ~MayClear /\ MaxDeaths = 0

\* Besides, one popup sends one order at a time on a token, the two lists of a
\* search show one moment, a submit and the clocks' difference fit in the window
\* of the search, and a submit is over before its row counts as settled.
HoldWorks ==
  /\ LogKept /\ OneAtATime /\ ~SplitSearch
  /\ Latency + Behind <= Skew
  /\ Latency < Settle

-----------------------------------------------------------------------------
(* The log.                                                                *)

LogTypes ==
  /\ clock \in 0..LastTick
  /\ tradeLog \in Seq(Row)
  /\ stage \in [Order -> UnderWay \cup {"new", "done"}]
  /\ DOMAIN outcome = Order
  /\ pending \in [Order -> Row \cup {NoRow}]
  /\ verdict \in [Order -> {"none", "placed", "failed"}]
  /\ DOMAIN items = Order
  /\ popup \in [order : Order \cup {None}, items : Seq(Row) \cup {NoItems}]
  /\ deaths = 0

\* Who has read the log to write it back is alone and still has what it says.
Snapshots ==
  /\ \A o \in Order : items[o] # NoItems =>
       /\ items[o] = tradeLog /\ popup.items = NoItems
       /\ \A p \in Order \ {o} : items[p] = NoItems
  /\ popup.items # NoItems => popup.items = tradeLog /\ popup.order \in Order

\* One row for each call that is over.
RowsMatchCalls ==
  /\ \A i, j \in DOMAIN tradeLog : tradeLog[i].order = tradeLog[j].order => i = j
  /\ \A o \in Order : stage[o] = "done" <=> \E i \in DOMAIN tradeLog : tradeLog[i].order = o

Asked(p) == \E q \in Order : pending[q].order = p

\* An unknown order loses that status only after a guard has asked for it.
StatusKept ==
  /\ \A i \in DOMAIN tradeLog :
       outcome[tradeLog[i].order] = "unknown" =>
         tradeLog[i].status = "unknown" \/ Asked(tradeLog[i].order)
  /\ popup.order \in Order =>
       /\ stage[popup.order] = "done"
       /\ outcome[popup.order] = "unknown" => Asked(popup.order)

AsksOnce(o) ==
  /\ stage[o] \in {"new", "guard"} => pending[o] = NoRow
  /\ stage[o] \in {"search", "settling"} => pending[o] # NoRow
  /\ stage[o] = "settling" => verdict[o] \in {"placed", "failed"}

LogIInv ==
  /\ LogTypes /\ Snapshots /\ RowsMatchCalls /\ StatusKept
  /\ \A o \in Order : AsksOnce(o)

\* A log that was read is not the mark for "nothing read".
LEMMA LogIsNoMark ==
  ASSUME NEW s \in Seq(Row)
  PROVE  s # NoItems
<1> DEFINE mark == <<NoRow>>
<1>1. Len(mark) = 1 /\ mark[1] = NoRow
  OBVIOUS
<1> HIDE DEF mark
<1>2. NoRow.order \notin Order
  BY HoldAssumption DEF NoRow
<1>3. \A i \in 1..Len(s) : s[i].order \in Order
  <2>1. \A i \in 1..Len(s) : s[i] \in Row
    OBVIOUS
  <2> QED BY <2>1 DEF Row
<1>4. s = mark => s[1].order \in Order
  BY <1>1, <1>3
<1> QED BY <1>1, <1>2, <1>4 DEF NoItems, mark

\* A status is all that SetStatus changes, in the rows of its order.
LEMMA SetStatusRows ==
  ASSUME NEW s \in Seq(Row), NEW o, NEW st \in Status
  PROVE  /\ SetStatus(s, o, st) \in Seq(Row) /\ DOMAIN SetStatus(s, o, st) = DOMAIN s
         /\ \A i \in DOMAIN s :
              /\ SetStatus(s, o, st)[i].order = s[i].order
              /\ SetStatus(s, o, st)[i].at = s[i].at
              /\ SetStatus(s, o, st)[i].status = IF s[i].order = o THEN st ELSE s[i].status
<1>1. DOMAIN s = 1..Len(s) /\ Len(s) \in Nat /\ \A i \in DOMAIN s : s[i] \in Row
  OBVIOUS
<1>2. \A i \in DOMAIN s : /\ SetStatus(s, o, st)[i] \in Row
                         /\ SetStatus(s, o, st)[i].order = s[i].order
                         /\ SetStatus(s, o, st)[i].at = s[i].at
                         /\ SetStatus(s, o, st)[i].status = IF s[i].order = o THEN st ELSE s[i].status
  BY <1>1 DEF SetStatus, Row
<1>3. DOMAIN SetStatus(s, o, st) = DOMAIN s /\ SetStatus(s, o, st) \in Seq(Row)
  BY <1>1, <1>2 DEF SetStatus
<1> QED BY <1>2, <1>3

\* While there is room, the new row is put in front and no other is lost.
LEMMA PrependRows ==
  ASSUME NEW s \in Seq(Row), NEW row \in Row, Len(s) < LogMax
  PROVE  /\ Prepend(row, s) \in Seq(Row) /\ DOMAIN Prepend(row, s) = 1..(Len(s) + 1)
         /\ Prepend(row, s)[1] = row
         /\ \A i \in 1..Len(s) : Prepend(row, s)[i + 1] = s[i]
<1>1. Prepend(row, s) = SubSeq(<<row>> \o s, 1, Len(s) + 1)
  BY DEF Prepend
<1>2. <<row>> \in Seq(Row) /\ Len(<<row>>) = 1 /\ <<row>>[1] = row
  OBVIOUS
<1> DEFINE new == <<row>> \o s
<1>3. new \in Seq(Row) /\ Len(new) = Len(s) + 1 /\ new[1] = row
      /\ \A i \in 1..Len(s) : new[i + 1] = s[i]
  BY <1>2
<1> HIDE DEF new
<1>4. SubSeq(new, 1, Len(s) + 1) = new
  BY <1>3
<1> QED BY <1>1, <1>3, <1>4 DEF new

\* A call that has been asked for stays so.
LEMMA AskedStays ==
  ASSUME NEW o \in Order, pending \in [Order -> Row \cup {NoRow}], DOMAIN pending' = Order,
         \A q \in Order \ {o} : pending'[q] = pending[q],
         pending'[o] = pending[o] \/ pending[o] = NoRow,
         NEW p \in Order, Asked(p)
  PROVE  Asked(p)'
<1>1. PICK q \in Order : pending[q].order = p
  BY DEF Asked
<1>2. NoRow.order # p
  BY HoldAssumption DEF NoRow
<1>3. pending'[q].order = p
  BY <1>1, <1>2
<1> QED BY <1>3 DEF Asked

\* What the exchange and the clock do concerns no row.
LEMMA LogAside ==
  ASSUME LogIInv, clock' \in 0..LastTick,
         UNCHANGED <<tradeLog, stage, outcome, pending, verdict, items, popup, deaths>>
  PROVE  LogIInv'
BY DEF LogIInv, LogTypes, Snapshots, RowsMatchCalls, StatusKept, Asked, AsksOnce

\* A call begins or moves on, and leaves the log alone.
LEMMA LogMove ==
  ASSUME LogIInv, NEW o \in Order, NEW next \in UnderWay,
         stage[o] \in UnderWay \cup {"new"}, stage' = [stage EXCEPT ![o] = next],
         DOMAIN outcome' = Order, \A p \in Order \ {o} : outcome'[p] = outcome[p],
         pending' \in [Order -> Row \cup {NoRow}],
         \A p \in Order \ {o} : pending'[p] = pending[p],
         pending'[o] = pending[o] \/ pending[o] = NoRow,
         verdict' \in [Order -> {"none", "placed", "failed"}],
         \A p \in Order \ {o} : verdict'[p] = verdict[p],
         AsksOnce(o)', UNCHANGED <<clock, tradeLog, items, popup, deaths>>
  PROVE  LogIInv'
<1>1. next # "done" /\ stage[o] # "done" /\ stage'[o] = next
      /\ \A p \in Order \ {o} : stage'[p] = stage[p]
  BY DEF LogIInv, LogTypes, UnderWay, Submitting
<1>2. LogTypes'
  BY DEF LogIInv, LogTypes
<1>3. Snapshots'
  BY DEF LogIInv, Snapshots
<1>4. \A p \in Order : stage'[p] = "done" <=> stage[p] = "done"
  BY <1>1
<1>5. RowsMatchCalls'
  BY <1>4 DEF LogIInv, RowsMatchCalls
<1>6. \A p \in Order : Asked(p) => Asked(p)'
  BY AskedStays DEF LogIInv, LogTypes
<1>7. \A p \in Order : stage[p] = "done" => outcome'[p] = outcome[p]
  BY <1>1
<1>8. \A i \in DOMAIN tradeLog : tradeLog[i].order \in Order /\ stage[tradeLog[i].order] = "done"
  <2>1. \A i \in DOMAIN tradeLog : tradeLog[i] \in Row
    BY DEF LogIInv, LogTypes
  <2> QED BY <2>1 DEF Row, LogIInv, RowsMatchCalls
<1>9. StatusKept'
  BY <1>4, <1>6, <1>7, <1>8 DEF LogIInv, StatusKept
<1>10. \A p \in Order : AsksOnce(p)'
  BY <1>1 DEF LogIInv, AsksOnce
<1> QED BY <1>2, <1>3, <1>5, <1>9, <1>10 DEF LogIInv

\* A row found is one of the log's, and one the guard is after.
LEMMA FoundRow ==
  ASSUME tradeLog \in Seq(Row), NEW o \in Order
  PROVE  \/ /\ findPendingUnknown(o) = NoRow
            /\ \A i \in DOMAIN tradeLog : ~IsPending(tradeLog[i], o)
         \/ /\ findPendingUnknown(o) # NoRow
            /\ \E i \in DOMAIN tradeLog :
                 findPendingUnknown(o) = tradeLog[i] /\ IsPending(tradeLog[i], o)
<1> DEFINE I == {i \in 1..Len(tradeLog) : IsPending(tradeLog[i], o)}
<1> DEFINE at == IF I # {} THEN Min(I) ELSE 0
<1>1. findPendingUnknown(o) = IF at = 0 THEN NoRow ELSE tradeLog[at]
  BY DEF findPendingUnknown, SelectInSeq
<1>2. CASE I = {}
  BY <1>1, <1>2
<1>3. CASE I # {}
  <2>1. I \in SUBSET (1..Len(tradeLog)) /\ I # {} /\ Len(tradeLog) \in Nat
    BY <1>3
  <2>2. \E m \in I : \A i \in I : m <= i
    <3> HIDE DEF I
    <3> QED BY <2>1, LeastIndex
  <2>4. Min(I) \in I
    <3> HIDE DEF I
    <3> QED BY <2>2 DEF Min
  <2>5. tradeLog[at] \in Row /\ at # 0 /\ at \in DOMAIN tradeLog /\ IsPending(tradeLog[at], o)
    BY <2>4, <1>3
  <2>6. tradeLog[at] # NoRow
    BY <2>5, HoldAssumption DEF Row, NoRow
  <2> QED BY <1>1, <2>5, <2>6
<1> QED BY <1>2, <1>3

\* A call that answers, or goes on to what needs no look at the log.
LEMMA LogPlainMove ==
  ASSUME LogIInv, NEW o \in Order, NEW next \in UnderWay \ {"guard", "search", "settling"},
         stage[o] \in UnderWay \cup {"new"}, stage' = [stage EXCEPT ![o] = next],
         DOMAIN outcome' = Order, \A p \in Order \ {o} : outcome'[p] = outcome[p],
         UNCHANGED <<clock, tradeLog, pending, verdict, items, popup, deaths>>
  PROVE  LogIInv'
<1>1. AsksOnce(o)'
  BY DEF LogIInv, LogTypes, AsksOnce, UnderWay, Submitting
<1>2. pending' \in [Order -> Row \cup {NoRow}]' /\ verdict' \in [Order -> {"none", "placed", "failed"}]
  BY DEF LogIInv, LogTypes
<1> QED BY <1>1, <1>2, LogMove DEF LogIInv, LogTypes

LEMMA LogAnswer ==
  ASSUME LogIInv, NEW o \in Order, NEW what, Answer(o, what), stage[o] \in UnderWay \cup {"new"},
         UNCHANGED <<clock, tradeLog, pending, verdict, items, popup, deaths>>
  PROVE  LogIInv'
<1>1. /\ stage' = [stage EXCEPT ![o] = "answered"] /\ DOMAIN outcome' = Order
      /\ \A p \in Order \ {o} : outcome'[p] = outcome[p]
  BY DEF Answer, LogIInv, LogTypes
<1> QED BY <1>1, LogPlainMove DEF UnderWay, Submitting

LEMMA LogSendKeeps ==
  ASSUME LogIInv, NEW o \in Order, SignFails(o) \/ SignAndSubmit(o) \/ SubmitResolves(o)
  PROVE  LogIInv'
<1>1. stage[o] \in UnderWay /\ UNCHANGED <<clock, tradeLog, pending, verdict, items, popup, deaths>>
  BY DEF SignFails, SignAndSubmit, SubmitResolves, UnderWay, Submitting
<1>2. CASE \E what : Answer(o, what)
  BY <1>1, <1>2, LogAnswer
<1>3. ASSUME NEW next \in Submitting, stage' = [stage EXCEPT ![o] = next], UNCHANGED outcome
      PROVE  LogIInv'
  BY <1>1, <1>3, LogPlainMove DEF LogIInv, LogTypes, UnderWay, Submitting
<1> QED BY <1>2, <1>3 DEF SignFails, SignAndSubmit, SubmitResolves, Submitting

LEMMA LogBeginKeeps ==
  ASSUME LogIInv, NEW o \in Order, Begin(o)
  PROVE  LogIInv'
<1>1. stage[o] = "new" /\ UNCHANGED <<clock, tradeLog, pending, verdict, items, popup, deaths>>
  BY DEF Begin
<1>2. CASE \E what : Answer(o, what)
  BY <1>1, <1>2, LogAnswer
<1>3. CASE stage' = [stage EXCEPT ![o] = "guard"] /\ UNCHANGED outcome
  <2>1. AsksOnce(o)'
    BY <1>1, <1>3 DEF LogIInv, LogTypes, AsksOnce
  <2> QED BY <1>1, <1>3, <2>1, LogMove DEF LogIInv, LogTypes, UnderWay
<1> QED BY <1>2, <1>3 DEF Begin

LEMMA LogGuardKeeps ==
  ASSUME LogIInv, NEW o \in Order, ReadLog(o)
  PROVE  LogIInv'
<1> DEFINE row == findPendingUnknown(o)
<1>1. /\ stage[o] = "guard" /\ pending' = [pending EXCEPT ![o] = row]
      /\ stage' = [stage EXCEPT ![o] = IF row = NoRow THEN "signing" ELSE "search"]
      /\ UNCHANGED <<clock, tradeLog, outcome, verdict, items, popup, deaths>>
  BY DEF ReadLog
<1>2. row \in Row \cup {NoRow}
  <2>1. tradeLog \in Seq(Row)
    BY DEF LogIInv, LogTypes
  <2>2. \A i \in DOMAIN tradeLog : tradeLog[i] \in Row
    BY <2>1
  <2> HIDE DEF row
  <2> QED BY <2>1, <2>2, FoundRow DEF row
<1> HIDE DEF row
<1>3. PICK next \in {"signing", "search"} :
        stage' = [stage EXCEPT ![o] = next] /\ (next = "search" => row # NoRow)
  BY <1>1
<1>4. pending' \in [Order -> Row \cup {NoRow}] /\ pending'[o] = row
      /\ \A p \in Order \ {o} : pending'[p] = pending[p]
  BY <1>1, <1>2 DEF LogIInv, LogTypes
<1>5. pending[o] = NoRow
  BY <1>1 DEF LogIInv, AsksOnce
<1>6. AsksOnce(o)'
  BY <1>3, <1>4 DEF AsksOnce, LogIInv, LogTypes
<1> QED BY <1>1, <1>3, <1>4, <1>5, <1>6, LogMove DEF LogIInv, LogTypes, UnderWay, Submitting

LEMMA LogSearchKeeps ==
  ASSUME LogIInv, NEW o \in Order,
         SearchFails(o) \/ \E which \in SUBSET Lists : ListsRead(o, which)
  PROVE  LogIInv'
<1>1. /\ stage[o] \in {"search", "unanswered"}
      /\ UNCHANGED <<clock, tradeLog, pending, items, popup, deaths>>
  BY DEF SearchFails, ListsRead, Searching
<1>2. stage[o] \in UnderWay
  BY <1>1 DEF UnderWay, Submitting
<1>3. \/ UNCHANGED <<stage, outcome, verdict>>
      \/ \E found \in {"went_through", "not_found", "unreachable"} : Concludes(o, found)
  BY DEF SearchFails, ListsRead
<1>4. CASE UNCHANGED <<stage, outcome, verdict>>
  BY <1>1, <1>4, LogAside DEF LogIInv, LogTypes
<1>5. CASE \E what : Answer(o, what) /\ UNCHANGED verdict
  BY <1>1, <1>2, <1>5, LogAnswer
<1>6. ASSUME stage[o] = "search", NEW v \in {"placed", "failed"}, UNCHANGED outcome,
             verdict' = [verdict EXCEPT ![o] = v], stage' = [stage EXCEPT ![o] = "settling"]
      PROVE  LogIInv'
  <2>1. AsksOnce(o)'
    BY <1>1, <1>6 DEF AsksOnce, LogIInv, LogTypes
  <2>2. /\ verdict' \in [Order -> {"none", "placed", "failed"}]
        /\ \A p \in Order \ {o} : verdict'[p] = verdict[p]
    BY <1>6 DEF LogIInv, LogTypes
  <2> QED BY <1>1, <1>2, <1>6, <2>1, <2>2, LogMove DEF LogIInv, LogTypes, UnderWay
<1>7. ASSUME NEW found, Concludes(o, found) PROVE LogIInv'
  <2>1. CASE stage[o] = "search"
    BY <1>5, <1>6, <1>7, <2>1 DEF Concludes, GuardConcludes
  <2>2. CASE stage[o] # "search"
    BY <1>5, <1>7, <2>2 DEF Concludes, RecheckConcludes
  <2> QED BY <2>1, <2>2
<1> QED BY <1>3, <1>4, <1>7

\* The reads: nobody else is between a read and a write.
LEMMA LogReadKeeps ==
  ASSUME LogKept, LogIInv, NEW o \in Order, SettleRead(o) \/ LogRead(o)
  PROVE  LogIInv'
<1>1. /\ LogFree /\ items' = [items EXCEPT ![o] = tradeLog]
      /\ UNCHANGED <<clock, tradeLog, stage, outcome, pending, verdict, popup, deaths>>
  BY DEF SettleRead, LogRead, MayRead, LogKept
<1>2. LogTypes' /\ RowsMatchCalls' /\ StatusKept' /\ \A p \in Order : AsksOnce(p)'
  BY <1>1 DEF LogIInv, LogTypes, RowsMatchCalls, StatusKept, Asked, AsksOnce
<1>3. Snapshots'
  BY <1>1 DEF Snapshots, LogFree, LogIInv, LogTypes
<1> QED BY <1>2, <1>3 DEF LogIInv

LEMMA LogMarkReadKeeps ==
  ASSUME LogKept, LogIInv, MarkRead
  PROVE  LogIInv'
<1>1. /\ LogFree /\ popup # NoCancel /\ popup.items = NoItems
      /\ popup' = [popup EXCEPT !.items = tradeLog]
      /\ UNCHANGED <<clock, tradeLog, stage, outcome, pending, verdict, items, deaths>>
  BY DEF MarkRead, MayRead, LogKept, callVars
<1>2. popup'.order = popup.order /\ popup'.items = tradeLog
      /\ popup' \in [order : Order \cup {None}, items : Seq(Row) \cup {NoItems}]
  BY <1>1 DEF LogIInv, LogTypes
<1>3. popup.order \in Order
  BY <1>1 DEF LogIInv, LogTypes, NoCancel
<1>4. LogTypes' /\ RowsMatchCalls' /\ StatusKept' /\ \A p \in Order : AsksOnce(p)'
  BY <1>1, <1>2 DEF LogIInv, LogTypes, RowsMatchCalls, StatusKept, Asked, AsksOnce
<1>5. Snapshots'
  BY <1>1, <1>2, <1>3 DEF Snapshots, LogFree
<1> QED BY <1>4, <1>5 DEF LogIInv

LEMMA LogCancelKeeps ==
  ASSUME LogIInv, NEW o \in Order, CancelOrder(o)
  PROVE  LogIInv'
<1>1. /\ popup = NoCancel /\ popup' \in {popup, [order |-> o, items |-> NoItems]}
      /\ UNCHANGED <<clock, tradeLog, stage, outcome, pending, verdict, items, deaths>>
  BY DEF CancelOrder, callVars
<1>2. PICK i \in DOMAIN tradeLog : tradeLog[i].order = o /\ tradeLog[i].status = "placed"
  BY DEF CancelOrder
<1>3. stage[o] = "done" /\ (outcome[o] = "unknown" => Asked(o))
  BY <1>2 DEF LogIInv, RowsMatchCalls, StatusKept
<1>4. popup'.items = NoItems /\ popup'.order \in {None, o}
  BY <1>1 DEF NoCancel
<1>5. LogTypes' /\ RowsMatchCalls' /\ \A p \in Order : AsksOnce(p)'
  BY <1>1, <1>4 DEF LogIInv, LogTypes, RowsMatchCalls, AsksOnce, NoCancel
<1>6. StatusKept'
  BY <1>1, <1>3, <1>4, HoldAssumption DEF LogIInv, StatusKept, Asked
<1>7. Snapshots'
  BY <1>1, <1>4 DEF LogIInv, Snapshots, NoCancel
<1> QED BY <1>5, <1>6, <1>7 DEF LogIInv

\* A verdict is written over the row it is about, and over no other.
LEMMA LogRewrite ==
  ASSUME LogIInv, NEW p \in Order, NEW st \in Status, tradeLog' = SetStatus(tradeLog, p, st),
         outcome[p] = "unknown" => Asked(p),
         \A q \in Order : stage'[q] = "done" <=> stage[q] = "done",
         \A q \in Order : stage[q] = "done" => outcome'[q] = outcome[q],
         popup' = popup \/ popup' = NoCancel, UNCHANGED pending
  PROVE  tradeLog' \in Seq(Row) /\ RowsMatchCalls' /\ StatusKept'
<1>1. tradeLog \in Seq(Row) /\ \A i \in DOMAIN tradeLog : tradeLog[i] \in Row
  BY DEF LogIInv, LogTypes
<1>2. /\ tradeLog' \in Seq(Row) /\ DOMAIN tradeLog' = DOMAIN tradeLog
      /\ \A i \in DOMAIN tradeLog :
           /\ tradeLog'[i].order = tradeLog[i].order
           /\ tradeLog'[i].status = IF tradeLog[i].order = p THEN st ELSE tradeLog[i].status
  BY <1>1, SetStatusRows
<1>3. RowsMatchCalls'
  BY <1>2 DEF LogIInv, RowsMatchCalls
<1>4. \A i \in DOMAIN tradeLog : tradeLog[i].order \in Order /\ stage[tradeLog[i].order] = "done"
  BY <1>1 DEF Row, LogIInv, RowsMatchCalls
<1>5. \A q \in Order : Asked(q)' <=> Asked(q)
  BY DEF Asked
<1>6. popup'.order \in Order => popup' = popup
  BY HoldAssumption DEF NoCancel
<1>7. StatusKept'
  BY <1>2, <1>4, <1>5, <1>6 DEF LogIInv, StatusKept
<1> QED BY <1>2, <1>3, <1>7

LEMMA LogSettleKeeps ==
  ASSUME LogKept, LogIInv, NEW o \in Order, SettleWrite(o)
  PROVE  LogIInv'
<1> DEFINE p == pending[o].order
<1>1. /\ stage[o] = "settling" /\ items[o] # NoItems /\ items' = [items EXCEPT ![o] = NoItems]
      /\ tradeLog' = SetStatus(items[o], p, verdict[o])
      /\ verdict' = [verdict EXCEPT ![o] = "none"] /\ UNCHANGED <<clock, pending, popup, deaths>>
  BY DEF SettleWrite, LogKept
<1>2. items[o] = tradeLog /\ popup.items = NoItems /\ \A q \in Order \ {o} : items[q] = NoItems
  BY <1>1 DEF LogIInv, Snapshots
<1>3. p \in Order /\ verdict[o] \in {"placed", "failed"} /\ Asked(p)
  <2>1. pending[o] \in Row
    BY <1>1 DEF LogIInv, LogTypes, AsksOnce
  <2> QED BY <1>1, <2>1 DEF Row, LogIInv, AsksOnce, Asked
<1>4. PICK next \in {"answered", "signing"} : stage' = [stage EXCEPT ![o] = next]
  BY DEF SettleWrite, Answer
<1>5. DOMAIN outcome' = Order /\ \A q \in Order \ {o} : outcome'[q] = outcome[q]
  BY DEF SettleWrite, Answer, LogIInv, LogTypes
<1>6. /\ stage'[o] = next /\ \A q \in Order \ {o} : stage'[q] = stage[q]
      /\ stage' \in [Order -> UnderWay \cup {"new", "done"}]
  BY <1>4 DEF LogIInv, LogTypes, UnderWay
<1>7. tradeLog' \in Seq(Row) /\ RowsMatchCalls' /\ StatusKept'
  BY <1>1, <1>2, <1>3, <1>5, <1>6, LogRewrite DEF Status
<1>8. LogTypes'
  BY <1>1, <1>5, <1>6, <1>7 DEF LogIInv, LogTypes
<1>9. Snapshots'
  BY <1>1, <1>2 DEF LogIInv, LogTypes, Snapshots
<1>10. \A q \in Order : AsksOnce(q)'
  BY <1>1, <1>6 DEF LogIInv, LogTypes, AsksOnce
<1> QED BY <1>7, <1>8, <1>9, <1>10 DEF LogIInv

LEMMA LogMarkKeeps ==
  ASSUME LogKept, LogIInv, MarkWrite
  PROVE  LogIInv'
<1>1. /\ popup.items # NoItems /\ popup' = NoCancel
      /\ tradeLog' = SetStatus(popup.items, popup.order, "cancelled")
      /\ UNCHANGED <<clock, stage, outcome, pending, verdict, items, deaths>>
  BY DEF MarkWrite, LogKept, callVars
<1>2. popup.items = tradeLog /\ popup.order \in Order /\ \A q \in Order : items[q] = NoItems
  BY <1>1 DEF LogIInv, Snapshots
<1>3. outcome[popup.order] = "unknown" => Asked(popup.order)
  BY <1>2 DEF LogIInv, StatusKept
<1>4. tradeLog' \in Seq(Row) /\ RowsMatchCalls' /\ StatusKept'
  BY <1>1, <1>2, <1>3, LogRewrite DEF Status
<1>5. LogTypes' /\ Snapshots' /\ \A q \in Order : AsksOnce(q)'
  BY <1>1, <1>2, <1>4 DEF LogIInv, LogTypes, Snapshots, AsksOnce, NoCancel
<1> QED BY <1>4, <1>5 DEF LogIInv

\* The log has room for one more: each of its rows is of another call.
LEMMA LogHasRoom ==
  ASSUME LogKept, LogIInv, NEW o \in Order, stage[o] # "done"
  PROVE  Len(tradeLog) < LogMax
<1> DEFINE n == Len(tradeLog)
<1> DEFINE others == Order \ {o}
<1> DEFINE orderAt == [i \in 1..n |-> tradeLog[i].order]
<1>1. n \in Nat /\ DOMAIN tradeLog = 1..n /\ \A i \in 1..n : tradeLog[i] \in Row
  BY DEF LogIInv, LogTypes
<1>2. \A i \in 1..n : tradeLog[i].order \in others
  BY <1>1 DEF Row, LogIInv, RowsMatchCalls
<1>3. \A i, j \in 1..n : tradeLog[i].order = tradeLog[j].order => i = j
  BY <1>1 DEF LogIInv, RowsMatchCalls
<1>4. orderAt \in Injection(1..n, others)
  BY <1>2, <1>3 DEF Injection, IsInjective
<1>5. IsFiniteSet(others) /\ Cardinality(others) = Cardinality(Order) - 1
  BY FS_RemoveElement DEF LogKept
<1>6. Cardinality(1..n) = n
  BY <1>1, FS_Interval
<1>7. Cardinality(1..n) <= Cardinality(others)
  <2> HIDE DEF n, others, orderAt
  <2> QED BY <1>4, <1>5, FS_Injection
<1>8. Cardinality(Order) \in Nat /\ Cardinality(Order) <= LogMax /\ LogMax \in Nat
  BY FS_CardinalityType, HoldAssumption DEF LogKept
<1> QED BY <1>1, <1>5, <1>6, <1>7, <1>8

\* What a call writes when it is over: the rows there were, and its own.
NewRow(o) == [order |-> o, status |-> RowStatus(o), at |-> clock]
LEMMA RowWritten ==
  ASSUME LogKept, LogIInv, NEW o \in Order, LogWrite(o)
  PROVE  /\ NewRow(o) \in Row /\ tradeLog' \in Seq(Row)
         /\ DOMAIN tradeLog' = 1..(Len(tradeLog) + 1) /\ tradeLog'[1] = NewRow(o)
         /\ \A i \in 1..Len(tradeLog) : tradeLog'[i + 1] = tradeLog[i]
<1> DEFINE row == NewRow(o)
<1>1. tradeLog' = Prepend(row, items[o]) /\ items[o] = tradeLog /\ stage[o] # "done"
  BY DEF LogWrite, LogKept, LogIInv, Snapshots, NewRow
<1>2. clock \in Time
  BY HoldAssumption DEF LogIInv, LogTypes, Time, Never
<1>3. RowStatus(o) \in Status
  BY DEF RowStatus, Status
<1>4. row \in Row
  BY <1>2, <1>3 DEF Row, NewRow
<1>5. tradeLog \in Seq(Row) /\ Len(tradeLog) < LogMax
  BY <1>1, LogHasRoom DEF LogIInv, LogTypes
<1> HIDE DEF row
<1>6. /\ tradeLog' \in Seq(Row)
      /\ DOMAIN tradeLog' = 1..(Len(tradeLog) + 1) /\ tradeLog'[1] = row
      /\ \A i \in 1..Len(tradeLog) : tradeLog'[i + 1] = tradeLog[i]
  BY <1>1, <1>4, <1>5, PrependRows
<1> QED BY <1>4, <1>6 DEF row

LEMMA LogWriteKeeps ==
  ASSUME LogKept, LogIInv, NEW o \in Order, LogWrite(o)
  PROVE  LogIInv'
<1> DEFINE n == Len(tradeLog)
<1>1. /\ stage[o] = "answered" /\ items[o] # NoItems /\ items' = [items EXCEPT ![o] = NoItems]
      /\ stage' = [stage EXCEPT ![o] = "done"]
      /\ UNCHANGED <<clock, outcome, pending, verdict, popup, deaths>>
  BY DEF LogWrite
<1>2. popup.items = NoItems /\ \A q \in Order \ {o} : items[q] = NoItems
  BY <1>1 DEF LogIInv, Snapshots
<1>3. /\ stage'[o] = "done" /\ \A q \in Order \ {o} : stage'[q] = stage[q]
      /\ stage' \in [Order -> UnderWay \cup {"new", "done"}]
  BY <1>1 DEF LogIInv, LogTypes
<1>4. n \in Nat /\ DOMAIN tradeLog = 1..n
  BY DEF LogIInv, LogTypes
<1>5. /\ tradeLog' \in Seq(Row) /\ DOMAIN tradeLog' = 1..(n + 1)
      /\ tradeLog'[1].order = o /\ tradeLog'[1].status = RowStatus(o)
      /\ \A i \in 1..n : tradeLog'[i + 1] = tradeLog[i]
  <2>1. NewRow(o).order = o /\ NewRow(o).status = RowStatus(o)
    BY DEF NewRow
  <2> QED BY <2>1, RowWritten
<1> HIDE DEF n
<1>6. \A j \in 2..(n + 1) : j - 1 \in 1..n /\ tradeLog'[j] = tradeLog[j - 1]
  <2>1. ASSUME NEW j \in 2..(n + 1) PROVE j - 1 \in 1..n /\ (j - 1) + 1 = j
    BY <1>4
  <2> QED BY <1>5, <2>1
<1>7. \A i \in 1..n : tradeLog[i].order \in Order \ {o} /\ stage[tradeLog[i].order] = "done"
  <2>1. \A i \in 1..n : tradeLog[i] \in Row
    BY <1>4 DEF LogIInv, LogTypes
  <2> QED BY <1>1, <1>4, <2>1 DEF Row, LogIInv, RowsMatchCalls
<1>8. RowsMatchCalls'
  <2>1. \A j \in DOMAIN tradeLog' : j = 1 \/ j \in 2..(n + 1)
    BY <1>4, <1>5
  <2>2. ASSUME NEW i \in DOMAIN tradeLog', NEW j \in DOMAIN tradeLog',
               tradeLog'[i].order = tradeLog'[j].order
        PROVE  i = j
    <3>1. CASE i = 1 \/ j = 1
      BY <1>5, <1>6, <1>7, <2>1, <2>2, <3>1
    <3>2. CASE i \in 2..(n + 1) /\ j \in 2..(n + 1)
      <4>1. i - 1 = j - 1
        BY <1>4, <1>6, <2>2, <3>2 DEF LogIInv, RowsMatchCalls
      <4> QED BY <3>2, <4>1, <1>4
    <3> QED BY <2>1, <3>1, <3>2
  <2>3. ASSUME NEW q \in Order
        PROVE  stage'[q] = "done" <=> \E i \in DOMAIN tradeLog' : tradeLog'[i].order = q
    <3>1. CASE q = o
      <4>1. 1 \in DOMAIN tradeLog'
        BY <1>4, <1>5
      <4> QED BY <1>3, <1>5, <3>1, <4>1
    <3>2. CASE q # o
      <4>1. (\E i \in DOMAIN tradeLog' : tradeLog'[i].order = q)
            <=> \E i \in 1..n : tradeLog[i].order = q
        <5>1. ASSUME NEW i \in DOMAIN tradeLog', tradeLog'[i].order = q
              PROVE  \E k \in 1..n : tradeLog[k].order = q
          BY <1>5, <1>6, <2>1, <3>2, <5>1
        <5>2. \A i \in 1..n : i + 1 \in DOMAIN tradeLog'
          BY <1>4, <1>5
        <5> QED BY <1>5, <5>1, <5>2
      <4> QED BY <1>3, <1>4, <3>2, <4>1 DEF LogIInv, RowsMatchCalls
    <3> QED BY <3>1, <3>2
  <2> QED BY <2>2, <2>3 DEF RowsMatchCalls
<1>9. StatusKept'
  <2>1. ASSUME NEW i \in DOMAIN tradeLog', outcome'[tradeLog'[i].order] = "unknown"
        PROVE  tradeLog'[i].status = "unknown" \/ Asked(tradeLog'[i].order)
    <3>1. CASE i = 1
      BY <1>1, <1>5, <2>1, <3>1 DEF RowStatus
    <3>2. CASE i \in 2..(n + 1)
      <4>1. i - 1 \in DOMAIN tradeLog /\ tradeLog'[i] = tradeLog[i - 1]
        BY <1>4, <1>6, <3>2
      <4>2. tradeLog[i - 1].status = "unknown" \/ Asked(tradeLog[i - 1].order)
        BY <1>1, <2>1, <4>1 DEF LogIInv, StatusKept
      <4> QED BY <4>1, <4>2
    <3> QED BY <1>4, <1>5, <3>1, <3>2
  <2>2. popup'.order \in Order =>
          /\ stage'[popup'.order] = "done"
          /\ outcome'[popup'.order] = "unknown" => Asked(popup'.order)
    BY <1>1, <1>3 DEF LogIInv, StatusKept
  <2> QED BY <1>1, <2>1, <2>2 DEF StatusKept, Asked
<1>10. LogTypes'
  BY <1>1, <1>3, <1>5 DEF LogIInv, LogTypes
<1>11. Snapshots'
  BY <1>1, <1>2 DEF LogIInv, LogTypes, Snapshots
<1>12. \A q \in Order : AsksOnce(q)'
  BY <1>1, <1>3 DEF LogIInv, AsksOnce
<1> QED BY <1>8, <1>9, <1>10, <1>11, <1>12 DEF LogIInv

\* While the log is kept, each step keeps what is said of it.
LEMMA LogStep ==
  ASSUME LogKept, LogIInv, [HoldNext]_vars
  PROVE  LogIInv'
<1>1. ASSUME NEW o \in Order, CallStep(o) PROVE LogIInv'
  BY <1>1, LogBeginKeeps, LogGuardKeeps, LogSearchKeeps, LogSendKeeps, LogReadKeeps,
     LogSettleKeeps, LogWriteKeeps DEF CallStep
<1>2. CASE \E o \in Order : CancelOrder(o)
  BY <1>2, LogCancelKeeps
<1>3. CASE MarkRead \/ MarkWrite
  BY <1>3, LogMarkReadKeeps, LogMarkKeeps
<1>4. ASSUME NEW o \in Order, ExchangeStep(o) PROVE LogIInv'
  <2>1. UNCHANGED <<clock, tradeLog, stage, outcome, pending, verdict, items, popup, deaths>>
    BY <1>4 DEF ExchangeStep, Accepts, Refuses, AnswerLost, PostLost, Fills, callVars
  <2> QED BY <2>1, LogAside DEF LogIInv, LogTypes
<1>5. CASE Tick
  <2>1. clock' \in 0..LastTick
    BY <1>5, HoldAssumption DEF Tick, LogIInv, LogTypes
  <2> QED BY <1>5, <2>1, LogAside DEF Tick, callVars
<1>6. CASE UNCHANGED vars
  BY <1>6, LogAside DEF vars, callVars, LogIInv, LogTypes
<1>7. ~ClearTradeLog /\ ~DocumentDies
  BY DEF ClearTradeLog, DocumentDies, LogKept, LogIInv, LogTypes
<1> QED BY <1>1, <1>2, <1>3, <1>4, <1>5, <1>6, <1>7 DEF HoldNext, PopupStep

-----------------------------------------------------------------------------
(* The record.                                                             *)

LEMMA LogInvariant == LogKept => (HoldSpec => []LogIInv)
<1> SUFFICES ASSUME LogKept PROVE HoldSpec => []LogIInv
  OBVIOUS
<1>1. HoldInit => LogIInv
  <2> SUFFICES ASSUME HoldInit PROVE LogIInv
    OBVIOUS
  <2>1. LogTypes
    BY HoldAssumption DEF HoldInit, LogTypes, NoCancel
  <2>2. Snapshots /\ RowsMatchCalls
    BY DEF HoldInit, Snapshots, RowsMatchCalls, NoCancel
  <2>3. StatusKept /\ \A o \in Order : AsksOnce(o)
    BY HoldAssumption DEF HoldInit, StatusKept, AsksOnce, NoCancel
  <2> QED BY <2>1, <2>2, <2>3 DEF LogIInv
<1>2. LogIInv /\ [HoldNext]_vars => LogIInv'
  BY LogStep
<1> QED BY <1>1, <1>2, PTL DEF HoldSpec

\* What the user has been told is unknown stays on record: as long as the log
\* keeps its rows, an order of unknown fate has one that says so, until a guard
\* has asked the exchange for it (logTrade, updateTradeStatus).
THEOREM UnknownStaysOnRecord == LogKept => (HoldSpec => []UnknownOnRecord)
<1>1. LogIInv => UnknownOnRecord
  BY DEF LogIInv, RowsMatchCalls, StatusKept, Asked, UnknownOnRecord
<1> QED BY <1>1, LogInvariant, PTL

-----------------------------------------------------------------------------
(* The times.                                                              *)

TimeSound(o) ==
  /\ submittedAt[o] <= clock
  /\ wire[o] \/ stage[o] \in Submitting => clock <= submittedAt[o] + Latency
  /\ outcome[o] = "unknown" =>
       submittedAt[o] <= unknownAt[o] /\ unknownAt[o] <= submittedAt[o] + Latency
  /\ stage[o] = "answered" /\ outcome[o] = "unknown" => unknownAt[o] = clock
  /\ book[o] # "absent" => createdAt[o] >= submittedAt[o] - Behind
  /\ book[o] = "filled" => tradedAt[o] >= submittedAt[o] - Behind

TimeIInv ==
  /\ clock \in Nat
  /\ submittedAt \in [Order -> Int] /\ unknownAt \in [Order -> Int]
  /\ createdAt \in [Order -> Int] /\ tradedAt \in [Order -> Int]
  /\ \A o \in Order : TimeSound(o)

\* A step of one call or with one order, while the clock stands.
LEMMA TimeOne ==
  ASSUME TimeIInv, NEW o \in Order, clock' = clock,
         submittedAt' \in [Order -> Int], unknownAt' \in [Order -> Int],
         createdAt' \in [Order -> Int], tradedAt' \in [Order -> Int],
         \A p \in Order \ {o} :
           /\ submittedAt'[p] = submittedAt[p] /\ unknownAt'[p] = unknownAt[p]
           /\ createdAt'[p] = createdAt[p] /\ tradedAt'[p] = tradedAt[p]
           /\ wire'[p] = wire[p] /\ book'[p] = book[p]
           /\ stage'[p] = stage[p] /\ outcome'[p] = outcome[p],
         TimeSound(o)'
  PROVE  TimeIInv'
<1>1. \A p \in Order \ {o} : TimeSound(p)'
  BY DEF TimeIInv, TimeSound
<1> QED BY <1>1 DEF TimeIInv

\* A call moves on; it gets an answer of unknown only out of a search.
LEMMA TimeMove ==
  ASSUME HoldIInv, TimeIInv, NEW o \in Order, DOMAIN stage = Order,
         \E next : stage' = [stage EXCEPT ![o] = next] /\ (next \in Submitting => stage[o] \in Submitting),
         \/ UNCHANGED <<outcome, unknownAt>> /\ (stage'[o] = "answered" => outcome[o] # "unknown")
         \/ \E what : /\ Answer(o, what)
                      /\ what = "unknown" => stage[o] = "unanswered",
         UNCHANGED <<clock, submittedAt, createdAt, tradedAt, wire, book>>
  PROVE  TimeIInv'
<1>1. /\ \A p \in Order \ {o} : stage'[p] = stage[p]
      /\ stage'[o] \in Submitting => stage[o] \in Submitting
  BY DEF HoldIInv
<1>2. CASE UNCHANGED <<outcome, unknownAt>> /\ (stage'[o] = "answered" => outcome[o] # "unknown")
  <2>1. TimeSound(o)'
    BY <1>1, <1>2 DEF TimeIInv, TimeSound
  <2> QED BY <1>1, <1>2, <2>1, TimeOne DEF TimeIInv
<1>3. ASSUME NEW what, Answer(o, what), what = "unknown" => stage[o] = "unanswered" PROVE TimeIInv'
  <2>1. /\ outcome'[o] = what /\ \A p \in Order \ {o} : outcome'[p] = outcome[p]
        /\ stage'[o] = "answered"
        /\ unknownAt'[o] = (IF what = "unknown" THEN clock ELSE unknownAt[o])
        /\ \A p \in Order \ {o} : unknownAt'[p] = unknownAt[p]
        /\ unknownAt' \in [Order -> Int]
    BY <1>3 DEF Answer, HoldIInv, TimeIInv
  <2>2. TimeSound(o)'
    BY <1>1, <1>3, <2>1 DEF TimeIInv, TimeSound, Submitting
  <2> QED BY <1>1, <2>1, <2>2, TimeOne DEF TimeIInv
<1> QED BY <1>2, <1>3

LEMMA TimeCallKeeps ==
  ASSUME HoldIInv, TimeIInv, NEW o \in Order, CallStep(o), ~SignAndSubmit(o)
  PROVE  TimeIInv'
<1>1. UNCHANGED <<clock, submittedAt, createdAt, tradedAt, wire, book>> /\ DOMAIN stage = Order
  BY DEF CallStep, Begin, ReadLog, ListsRead, SearchFails, SettleRead, SettleWrite, SignFails,
         SubmitResolves, LogRead, LogWrite, exchangeVars, HoldIInv
<1>2. CASE \E what : Answer(o, what) /\ (what = "unknown" => stage[o] = "unanswered")
  BY <1>1, <1>2, TimeMove DEF Answer, Submitting
<1>3. ASSUME UNCHANGED <<outcome, unknownAt>>, NEW next, next \notin {"answered"},
             next \in Submitting => stage[o] \in Submitting, stage' = [stage EXCEPT ![o] = next]
      PROVE  TimeIInv'
  <2>1. stage'[o] = next
    BY <1>1, <1>3
  <2> QED BY <1>1, <1>3, <2>1, TimeMove
<1>4. CASE UNCHANGED <<stage, outcome, unknownAt>>
  BY <1>1, <1>4 DEF TimeIInv, TimeSound
<1>5. CASE Begin(o) \/ ReadLog(o) \/ SignFails(o) \/ SubmitResolves(o)
  BY <1>2, <1>3, <1>5 DEF Begin, ReadLog, SignFails, SubmitResolves, Submitting
<1>6. CASE SettleRead(o) \/ SettleWrite(o) \/ LogRead(o) \/ LogWrite(o)
  BY <1>2, <1>3, <1>4, <1>6 DEF SettleRead, SettleWrite, LogRead, LogWrite, Submitting
<1>7. ASSUME NEW found, Concludes(o, found), Searching(o) PROVE TimeIInv'
  <2>1. CASE stage[o] = "search"
    BY <1>2, <1>3, <1>7, <2>1 DEF Concludes, GuardConcludes, Submitting
  <2>2. CASE stage[o] # "search"
    <3>1. stage[o] = "unanswered"
      BY <1>7, <2>2 DEF Searching
    <3> QED BY <1>2, <1>7, <2>2, <3>1 DEF Concludes, RecheckConcludes
  <2> QED BY <2>1, <2>2
<1>8. CASE SearchFails(o) \/ \E which \in SUBSET Lists : ListsRead(o, which)
  BY <1>4, <1>7, <1>8 DEF SearchFails, ListsRead
<1> QED BY <1>5, <1>6, <1>8 DEF CallStep

LEMMA TimeSubmitKeeps ==
  ASSUME HoldIInv, TimeIInv, NEW o \in Order, SignAndSubmit(o)
  PROVE  TimeIInv'
<1>1. /\ stage[o] = "signing" /\ stage' = [stage EXCEPT ![o] = "posting"]
      /\ submittedAt' = [submittedAt EXCEPT ![o] = clock] /\ wire' = [wire EXCEPT ![o] = TRUE]
      /\ UNCHANGED <<clock, outcome, unknownAt, book, createdAt, tradedAt>>
  BY DEF SignAndSubmit, exchangeVars
<1>2. outcome[o] = "none" /\ book[o] = "absent"
  BY <1>1 DEF HoldIInv, CallSound, Unposted
<1>3. Latency \in Nat
  BY HoldAssumption
<1>4. /\ submittedAt'[o] = clock /\ stage'[o] = "posting" /\ submittedAt' \in [Order -> Int]
      /\ \A p \in Order \ {o} :
           stage'[p] = stage[p] /\ submittedAt'[p] = submittedAt[p] /\ wire'[p] = wire[p]
  BY <1>1 DEF HoldIInv, TimeIInv
<1>5. TimeSound(o)'
  BY <1>1, <1>2, <1>3, <1>4 DEF TimeIInv, TimeSound
<1> QED BY <1>1, <1>4, <1>5, TimeOne DEF TimeIInv

LEMMA TimeExchangeKeeps ==
  ASSUME HoldIInv, TimeIInv, NEW o \in Order, ExchangeStep(o) \/ CancelOrder(o)
  PROVE  TimeIInv'
<1>1. UNCHANGED <<clock, stage, outcome, submittedAt, unknownAt>>
  BY DEF ExchangeStep, Accepts, Refuses, AnswerLost, PostLost, Fills, CancelOrder, callVars
<1>2. Behind \in Nat /\ submittedAt[o] <= clock
  BY HoldAssumption DEF TimeIInv, TimeSound
<1>3. ExchangeTime \in Int /\ ExchangeTime >= submittedAt[o] - Behind
  BY <1>2 DEF ExchangeTime, TimeIInv
<1>4. CASE Accepts(o)
  <2>1. /\ wire' = [wire EXCEPT ![o] = FALSE] /\ createdAt' = [createdAt EXCEPT ![o] = ExchangeTime]
        /\ createdAt'[o] = ExchangeTime
        /\ \E b \in {"resting", "filled"} :
             /\ book' = [book EXCEPT ![o] = b] /\ book'[o] = b
             /\ tradedAt' = [tradedAt EXCEPT ![o] = IF b = "filled" THEN ExchangeTime ELSE @]
             /\ b = "filled" => tradedAt'[o] = ExchangeTime
    BY <1>4 DEF Accepts, HoldIInv, TimeIInv
  <2>2. createdAt' \in [Order -> Int] /\ tradedAt' \in [Order -> Int] /\ ~wire'[o]
        /\ \A p \in Order \ {o} : wire'[p] = wire[p] /\ book'[p] = book[p]
                                  /\ createdAt'[p] = createdAt[p] /\ tradedAt'[p] = tradedAt[p]
    BY <1>3, <2>1 DEF HoldIInv, TimeIInv
  <2>3. TimeSound(o)'
    BY <1>1, <1>3, <2>1, <2>2 DEF TimeIInv, TimeSound
  <2> QED BY <1>1, <2>2, <2>3, TimeOne DEF TimeIInv
<1>5. CASE Refuses(o) \/ PostLost(o) \/ AnswerLost(o)
  <2>1. UNCHANGED <<book, createdAt, tradedAt>>
        /\ (wire' = wire \/ wire' = [wire EXCEPT ![o] = FALSE])
    BY <1>5 DEF Refuses, PostLost, AnswerLost, exchangeVars
  <2>2. (wire'[o] => wire[o]) /\ \A p \in Order \ {o} : wire'[p] = wire[p]
    BY <2>1 DEF HoldIInv
  <2>3. TimeSound(o)'
    BY <1>1, <2>1, <2>2 DEF TimeIInv, TimeSound
  <2> QED BY <1>1, <2>1, <2>2, <2>3, TimeOne DEF TimeIInv
<1>6. CASE Fills(o)
  <2>1. /\ book[o] # "absent" /\ book' = [book EXCEPT ![o] = "filled"]
        /\ tradedAt' = [tradedAt EXCEPT ![o] = ExchangeTime] /\ UNCHANGED <<wire, createdAt>>
    BY <1>6 DEF Fills
  <2>2. /\ tradedAt' \in [Order -> Int] /\ tradedAt'[o] = ExchangeTime
        /\ \A p \in Order \ {o} : book'[p] = book[p] /\ tradedAt'[p] = tradedAt[p]
    BY <1>3, <2>1 DEF HoldIInv, TimeIInv
  <2>3. TimeSound(o)'
    BY <1>1, <1>3, <2>1, <2>2 DEF TimeIInv, TimeSound
  <2> QED BY <1>1, <2>1, <2>2, <2>3, TimeOne DEF TimeIInv
<1>7. CASE CancelOrder(o)
  <2>1. /\ book[o] # "absent" /\ book' = [book EXCEPT ![o] = "canceled"]
        /\ UNCHANGED <<wire, createdAt, tradedAt>>
    BY <1>7 DEF CancelOrder
  <2>2. book'[o] = "canceled" /\ \A p \in Order \ {o} : book'[p] = book[p]
    BY <2>1 DEF HoldIInv
  <2>3. TimeSound(o)'
    BY <1>1, <2>1, <2>2 DEF TimeIInv, TimeSound
  <2> QED BY <1>1, <2>1, <2>2, <2>3, TimeOne DEF TimeIInv
<1> QED BY <1>4, <1>5, <1>6, <1>7 DEF ExchangeStep

\* No tick falls between an answer and its row, none comes too late for a submit.
LEMMA TimeTickKeeps ==
  ASSUME TimeIInv, Tick
  PROVE  TimeIInv'
<1>1. /\ clock' = clock + 1
      /\ \A o \in Order : /\ wire[o] \/ stage[o] \in Submitting => clock < submittedAt[o] + Latency
                          /\ stage[o] # "answered"
      /\ UNCHANGED <<stage, outcome, submittedAt, unknownAt, wire, book, createdAt, tradedAt>>
  BY DEF Tick, callVars, exchangeVars
<1>2. Latency \in Nat
  BY HoldAssumption
<1>3. \A o \in Order : TimeSound(o)'
  BY <1>1, <1>2 DEF TimeIInv, TimeSound
<1> QED BY <1>1, <1>3 DEF TimeIInv

LEMMA TimeStep ==
  ASSUME HoldIInv, TimeIInv, [HoldNext]_vars
  PROVE  TimeIInv'
<1>1. ASSUME NEW o \in Order, CallStep(o) PROVE TimeIInv'
  BY <1>1, TimeCallKeeps, TimeSubmitKeeps
<1>2. ASSUME NEW o \in Order, ExchangeStep(o) \/ CancelOrder(o) PROVE TimeIInv'
  BY <1>2, TimeExchangeKeeps
<1>3. CASE MarkRead \/ MarkWrite \/ ClearTradeLog \/ UNCHANGED vars
  <2>1. UNCHANGED <<clock, stage, outcome, submittedAt, unknownAt, wire, book, createdAt, tradedAt>>
    BY <1>3 DEF MarkRead, MarkWrite, ClearTradeLog, vars, callVars, exchangeVars
  <2> QED BY <2>1 DEF TimeIInv, TimeSound
<1>4. CASE DocumentDies
  <2>1. /\ UNCHANGED <<clock, outcome, submittedAt, unknownAt, wire, book, createdAt, tradedAt>>
        /\ \A o \in Order : stage'[o] = stage[o] \/ stage'[o] = "done"
    BY <1>4 DEF DocumentDies, exchangeVars
  <2> QED BY <2>1 DEF TimeIInv, TimeSound, Submitting
<1> QED BY <1>1, <1>2, <1>3, <1>4, TimeTickKeeps DEF HoldNext, PopupStep

\* Whatever is delayed or lost, an unknown order was reported within Latency of
\* its submit, and what the exchange has of it is dated no earlier than that, but
\* for the difference of the clocks.
THEOREM TimesFit == HoldSpec => []TimeIInv
<1>1. HoldInit => TimeIInv
  BY HoldAssumption DEF HoldInit, TimeIInv, TimeSound, Never, Submitting
<1>2. HoldIInv /\ TimeIInv /\ [HoldNext]_vars => TimeIInv'
  BY TimeStep
<1> QED BY <1>1, <1>2, HoldInvariant, PTL DEF HoldSpec

-----------------------------------------------------------------------------
(* The guard.                                                              *)

Rows == {tradeLog[i] : i \in DOMAIN tradeLog}
Gone(p) == ~(Live(p) \/ wire[p])
Settled(p) == p \in told \/ Gone(p)
Old(row) == clock - row.at >= MaxAge

\* All unknown rows on o's token, but p's, are too old to be believed.
OthersOld(o, p) ==
  \A r \in Rows : r.status = "unknown" /\ TokenOf[r.order] = TokenOf[o] /\ r.order # p => Old(r)

RowsTrue ==
  /\ \A r \in Rows :
       /\ r.status = "unknown" => outcome[r.order] = "unknown" /\ r.at = unknownAt[r.order]
       /\ r.status # "unknown" /\ outcome[r.order] = "unknown" => Settled(r.order)
  /\ popup.order \in Order /\ outcome[popup.order] = "unknown" => Settled(popup.order)

OneFreshRow ==
  \A r, s \in Rows :
    /\ r.status = "unknown" /\ s.status = "unknown"
    /\ r.order # s.order /\ TokenOf[r.order] = TokenOf[s.order]
    => Old(r) \/ Old(s)

OneCallPerToken ==
  \A o, p \in Order :
    stage[o] \in UnderWay /\ stage[p] \in UnderWay /\ TokenOf[o] = TokenOf[p] => o = p

Asking == {"search", "settling"}
Sending == {"signing"} \cup Submitting

\* What a call past the guard's look at the log may rely on.
Holding(o) ==
  /\ stage[o] \in Asking =>
       /\ stage[pending[o].order] = "done" /\ outcome[pending[o].order] = "unknown"
       /\ TokenOf[pending[o].order] = TokenOf[o]
       /\ pending[o].at = unknownAt[pending[o].order]
       /\ OthersOld(o, pending[o].order)
  /\ stage[o] = "settling" /\ verdict[o] = "failed" => Gone(pending[o].order)
  /\ stage[o] \in Sending \/ (stage[o] = "answered" /\ outcome[o] = "unknown") => OthersOld(o, o)
  /\ stage[o] \in Asking \cup Sending => \A p \in earlier[o] :
       /\ stage[p] = "done"
       /\ Settled(p) \/ (stage[o] \in Asking /\ p = pending[o].order)

GuardIInv ==
  /\ lists = [o \in Order |-> {}] /\ hit = [o \in Order |-> FALSE]
  /\ earlier \in [Order -> SUBSET Order]
  /\ RowsTrue /\ OneFreshRow /\ OneCallPerToken
  /\ \A o \in Order : Holding(o)

\* What is over stays as it was reported, and what is gone stays gone.
DoneKept ==
  \A p \in Order : stage[p] = "done" =>
    /\ stage'[p] = "done" /\ outcome'[p] = outcome[p] /\ unknownAt'[p] = unknownAt[p]
    /\ Gone(p) => Gone(p)'
    /\ Settled(p) => Settled(p)'

LEMMA OneDoneStays ==
  ASSUME HoldIInv, TimeIInv, [HoldNext]_vars, NEW p \in Order, stage[p] = "done"
  PROVE  /\ stage'[p] = "done" /\ outcome'[p] = outcome[p] /\ unknownAt'[p] = unknownAt[p]
         /\ Gone(p) => Gone(p)'
         /\ told \subseteq told'
<1>1. ASSUME NEW o \in Order, CallStep(o)
      PROVE  /\ stage'[p] = "done" /\ outcome'[p] = outcome[p] /\ unknownAt'[p] = unknownAt[p]
             /\ Gone(p) => Gone(p)'
             /\ told \subseteq told'
  <2>1. stage[o] # "done" /\ UNCHANGED book /\ told \subseteq told'
    BY <1>1 DEF CallStep, Begin, ReadLog, ListsRead, SearchFails, SettleRead, SettleWrite, SignFails,
                SignAndSubmit, SubmitResolves, LogRead, LogWrite, exchangeVars, Searching
  <2>2. UNCHANGED wire \/ wire' = [wire EXCEPT ![o] = TRUE]
    BY <1>1 DEF CallStep, Begin, ReadLog, ListsRead, SearchFails, SettleRead, SettleWrite, SignFails,
                SignAndSubmit, SubmitResolves, LogRead, LogWrite
  <2>3. UNCHANGED stage \/ \E next : stage' = [stage EXCEPT ![o] = next]
    BY <1>1 DEF CallStep, Begin, ReadLog, ListsRead, SearchFails, SettleRead, SettleWrite, SignFails,
                SignAndSubmit, SubmitResolves, LogRead, LogWrite, Answer, Concludes, GuardConcludes,
                RecheckConcludes
  <2>4. UNCHANGED <<outcome, unknownAt>> \/ \E what : Answer(o, what)
    BY <1>1 DEF CallStep, Begin, ReadLog, ListsRead, SearchFails, SettleRead, SettleWrite, SignFails,
                SignAndSubmit, SubmitResolves, LogRead, LogWrite, Concludes, GuardConcludes,
                RecheckConcludes
  <2>5. p # o /\ stage'[p] = "done" /\ outcome'[p] = outcome[p] /\ unknownAt'[p] = unknownAt[p]
    BY <2>1, <2>3, <2>4 DEF Answer, HoldIInv, TimeIInv
  <2>6. wire'[p] = wire[p]
    BY <2>2, <2>5 DEF HoldIInv
  <2> QED BY <2>1, <2>5, <2>6 DEF Gone, Live
<1>2. ASSUME NEW o \in Order, ExchangeStep(o) \/ CancelOrder(o)
      PROVE  /\ stage'[p] = "done" /\ outcome'[p] = outcome[p] /\ unknownAt'[p] = unknownAt[p]
             /\ Gone(p) => Gone(p)'
             /\ told \subseteq told'
  <2>1. UNCHANGED <<stage, outcome, unknownAt, told>>
    BY <1>2 DEF ExchangeStep, Accepts, Refuses, AnswerLost, PostLost, Fills, CancelOrder, callVars
  <2>2. \/ UNCHANGED <<wire, book>>
        \/ wire[o] /\ wire' = [wire EXCEPT ![o] = FALSE]
             /\ (UNCHANGED book \/ \E b : book' = [book EXCEPT ![o] = b])
        \/ book[o] = "resting" /\ UNCHANGED wire /\ \E b : book' = [book EXCEPT ![o] = b]
    BY <1>2 DEF ExchangeStep, Accepts, Refuses, AnswerLost, PostLost, Fills, CancelOrder, exchangeVars
  <2>3. Gone(p) => Gone(p)'
    BY <2>2 DEF Gone, Live, HoldIInv
  <2> QED BY <2>1, <2>3
<1>3. CASE MarkRead \/ MarkWrite \/ ClearTradeLog \/ Tick \/ UNCHANGED vars
  BY <1>3 DEF MarkRead, MarkWrite, ClearTradeLog, Tick, vars, callVars, exchangeVars, Gone, Live
<1>4. CASE DocumentDies
  BY <1>4 DEF DocumentDies, exchangeVars, UnderWay, Submitting, Gone, Live
<1> QED BY <1>1, <1>2, <1>3, <1>4 DEF HoldNext, PopupStep

LEMMA DoneStays ==
  ASSUME HoldIInv, TimeIInv, [HoldNext]_vars
  PROVE  DoneKept
<1>1. ASSUME NEW p \in Order, stage[p] = "done"
      PROVE  /\ stage'[p] = "done" /\ outcome'[p] = outcome[p] /\ unknownAt'[p] = unknownAt[p]
             /\ Gone(p) => Gone(p)'
             /\ told \subseteq told'
  BY <1>1, OneDoneStays
<1>2. ASSUME NEW p \in Order, stage[p] = "done", Settled(p) PROVE Settled(p)'
  <2>1. (Gone(p) => Gone(p)') /\ told \subseteq told'
    BY <1>1, <1>2
  <2> QED BY <1>2, <2>1 DEF Settled
<1> QED BY <1>1, <1>2 DEF DoneKept

\* A row is of a call that is over.
LEMMA RowFacts ==
  ASSUME LogIInv
  PROVE  /\ \A r \in Rows : r \in Row /\ r.order \in Order /\ r.at \in Int /\ stage[r.order] = "done"
         /\ \A p \in Order : stage[p] = "done" => \E r \in Rows : r.order = p
         /\ \A r, s \in Rows : r.order = s.order => r = s
<1>1. \A i \in DOMAIN tradeLog : tradeLog[i] \in Row
  BY DEF LogIInv, LogTypes
<1>2. \A r \in Rows : r \in Row
  BY <1>1 DEF Rows
<1>3. Time \subseteq Int
  BY HoldAssumption DEF Time, Never
<1>4. \A r \in Rows : r.order \in Order /\ r.at \in Int
  BY <1>2, <1>3 DEF Row
<1>5. \A r \in Rows : stage[r.order] = "done"
  BY <1>4 DEF Rows, LogIInv, RowsMatchCalls
<1>6. \A p \in Order : stage[p] = "done" => \E r \in Rows : r.order = p
  BY DEF Rows, LogIInv, RowsMatchCalls
<1>7. \A r, s \in Rows : r.order = s.order => r = s
  BY DEF Rows, LogIInv, RowsMatchCalls
<1> QED BY <1>2, <1>4, <1>5, <1>6, <1>7

\* What is too old to be believed stays so.
LEMMA OldStays ==
  ASSUME clock \in Int, clock' \in Int, clock <= clock', NEW r, r.at \in Int, Old(r)
  PROVE  clock' - r.at >= MaxAge
<1>1. MaxAge \in Nat
  BY HoldAssumption
<1> QED BY <1>1 DEF Old

\* What a call relies on stays true while others do what they do, as long as no
\* unknown row on its token is added.
LEMMA HoldingStays ==
  ASSUME LogIInv, GuardIInv, DoneKept, NEW q \in Order,
         clock \in Int, clock' \in Int, clock <= clock',
         stage'[q] = stage[q], outcome'[q] = outcome[q], pending'[q] = pending[q],
         verdict'[q] = verdict[q], earlier'[q] = earlier[q],
         stage[q] \in UnderWay => \A r \in Rows' :
           r.status = "unknown" /\ TokenOf[r.order] = TokenOf[q] => r \in Rows
  PROVE  Holding(q)'
<1>1. \A p : OthersOld(q, p) /\ stage[q] \in UnderWay => OthersOld(q, p)'
  BY RowFacts, OldStays DEF OthersOld, Old
<1>2. Asking \subseteq UnderWay /\ Sending \subseteq UnderWay /\ "answered" \in UnderWay
  BY DEF Asking, Sending, UnderWay
<1>3. stage[q] \in Asking => pending[q].order \in Order
  BY DEF LogIInv, LogTypes, AsksOnce, Asking, Row
<1>4. earlier[q] \subseteq Order
  BY DEF GuardIInv
<1>5. ASSUME stage[q] \in Asking
      PROVE  /\ stage'[pending'[q].order] = "done" /\ outcome'[pending'[q].order] = "unknown"
             /\ TokenOf[pending'[q].order] = TokenOf[q]
             /\ pending'[q].at = unknownAt'[pending'[q].order]
             /\ OthersOld(q, pending[q].order)'
  BY <1>1, <1>2, <1>3, <1>5 DEF GuardIInv, Holding, DoneKept
<1>6. ASSUME stage[q] = "settling", verdict[q] = "failed" PROVE Gone(pending[q].order)'
  BY <1>3, <1>6 DEF GuardIInv, Holding, DoneKept, Asking
<1>7. ASSUME stage[q] \in Sending \/ (stage[q] = "answered" /\ outcome[q] = "unknown")
      PROVE  OthersOld(q, q)'
  BY <1>1, <1>2, <1>7 DEF GuardIInv, Holding
<1>8. ASSUME stage[q] \in Asking \cup Sending, NEW p \in earlier[q]
      PROVE  stage'[p] = "done" /\ (Settled(p)' \/ (stage[q] \in Asking /\ p = pending[q].order))
  BY <1>4, <1>8 DEF GuardIInv, Holding, DoneKept
<1> QED BY <1>5, <1>6, <1>7, <1>8 DEF Holding

\* While the log stands, its rows go on telling the truth.
LEMMA RowsStay ==
  ASSUME LogIInv, GuardIInv, DoneKept, clock \in Int, clock' \in Int, clock <= clock',
         tradeLog' = tradeLog
  PROVE  /\ \A r \in Rows' :
              /\ r.status = "unknown" => outcome'[r.order] = "unknown" /\ r.at = unknownAt'[r.order]
              /\ r.status # "unknown" /\ outcome'[r.order] = "unknown" => Settled(r.order)'
         /\ OneFreshRow'
<1>1. Rows' = Rows
  BY DEF Rows
<1>2. \A r \in Rows : r.order \in Order /\ r.at \in Int /\ stage[r.order] = "done"
  BY RowFacts
<1>3. ASSUME NEW r \in Rows
      PROVE  /\ r.status = "unknown" => outcome'[r.order] = "unknown" /\ r.at = unknownAt'[r.order]
             /\ r.status # "unknown" /\ outcome'[r.order] = "unknown" => Settled(r.order)'
  BY <1>2 DEF GuardIInv, RowsTrue, DoneKept
<1>4. \A r \in Rows : Old(r) => Old(r)'
  BY <1>2, OldStays DEF Old
<1>5. OneFreshRow'
  BY <1>1, <1>4 DEF GuardIInv, OneFreshRow
<1> QED BY <1>1, <1>3, <1>5

\* The order of a cancel being recorded is over.
LEMMA PopupStays ==
  ASSUME LogIInv, GuardIInv, DoneKept, popup'.order = popup.order
  PROVE  popup'.order \in Order /\ outcome'[popup'.order] = "unknown" => Settled(popup.order)'
BY DEF LogIInv, StatusKept, GuardIInv, RowsTrue, DoneKept

\* One call moves, or none; the log stands.
LEMMA GuardMove ==
  ASSUME LogIInv, GuardIInv, DoneKept, NEW o \in Order,
         clock \in Int, clock' = clock, tradeLog' = tradeLog, popup'.order = popup.order,
         lists' = lists, hit' = hit,
         \A q \in Order \ {o} :
           /\ stage'[q] = stage[q] /\ outcome'[q] = outcome[q] /\ pending'[q] = pending[q]
           /\ verdict'[q] = verdict[q] /\ earlier'[q] = earlier[q],
         earlier' \in [Order -> SUBSET Order],
         stage'[o] \in UnderWay => \/ stage[o] \in UnderWay
                                   \/ \A q \in Order \ {o} :
                                        TokenOf[q] = TokenOf[o] => stage[q] \notin UnderWay,
         Holding(o)'
  PROVE  GuardIInv'
<1>1. RowsTrue'
  <2>1. popup'.order \in Order /\ outcome'[popup'.order] = "unknown" => Settled(popup.order)'
    BY PopupStays
  <2> QED BY <2>1, RowsStay DEF RowsTrue
<1>2. OneFreshRow'
  BY RowsStay
<1>3. OneCallPerToken'
  BY DEF GuardIInv, OneCallPerToken
<1>4. Rows' = Rows
  BY DEF Rows
<1>5. \A q \in Order \ {o} : Holding(q)'
  BY <1>4, HoldingStays
<1>6. \A q \in Order : Holding(q)'
  BY <1>5
<1> QED BY <1>1, <1>2, <1>3, <1>6 DEF GuardIInv

\* Nothing relies on anything where a call is being checked, or was not unknown.
LEMMA NothingHeld ==
  ASSUME NEW o \in Order,
         \/ stage'[o] \in {"new", "guard", "done"}
         \/ stage'[o] = "answered" /\ outcome'[o] # "unknown"
  PROVE  Holding(o)'
BY DEF Holding, Asking, Sending, Submitting

LEMMA GuardAnswers ==
  ASSUME LogIInv, GuardIInv, DoneKept, NEW o \in Order, NEW what \in {"failed", "ok", "unconfirmed"},
         Answer(o, what), clock \in Int,
         \/ stage[o] \in UnderWay
         \/ \A q \in Order \ {o} : TokenOf[q] = TokenOf[o] => stage[q] \notin UnderWay,
         UNCHANGED <<clock, tradeLog, popup, lists, hit, pending, verdict, earlier>>
  PROVE  GuardIInv'
<1>1. /\ stage'[o] = "answered" /\ outcome'[o] = what
      /\ \A q \in Order \ {o} : stage'[q] = stage[q] /\ outcome'[q] = outcome[q]
  BY DEF Answer, LogIInv, LogTypes
<1>2. Holding(o)'
  BY <1>1, NothingHeld
<1> QED BY <1>1, <1>2, GuardMove DEF GuardIInv

LEMMA GuardBegins ==
  ASSUME HoldWorks, LogIInv, GuardIInv, DoneKept, NEW o \in Order, Begin(o), clock \in Int
  PROVE  GuardIInv'
<1>1. /\ UNCHANGED <<clock, tradeLog, popup, lists, hit, pending, verdict, earlier>>
      /\ \A q \in Order \ {o} : TokenOf[q] = TokenOf[o] => stage[q] \notin UnderWay
  BY DEF Begin, HoldWorks, UnderWay, Submitting
<1>2. CASE Answer(o, "failed")
  BY <1>1, <1>2, GuardAnswers
<1>3. CASE stage' = [stage EXCEPT ![o] = "guard"] /\ UNCHANGED <<outcome, unknownAt>>
  <2>1. /\ stage'[o] = "guard"
        /\ \A q \in Order \ {o} : stage'[q] = stage[q]
    BY <1>3 DEF LogIInv, LogTypes
  <2>2. Holding(o)'
    BY <2>1, NothingHeld
  <2> QED BY <1>1, <1>3, <2>1, <2>2, GuardMove DEF GuardIInv
<1> QED BY <1>2, <1>3 DEF Begin

\* What the user was told is unknown within a day is what the guard goes after,
\* unless its fate has been settled since.
LEMMA ReadFindsIt ==
  ASSUME LogIInv, GuardIInv, clock \in Int, NEW o \in Order, NEW p \in ReportedUnknown(o)
  PROVE  \/ Settled(p)
         \/ findPendingUnknown(o) # NoRow /\ p = findPendingUnknown(o).order
<1>1. /\ p \in Order /\ stage[p] = "done" /\ outcome[p] = "unknown"
      /\ TokenOf[p] = TokenOf[o] /\ clock - unknownAt[p] < MaxAge
  BY DEF ReportedUnknown
<1>2. PICK r \in Rows : r.order = p
  BY <1>1, RowFacts
<1>3. CASE r.status # "unknown"
  BY <1>1, <1>2, <1>3 DEF GuardIInv, RowsTrue
<1>4. CASE r.status = "unknown"
  <2>1. r.at = unknownAt[p]
    BY <1>2, <1>4 DEF GuardIInv, RowsTrue
  <2>2. IsPending(r, o)
    BY <1>1, <1>2, <1>4, <2>1 DEF IsPending
  <2>3. PICK f \in Rows : findPendingUnknown(o) # NoRow /\ findPendingUnknown(o) = f /\ IsPending(f, o)
    BY <2>2, FoundRow DEF Rows, LogIInv, LogTypes
  <2>4. f.order = p
    <3> SUFFICES ASSUME f.order # p PROVE FALSE
      OBVIOUS
    <3>1. Old(r) \/ Old(f)
      BY <1>2, <1>4, <2>2, <2>3 DEF GuardIInv, OneFreshRow, IsPending
    <3>2. r.at \in Int /\ f.at \in Int /\ MaxAge \in Nat
      BY RowFacts, HoldAssumption
    <3> QED BY <2>2, <2>3, <3>1, <3>2 DEF Old, IsPending
  <2> QED BY <2>3, <2>4
<1> QED BY <1>3, <1>4

LEMMA GuardReads ==
  ASSUME LogIInv, GuardIInv, DoneKept, NEW o \in Order, ReadLog(o), clock \in Int
  PROVE  GuardIInv'
<1> DEFINE row == findPendingUnknown(o)
<1>1. /\ stage[o] = "guard" /\ pending' = [pending EXCEPT ![o] = row]
      /\ stage' = [stage EXCEPT ![o] = IF row = NoRow THEN "signing" ELSE "search"]
      /\ earlier' = [earlier EXCEPT ![o] = ReportedUnknown(o)]
      /\ UNCHANGED <<clock, tradeLog, outcome, unknownAt, verdict, lists, hit, popup, told, wire, book>>
  BY DEF ReadLog, exchangeVars
<1>2. \A p \in ReportedUnknown(o) :
        p \in Order /\ stage[p] = "done" /\ (Settled(p) \/ (row # NoRow /\ p = row.order))
  BY ReadFindsIt DEF ReportedUnknown
<1>3. \/ row = NoRow /\ \A r \in Rows : ~IsPending(r, o)
      \/ row # NoRow /\ row \in Rows /\ IsPending(row, o)
  BY FoundRow DEF Rows, LogIInv, LogTypes
<1> HIDE DEF row
<1>4. /\ stage'[o] = IF row = NoRow THEN "signing" ELSE "search"
      /\ pending'[o] = row /\ earlier'[o] = ReportedUnknown(o)
      /\ \A q \in Order \ {o} :
           stage'[q] = stage[q] /\ pending'[q] = pending[q] /\ earlier'[q] = earlier[q]
      /\ earlier' \in [Order -> SUBSET Order]
  BY <1>1, <1>2 DEF LogIInv, LogTypes, GuardIInv
<1>5. \A p \in Order : stage[p] = "done" => stage'[p] = "done" /\ (Settled(p) => Settled(p)')
  BY DEF DoneKept
<1>6. MaxAge \in Nat /\ \A r \in Rows : r.at \in Int /\ r.order \in Order /\ stage[r.order] = "done"
  BY RowFacts, HoldAssumption
<1>7. \A q, p : OthersOld(q, p) => OthersOld(q, p)'
  BY <1>1 DEF OthersOld, Old, Rows
<1>8. Holding(o)'
  <2>1. CASE row = NoRow
    <3>1. OthersOld(o, o)
      BY <1>3, <1>6, <2>1 DEF OthersOld, Old, IsPending
    <3>2. \A p \in earlier'[o] : stage'[p] = "done" /\ Settled(p)'
      BY <1>2, <1>4, <1>5, <2>1
    <3> QED BY <1>4, <1>7, <2>1, <3>1, <3>2 DEF Holding, Asking
  <2>2. CASE row # NoRow
    <3>1. /\ row \in Rows /\ row.order \in Order /\ stage'[row.order] = "done"
          /\ row.status = "unknown" /\ TokenOf[row.order] = TokenOf[o] /\ ~Old(row)
      BY <1>3, <1>5, <1>6, <2>2 DEF IsPending, Old
    <3>2. outcome'[row.order] = "unknown" /\ row.at = unknownAt'[row.order]
      BY <1>1, <3>1 DEF GuardIInv, RowsTrue
    <3>3. OthersOld(o, row.order)
      BY <3>1 DEF OthersOld, GuardIInv, OneFreshRow
    <3>4. \A p \in earlier'[o] : stage'[p] = "done" /\ (Settled(p)' \/ p = row.order)
      BY <1>2, <1>4, <1>5
    <3> QED BY <1>4, <1>7, <2>2, <3>1, <3>2, <3>3, <3>4 DEF Holding, Asking, Sending, Submitting
  <2> QED BY <2>1, <2>2
<1>9. stage[o] \in UnderWay
  BY <1>1 DEF UnderWay
<1> QED BY <1>1, <1>4, <1>8, <1>9, GuardMove

\* A search that shows nothing, once the row has settled, has missed nothing: what
\* the exchange took of the order is dated within the window, and nothing is still
\* on its way.
LEMMA SearchTells ==
  ASSUME HoldWorks, LogIInv, TimeIInv, GuardIInv, NEW o \in Order, stage[o] = "search",
         ~Shows(o, Lists), clock - pending[o].at >= Settle
  PROVE  Gone(pending[o].order)
<1> DEFINE p == pending[o].order
<1>1. /\ outcome[p] = "unknown" /\ TokenOf[p] = TokenOf[o]
      /\ pending[o].at = unknownAt[p]
  BY DEF GuardIInv, Holding, Asking
<1>2. p \in Order
  BY DEF LogIInv, LogTypes, AsksOnce, Row
<1> HIDE DEF p
<1>3. /\ submittedAt[p] <= unknownAt[p] /\ unknownAt[p] <= submittedAt[p] + Latency
      /\ submittedAt[p] \in Int /\ unknownAt[p] \in Int /\ clock \in Int
      /\ createdAt[p] \in Int /\ tradedAt[p] \in Int
  BY <1>1, <1>2 DEF TimeIInv, TimeSound
<1>4. {Skew, Settle, Latency, Behind} \subseteq Int /\ Latency + Behind <= Skew /\ Latency < Settle
  BY HoldAssumption DEF HoldWorks
<1>5. ~wire[p]
  <2>1. wire[p] => clock <= submittedAt[p] + Latency
    BY <1>2 DEF TimeIInv, TimeSound
  <2> QED BY <1>1, <1>3, <1>4, <2>1
<1>6. ~OpenOrderShows(o) /\ ~TradeShows(o)
  BY DEF Shows, Lists
<1>7. SearchedSince(o) = unknownAt[p] /\ SearchedKind(o) = Kind(p)
  BY <1>1 DEF SearchedSince, SearchedKind, p
<1>8. book[p] # "resting"
  <2> SUFFICES ASSUME book[p] = "resting" PROVE FALSE
    OBVIOUS
  <2>1. createdAt[p] >= submittedAt[p] - Behind
    BY <1>2 DEF TimeIInv, TimeSound
  <2>2. createdAt[p] >= SearchedSince(o) - Skew
    BY <1>3, <1>4, <1>7, <2>1
  <2> QED BY <1>1, <1>2, <1>6, <1>7, <2>2 DEF OpenOrderShows
<1>9. book[p] # "filled"
  <2> SUFFICES ASSUME book[p] = "filled" PROVE FALSE
    OBVIOUS
  <2>1. tradedAt[p] >= submittedAt[p] - Behind
    BY <1>2 DEF TimeIInv, TimeSound
  <2>2. tradedAt[p] >= SearchedSince(o) - Skew
    BY <1>3, <1>4, <1>7, <2>1
  <2> QED BY <1>1, <1>2, <1>6, <2>2 DEF TradeShows
<1> QED BY <1>5, <1>8, <1>9 DEF Gone, Live, p

LEMMA GuardConcluded ==
  ASSUME HoldWorks, LogIInv, TimeIInv, GuardIInv, DoneKept, NEW o \in Order, stage[o] = "search",
         NEW found, GuardConcludes(o, found), found = "not_found" => ~Shows(o, Lists),
         UNCHANGED <<clock, tradeLog, popup, lists, hit, pending, earlier, wire, book>>
  PROVE  GuardIInv'
<1>1. clock \in Int /\ stage[o] \in UnderWay
  BY DEF TimeIInv, UnderWay
<1>2. CASE Answer(o, "unconfirmed") /\ UNCHANGED verdict
  BY <1>1, <1>2, GuardAnswers
<1>3. CASE ~(Answer(o, "unconfirmed") /\ UNCHANGED verdict)
  <2>1. PICK v \in {"placed", "failed"} :
          /\ verdict' = [verdict EXCEPT ![o] = v] /\ stage' = [stage EXCEPT ![o] = "settling"]
          /\ UNCHANGED <<outcome, unknownAt>>
          /\ v = "failed" => ~Shows(o, Lists) /\ clock - pending[o].at >= Settle
    BY <1>3 DEF GuardConcludes
  <2>2. /\ verdict'[o] = v /\ stage'[o] = "settling"
        /\ \A q \in Order \ {o} : verdict'[q] = verdict[q] /\ stage'[q] = stage[q]
    BY <2>1 DEF LogIInv, LogTypes
  <2>3. pending[o].order \in Order
    BY DEF LogIInv, LogTypes, AsksOnce, Row
  <2>4. v = "failed" => Gone(pending[o].order)
    BY <2>1, SearchTells
  <2>5. Holding(o)'
    <3>1. /\ stage[pending[o].order] = "done" /\ outcome[pending[o].order] = "unknown"
          /\ TokenOf[pending[o].order] = TokenOf[o]
          /\ pending[o].at = unknownAt[pending[o].order]
          /\ OthersOld(o, pending[o].order)
          /\ \A p \in earlier[o] : stage[p] = "done" /\ (Settled(p) \/ p = pending[o].order)
      BY DEF GuardIInv, Holding, Asking, Sending
    <3>2. earlier[o] \subseteq Order
      BY DEF GuardIInv
    <3>3. /\ stage'[pending[o].order] = "done"
          /\ \A p \in earlier[o] : stage'[p] = "done" /\ (Settled(p)' \/ p = pending[o].order)
      BY <2>3, <3>1, <3>2 DEF DoneKept
    <3>4. OthersOld(o, pending[o].order)'
      BY <3>1 DEF OthersOld, Old, Rows
    <3>5. v = "failed" => Gone(pending[o].order)'
      BY <2>3, <2>4, <3>1 DEF DoneKept
    <3> QED BY <2>1, <2>2, <3>1, <3>3, <3>4, <3>5 DEF Holding, Asking, Sending, Submitting
  <2> QED BY <1>1, <2>1, <2>2, <2>5, GuardMove DEF GuardIInv
<1> QED BY <1>2, <1>3

\* A call on its way to the exchange goes on, or reports that nobody knows.
LEMMA GuardSends ==
  ASSUME LogIInv, GuardIInv, DoneKept, NEW o \in Order, clock \in Int, stage[o] \in Sending,
         NEW next, next \in Submitting \/ next = "answered", stage' = [stage EXCEPT ![o] = next],
         \A q \in Order \ {o} : outcome'[q] = outcome[q],
         UNCHANGED <<clock, tradeLog, popup, lists, hit, pending, verdict, earlier>>
  PROVE  GuardIInv'
<1>1. stage'[o] = next /\ \A q \in Order \ {o} : stage'[q] = stage[q]
  BY DEF LogIInv, LogTypes
<1>2. OthersOld(o, o)' /\ earlier[o] \subseteq Order
  BY DEF GuardIInv, Holding, OthersOld, Old, Rows
<1>3. \A p \in earlier[o] : stage[p] = "done" /\ Settled(p)
  BY DEF GuardIInv, Holding, Asking, Sending, Submitting
<1>4. \A p \in earlier[o] : stage'[p] = "done" /\ Settled(p)'
  BY <1>2, <1>3 DEF DoneKept
<1>5. Holding(o)'
  BY <1>1, <1>2, <1>4 DEF Holding, Asking, Sending, Submitting
<1>6. stage[o] \in UnderWay
  BY DEF Sending, UnderWay
<1> QED BY <1>1, <1>5, <1>6, GuardMove DEF GuardIInv

LEMMA GuardSearches ==
  ASSUME HoldWorks, LogIInv, TimeIInv, GuardIInv, DoneKept, NEW o \in Order,
         SearchFails(o) \/ \E which \in SUBSET Lists : ListsRead(o, which)
  PROVE  GuardIInv'
<1>1. /\ Searching(o)
      /\ UNCHANGED <<clock, tradeLog, popup, pending, earlier, wire, book>>
  BY DEF SearchFails, ListsRead, exchangeVars
<1>2. lists[o] = {} /\ hit[o] = FALSE
  BY DEF GuardIInv
<1>3. PICK found : Concludes(o, found) /\ (found = "not_found" => ~Shows(o, Lists))
  <2>1. ASSUME NEW which \in SUBSET Lists, ListsRead(o, which)
        PROVE  Concludes(o, IF Shows(o, Lists) THEN "went_through" ELSE "not_found")
    BY <1>2, <2>1 DEF ListsRead, HoldWorks
  <2> QED BY <2>1 DEF SearchFails
<1>4. UNCHANGED <<lists, hit>>
  BY <1>3 DEF Concludes, GuardIInv
<1>5. clock \in Int
  BY DEF TimeIInv
<1>6. CASE stage[o] = "search"
  BY <1>1, <1>3, <1>4, <1>6, GuardConcluded DEF Concludes
<1>7. CASE stage[o] # "search"
  <2>1. stage[o] \in Sending /\ UNCHANGED verdict
    BY <1>1, <1>3, <1>7 DEF Searching, Sending, Submitting, Concludes, RecheckConcludes
  <2>2. stage' = [stage EXCEPT ![o] = "answered"] /\ \A q \in Order \ {o} : outcome'[q] = outcome[q]
    BY <1>3, <1>7 DEF Concludes, RecheckConcludes, Answer, LogIInv, LogTypes
  <2> QED BY <1>1, <1>4, <1>5, <2>1, <2>2, GuardSends
<1> QED BY <1>6, <1>7

LEMMA GuardSubmits ==
  ASSUME LogIInv, GuardIInv, DoneKept, NEW o \in Order, clock \in Int,
         SignFails(o) \/ SignAndSubmit(o) \/ SubmitResolves(o)
  PROVE  GuardIInv'
<1>1. /\ stage[o] \in Sending
      /\ UNCHANGED <<clock, tradeLog, popup, lists, hit, pending, verdict, earlier>>
  BY DEF SignFails, SignAndSubmit, SubmitResolves, Sending, Submitting
<1>2. \/ \E what \in {"failed", "ok"} : Answer(o, what)
      \/ UNCHANGED outcome /\ \E next \in Submitting : stage' = [stage EXCEPT ![o] = next]
  BY DEF SignFails, SignAndSubmit, SubmitResolves, Submitting
<1>3. CASE \E what \in {"failed", "ok"} : Answer(o, what)
  <2>1. PICK what \in {"failed", "ok"} : Answer(o, what)
    BY <1>3
  <2>2. stage' = [stage EXCEPT ![o] = "answered"] /\ \A q \in Order \ {o} : outcome'[q] = outcome[q]
    BY <2>1 DEF Answer, LogIInv, LogTypes
  <2> QED BY <1>1, <2>2, GuardSends
<1> QED BY <1>1, <1>2, <1>3, GuardSends

\* Reading the log to write it back tells a call nothing.
LEMMA GuardAside ==
  ASSUME LogIInv, GuardIInv, DoneKept, clock \in Int, clock' \in Int, clock <= clock',
         popup'.order = popup.order,
         UNCHANGED <<tradeLog, lists, hit, stage, outcome, pending, verdict, earlier>>
  PROVE  GuardIInv'
<1>1. popup'.order \in Order /\ outcome'[popup'.order] = "unknown" => Settled(popup.order)'
  BY PopupStays
<1>2. RowsTrue' /\ OneFreshRow'
  BY <1>1, RowsStay DEF RowsTrue
<1>3. OneCallPerToken'
  BY DEF GuardIInv, OneCallPerToken
<1>4. Rows' = Rows
  BY DEF Rows
<1>5. \A q \in Order : Holding(q)'
  BY <1>4, HoldingStays
<1> QED BY <1>2, <1>3, <1>5 DEF GuardIInv

\* A verdict over a row: the other rows stand, and the one it is about is settled.
LEMMA VerdictKeepsRows ==
  ASSUME LogIInv, GuardIInv, DoneKept, NEW p \in Order, NEW st \in Status \ {"unknown"},
         tradeLog' = SetStatus(tradeLog, p, st), clock \in Int, clock' = clock,
         stage[p] = "done", outcome[p] = "unknown" => Settled(p)'
  PROVE  /\ \A r \in Rows' :
              /\ r.status = "unknown" => outcome'[r.order] = "unknown" /\ r.at = unknownAt'[r.order]
              /\ r.status # "unknown" /\ outcome'[r.order] = "unknown" => Settled(r.order)'
         /\ \A r \in Rows' : r.status = "unknown" => r \in Rows /\ r.order # p
         /\ OneFreshRow'
<1>1. tradeLog \in Seq(Row) /\ \A i \in DOMAIN tradeLog : tradeLog[i] \in Row
  BY DEF LogIInv, LogTypes
<1>2. /\ DOMAIN tradeLog' = DOMAIN tradeLog
      /\ \A i \in DOMAIN tradeLog :
           IF tradeLog[i].order = p
           THEN tradeLog'[i].order = p /\ tradeLog'[i].status = st
           ELSE tradeLog'[i] = tradeLog[i]
  BY <1>1 DEF SetStatus, Row
<1>3. \A r \in Rows' : r \in Rows \/ (r.order = p /\ r.status = st)
  BY <1>2 DEF Rows
<1>4. \A r \in Rows' : r.status = "unknown" => r \in Rows /\ r.order # p
  <2>1. \A i \in DOMAIN tradeLog' :
          tradeLog'[i].status = "unknown" => tradeLog'[i] \in Rows /\ tradeLog'[i].order # p
    BY <1>2 DEF Rows
  <2> QED BY <2>1 DEF Rows
<1>5. ASSUME NEW r \in Rows'
      PROVE  /\ r.status = "unknown" => outcome'[r.order] = "unknown" /\ r.at = unknownAt'[r.order]
             /\ r.status # "unknown" /\ outcome'[r.order] = "unknown" => Settled(r.order)'
  <2>1. CASE r \in Rows
    <3>1. r.order \in Order /\ stage[r.order] = "done"
      BY <2>1, RowFacts
    <3> QED BY <2>1, <3>1 DEF GuardIInv, RowsTrue, DoneKept
  <2>2. CASE r.order = p /\ r.status = st
    <3>1. outcome'[p] = outcome[p] /\ st # "unknown"
      BY DEF DoneKept
    <3> QED BY <2>2, <3>1
  <2> QED BY <1>3, <2>1, <2>2
<1>6. OneFreshRow'
  <2>1. ASSUME NEW r \in Rows', NEW s \in Rows', r.status = "unknown", s.status = "unknown",
               r.order # s.order, TokenOf[r.order] = TokenOf[s.order]
        PROVE  Old(r) \/ Old(s)
    BY <1>4, <2>1 DEF GuardIInv, OneFreshRow
  <2> QED BY <2>1 DEF OneFreshRow, Old
<1> QED BY <1>4, <1>5, <1>6

LEMMA GuardSettles ==
  ASSUME HoldWorks, LogIInv, GuardIInv, DoneKept, NEW o \in Order, clock \in Int, SettleWrite(o)
  PROVE  GuardIInv'
<1>0. PICK p \in Order : p = pending[o].order
  BY DEF SettleWrite, LogIInv, LogTypes, AsksOnce, Row
<1>1. /\ stage[o] = "settling" /\ items[o] # NoItems
      /\ tradeLog' = SetStatus(items[o], p, verdict[o])
      /\ verdict' = [verdict EXCEPT ![o] = "none"]
      /\ UNCHANGED <<clock, pending, popup, lists, hit, earlier, wire, book>>
  BY <1>0 DEF SettleWrite, HoldWorks, LogKept, exchangeVars
<1>2. items[o] = tradeLog
  BY <1>1 DEF LogIInv, Snapshots
<1>3. verdict[o] \in {"placed", "failed"}
  BY <1>1 DEF LogIInv, AsksOnce
<1>4. /\ stage[p] = "done" /\ OthersOld(o, p)
      /\ verdict[o] = "failed" => Gone(p)
      /\ \A q \in earlier[o] : stage[q] = "done" /\ (Settled(q) \/ q = p)
  BY <1>0, <1>1 DEF GuardIInv, Holding, Asking, Sending
<1>5. verdict[o] = "placed" => p \in told'
  BY <1>0 DEF SettleWrite
<1>6. Settled(p)'
  <2>1. CASE verdict[o] = "placed"
    BY <1>5, <2>1 DEF Settled
  <2>2. CASE verdict[o] = "failed"
    <3>1. Gone(p)'
      BY <1>4, <2>2 DEF DoneKept
    <3> QED BY <3>1 DEF Settled
  <2> QED BY <1>3, <2>1, <2>2
<1>7. /\ \A r \in Rows' :
           /\ r.status = "unknown" => outcome'[r.order] = "unknown" /\ r.at = unknownAt'[r.order]
           /\ r.status # "unknown" /\ outcome'[r.order] = "unknown" => Settled(r.order)'
      /\ \A r \in Rows' : r.status = "unknown" => r \in Rows /\ r.order # p
      /\ OneFreshRow'
  BY <1>1, <1>2, <1>3, <1>4, <1>6, VerdictKeepsRows DEF Status
<1>8. RowsTrue'
  <2>1. popup'.order \in Order /\ outcome'[popup'.order] = "unknown" => Settled(popup.order)'
    BY <1>1, PopupStays
  <2> QED BY <1>1, <1>7, <2>1 DEF RowsTrue
<1>9. /\ \/ verdict[o] = "placed" /\ stage'[o] = "answered" /\ outcome'[o] = "wentThrough"
         \/ verdict[o] # "placed" /\ stage'[o] = "signing" /\ outcome'[o] = outcome[o]
      /\ \A q \in Order \ {o} : stage'[q] = stage[q] /\ outcome'[q] = outcome[q]
                                /\ verdict'[q] = verdict[q]
  BY <1>1 DEF SettleWrite, Answer, LogIInv, LogTypes
<1>10. OneCallPerToken'
  BY <1>1, <1>9 DEF GuardIInv, OneCallPerToken, UnderWay
<1>11. Holding(o)'
  <2>1. CASE stage'[o] = "answered"
    BY <1>9, <2>1, NothingHeld
  <2>2. CASE stage'[o] = "signing"
    <3>1. OthersOld(o, o)'
      BY <1>1, <1>4, <1>7 DEF OthersOld, Old
    <3>2. \A q \in earlier[o] : stage'[q] = "done" /\ Settled(q)'
      <4>1. earlier[o] \subseteq Order
        BY DEF GuardIInv
      <4> QED BY <1>4, <1>6, <4>1 DEF DoneKept
    <3> QED BY <1>1, <2>2, <3>1, <3>2 DEF Holding, Asking
  <2> QED BY <1>9, <2>1, <2>2
<1>12. \A q \in Order \ {o} : Holding(q)'
  BY <1>1, <1>7, <1>9, HoldingStays
<1>13. \A q \in Order : Holding(q)'
  BY <1>11, <1>12
<1> QED BY <1>1, <1>7, <1>8, <1>10, <1>13 DEF GuardIInv

LEMMA GuardMarks ==
  ASSUME HoldWorks, LogIInv, GuardIInv, DoneKept, clock \in Int, MarkWrite
  PROVE  GuardIInv'
<1>0. PICK p \in Order : p = popup.order
  BY DEF MarkWrite, LogIInv, Snapshots
<1>1. /\ popup.items # NoItems /\ popup' = NoCancel
      /\ tradeLog' = SetStatus(popup.items, p, "cancelled")
      /\ UNCHANGED <<clock, stage, outcome, pending, verdict, lists, hit, earlier>>
  BY <1>0 DEF MarkWrite, HoldWorks, LogKept, callVars
<1>2. popup.items = tradeLog
  BY <1>1 DEF LogIInv, Snapshots
<1>3. stage[p] = "done" /\ (outcome[p] = "unknown" => Settled(p)')
  BY <1>0 DEF LogIInv, StatusKept, GuardIInv, RowsTrue, DoneKept
<1>4. /\ \A r \in Rows' :
           /\ r.status = "unknown" => outcome'[r.order] = "unknown" /\ r.at = unknownAt'[r.order]
           /\ r.status # "unknown" /\ outcome'[r.order] = "unknown" => Settled(r.order)'
      /\ \A r \in Rows' : r.status = "unknown" => r \in Rows
      /\ OneFreshRow'
  BY <1>1, <1>2, <1>3, VerdictKeepsRows DEF Status
<1>5. RowsTrue'
  BY <1>1, <1>4, HoldAssumption DEF RowsTrue, NoCancel
<1>6. OneCallPerToken'
  BY <1>1 DEF GuardIInv, OneCallPerToken
<1>7. \A q \in Order : Holding(q)'
  BY <1>1, <1>4, HoldingStays
<1> QED BY <1>1, <1>4, <1>5, <1>6, <1>7 DEF GuardIInv

LEMMA GuardCancels ==
  ASSUME LogIInv, GuardIInv, DoneKept, clock \in Int, NEW o \in Order, CancelOrder(o)
  PROVE  GuardIInv'
<1>1. /\ popup = NoCancel /\ popup' \in {popup, [order |-> o, items |-> NoItems]}
      /\ UNCHANGED <<clock, tradeLog, stage, outcome, pending, verdict, lists, hit, earlier>>
  BY DEF CancelOrder, callVars
<1>2. PICK r \in Rows : r.order = o /\ r.status = "placed"
  BY DEF CancelOrder, Rows
<1>3. stage[o] = "done" /\ (outcome[o] = "unknown" => Settled(o)')
  BY <1>2, RowFacts DEF GuardIInv, RowsTrue, DoneKept
<1>4. RowsTrue'
  <2>1. popup'.order \in Order => popup'.order = o
    BY <1>1, HoldAssumption DEF NoCancel
  <2> QED BY <1>1, <1>3, <2>1, RowsStay DEF RowsTrue
<1>5. Rows' = Rows
  BY <1>1 DEF Rows
<1>6. OneCallPerToken' /\ OneFreshRow'
  BY <1>1, RowsStay DEF GuardIInv, OneCallPerToken
<1>7. \A q \in Order : Holding(q)'
  BY <1>1, <1>5, HoldingStays
<1> QED BY <1>1, <1>4, <1>6, <1>7 DEF GuardIInv

LEMMA GuardLogs ==
  ASSUME HoldWorks, LogIInv, TimeIInv, GuardIInv, DoneKept, NEW o \in Order, LogWrite(o)
  PROVE  GuardIInv'
<1> DEFINE row == NewRow(o)
<1>1. /\ stage[o] = "answered" /\ stage' = [stage EXCEPT ![o] = "done"]
      /\ UNCHANGED <<clock, outcome, unknownAt, pending, verdict, popup, lists, hit, earlier>>
  BY DEF LogWrite
<1>2. /\ row.order = o
      /\ row.status = "unknown" <=> outcome[o] = "unknown"
      /\ row.at = clock
  BY DEF NewRow, RowStatus
<1>3. Rows' = Rows \cup {row}
  <2> DEFINE n == Len(tradeLog)
  <2>1. /\ n \in Nat /\ DOMAIN tradeLog = 1..n /\ DOMAIN tradeLog' = 1..(n + 1)
        /\ tradeLog'[1] = row /\ \A i \in 1..n : tradeLog'[i + 1] = tradeLog[i]
    BY RowWritten DEF HoldWorks, LogIInv, LogTypes
  <2> HIDE DEF n, row
  <2>2. ASSUME NEW j \in 1..(n + 1) PROVE tradeLog'[j] \in Rows \cup {row}
    <3>1. j = 1 \/ (j - 1 \in 1..n /\ j = (j - 1) + 1)
      BY <2>1
    <3> QED BY <2>1, <3>1 DEF Rows
  <2>3. \A i \in 1..n : i + 1 \in 1..(n + 1)
    BY <2>1
  <2>4. 1 \in 1..(n + 1)
    BY <2>1
  <2>5. Rows' \subseteq Rows \cup {row}
    BY <2>1, <2>2 DEF Rows
  <2>6. \A i \in 1..n : tradeLog[i] \in Rows'
    BY <2>1, <2>3 DEF Rows
  <2>7. row \in Rows'
    BY <2>1, <2>4 DEF Rows
  <2> QED BY <2>1, <2>5, <2>6, <2>7 DEF Rows
<1> HIDE DEF row
<1>4. outcome[o] = "unknown" => unknownAt[o] = clock
  BY <1>1 DEF TimeIInv, TimeSound
<1>5. clock \in Int
  BY DEF TimeIInv
<1>6. stage'[o] = "done" /\ \A q \in Order \ {o} : stage'[q] = stage[q]
  BY <1>1 DEF LogIInv, LogTypes
<1>7. \A r \in Rows : r.order \in Order /\ stage[r.order] = "done"
  BY RowFacts
<1>8. RowsTrue'
  <2>1. ASSUME NEW r \in Rows'
        PROVE  /\ r.status = "unknown" => outcome'[r.order] = "unknown" /\ r.at = unknownAt'[r.order]
               /\ r.status # "unknown" /\ outcome'[r.order] = "unknown" => Settled(r.order)'
    <3>1. CASE r \in Rows
      BY <1>7, <3>1 DEF GuardIInv, RowsTrue, DoneKept
    <3>2. CASE r = row
      BY <1>1, <1>2, <1>4, <3>2
    <3> QED BY <1>3, <3>1, <3>2
  <2>2. popup'.order \in Order /\ outcome'[popup'.order] = "unknown" => Settled(popup.order)'
    BY <1>1, PopupStays
  <2> QED BY <1>1, <2>1, <2>2 DEF RowsTrue
<1>9. outcome[o] = "unknown" => OthersOld(o, o)
  BY <1>1 DEF GuardIInv, Holding
<1>10. OneFreshRow'
  <2>1. ASSUME NEW r \in Rows', NEW s \in Rows', r.status = "unknown", s.status = "unknown",
               r.order # s.order, TokenOf[r.order] = TokenOf[s.order]
        PROVE  Old(r) \/ Old(s)
    <3>1. CASE r \in Rows /\ s \in Rows
      BY <2>1, <3>1 DEF GuardIInv, OneFreshRow
    <3>2. CASE r = row /\ s \in Rows
      BY <1>2, <1>9, <2>1, <3>2 DEF OthersOld
    <3>3. CASE r \in Rows /\ s = row
      BY <1>2, <1>9, <2>1, <3>3 DEF OthersOld
    <3> QED BY <1>3, <2>1, <3>1, <3>2, <3>3
  <2> QED BY <1>1, <2>1 DEF OneFreshRow, Old
<1>11. stage[o] \in UnderWay
  BY <1>1 DEF UnderWay
<1>12. OneCallPerToken'
  BY <1>6, <1>11 DEF GuardIInv, OneCallPerToken
<1>13. ASSUME NEW q \in Order \ {o} PROVE Holding(q)'
  <2>1. stage[q] \in UnderWay => TokenOf[q] # TokenOf[o]
    BY <1>11 DEF GuardIInv, OneCallPerToken
  <2>2. stage[q] \in UnderWay => \A r \in Rows' :
          r.status = "unknown" /\ TokenOf[r.order] = TokenOf[q] => r \in Rows
    BY <1>2, <1>3, <2>1
  <2> QED BY <1>1, <1>5, <1>6, <2>2, HoldingStays
<1>14. Holding(o)'
  BY <1>6, NothingHeld
<1>15. \A q \in Order : Holding(q)'
  BY <1>13, <1>14
<1> QED BY <1>1, <1>8, <1>10, <1>12, <1>15 DEF GuardIInv

LEMMA GuardStep ==
  ASSUME HoldWorks, HoldIInv, LogIInv, TimeIInv, GuardIInv, [HoldNext]_vars
  PROVE  GuardIInv'
<1>0. DoneKept /\ clock \in Int /\ LogKept
  BY DoneStays DEF TimeIInv, HoldWorks
<1>1. ASSUME NEW o \in Order, CallStep(o) PROVE GuardIInv'
  <2>1. CASE SettleRead(o) \/ LogRead(o)
    <3>1. UNCHANGED <<clock, tradeLog, popup, lists, hit, stage, outcome, pending, verdict, earlier>>
      BY <2>1 DEF SettleRead, LogRead
    <3> QED BY <1>0, <3>1, GuardAside
  <2> QED BY <1>0, <1>1, <2>1, GuardBegins, GuardReads, GuardSearches, GuardSettles, GuardSubmits,
             GuardLogs DEF CallStep
<1>2. CASE \E o \in Order : CancelOrder(o)
  BY <1>0, <1>2, GuardCancels
<1>3. CASE MarkRead
  <2>1. UNCHANGED <<clock, tradeLog, lists, hit, stage, outcome, pending, verdict, earlier>>
    BY <1>3 DEF MarkRead, callVars
  <2>2. popup'.order = popup.order
    BY <1>3 DEF MarkRead, LogIInv, LogTypes
  <2> QED BY <1>0, <2>1, <2>2, GuardAside
<1>4. CASE MarkWrite
  BY <1>0, <1>4, GuardMarks
<1>5. CASE Tick
  <2>1. UNCHANGED <<tradeLog, popup, lists, hit, stage, outcome, pending, verdict, earlier>>
    BY <1>5 DEF Tick, callVars
  <2>2. clock' \in Int /\ clock <= clock'
    BY <1>0, <1>5 DEF Tick
  <2> QED BY <1>0, <2>1, <2>2, GuardAside
<1>6. CASE UNCHANGED vars \/ \E o \in Order : ExchangeStep(o)
  <2>1. UNCHANGED <<clock, tradeLog, popup, lists, hit, stage, outcome, pending, verdict, earlier>>
    BY <1>6 DEF ExchangeStep, Accepts, Refuses, AnswerLost, PostLost, Fills, vars, callVars
  <2> QED BY <1>0, <2>1, GuardAside
<1>7. ~ClearTradeLog /\ ~DocumentDies
  BY <1>0 DEF ClearTradeLog, DocumentDies, LogKept, LogIInv, LogTypes
<1> QED BY <1>1, <1>2, <1>3, <1>4, <1>5, <1>6, <1>7 DEF HoldNext, PopupStep

LEMMA GuardInvariant == HoldWorks => (HoldSpec => []GuardIInv)
<1> SUFFICES ASSUME HoldWorks PROVE HoldSpec => []GuardIInv
  OBVIOUS
<1>1. HoldInit => GuardIInv
  <2> SUFFICES ASSUME HoldInit PROVE GuardIInv
    OBVIOUS
  <2>1. Rows = {}
    BY DEF HoldInit, Rows
  <2>2. RowsTrue /\ OneFreshRow
    BY <2>1, HoldAssumption DEF HoldInit, RowsTrue, OneFreshRow, NoCancel
  <2>3. OneCallPerToken /\ \A o \in Order : Holding(o)
    BY DEF HoldInit, OneCallPerToken, Holding, UnderWay, Submitting, Asking, Sending
  <2> QED BY <2>2, <2>3 DEF HoldInit, GuardIInv
<1>2. HoldIInv /\ LogIInv /\ TimeIInv /\ GuardIInv /\ [HoldNext]_vars => GuardIInv'
  BY GuardStep
<1>3. HoldSpec => []LogIInv
  BY LogInvariant DEF HoldWorks
<1> QED BY <1>1, <1>2, <1>3, HoldInvariant, TimesFit, PTL DEF HoldSpec

\* "Order failed? Try again" never becomes two orders: under the conditions the
\* protection rests on, an order that has passed the guard follows none of unknown
\* fate on its token, reported within the day, that is at the exchange or on its
\* way there, unless the user was told it went through (guardUnconfirmedOrder).
THEOREM NoSecondOrder == HoldWorks => (HoldSpec => []NoDoubleOrder)
<1>1. GuardIInv => NoDoubleOrder
  BY DEF GuardIInv, Holding, NoDoubleOrder, Asking, Sending, Submitting, Settled, Gone
<1> QED BY <1>1, GuardInvariant, PTL

=============================================================================
