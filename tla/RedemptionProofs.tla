-------------------------- MODULE RedemptionProofs --------------------------
(***************************************************************************)
(* For any number of attempts of the panel and of the agent, any holdings  *)
(* and any number of faults and closed popups: what is reported of a       *)
(* redeem is true of the chain (RedemptionIInv), its row of the trade log  *)
(* is lost only in the ways the log is known to lose one (JournalIInv),    *)
(* and no call asks for more than the Safe holds, unless another took it   *)
(* meanwhile (DrawIInv).                                                   *)
(***************************************************************************)
EXTENDS Redemption, SumTheorems

-----------------------------------------------------------------------------
(* The inductive invariant.                                                *)

\* The records keep their fields.
Shape ==
  /\ DOMAIN att = Attempt /\ DOMAIN tx = Attempt
  /\ DOMAIN panel = {"open", "shown", "redeeming"}
  /\ \A a \in Attempt :
       /\ DOMAIN att[a] = {"at", "cond", "page", "rows", "call", "acked", "answer"}
       /\ DOMAIN att[a].call = {"state", "amounts"}
       /\ DOMAIN tx[a] = {"state", "amounts"}

\* Before the relayer has a transaction of an attempt nothing is acknowledged
\* or answered; while the wait goes on it is acknowledged and not answered.
Unsent == {"idle", "read", "build", "sign", "post"}
InOrder(a) ==
  /\ att[a].at \in Unsent \cup {"wait", "check", "done", "gone"}
  /\ att[a].at \in Unsent => tx[a].state = "none" /\ att[a].acked = FALSE
  /\ att[a].at \in {"wait", "check"} => tx[a].state # "none" /\ att[a].acked = TRUE
  /\ att[a].at # "done" => att[a].answer = "none"

AnswerIsTrue(a) ==
  /\ att[a].answer = "ok" => tx[a].state = "mined"
  /\ att[a].answer = "relayer_state" => Dead(a)

\* The panel waits for an attempt that has begun and has not answered.
PanelWaits(a) == panel.redeeming = a => att[a].at \notin {"idle", "done"}

AttemptSound(a) ==
  /\ InOrder(a)
  /\ AnswerIsTrue(a)
  /\ a \in Click => PanelWaits(a)

RedemptionIInv == Shape /\ \A a \in Attempt : AttemptSound(a)

-----------------------------------------------------------------------------
(* The steps.                                                              *)

\* An attempt nothing happens to stays sound, and the panel turns to another
\* attempt at most.
LEMMA Untouched ==
  ASSUME RedemptionIInv, NEW a \in Attempt, att'[a] = att[a], tx'[a] = tx[a],
         panel'.redeeming = a => panel.redeeming = a
  PROVE  AttemptSound(a)'
BY DEF RedemptionIInv, AttemptSound, InOrder, AnswerIsTrue, PanelWaits, Dead

\* A step on the way to the end.
LEMMA WayOn ==
  ASSUME RedemptionIInv, NEW a \in Attempt,
         DOMAIN att' = Attempt, \A b \in Attempt \ {a} : att'[b] = att[b],
         DOMAIN att'[a] = {"at", "cond", "page", "rows", "call", "acked", "answer"},
         DOMAIN att'[a].call = {"state", "amounts"},
         att[a].at \in {"idle", "read", "build", "sign", "wait"},
         att'[a].at \in {"read", "build", "sign", "post", "check"},
         att'[a].acked = att[a].acked, att'[a].answer = "none",
         att'[a].at = "check" <=> att[a].at = "wait",
         UNCHANGED tx,
         panel' = panel \/ panel' = [panel EXCEPT !.redeeming = a]
  PROVE  RedemptionIInv'
<1>1. Shape'
  BY DEF RedemptionIInv, Shape
<1>2. \A b \in Attempt \ {a} : panel'.redeeming = b => panel.redeeming = b
  BY DEF RedemptionIInv, Shape
<1>3. \A b \in Attempt \ {a} : AttemptSound(b)'
  BY <1>2, Untouched
<1>4. AttemptSound(a)'
  BY DEF RedemptionIInv, AttemptSound, InOrder, AnswerIsTrue, PanelWaits, Unsent
<1> QED BY <1>1, <1>3, <1>4 DEF RedemptionIInv

\* The end of an attempt: its answer must be true of the transaction.
LEMMA EndKeeps ==
  ASSUME RedemptionIInv, NEW a \in Attempt, NEW answer, End(a, answer),
         DOMAIN tx' = Attempt, DOMAIN tx'[a] = {"state", "amounts"},
         \A b \in Attempt \ {a} : tx'[b] = tx[b],
         answer = "ok" => tx'[a].state = "mined",
         answer = "relayer_state" => tx'[a].state \in {"overdrawn", "failed"}
  PROVE  RedemptionIInv'
<1>1. /\ DOMAIN att' = Attempt /\ \A b \in Attempt \ {a} : att'[b] = att[b]
      /\ att'[a].at = "done" /\ att'[a].answer = answer /\ att'[a].acked = att[a].acked
      /\ DOMAIN att'[a] = {"at", "cond", "page", "rows", "call", "acked", "answer"}
      /\ DOMAIN att'[a].call = {"state", "amounts"}
  BY DEF End, Idle, NoTx, RedemptionIInv, Shape
<1>3. /\ DOMAIN panel' = {"open", "shown", "redeeming"}
      /\ panel'.redeeming # a \/ a = "none"
      /\ \A b \in Attempt : panel'.redeeming = b => panel.redeeming = b \/ b = "none"
  BY DEF End, RedemptionIInv, Shape
<1>4. "none" \notin Attempt
  BY RedemptionAssumption
<1>5. Shape'
  BY <1>1, <1>3 DEF RedemptionIInv, Shape
<1>6. \A b \in Attempt \ {a} : AttemptSound(b)'
  BY <1>1, <1>3, <1>4, Untouched
<1>7. InOrder(a)' /\ AnswerIsTrue(a)' /\ PanelWaits(a)'
  BY <1>1, <1>3, <1>4 DEF InOrder, AnswerIsTrue, PanelWaits, Dead, Unsent
<1> QED BY <1>5, <1>6, <1>7 DEF RedemptionIInv, AttemptSound

\* A step that leaves the attempts and what is known of them alone.
LEMMA Aside ==
  ASSUME RedemptionIInv, UNCHANGED <<tx, att>>,
         DOMAIN panel' = {"open", "shown", "redeeming"},
         panel'.redeeming \in {panel.redeeming, "none"}
  PROVE  RedemptionIInv'
<1>1. \A a \in Attempt : panel'.redeeming = a => panel.redeeming = a
  BY RedemptionAssumption
<1>2. \A a \in Attempt : AttemptSound(a)'
  BY <1>1, Untouched
<1> QED BY <1>2 DEF RedemptionIInv, Shape

\* The steps of the log alone.
JournalStep ==
  \/ ClearLog
  \/ \E w \in Writer : LogReads(w) \/ LogLands(w) \/ LogFails(w)
  \/ \E w \in Order : OrderReads(w)

LEMMA JournalOnly ==
  ASSUME JournalStep
  PROVE  UNCHANGED <<outside, tx, att, panel>>
BY DEF JournalStep, ClearLog, LogReads, LogLands, LogFails, OrderReads

LEMMA PanelKeeps ==
  ASSUME RedemptionIInv,
         ListAnew \/ Refresh \/ ClosePopup \/ JournalStep \/ \E a \in Click : PanelGivesUp(a)
  PROVE  RedemptionIInv'
<1>1. UNCHANGED <<tx, att>>
  BY JournalOnly DEF ListAnew, Refresh, ClosePopup, PanelGivesUp
<1>2. /\ DOMAIN panel' = {"open", "shown", "redeeming"}
      /\ panel'.redeeming \in {panel.redeeming, "none"}
  <2>1. CASE ListAnew \/ JournalStep
    BY <2>1, JournalOnly DEF ListAnew, RedemptionIInv, Shape
  <2>2. CASE Refresh
    BY <2>2 DEF Refresh, RedemptionIInv, Shape
  <2>3. CASE ClosePopup
    BY <2>3 DEF ClosePopup, Closed
  <2>4. CASE \E a \in Click : PanelGivesUp(a)
    BY <2>4 DEF PanelGivesUp, RedemptionIInv, Shape
  <2> QED BY <2>1, <2>2, <2>3, <2>4
<1> QED BY <1>1, <1>2, Aside

\* The offscreen document goes: its attempts are gone, unanswered.
LEMMA TeardownKeeps ==
  ASSUME RedemptionIInv, Teardown
  PROVE  RedemptionIInv'
<1> DEFINE lost == {a \in Click : att[a].at \notin {"idle", "done", "gone"}}
<1>1. /\ UNCHANGED <<tx, panel>>
      /\ att' = [a \in Attempt |->
                   IF a \in lost THEN [Idle EXCEPT !.at = "gone", !.cond = att[a].cond] ELSE att[a]]
  BY DEF Teardown
<1>2. ASSUME NEW a \in Attempt, a \in lost
      PROVE  /\ att'[a].at = "gone" /\ att'[a].answer = "none"
             /\ DOMAIN att'[a] = {"at", "cond", "page", "rows", "call", "acked", "answer"}
             /\ DOMAIN att'[a].call = {"state", "amounts"}
  BY <1>1, <1>2 DEF Idle, NoTx
<1>3. Shape'
  <2>1. ASSUME NEW a \in Attempt
        PROVE  /\ DOMAIN att'[a] = {"at", "cond", "page", "rows", "call", "acked", "answer"}
               /\ DOMAIN att'[a].call = {"state", "amounts"}
    BY <1>1, <1>2 DEF RedemptionIInv, Shape
  <2> QED BY <1>1, <2>1 DEF RedemptionIInv, Shape
<1>4. \A a \in Attempt : AttemptSound(a)'
  <2> SUFFICES ASSUME NEW a \in Attempt PROVE AttemptSound(a)'
    OBVIOUS
  <2>1. CASE a \in lost
    BY <1>2, <2>1 DEF AttemptSound, InOrder, AnswerIsTrue, PanelWaits, Unsent
  <2>2. CASE a \notin lost
    BY <1>1, <2>2, Untouched
  <2> QED BY <2>1, <2>2
<1> QED BY <1>3, <1>4 DEF RedemptionIInv

LEMMA BeginKeeps ==
  ASSUME RedemptionIInv, NEW a \in Attempt, OnRedeem(a) \/ AskRedeem(a)
  PROVE  RedemptionIInv'
<1>1. PICK c : /\ att[a].at = "idle"
               /\ att' = [att EXCEPT ![a] = [Idle EXCEPT !.at = "read", !.cond = c]]
  BY DEF OnRedeem, AskRedeem
<1>2. att[a].acked = FALSE
  BY <1>1 DEF RedemptionIInv, AttemptSound, InOrder, Unsent
<1>3. /\ DOMAIN att' = Attempt /\ \A b \in Attempt \ {a} : att'[b] = att[b]
      /\ DOMAIN att'[a] = {"at", "cond", "page", "rows", "call", "acked", "answer"}
      /\ DOMAIN att'[a].call = {"state", "amounts"}
      /\ att'[a].at = "read" /\ att'[a].acked = att[a].acked /\ att'[a].answer = "none"
  BY <1>1, <1>2 DEF RedemptionIInv, Shape, Idle, NoTx
<1>4. UNCHANGED tx /\ (panel' = panel \/ panel' = [panel EXCEPT !.redeeming = a])
  BY DEF OnRedeem, AskRedeem
<1> QED BY <1>1, <1>3, <1>4, WayOn

\* The record of an attempt that goes on keeps its shape and what is known.
LEMMA PageReadKeeps ==
  ASSUME RedemptionIInv, NEW a \in Attempt, PageRead(a)
  PROVE  RedemptionIInv'
<1>1. att[a].at = "read" /\ UNCHANGED <<tx, panel>>
  BY DEF PageRead
<1>2. att[a].answer = "none"
  BY <1>1 DEF RedemptionIInv, AttemptSound, InOrder
<1>3. /\ DOMAIN att' = Attempt /\ \A b \in Attempt \ {a} : att'[b] = att[b]
      /\ DOMAIN att'[a] = {"at", "cond", "page", "rows", "call", "acked", "answer"}
      /\ DOMAIN att'[a].call = {"state", "amounts"}
      /\ att'[a].at \in {"read", "build"} /\ att'[a].acked = att[a].acked
      /\ att'[a].answer = "none"
  <2>1. CASE HasMore(a)
    BY <1>1, <1>2, <2>1 DEF PageRead, RedemptionIInv, Shape
  <2>2. CASE ~HasMore(a)
    BY <1>1, <1>2, <2>2 DEF PageRead, RedemptionIInv, Shape
  <2> QED BY <2>1, <2>2
<1> QED BY <1>1, <1>3, WayOn

LEMMA BuildKeeps ==
  ASSUME RedemptionIInv, NEW a \in Attempt, Build(a)
  PROVE  RedemptionIInv'
<1>1. att[a].at = "build" /\ UNCHANGED tx
  BY DEF Build
<1>2. att[a].answer = "none" /\ att[a].acked = FALSE
  BY <1>1 DEF RedemptionIInv, AttemptSound, InOrder, Unsent
<1>3. CASE Refusal(a) # "none" /\ End(a, Refusal(a))
  <2>1. Refusal(a) \in {"not_found", "not_yet", "nothing", "build_failed", "none"}
    BY DEF Refusal
  <2>2. DOMAIN tx' = Attempt /\ DOMAIN tx'[a] = {"state", "amounts"}
    BY <1>1 DEF RedemptionIInv, Shape
  <2>3. PICK answer : answer = Refusal(a)
    OBVIOUS
  <2> QED BY <1>1, <1>2, <1>3, <2>1, <2>2, <2>3, EndKeeps
<1>4. CASE Refusal(a) = "none"
  <2>1. UNCHANGED <<tx, panel>>
    BY <1>4 DEF Build
  <2>2. DOMAIN Encoded(att[a].cond, att[a].rows) = {"state", "amounts"}
    BY DEF Encoded
  <2>3. /\ DOMAIN att' = Attempt /\ \A b \in Attempt \ {a} : att'[b] = att[b]
        /\ DOMAIN att'[a] = {"at", "cond", "page", "rows", "call", "acked", "answer"}
        /\ DOMAIN att'[a].call = {"state", "amounts"}
        /\ att'[a].at \in {"sign", "post"} /\ att'[a].acked = att[a].acked
        /\ att'[a].answer = "none"
    BY <1>2, <1>4, <2>2 DEF Build, RedemptionIInv, Shape
  <2> QED BY <1>1, <2>1, <2>3, WayOn
<1> QED BY <1>3, <1>4 DEF Build

LEMMA GoesOn ==
  ASSUME RedemptionIInv, NEW a \in Attempt, Sign(a) \/ Undefined(a)
  PROVE  RedemptionIInv'
<1> DEFINE place == IF att[a].at = "sign" THEN "post" ELSE "check"
<1>1. UNCHANGED <<tx, panel>> /\ att[a].at \in {"sign", "wait"}
  BY DEF Sign, Undefined
<1>2. att[a].answer = "none"
  BY <1>1 DEF RedemptionIInv, AttemptSound, InOrder
<1>3. /\ DOMAIN att' = Attempt /\ \A b \in Attempt \ {a} : att'[b] = att[b]
      /\ DOMAIN att'[a] = {"at", "cond", "page", "rows", "call", "acked", "answer"}
      /\ DOMAIN att'[a].call = {"state", "amounts"}
      /\ att'[a].at = place /\ att'[a].acked = att[a].acked /\ att'[a].answer = "none"
  BY <1>2 DEF Sign, Undefined, RedemptionIInv, Shape
<1> QED BY <1>1, <1>3, WayOn

\* Ends before the relayer had anything, and the ends of the wait.
LEMMA EndsKeep ==
  ASSUME RedemptionIInv, NEW a \in Attempt,
         ReadFails(a) \/ Refused(a) \/ Mined(a) \/ WaitTimeout(a) \/ PollFails(a) \/ Check(a)
  PROVE  RedemptionIInv'
<1>1. UNCHANGED tx
  BY DEF ReadFails, Refused, Mined, WaitTimeout, PollFails, Check
<1>2. DOMAIN tx' = Attempt /\ DOMAIN tx'[a] = {"state", "amounts"}
  BY <1>1 DEF RedemptionIInv, Shape
<1>3. att[a].at \in Unsent => ~att[a].acked
  BY DEF RedemptionIInv, AttemptSound, InOrder
<1>4. CASE ReadFails(a)
  BY <1>1, <1>2, <1>3, <1>4, EndKeeps DEF ReadFails, Unsent
<1>5. CASE Refused(a)
  BY <1>1, <1>2, <1>3, <1>5, EndKeeps DEF Refused, Unsent
<1>6. CASE Mined(a)
  BY <1>1, <1>2, <1>6, EndKeeps DEF Mined
<1>7. CASE WaitTimeout(a)
  BY <1>1, <1>2, <1>7, EndKeeps DEF WaitTimeout
<1>8. CASE PollFails(a)
  BY <1>1, <1>2, <1>8, EndKeeps DEF PollFails
<1>9. CASE Check(a)
  <2>1. CASE Dead(a)
    BY <1>1, <1>2, <1>9, <2>1, EndKeeps DEF Check, Dead
  <2>2. CASE ~Dead(a)
    BY <1>1, <1>2, <1>9, <2>2, EndKeeps DEF Check
  <2> QED BY <2>1, <2>2
<1> QED BY <1>4, <1>5, <1>6, <1>7, <1>8, <1>9

\* The relayer has the transaction: acknowledged, or its answer lost.
LEMMA PostKeeps ==
  ASSUME RedemptionIInv, NEW a \in Attempt, Accepted(a) \/ AnswerLost(a)
  PROVE  RedemptionIInv'
<1>1. /\ att[a].at = "post"
      /\ tx' = [tx EXCEPT ![a] = [att[a].call EXCEPT !.state = "new"]]
  BY DEF Accepted, AnswerLost
<1>2. /\ DOMAIN tx' = Attempt /\ DOMAIN tx'[a] = {"state", "amounts"}
      /\ tx'[a].state = "new" /\ \A b \in Attempt \ {a} : tx'[b] = tx[b]
  BY <1>1 DEF RedemptionIInv, Shape
<1>3. att[a].acked = FALSE /\ att[a].answer = "none"
  BY <1>1 DEF RedemptionIInv, AttemptSound, InOrder, Unsent
<1>4. CASE AnswerLost(a)
  BY <1>2, <1>3, <1>4, EndKeeps DEF AnswerLost
<1>5. CASE Accepted(a)
  <2>1. UNCHANGED panel
    BY <1>5 DEF Accepted
  <2>2. /\ DOMAIN att' = Attempt /\ \A b \in Attempt \ {a} : att'[b] = att[b]
        /\ att'[a].at = "wait" /\ att'[a].acked = TRUE /\ att'[a].answer = "none"
        /\ DOMAIN att'[a] = {"at", "cond", "page", "rows", "call", "acked", "answer"}
        /\ DOMAIN att'[a].call = {"state", "amounts"}
    BY <1>3, <1>5 DEF Accepted, RedemptionIInv, Shape
  <2>3. Shape'
    BY <1>2, <2>1, <2>2 DEF RedemptionIInv, Shape
  <2>4. \A b \in Attempt \ {a} : AttemptSound(b)'
    BY <1>2, <2>1, <2>2, Untouched
  <2>5. AttemptSound(a)'
    BY <1>2, <2>2 DEF AttemptSound, InOrder, AnswerIsTrue, PanelWaits, Unsent
  <2> QED BY <2>3, <2>4, <2>5 DEF RedemptionIInv
<1> QED BY <1>4, <1>5

\* The chain settles a transaction once: what is known of it stays true.
LEMMA ChainKeeps ==
  ASSUME RedemptionIInv, NEW a \in Attempt, Mine(a) \/ Revert(a)
  PROVE  RedemptionIInv'
<1>1. PICK state \in {"mined", "overdrawn", "failed"} : tx' = [tx EXCEPT ![a].state = state]
  BY DEF Mine, Revert
<1>2. tx[a].state = "new" /\ UNCHANGED <<att, panel>>
  BY DEF Mine, Revert
<1>3. /\ DOMAIN tx' = Attempt /\ DOMAIN tx'[a] = {"state", "amounts"}
      /\ tx'[a].state = state /\ \A b \in Attempt \ {a} : tx'[b] = tx[b]
  BY <1>1 DEF RedemptionIInv, Shape
<1>4. Shape'
  BY <1>2, <1>3 DEF RedemptionIInv, Shape
<1>5. \A b \in Attempt \ {a} : AttemptSound(b)'
  BY <1>2, <1>3, Untouched
<1>6. AttemptSound(a)'
  BY <1>2, <1>3 DEF RedemptionIInv, AttemptSound, InOrder, AnswerIsTrue, PanelWaits, Dead
<1> QED BY <1>4, <1>5, <1>6 DEF RedemptionIInv

-----------------------------------------------------------------------------
(* The theorems.                                                           *)

LEMMA InitSound == RedemptionInit => RedemptionIInv
BY RedemptionAssumption
   DEF RedemptionInit, RedemptionIInv, Shape, AttemptSound, InOrder, AnswerIsTrue, PanelWaits, Idle, NoTx, Closed, Unsent

\* The inductive invariant: the fields of an attempt, its transaction and the
\* panel fit together, whatever overlaps, fails or closes.
THEOREM RedemptionInvariant == RedemptionSpec => []RedemptionIInv
<1>1. RedemptionIInv /\ [RedemptionNext]_vars => RedemptionIInv'
  <2> SUFFICES ASSUME RedemptionIInv, [RedemptionNext]_vars PROVE RedemptionIInv'
    OBVIOUS
  <2>1. CASE UNCHANGED vars
    BY <2>1, Aside DEF vars, RedemptionIInv, Shape
  <2>2. CASE ListAnew \/ Refresh \/ ClosePopup \/ JournalStep \/ \E a \in Click : PanelGivesUp(a)
    BY <2>2, PanelKeeps
  <2>3. CASE Teardown
    BY <2>3, TeardownKeeps
  <2>4. ASSUME NEW a \in Click, OnRedeem(a) PROVE RedemptionIInv'
    BY <2>4, BeginKeeps DEF Attempt
  <2>5. ASSUME NEW a \in Ask, AskRedeem(a) PROVE RedemptionIInv'
    BY <2>5, BeginKeeps DEF Attempt
  <2>6. ASSUME NEW a \in Attempt, Attempted(a) PROVE RedemptionIInv'
    <3>1. CASE PageRead(a)
      BY <3>1, PageReadKeeps
    <3>2. CASE Build(a)
      BY <3>2, BuildKeeps
    <3>3. CASE Sign(a) \/ Undefined(a)
      BY <3>3, GoesOn
    <3>4. CASE \/ ReadFails(a) \/ Refused(a) \/ Mined(a) \/ WaitTimeout(a) \/ PollFails(a)
               \/ Check(a)
      BY <3>4, EndsKeep
    <3>5. CASE Accepted(a) \/ AnswerLost(a)
      BY <3>5, PostKeeps
    <3> QED BY <2>6, <3>1, <3>2, <3>3, <3>4, <3>5 DEF Attempted
  <2>7. ASSUME NEW a \in Attempt, Mine(a) \/ Revert(a) PROVE RedemptionIInv'
    BY <2>7, ChainKeeps
  <2> QED BY <2>1, <2>2, <2>3, <2>4, <2>5, <2>6, <2>7 DEF RedemptionNext, JournalStep
<1> QED BY InitSound, <1>1, PTL DEF RedemptionSpec

\* A redeem is called done only when its transaction was mined, and failed on
\* the chain only when it failed there.
THEOREM VerdictsHold == RedemptionSpec => []VerdictIsTrue
<1>1. RedemptionIInv => VerdictIsTrue
  BY DEF RedemptionIInv, AttemptSound, AnswerIsTrue, VerdictIsTrue
<1> QED BY RedemptionInvariant, <1>1, PTL

-----------------------------------------------------------------------------
(* The trade log.                                                          *)

LogRows == [of : Writer, status : {"placed", "unknown", "failed"}, ref : BOOLEAN]
Logs == {rows \in Seq(LogRows) : Len(rows) <= LogMax}
OneRow == {rows \in Seq(LogRows) : Len(rows) <= 1}
Writes ==
  [at : {"none", "get", "set", "landed", "exposed"}, new : OneRow, snap : Logs]

AllTrue(rows) == \A i \in DOMAIN rows : RowIsTrue(rows[i])

\* The log, and whatever a write may still put into it, is true of the chain.
LogSound ==
  /\ log \in Logs /\ AllTrue(log)
  /\ write \in [Writer -> Writes]
  /\ \A w \in Writer : AllTrue(write[w].new) /\ AllTrue(write[w].snap)
  /\ \A a \in Click : att[a].acked \in BOOLEAN

\* An acknowledged redeem whose write is under way is in that write; one whose
\* write landed is in the log, and in what every other writer has read.
Kept(a) ==
  (att[a].at = "done" /\ att[a].acked) =>
    \/ write[a].at = "exposed"
    \/ write[a].at \in {"get", "set"} /\ InLog(write[a].new, a)
    \/ /\ write[a].at = "landed" /\ InLog(log, a)
       /\ \A w \in Writer : write[w].at = "set" => InLog(write[w].snap, a)

JournalIInv == LogSound /\ \A a \in Click : Kept(a)

\* A row that is on top is in what is put back; one that was read is, too, unless
\* it is trimmed off.
LEMMA PutBack ==
  ASSUME NEW new \in OneRow, NEW snap \in Logs
  PROVE  /\ Trimmed(new \o snap) \in Logs
         /\ \A i \in DOMAIN Trimmed(new \o snap) :
              \/ \E j \in DOMAIN new : Trimmed(new \o snap)[i] = new[j]
              \/ \E j \in DOMAIN snap : Trimmed(new \o snap)[i] = snap[j]
         /\ \A a : InLog(new, a) => InLog(Trimmed(new \o snap), a)
         /\ \A a : InLog(snap, a) => InLog(Trimmed(new \o snap), a) \/ TrimmedOff(new \o snap, a)
<1> DEFINE both == new \o snap
<1>1. LogMax \in Nat \ {0}
  BY RedemptionAssumption
<1>2. snap \in Seq(LogRows) /\ Len(snap) <= LogMax /\ new \in Seq(LogRows) /\ Len(new) <= 1
  BY DEF Logs, OneRow
<1>3. both \in Seq(LogRows) /\ Len(both) = Len(new) + Len(snap)
  BY <1>2
<1>4. \A i \in DOMAIN both : \/ \E j \in DOMAIN new : both[i] = new[j]
                             \/ \E j \in DOMAIN snap : both[i] = snap[j]
  <2>1. ASSUME NEW i \in DOMAIN both
        PROVE  \/ i \in DOMAIN new /\ both[i] = new[i]
               \/ i - Len(new) \in DOMAIN snap /\ both[i] = snap[i - Len(new)]
    BY <1>2
  <2> QED BY <2>1
<1>5. /\ \A i \in DOMAIN new : i \in DOMAIN both /\ both[i] = new[i] /\ i <= 1
      /\ \A i \in DOMAIN snap : i + Len(new) \in DOMAIN both /\ both[i + Len(new)] = snap[i]
  BY <1>2
<1> HIDE DEF both
<1>6. PICK kept : kept = Trimmed(both)
  OBVIOUS
<1>7. /\ kept \in Logs
      /\ \A i \in DOMAIN kept : i \in DOMAIN both /\ kept[i] = both[i]
      /\ \A i \in DOMAIN both : i <= LogMax => i \in DOMAIN kept
  <2>1. CASE Len(both) > LogMax
    <3>1. kept = SubSeq(both, 1, LogMax)
      BY <1>6, <2>1 DEF Trimmed
    <3>2. kept \in Seq(LogRows) /\ Len(kept) = LogMax /\ \A i \in 1..LogMax : kept[i] = both[i]
      BY <1>1, <1>3, <2>1, <3>1
    <3> QED BY <1>1, <1>3, <2>1, <3>2 DEF Logs
  <2>2. CASE ~(Len(both) > LogMax)
    <3>1. kept = both
      BY <1>6, <2>2 DEF Trimmed
    <3> QED BY <1>1, <1>3, <2>2, <3>1 DEF Logs
  <2> QED BY <2>1, <2>2
<1>8. ASSUME NEW a, NEW i \in DOMAIN both, i <= LogMax, both[i].of = a, both[i].ref
      PROVE  InLog(kept, a)
  <2>1. i \in DOMAIN kept /\ kept[i].of = a /\ kept[i].ref
    BY <1>7, <1>8
  <2> QED BY <2>1 DEF InLog, ToSet
<1>9. ASSUME NEW a, InLog(new, a) PROVE InLog(kept, a)
  <2>1. PICK i \in DOMAIN new : new[i].of = a /\ new[i].ref
    BY <1>9 DEF InLog, ToSet
  <2>2. i \in DOMAIN both /\ both[i] = new[i] /\ i <= LogMax
    BY <1>1, <1>2, <1>5
  <2> QED BY <1>8, <2>1, <2>2
<1>10. ASSUME NEW a, InLog(snap, a) PROVE InLog(kept, a) \/ TrimmedOff(both, a)
  <2>1. PICK i \in DOMAIN snap : snap[i].of = a /\ snap[i].ref
    BY <1>10 DEF InLog, ToSet
  <2>2. PICK j \in DOMAIN both : both[j] = snap[i]
    BY <1>5
  <2>3. CASE j <= LogMax
    BY <1>8, <2>1, <2>2, <2>3
  <2>4. CASE ~(j <= LogMax)
    <3>1. j \in LogMax + 1..Len(both)
      BY <1>1, <1>3, <2>4
    <3> QED BY <2>1, <2>2, <3>1 DEF TrimmedOff
  <2> QED BY <2>3, <2>4
<1> QED BY <1>4, <1>6, <1>7, <1>9, <1>10 DEF both

\* What the chain settled stays settled: a row that is true stays true.
SettledStays ==
  \A b \in Attempt : /\ tx[b].state = "mined" => tx'[b].state = "mined"
                     /\ Dead(b) => Dead(b)'

LEMMA TruthStays ==
  ASSUME SettledStays
  PROVE  \A rows : AllTrue(rows) => AllTrue(rows)'
BY DEF SettledStays, AllTrue, RowIsTrue, Attempt

\* Nothing that is settled is unsettled: the relayer takes what it has not, the
\* chain what is new.
LEMMA NextSettles ==
  ASSUME RedemptionIInv, [RedemptionNext]_vars
  PROVE  SettledStays
<1>1. ASSUME NEW a \in Attempt, Accepted(a) \/ AnswerLost(a) PROVE SettledStays
  <2>1. tx[a].state = "none" /\ \A b \in Attempt \ {a} : tx'[b] = tx[b]
    BY <1>1 DEF Accepted, AnswerLost, RedemptionIInv, Shape, AttemptSound, InOrder, Unsent
  <2> QED BY <2>1 DEF SettledStays, Dead
<1>2. ASSUME NEW a \in Attempt, Mine(a) \/ Revert(a) PROVE SettledStays
  <2>1. tx[a].state = "new" /\ \A b \in Attempt \ {a} : tx'[b] = tx[b]
    BY <1>2 DEF Mine, Revert, RedemptionIInv, Shape
  <2> QED BY <2>1 DEF SettledStays, Dead
<1>3. ASSUME UNCHANGED tx PROVE SettledStays
  BY <1>3 DEF SettledStays, Dead
<1>4. CASE \/ UNCHANGED vars \/ ListAnew \/ Refresh \/ ClosePopup \/ Teardown \/ JournalStep
           \/ \E a \in Click : OnRedeem(a) \/ PanelGivesUp(a)
           \/ \E a \in Ask : AskRedeem(a)
  BY <1>3, <1>4, JournalOnly DEF vars, ListAnew, Refresh, ClosePopup, Teardown, OnRedeem, PanelGivesUp, AskRedeem
<1>5. ASSUME NEW a \in Attempt, Attempted(a) PROVE SettledStays
  <2>1. CASE Accepted(a) \/ AnswerLost(a)
    BY <1>1, <2>1
  <2>2. CASE ~(Accepted(a) \/ AnswerLost(a))
    BY <1>3, <1>5, <2>2
       DEF Attempted, PageRead, ReadFails, Build, Sign, Refused, Mined, Undefined, WaitTimeout,
           PollFails, Check
  <2> QED BY <2>1, <2>2
<1> QED BY <1>2, <1>4, <1>5 DEF RedemptionNext, JournalStep

\* A step that leaves the log and its writes alone, and ends no redeem.
LEMMA JournalAside ==
  ASSUME JournalIInv, SettledStays, UNCHANGED journal,
         \A a \in Click : /\ att'[a].acked \in BOOLEAN
                          /\ att'[a].at = "done" /\ att'[a].acked => att[a].at = "done" /\ att[a].acked
  PROVE  JournalIInv'
<1>1. LogSound'
  <2>1. AllTrue(log)' /\ \A w \in Writer : AllTrue(write[w].new)' /\ AllTrue(write[w].snap)'
    <3>1. PICK rows, ws : rows = log /\ ws = write
      OBVIOUS
    <3>2. AllTrue(rows) /\ \A w \in Writer : AllTrue(ws[w].new) /\ AllTrue(ws[w].snap)
      BY <3>1 DEF JournalIInv, LogSound
    <3>3. AllTrue(rows)' /\ \A w \in Writer : AllTrue(ws[w].new)' /\ AllTrue(ws[w].snap)'
      BY <3>2, TruthStays
    <3>4. log' = rows /\ write' = ws
      BY <3>1 DEF journal
    <3> QED BY <3>3, <3>4 DEF AllTrue
  <2> QED BY <2>1 DEF JournalIInv, LogSound, journal
<1>2. ASSUME NEW a \in Click PROVE Kept(a)'
  <2>1. Kept(a) /\ log' = log /\ write' = write
    BY DEF JournalIInv, journal
  <2> QED BY <2>1 DEF Kept, InLog
<1> QED BY <1>1, <1>2 DEF JournalIInv

\* What may be written is sound after a step that writes only what is true.
LEMMA SoundNext ==
  ASSUME SettledStays,
         NEW rows \in Logs, AllTrue(rows), log' = rows,
         NEW ws \in [Writer -> Writes], write' = ws,
         \A w \in Writer : AllTrue(ws[w].new) /\ AllTrue(ws[w].snap),
         \A a \in Click : att'[a].acked \in BOOLEAN
  PROVE  LogSound'
<1>1. AllTrue(rows)' /\ \A w \in Writer : AllTrue(ws[w].new)' /\ AllTrue(ws[w].snap)'
  BY TruthStays
<1> QED BY <1>1 DEF LogSound, AllTrue

LEMMA EmptyIsTrue ==
  /\ Landed \in Writes /\ Exposed \in Writes /\ NoWrite \in Writes /\ <<>> \in Logs
  /\ AllTrue(<<>>)
  /\ \A r \in {Landed, Exposed, NoWrite} : r.new = <<>> /\ r.snap = <<>> /\ r.at \notin {"get", "set"}
<1>1. <<>> \in Logs /\ <<>> \in OneRow
  BY RedemptionAssumption DEF Logs, OneRow
<1> QED BY <1>1 DEF Landed, Exposed, NoWrite, Writing, Writes, AllTrue

\* Writes that are over, one way or the other, and a log that stays: only those
\* whose row may be lost change.
LEMMA GivenUp ==
  ASSUME JournalIInv, SettledStays, NEW gone \in SUBSET Writer, log' = log,
         write' = [w \in Writer |-> IF w \in gone THEN Exposed ELSE write[w]],
         \A a \in Click : /\ att'[a].acked \in BOOLEAN
                          /\ att'[a].at = "done" /\ att'[a].acked => att[a].at = "done" /\ att[a].acked
  PROVE  JournalIInv'
<1>1. PICK rows, ws : rows = log /\ ws = [w \in Writer |-> IF w \in gone THEN Exposed ELSE write[w]]
  OBVIOUS
<1>2. rows \in Logs /\ AllTrue(rows)
  BY <1>1 DEF JournalIInv, LogSound
<1>3. ws \in [Writer -> Writes]
  BY <1>1, EmptyIsTrue DEF JournalIInv, LogSound
<1>4. \A w \in Writer : AllTrue(ws[w].new) /\ AllTrue(ws[w].snap)
  BY <1>1, EmptyIsTrue DEF JournalIInv, LogSound
<1>5. LogSound'
  BY <1>1, <1>2, <1>3, <1>4, SoundNext
<1>6. ASSUME NEW a \in Click PROVE Kept(a)'
  <2>1. \A w \in Writer : write'[w] = write[w] \/ write'[w].at = "exposed"
    BY DEF Exposed, Writing
  <2>2. a \in Writer /\ Kept(a)
    BY DEF JournalIInv, Writer
  <2> QED BY <2>1, <2>2 DEF Kept, InLog
<1> QED BY <1>5, <1>6 DEF JournalIInv

\* A writer reads: what landed is in the log it reads.
LEMMA ReadsKeep ==
  ASSUME JournalIInv, SettledStays, NEW w \in Writer, UNCHANGED <<log, att>>,
         NEW new \in OneRow, AllTrue(new),
         write' = [write EXCEPT ![w] = Writing("set", new, log)],
         w \in Click => write[w].at = "get" /\ new = write[w].new
  PROVE  JournalIInv'
<1>1. PICK rows, ws : rows = log /\ ws = [write EXCEPT ![w] = Writing("set", new, log)]
  OBVIOUS
<1>2. rows \in Logs /\ AllTrue(rows)
  BY <1>1 DEF JournalIInv, LogSound
<1>3. /\ Writing("set", new, rows) \in Writes
      /\ Writing("set", new, rows).new = new /\ Writing("set", new, rows).snap = rows
      /\ Writing("set", new, rows).at = "set"
  BY <1>2 DEF Writing, Writes
<1>4. ws \in [Writer -> Writes] /\ \A v \in Writer : AllTrue(ws[v].new) /\ AllTrue(ws[v].snap)
  BY <1>1, <1>2, <1>3 DEF JournalIInv, LogSound
<1>5. LogSound'
  BY <1>1, <1>2, <1>4, SoundNext DEF JournalIInv, LogSound
<1>6. /\ write'[w].at = "set" /\ write'[w].new = new /\ write'[w].snap = log
      /\ \A v \in Writer \ {w} : write'[v] = write[v]
  BY <1>1, <1>3 DEF JournalIInv, LogSound
<1>7. ASSUME NEW a \in Click PROVE Kept(a)'
  <2>1. a \in Writer /\ Kept(a)
    BY DEF JournalIInv, Writer
  <2>2. CASE a = w
    BY <1>6, <2>1, <2>2 DEF Kept, InLog
  <2>3. CASE a # w
    BY <1>6, <2>1, <2>3 DEF Kept, InLog
  <2> QED BY <2>2, <2>3
<1> QED BY <1>5, <1>7 DEF JournalIInv

\* A set lands: what was kept is in what it had read or on top of it.
LEMMA LandsKeep ==
  ASSUME JournalIInv, SettledStays, NEW w \in Writer, LogLands(w)
  PROVE  JournalIInv'
<1>1. /\ write[w].at = "set" /\ UNCHANGED att
      /\ log' = Trimmed(write[w].new \o write[w].snap)
      /\ write'[w] \in {Landed, Exposed}
      /\ write'[w] = Landed => \A v \in Writer \ {w} : write[v].at # "set"
      /\ \A v \in Writer \ {w} :
           \/ write'[v] = write[v] /\ ~(write[v].at = "landed" /\ TrimmedOff(write[w].new \o write[w].snap, v))
           \/ write'[v] = Exposed
      /\ write' = [v \in Writer |-> write'[v]]
  BY DEF LogLands, Landed, Exposed, Writing
<1>2. PICK new, snap, rows, ws :
        new = write[w].new /\ snap = write[w].snap /\ rows = Trimmed(new \o snap) /\ ws = write'
  OBVIOUS
<1>3. new \in OneRow /\ snap \in Logs /\ AllTrue(new) /\ AllTrue(snap)
  BY <1>2 DEF JournalIInv, LogSound, Writes
<1>4. /\ rows \in Logs /\ AllTrue(rows)
      /\ \A a : InLog(new, a) => InLog(rows, a)
      /\ \A a : InLog(snap, a) => InLog(rows, a) \/ TrimmedOff(new \o snap, a)
  BY <1>2, <1>3, PutBack DEF AllTrue
<1>5. ws \in [Writer -> Writes] /\ \A v \in Writer : AllTrue(ws[v].new) /\ AllTrue(ws[v].snap)
  BY <1>1, <1>2, EmptyIsTrue DEF JournalIInv, LogSound
<1>6. LogSound'
  BY <1>1, <1>2, <1>4, <1>5, SoundNext DEF JournalIInv, LogSound
<1>7. ASSUME NEW a \in Click, att[a].at = "done", att[a].acked PROVE Kept(a)'
  <2>1. a \in Writer /\ Kept(a)
    BY DEF JournalIInv, Writer
  <2>2. CASE a = w
    <3>1. InLog(log', a)
      <4>1. InLog(new, a)
        BY <1>1, <1>2, <1>7, <2>1, <2>2 DEF Kept
      <4> QED BY <1>1, <1>2, <1>4, <4>1
    <3>2. write'[a].at = "exposed" \/ (write'[a].at = "landed" /\ \A v \in Writer : write'[v].at # "set")
      BY <1>1, <2>2 DEF Landed, Exposed, Writing
    <3> QED BY <3>1, <3>2 DEF Kept, InLog
  <2>3. CASE a # w
    <3>1. CASE write'[a] = Exposed
      BY <3>1 DEF Kept, Exposed, Writing
    <3>2. CASE write'[a] = write[a] /\ write[a].at = "landed"
      <4>1. InLog(snap, a) /\ \A v \in Writer : write[v].at = "set" => InLog(write[v].snap, a)
        BY <1>1, <1>2, <1>7, <2>1, <3>2 DEF Kept
      <4>2. ~TrimmedOff(new \o snap, a) \/ write'[a] = Exposed
        BY <1>1, <1>2, <2>1, <2>3, <3>2
      <4>3. InLog(log', a) \/ write'[a] = Exposed
        BY <1>1, <1>2, <1>4, <4>1, <4>2
      <4>4. \A v \in Writer : write'[v].at = "set" => InLog(write'[v].snap, a)
        BY <1>1, <4>1 DEF Landed, Exposed, Writing
      <4> QED BY <3>1, <3>2, <4>3, <4>4 DEF Kept, InLog
    <3>3. CASE write'[a] = write[a] /\ write[a].at # "landed"
      BY <1>1, <1>7, <2>1, <3>3 DEF Kept, InLog
    <3> QED BY <1>1, <2>1, <2>3, <3>1, <3>2, <3>3
  <2> QED BY <2>2, <2>3
<1>8. \A a \in Click : Kept(a)'
  BY <1>1, <1>7 DEF Kept
<1> QED BY <1>6, <1>8 DEF JournalIInv

\* The user clears the log: every row that had landed may be lost.
LEMMA ClearKeeps ==
  ASSUME JournalIInv, SettledStays, ClearLog
  PROVE  JournalIInv'
<1>1. /\ UNCHANGED att /\ log' = <<>>
      /\ write' = [w \in Writer |-> IF write[w].at = "landed" THEN Exposed ELSE write[w]]
  BY DEF ClearLog
<1>2. PICK rows, ws : rows = <<>> /\ ws = write'
  OBVIOUS
<1>3. rows \in Logs /\ AllTrue(rows)
  BY <1>2, EmptyIsTrue
<1>4. ws \in [Writer -> Writes] /\ \A w \in Writer : AllTrue(ws[w].new) /\ AllTrue(ws[w].snap)
  BY <1>1, <1>2, EmptyIsTrue DEF JournalIInv, LogSound
<1>5. LogSound'
  BY <1>1, <1>2, <1>3, <1>4, SoundNext DEF JournalIInv, LogSound
<1>6. ASSUME NEW a \in Click PROVE Kept(a)'
  <2>1. a \in Writer /\ Kept(a)
    BY DEF JournalIInv, Writer
  <2>2. write'[a].at = "exposed" \/ (write'[a] = write[a] /\ write[a].at # "landed")
    BY <1>1, <2>1 DEF Exposed, Writing
  <2> QED BY <1>1, <2>1, <2>2 DEF Kept, InLog
<1> QED BY <1>5, <1>6 DEF JournalIInv

\* A writer starts with a row of its own that is true.
LEMMA StartKeeps ==
  ASSUME JournalIInv, SettledStays, log' = log, NEW a \in Click,
         NEW row \in LogRows, RowIsTrue(row),
         write' = [write EXCEPT ![a] = Starting(row)],
         \A b \in Click : att'[b].acked \in BOOLEAN,
         \A b \in Click \ {a} :
           att'[b].at = "done" /\ att'[b].acked => att[b].at = "done" /\ att[b].acked,
         att'[a].at = "done" /\ att'[a].acked => row.of = a /\ row.ref
  PROVE  JournalIInv'
<1>1. PICK rows, ws : rows = log /\ ws = [write EXCEPT ![a] = Starting(row)]
  OBVIOUS
<1>2. rows \in Logs /\ AllTrue(rows) /\ a \in Writer
  BY <1>1 DEF JournalIInv, LogSound, Writer
<1>3. /\ Starting(row) \in Writes /\ Starting(row).at = "get"
      /\ Starting(row).new = <<row>> /\ Starting(row).snap = <<>>
  <2>1. <<row>> \in OneRow
    BY DEF OneRow
  <2> QED BY <2>1, EmptyIsTrue DEF Starting, Writing, Writes
<1>4. AllTrue(<<row>>)
  BY DEF AllTrue
<1>5. ws \in [Writer -> Writes] /\ \A w \in Writer : AllTrue(ws[w].new) /\ AllTrue(ws[w].snap)
  BY <1>1, <1>2, <1>3, <1>4, EmptyIsTrue DEF JournalIInv, LogSound
<1>6. LogSound'
  BY <1>1, <1>2, <1>5, SoundNext
<1>7. /\ write'[a].at = "get" /\ write'[a].new = <<row>>
      /\ \A v \in Writer \ {a} : write'[v] = write[v]
  BY <1>1, <1>2, <1>3 DEF JournalIInv, LogSound
<1>8. ASSUME NEW b \in Click PROVE Kept(b)'
  <2>1. b \in Writer /\ Kept(b)
    BY DEF JournalIInv, Writer
  <2>2. CASE b = a
    <3>1. row.of = a /\ row.ref => InLog(<<row>>, a)
      <4>1. <<row>>[1] = row /\ 1 \in DOMAIN <<row>>
        OBVIOUS
      <4> QED BY <4>1 DEF InLog, ToSet
    <3> QED BY <1>7, <2>2, <3>1 DEF Kept, InLog
  <2>3. CASE b # a
    BY <1>7, <2>1, <2>3 DEF Kept, InLog
  <2> QED BY <2>2, <2>3
<1> QED BY <1>6, <1>8 DEF JournalIInv

\* The end of an attempt: one that was acknowledged must have one of the three
\* answers of the wait, and its answer must be true of the transaction.
LEMMA EndLogs ==
  ASSUME RedemptionIInv, JournalIInv, SettledStays, NEW a \in Attempt, NEW answer, End(a, answer),
         answer = "ok" => tx[a].state = "mined",
         answer = "relayer_state" => Dead(a),
         att[a].acked => answer \in {"ok", "unknown", "relayer_state"}
  PROVE  JournalIInv'
<1>1. /\ log' = log /\ write' = Logged(a, answer)
      /\ att'[a].acked = att[a].acked
      /\ \A b \in Attempt \ {a} : att'[b] = att[b]
  BY DEF End, Idle, RedemptionIInv, Shape
<1>2. /\ \A b \in Click : att'[b].acked \in BOOLEAN
      /\ \A b \in Click \ {a} :
           att'[b].at = "done" /\ att'[b].acked => att[b].at = "done" /\ att[b].acked
  BY <1>1 DEF JournalIInv, LogSound, Attempt
<1>3. CASE a \in Click /\ answer # "unread"
  <2>1. PICK row : row = LogRow(a, StatusOf(answer), att[a].acked)
    OBVIOUS
  <2>2. StatusOf(answer) \in {"placed", "unknown", "failed"}
    BY DEF StatusOf
  <2>3. row \in LogRows /\ row.of = a /\ row.ref = att[a].acked /\ row.status = StatusOf(answer)
    BY <1>3, <2>1, <2>2 DEF LogRow, LogRows, JournalIInv, LogSound, Writer
  <2>4. RowIsTrue(row)
    <3>1. row.status = "placed" => answer = "ok"
      BY <2>3 DEF StatusOf
    <3>2. row.status = "failed" => answer \notin {"ok", "unknown"}
      BY <2>3 DEF StatusOf
    <3> QED BY <2>3, <3>1, <3>2 DEF RowIsTrue
  <2>5. write' = [write EXCEPT ![a] = Starting(row)]
    BY <1>1, <1>3, <2>1 DEF Logged
  <2> QED BY <1>1, <1>2, <1>3, <2>3, <2>4, <2>5, StartKeeps
<1>4. CASE ~(a \in Click /\ answer # "unread")
  <2>1. UNCHANGED journal
    BY <1>1, <1>4 DEF Logged, journal
  <2>2. a \in Click => ~att'[a].acked
    BY <1>1, <1>4
  <2>3. \A b \in Click : att'[b].at = "done" /\ att'[b].acked => att[b].at = "done" /\ att[b].acked
    BY <1>2, <2>2
  <2> QED BY <1>2, <2>1, <2>3, JournalAside
<1> QED BY <1>3, <1>4

\* The steps of an attempt.
LEMMA AttemptLogs ==
  ASSUME RedemptionIInv, JournalIInv, SettledStays, NEW a \in Attempt, Attempted(a)
  PROVE  JournalIInv'
<1>1. att[a].at \in Unsent => ~att[a].acked
  BY DEF RedemptionIInv, AttemptSound, InOrder
<1>2. CASE ReadFails(a)
  BY <1>1, <1>2, EndLogs DEF ReadFails, Unsent
<1>3. CASE Build(a) /\ Refusal(a) # "none"
  <2>1. att[a].at = "build" /\ End(a, Refusal(a))
    BY <1>3 DEF Build
  <2>2. PICK answer : answer = Refusal(a) /\ answer \in {"not_found", "not_yet", "nothing", "build_failed", "none"}
    BY DEF Refusal
  <2> QED BY <1>1, <2>1, <2>2, EndLogs DEF Unsent
<1>4. CASE Refused(a)
  BY <1>1, <1>4, EndLogs DEF Refused, Unsent
<1>5. CASE AnswerLost(a)
  BY <1>1, <1>5, EndLogs DEF AnswerLost, Unsent
<1>6. CASE Mined(a)
  BY <1>6, EndLogs DEF Mined
<1>7. CASE WaitTimeout(a) \/ PollFails(a)
  BY <1>7, EndLogs DEF WaitTimeout, PollFails
<1>8. CASE Check(a)
  <2>1. CASE Dead(a)
    BY <1>8, <2>1, EndLogs DEF Check
  <2>2. CASE ~Dead(a)
    BY <1>8, <2>2, EndLogs DEF Check
  <2> QED BY <2>1, <2>2
<1>9. CASE \/ PageRead(a) \/ (Build(a) /\ Refusal(a) = "none") \/ Sign(a) \/ Accepted(a) \/ Undefined(a)
  <2>1. UNCHANGED journal
    BY <1>9 DEF PageRead, Build, Sign, Accepted, Undefined, journal
  <2>2. /\ att'[a].at # "done" /\ att'[a].acked \in {att[a].acked, TRUE}
        /\ \A b \in Attempt \ {a} : att'[b] = att[b]
    <3>1. CASE PageRead(a)
      <4>1. CASE HasMore(a)
        BY <3>1, <4>1 DEF PageRead, RedemptionIInv, Shape
      <4>2. CASE ~HasMore(a)
        BY <3>1, <4>2 DEF PageRead, RedemptionIInv, Shape
      <4> QED BY <4>1, <4>2
    <3>2. CASE Build(a) /\ Refusal(a) = "none"
      <4>1. PICK call : call = Encoded(att[a].cond, att[a].rows)
        OBVIOUS
      <4>2. att' = [att EXCEPT ![a].at = IF a \in Click THEN "sign" ELSE "post",
                               ![a].call = call, ![a].rows = <<>>]
        BY <3>2, <4>1 DEF Build
      <4>3. DOMAIN att = Attempt
             /\ DOMAIN att[a] = {"at", "cond", "page", "rows", "call", "acked", "answer"}
        BY DEF RedemptionIInv, Shape
      <4> QED BY <4>2, <4>3
    <3>3. CASE Sign(a)
      BY <3>3 DEF Sign, RedemptionIInv, Shape
    <3>4. CASE Accepted(a)
      BY <3>4 DEF Accepted, RedemptionIInv, Shape
    <3>5. CASE Undefined(a)
      BY <3>5 DEF Undefined, RedemptionIInv, Shape
    <3> QED BY <1>9, <3>1, <3>2, <3>3, <3>4, <3>5
  <2>3. \A b \in Click :
          /\ att'[b].acked \in BOOLEAN
          /\ att'[b].at = "done" /\ att'[b].acked => att[b].at = "done" /\ att[b].acked
    BY <2>2 DEF JournalIInv, LogSound, Attempt
  <2> QED BY <2>1, <2>3, JournalAside
<1> QED BY <1>2, <1>3, <1>4, <1>5, <1>6, <1>7, <1>8, <1>9 DEF Attempted

LEMMA JournalSteps ==
  ASSUME JournalIInv, SettledStays, JournalStep
  PROVE  JournalIInv'
<1>1. \A a \in Click : att[a].acked \in BOOLEAN
  BY DEF JournalIInv, LogSound
<1>2. ASSUME NEW w \in Writer, LogReads(w) PROVE JournalIInv'
  <2>1. PICK new : new = write[w].new /\ new \in OneRow /\ AllTrue(new)
    BY DEF JournalIInv, LogSound, Writes
  <2> QED BY <1>2, <2>1, ReadsKeep DEF LogReads
<1>3. ASSUME NEW w \in Order, OrderReads(w) PROVE JournalIInv'
  <2>1. w \in Writer /\ w \notin Click
    BY RedemptionAssumption DEF Writer, Attempt
  <2>2. PICK new \in {<<>>, <<LogRow(w, "placed", TRUE)>>} :
          write' = [write EXCEPT ![w] = Writing("set", new, log)] /\ UNCHANGED <<log, att>>
    BY <1>3 DEF OrderReads
  <2>3. new \in OneRow /\ AllTrue(new)
    <3>1. PICK row : row = LogRow(w, "placed", TRUE)
      OBVIOUS
    <3>2. row \in LogRows /\ RowIsTrue(row)
      BY <2>1, <3>1 DEF LogRow, LogRows, RowIsTrue
    <3>3. <<row>> \in OneRow /\ AllTrue(<<row>>)
      BY <3>2 DEF AllTrue, OneRow
    <3>4. new = <<>> \/ new = <<row>>
      BY <2>2, <3>1
    <3>5. CASE new = <<>>
      BY <3>5, EmptyIsTrue DEF Writes, NoWrite
    <3>6. CASE new = <<row>>
      BY <3>3, <3>6
    <3> QED BY <3>4, <3>5, <3>6
  <2> QED BY <2>1, <2>2, <2>3, ReadsKeep
<1>4. ASSUME NEW w \in Writer, LogFails(w) PROVE JournalIInv'
  <2>1. log' = log /\ UNCHANGED att /\ write' = [write EXCEPT ![w] = Exposed]
    BY <1>4 DEF LogFails
  <2>2. write' = [v \in Writer |-> IF v \in {w} THEN Exposed ELSE write[v]]
    BY <2>1 DEF JournalIInv, LogSound
  <2>3. PICK gone : gone = {w} /\ gone \in SUBSET Writer
    OBVIOUS
  <2> QED BY <1>1, <2>1, <2>2, <2>3, GivenUp
<1> QED BY <1>2, <1>3, <1>4, LandsKeep, ClearKeeps DEF JournalStep

\* The documents go away, and the panel logs what it lost.
LEMMA DocumentsLog ==
  ASSUME RedemptionIInv, JournalIInv, SettledStays,
         ClosePopup \/ Teardown \/ \E a \in Click : PanelGivesUp(a)
  PROVE  JournalIInv'
<1>1. \A a \in Click : att[a].acked \in BOOLEAN
  BY DEF JournalIInv, LogSound
<1>2. CASE ClosePopup
  <2>1. PICK gone : gone = {a \in Unfinished : att[a].at = "gone"}
    OBVIOUS
  <2>2. gone \in SUBSET Writer
    BY <2>1 DEF Unfinished, Writer
  <2>3. /\ log' = log /\ att' = att
        /\ write' = [w \in Writer |-> IF w \in gone THEN Exposed ELSE write[w]]
    BY <1>2, <2>1 DEF ClosePopup, Dropped
  <2> QED BY <1>1, <2>2, <2>3, GivenUp
<1>3. CASE Teardown
  <2>1. PICK gone : gone = {a \in Unfinished : att[a].at = "done"}
    OBVIOUS
  <2>2. gone \in SUBSET Writer
    BY <2>1 DEF Unfinished, Writer
  <2>3. log' = log /\ write' = [w \in Writer |-> IF w \in gone THEN Exposed ELSE write[w]]
    BY <1>3, <2>1 DEF Teardown, Dropped
  <2>4. \A a \in Click : \/ att'[a] = att[a]
                         \/ att'[a].at = "gone" /\ att'[a].acked = FALSE
    BY <1>3 DEF Teardown, Idle, Attempt
  <2>5. \A a \in Click :
          /\ att'[a].acked \in BOOLEAN
          /\ att'[a].at = "done" /\ att'[a].acked => att[a].at = "done" /\ att[a].acked
    BY <1>1, <2>4
  <2> QED BY <2>2, <2>3, <2>5, GivenUp
<1>4. ASSUME NEW a \in Click, PanelGivesUp(a) PROVE JournalIInv'
  <2>1. PICK row : row = LogRow(a, "failed", FALSE)
    OBVIOUS
  <2>2. row \in LogRows /\ RowIsTrue(row)
    BY <2>1 DEF LogRow, LogRows, RowIsTrue, Writer
  <2>3. /\ log' = log /\ att' = att /\ att[a].at = "gone"
        /\ write' = [write EXCEPT ![a] = Starting(row)]
    BY <1>4, <2>1 DEF PanelGivesUp
  <2> QED BY <1>1, <2>2, <2>3, StartKeeps
<1> QED BY <1>2, <1>3, <1>4

\* The inductive invariant of the log: an acknowledged redeem is in the log, in
\* what every overlapping write has read, or in a write that is under way, unless
\* its row was exposed; and every row, there or on its way, is true.
THEOREM JournalInvariant == RedemptionSpec => []JournalIInv
<1>1. RedemptionInit => JournalIInv
  <2> SUFFICES ASSUME RedemptionInit PROVE JournalIInv
    OBVIOUS
  <2>1. \A a \in Click : att[a].at = "idle" /\ att[a].acked = FALSE
    BY DEF RedemptionInit, Idle, Attempt
  <2>2. LogSound
    BY <2>1, EmptyIsTrue DEF RedemptionInit, LogSound
  <2> QED BY <2>1, <2>2 DEF JournalIInv, Kept
<1>2. RedemptionIInv /\ JournalIInv /\ [RedemptionNext]_vars => JournalIInv'
  <2> SUFFICES ASSUME RedemptionIInv, JournalIInv, [RedemptionNext]_vars PROVE JournalIInv'
    OBVIOUS
  <2>1. SettledStays
    BY NextSettles
  <2>2. CASE \/ UNCHANGED vars \/ ListAnew \/ Refresh
             \/ \E a \in Click : OnRedeem(a)
             \/ \E a \in Ask : AskRedeem(a)
             \/ \E a \in Attempt : Mine(a) \/ Revert(a)
    <3>1. UNCHANGED journal
      BY <2>2 DEF vars, ListAnew, Refresh, OnRedeem, AskRedeem, Mine, Revert
    <3>2. \A a \in Click :
            \/ att'[a] = att[a]
            \/ att'[a].at = "read" /\ att'[a].acked = FALSE
      <4>1. ASSUME NEW b \in Attempt, OnRedeem(b) \/ AskRedeem(b), NEW a \in Click
            PROVE  att'[a] = att[a] \/ (att'[a].at = "read" /\ att'[a].acked = FALSE)
        <5>1. PICK c : att' = [att EXCEPT ![b] = [Idle EXCEPT !.at = "read", !.cond = c]]
          BY <4>1 DEF OnRedeem, AskRedeem
        <5>2. att'[b].at = "read" /\ att'[b].acked = FALSE
          BY <5>1 DEF Idle, RedemptionIInv, Shape
        <5> QED BY <5>1, <5>2 DEF RedemptionIInv, Shape
      <4>2. CASE \/ UNCHANGED vars \/ ListAnew \/ Refresh
                 \/ \E a \in Attempt : Mine(a) \/ Revert(a)
        BY <4>2 DEF vars, ListAnew, Refresh, Mine, Revert
      <4> QED BY <2>2, <4>1, <4>2 DEF Attempt
    <3>3. \A a \in Click :
            /\ att'[a].acked \in BOOLEAN
            /\ att'[a].at = "done" /\ att'[a].acked => att[a].at = "done" /\ att[a].acked
      BY <3>2 DEF JournalIInv, LogSound
    <3> QED BY <2>1, <3>1, <3>3, JournalAside
  <2>3. CASE JournalStep
    BY <2>1, <2>3, JournalSteps
  <2>4. CASE ClosePopup \/ Teardown \/ \E a \in Click : PanelGivesUp(a)
    BY <2>1, <2>4, DocumentsLog
  <2>5. ASSUME NEW a \in Attempt, Attempted(a) PROVE JournalIInv'
    BY <2>1, <2>5, AttemptLogs
  <2> QED BY <2>2, <2>3, <2>4, <2>5 DEF RedemptionNext, JournalStep
<1> QED BY RedemptionInvariant, <1>1, <1>2, PTL DEF RedemptionSpec

\* A redeem the relayer acknowledged is in the log or on its way there, unless its
\* row was exposed; and what the log says of a redeem is true.
THEOREM AcknowledgedRowsHold == RedemptionSpec => []AcknowledgedIsLogged
<1>1. JournalIInv => AcknowledgedIsLogged
  <2> SUFFICES ASSUME JournalIInv PROVE AcknowledgedIsLogged
    OBVIOUS
  <2>1. \A a \in Click : (att[a].at = "done" /\ att[a].acked) =>
          write[a].at \in {"get", "set", "exposed"} \/ InLog(log, a)
    BY DEF JournalIInv, Kept
  <2>2. \A row \in ToSet(log) : RowIsTrue(row)
    BY DEF JournalIInv, LogSound, AllTrue, ToSet
  <2> QED BY <2>1, <2>2 DEF AcknowledgedIsLogged
<1> QED BY JournalInvariant, <1>1, PTL

-----------------------------------------------------------------------------
(* What a call may draw.                                                   *)

\* Somebody's redeem of c was mined.
MinedOn(c) == \E b \in Attempt : att[b].cond = c /\ tx[b].state = "mined"

\* Rows of the data-api never say more than the Safe holds, but for half a unit,
\* unless a redeem has taken it since.
ApiRow == [cond : Cond, slot : -1..1, size : Int, redeemable : BOOLEAN, pays : BOOLEAN]
Fits(row) ==
  row.slot \in 0..1 => MinedOn(row.cond) \/ row.size <= 2 * held[row.cond][row.slot] + 1
RowsFit(rows) == rows \in Seq(ApiRow) /\ \A i \in DOMAIN rows : Fits(rows[i])

\* A call of an attempt on c asks for no more than is held.
Covered(c, amounts) ==
  /\ c \in Cond
  /\ amounts \in [0..1 -> Int]
  /\ MinedOn(c) \/ \A s \in 0..1 : amounts[s] <= held[c][s]

DrawSound(a) ==
  /\ RowsFit(att[a].rows) /\ att[a].page \in Nat
  /\ att[a].at \in {"sign", "post"} => Covered(att[a].cond, att[a].call.amounts)
  /\ tx[a].state = "new" => Covered(att[a].cond, tx[a].amounts)
  /\ tx[a].state = "overdrawn" => MinedOn(att[a].cond)

DrawIInv ==
  /\ held \in [Cond -> [0..1 -> Nat]]
  /\ RowsFit(listed)
  /\ \A a \in Attempt : DrawSound(a)

LEMMA Emptied ==
  RowsFit(<<>>)
BY DEF RowsFit

\* What the data-api lists of the Safe fits, whatever its floats and its order.
LEMMA ListingRows ==
  ASSUME held \in [Cond -> [0..1 -> Nat]], NEW noise \in {-1, 0, 1}, NEW blind \in BOOLEAN
  PROVE  /\ RowsFit(SetToSeq(Listing(held, noise, blind)))
         /\ RowsFit(Reverse(SetToSeq(Listing(held, noise, blind))))
<1> DEFINE all == {q \in Cond \X (0..1) : held[q[1]][q[2]] > 0}
           rows == Listing(held, noise, blind)
           f == [p \in all |-> Row(held, p[1], p[2], noise, blind)]
<1>1. IsFiniteSet(all)
  <2>1. IsFiniteSet(0..1)
    <3>1. \A n \in Int : IsFiniteSet(0..n)
      BY FS_Interval
    <3>2. 1 \in Int
      OBVIOUS
    <3> QED BY <3>1, <3>2, Zenon
  <2>2. IsFiniteSet(Cond \X (0..1))
    BY <2>1, FS_Product, RedemptionAssumption
  <2>3. all \in SUBSET (Cond \X (0..1))
    OBVIOUS
  <2> HIDE DEF all
  <2> QED BY <2>2, <2>3, FS_Subset
<1>2. IsFiniteSet(rows)
  <2>1. rows = {f[p] : p \in all}
    BY DEF Listing
  <2>2. f \in Surjection(all, rows)
    BY <2>1 DEF Surjection
  <2> QED BY <1>1, <2>2, FS_Surjection
<1>3. \A row \in rows : row \in ApiRow /\ Fits(row)
  <2> SUFFICES ASSUME NEW c \in Cond, NEW slot \in 0..1, held[c][slot] > 0,
                      NEW row, row = Row(held, c, slot, noise, blind)
               PROVE  row \in ApiRow /\ Fits(row)
    BY DEF Listing
  <2>1. held[c][slot] \in Nat
    OBVIOUS
  <2>2. /\ row.cond = c /\ row.slot \in {slot, -1} /\ row.size = 2 * held[c][slot] + noise
        /\ row \in ApiRow
    BY <2>1 DEF Row, ApiRow
  <2> QED BY <2>1, <2>2 DEF Fits
<1> HIDE DEF rows
<1>4. Cardinality(rows) \in Nat /\ ExistsBijection(1..Cardinality(rows), rows)
  BY <1>2, FS_CardinalityType
<1>5. PICK n \in Nat : n = Cardinality(rows)
  BY <1>4
<1>6. PICK s : s = SetToSeq(rows) /\ s \in [1..n -> rows]
  <2>1. \E g \in [1..n -> rows] : IsInjective(g)
    BY <1>4, <1>5 DEF ExistsBijection, Bijection, Injection
  <2> QED BY <1>5, <2>1 DEF SetToSeq
<1>7. s \in Seq(ApiRow) /\ Len(s) = n /\ \A i \in DOMAIN s : Fits(s[i])
  BY <1>3, <1>6
<1>8. Reverse(s) \in Seq(ApiRow) /\ \A i \in DOMAIN Reverse(s) : Fits(Reverse(s)[i])
  <2>1. Reverse(s) = [i \in 1..n |-> s[(n - i) + 1]]
    BY <1>7 DEF Reverse
  <2>2. \A i \in 1..n : (n - i) + 1 \in 1..n
    OBVIOUS
  <2> QED BY <1>6, <1>3, <2>1, <2>2
<1> QED BY <1>6, <1>7, <1>8 DEF RowsFit, rows

\* What is taken of a page is of the listing.
LEMMA PageFits ==
  ASSUME DrawIInv, NEW a \in Attempt
  PROVE  RowsFit(att[a].rows \o Page(a))
<1> DEFINE from == att[a].page * PageLimit
           size == IF a \in Ask THEN Min({PageLimit, ApiCap}) ELSE ApiDefault
           upTo == Min({from + size, Len(listed)})
<1>1. from \in Nat /\ Len(listed) \in Nat
  BY RedemptionAssumption DEF DrawIInv, DrawSound, RowsFit
<1>2. size \in Nat
  <2>1. PageLimit \in Nat /\ ApiCap \in Nat /\ ApiDefault \in Nat
    BY RedemptionAssumption
  <2>2. Min({PageLimit, ApiCap}) \in Nat
    BY <2>1, MinOfTwo
  <2> QED BY <2>1, <2>2
<1>3. upTo \in Nat /\ upTo <= Len(listed)
  <2>1. from + size \in Nat
    BY <1>1, <1>2
  <2> HIDE DEF from, size
  <2> QED BY <1>1, <2>1, MinOfTwo
<1>4. Page(a) = SubSeq(listed, from + 1, upTo)
  BY DEF Page
<1> HIDE DEF from, size, upTo
<1>5. PICK s : s = listed /\ s \in Seq(ApiRow) /\ \A i \in DOMAIN s : Fits(s[i])
  BY DEF DrawIInv, RowsFit
<1>6. PICK t : t = att[a].rows /\ t \in Seq(ApiRow) /\ \A i \in DOMAIN t : Fits(t[i])
  BY DEF DrawIInv, DrawSound, RowsFit
<1>7. PICK u : u = Page(a) /\ u \in Seq(ApiRow) /\ \A i \in DOMAIN u : Fits(u[i])
  <2>1. SubSeq(s, from + 1, upTo) \in Seq(ApiRow)
    BY <1>1, <1>3, <1>5
  <2>2. \A i \in DOMAIN SubSeq(s, from + 1, upTo) :
          from + i \in DOMAIN s /\ SubSeq(s, from + 1, upTo)[i] = s[from + i]
    BY <1>1, <1>3, <1>5
  <2> QED BY <1>4, <1>5, <2>1, <2>2
<1>8. t \o u \in Seq(ApiRow) /\ \A i \in DOMAIN (t \o u) : Fits((t \o u)[i])
  <2>1. t \o u \in Seq(ApiRow)
    BY <1>6, <1>7
  <2>2. ASSUME NEW i \in DOMAIN (t \o u)
        PROVE  \/ i \in DOMAIN t /\ (t \o u)[i] = t[i]
               \/ i - Len(t) \in DOMAIN u /\ (t \o u)[i] = u[i - Len(t)]
    BY <1>6, <1>7
  <2> QED BY <1>6, <1>7, <2>1, <2>2
<1> QED BY <1>6, <1>7, <1>8 DEF RowsFit

\* toBaseUnits rounds down: what is encoded of rows that fit is held.
LEMMA AmountFits ==
  ASSUME held \in [Cond -> [0..1 -> Nat]], NEW rows, RowsFit(rows),
         NEW c \in Cond, NEW slot \in 0..1
  PROVE  /\ AmountOf(c, rows, slot) \in Int
         /\ MinedOn(c) \/ AmountOf(c, rows, slot) <= held[c][slot]
<1> DEFINE I == {i \in 1..Len(rows) : rows[i].cond = c /\ SlotOf(rows[i]) = slot}
           i == IF I # {} THEN Max(I) ELSE 0
<1>1. AmountOf(c, rows, slot) = IF i = 0 THEN 0 ELSE BaseUnits(rows[i])
  BY DEF AmountOf, SelectLastInSeq
<1>2. held[c][slot] \in Nat
  OBVIOUS
<1>3. CASE I = {}
  BY <1>1, <1>2, <1>3
<1>4. CASE I # {}
  <2>1. Len(rows) \in Nat /\ I \in SUBSET (1..Len(rows))
    BY DEF RowsFit
  <2>2. Max(I) \in I
    <3> HIDE DEF I
    <3>1. \E m \in I : \A j \in I : m >= j
      BY <1>4, <2>1, GreatestIndex
    <3> QED BY <3>1 DEF Max
  <2>3. PICK row : row = rows[Max(I)]
    OBVIOUS
  <2>4. row \in ApiRow /\ Fits(row) /\ row.cond = c /\ row.slot = slot
    BY <2>2, <2>3 DEF RowsFit, SlotOf
  <2>5. row.size \in Int /\ (MinedOn(c) \/ row.size <= 2 * held[c][slot] + 1)
    BY <2>4 DEF Fits, ApiRow
  <2>6. BaseUnits(row) \in Int /\ (MinedOn(c) \/ BaseUnits(row) <= held[c][slot])
    BY <1>2, <2>5 DEF BaseUnits
  <2>7. AmountOf(c, rows, slot) = BaseUnits(row)
    BY <1>1, <1>4, <2>2, <2>3
  <2> QED BY <2>6, <2>7
<1> QED BY <1>3, <1>4

LEMMA EncodedCovered ==
  ASSUME held \in [Cond -> [0..1 -> Nat]], NEW rows, RowsFit(rows), NEW c \in Cond
  PROVE  Covered(c, Encoded(c, rows).amounts)
<1>1. \A s \in 0..1 : held[c][s] \in Nat
  OBVIOUS
<1>2. \A s \in 0..1 : AmountOf(c, rows, s) \in Int /\ (MinedOn(c) \/ AmountOf(c, rows, s) <= held[c][s])
  BY AmountFits
<1> QED BY <1>1, <1>2 DEF Covered, Encoded

-----------------------------------------------------------------------------
(* The steps, of what a call may draw.                                     *)

\* What was mined is so for good, and only what is mined takes from the Safe.
MinedStays ==
  \A b \in Attempt : tx[b].state = "mined" => tx'[b].state = "mined" /\ att'[b].cond = att[b].cond
HeldKept == \A c \in Cond : MinedOn(c)' \/ held'[c] = held[c]

LEMMA FactsStay ==
  ASSUME MinedStays, HeldKept
  PROVE  /\ \A c : MinedOn(c) => MinedOn(c)'
         /\ \A rows : RowsFit(rows) => RowsFit(rows)'
         /\ \A c, amounts : Covered(c, amounts) => Covered(c, amounts)'
<1>1. \A c : MinedOn(c) => MinedOn(c)'
  BY DEF MinedOn, MinedStays
<1>2. ASSUME NEW row \in ApiRow, Fits(row) PROVE Fits(row)'
  <2>1. row.cond \in Cond
    BY DEF ApiRow
  <2> QED BY <1>1, <1>2, <2>1 DEF Fits, HeldKept
<1>3. ASSUME NEW rows, RowsFit(rows) PROVE RowsFit(rows)'
  <2>1. rows \in Seq(ApiRow) /\ \A i \in DOMAIN rows : rows[i] \in ApiRow /\ Fits(rows[i])
    BY <1>3 DEF RowsFit
  <2>2. \A i \in DOMAIN rows : Fits(rows[i])'
    BY <1>2, <2>1
  <2> QED BY <2>1, <2>2 DEF RowsFit
<1>4. ASSUME NEW c, NEW amounts, Covered(c, amounts) PROVE Covered(c, amounts)'
  BY <1>1, <1>4 DEF Covered, HeldKept
<1> QED BY <1>1, <1>3, <1>4

\* A step of one attempt.
LEMMA DrawOne ==
  ASSUME DrawIInv, MinedStays, HeldKept, held' \in [Cond -> [0..1 -> Nat]], listed' = listed,
         NEW a \in Attempt, \A b \in Attempt \ {a} : att'[b] = att[b] /\ tx'[b] = tx[b],
         DrawSound(a)'
  PROVE  DrawIInv'
<1>1. \A rows : RowsFit(rows) => RowsFit(rows)'
  BY FactsStay
<1>2. RowsFit(listed)'
  <2>1. PICK rows : rows = listed
    OBVIOUS
  <2> QED BY <1>1, <2>1 DEF DrawIInv
<1>3. ASSUME NEW b \in Attempt \ {a} PROVE DrawSound(b)'
  <2>1. PICK at, t : at = att[b] /\ t = tx[b]
    OBVIOUS
  <2>2. at = att'[b] /\ t = tx'[b]
    BY <2>1
  <2>3. /\ RowsFit(at.rows) /\ at.page \in Nat
        /\ at.at \in {"sign", "post"} => Covered(at.cond, at.call.amounts)
        /\ t.state = "new" => Covered(at.cond, t.amounts)
        /\ t.state = "overdrawn" => MinedOn(at.cond)
    BY <2>1 DEF DrawIInv, DrawSound
  <2>4. /\ RowsFit(at.rows)'
        /\ at.at \in {"sign", "post"} => Covered(at.cond, at.call.amounts)'
        /\ t.state = "new" => Covered(at.cond, t.amounts)'
        /\ t.state = "overdrawn" => MinedOn(at.cond)'
    BY <2>3, FactsStay
  <2> QED BY <2>2, <2>3, <2>4 DEF DrawSound
<1> QED BY <1>2, <1>3 DEF DrawIInv

\* A step that touches neither the chain nor the transactions.
LEMMA DrawOff ==
  ASSUME DrawIInv, UNCHANGED <<held, tx>>,
         \A b \in Attempt : att'[b].cond = att[b].cond \/ tx[b].state = "none"
  PROVE  MinedStays /\ HeldKept
BY DEF MinedStays, HeldKept

LEMMA DrawAside ==
  ASSUME DrawIInv, UNCHANGED <<held, tx, att>>, RowsFit(listed)'
  PROVE  DrawIInv'
BY DEF DrawIInv, DrawSound, RowsFit, Fits, Covered, MinedOn

LEMMA ListingKeeps ==
  ASSUME DrawIInv, ListAnew
  PROVE  DrawIInv'
<1>1. UNCHANGED <<held, tx, att>>
  BY DEF ListAnew
<1>2. PICK noise \in {-1, 0, 1}, blind \in BOOLEAN :
        listed' \in {SetToSeq(Listing(held, noise, blind)), Reverse(SetToSeq(Listing(held, noise, blind)))}
  <2>1. PICK way \in Ways :
          listed' = IF way.turned THEN Reverse(SetToSeq(Listing(held, way.noise, way.blind)))
                    ELSE SetToSeq(Listing(held, way.noise, way.blind))
    BY DEF ListAnew
  <2>2. way.noise \in {-1, 0, 1} /\ way.blind \in BOOLEAN
    BY RedemptionAssumption
  <2> QED BY <2>1, <2>2, Zenon
<1>3. PICK rows : rows = listed'
  OBVIOUS
<1>4. RowsFit(rows)
  BY <1>2, <1>3, ListingRows DEF DrawIInv
<1>5. RowsFit(rows)'
  BY <1>1, <1>4 DEF RowsFit, Fits, MinedOn
<1> QED BY <1>1, <1>3, <1>5, DrawAside

\* What an attempt forgets needs no cover: it begins or it ends.
LEMMA DrawForgets ==
  ASSUME RedemptionIInv, DrawIInv, NEW a \in Attempt, UNCHANGED <<held, listed, tx>>,
         \A b \in Attempt \ {a} : att'[b] = att[b],
         att'[a].cond = att[a].cond \/ tx[a].state = "none",
         att'[a].rows = <<>>, att'[a].page = 0, att'[a].at \notin {"sign", "post"}
  PROVE  DrawIInv'
<1>1. MinedStays /\ HeldKept
  BY DrawOff
<1>2. held' \in [Cond -> [0..1 -> Nat]]
  BY DEF DrawIInv
<1>3. PICK c, t : c = att[a].cond /\ t = tx[a]
  OBVIOUS
<1>4. /\ t.state = "new" => Covered(c, t.amounts)
      /\ t.state = "overdrawn" => MinedOn(c)
  BY <1>3 DEF DrawIInv, DrawSound
<1>5. /\ t.state = "new" => Covered(c, t.amounts)'
      /\ t.state = "overdrawn" => MinedOn(c)'
  BY <1>1, <1>4, FactsStay
<1>6. RowsFit(<<>>)'
  BY DEF RowsFit
<1>7. tx'[a] = t /\ (t.state # "none" => att'[a].cond = c)
  BY <1>3
<1>8. DrawSound(a)'
  BY <1>5, <1>6, <1>7 DEF DrawSound
<1> QED BY <1>1, <1>2, <1>8, DrawOne

LEMMA EndForgets ==
  ASSUME RedemptionIInv, DrawIInv, NEW a \in Attempt, NEW answer, End(a, answer),
         UNCHANGED <<held, listed, tx>>
  PROVE  DrawIInv'
<1>1. /\ \A b \in Attempt \ {a} : att'[b] = att[b]
      /\ att'[a].cond = att[a].cond /\ att'[a].rows = <<>> /\ att'[a].page = 0 /\ att'[a].at = "done"
  BY DEF End, Idle, RedemptionIInv, Shape
<1> QED BY <1>1, DrawForgets

LEMMA TeardownForgets ==
  ASSUME RedemptionIInv, DrawIInv, Teardown
  PROVE  DrawIInv'
<1>1. UNCHANGED <<held, listed, tx>>
  BY DEF Teardown, outside
<1>2. \A a \in Attempt : \/ att'[a] = att[a]
                         \/ /\ att'[a].cond = att[a].cond /\ att'[a].rows = <<>>
                            /\ att'[a].page = 0 /\ att'[a].at = "gone"
  BY DEF Teardown, Idle
<1>3. MinedStays /\ HeldKept
  BY <1>1, <1>2, DrawOff
<1>4. \A c : MinedOn(c)' <=> MinedOn(c)
  BY <1>1, <1>2 DEF MinedOn
<1>5. RowsFit(<<>>)'
  BY DEF RowsFit
<1>6. ASSUME NEW a \in Attempt PROVE DrawSound(a)'
  <2>1. PICK at, t : at = att[a] /\ t = tx[a]
    OBVIOUS
  <2>2. /\ RowsFit(at.rows) /\ at.page \in Nat
        /\ at.at \in {"sign", "post"} => Covered(at.cond, at.call.amounts)
        /\ t.state = "new" => Covered(at.cond, t.amounts)
        /\ t.state = "overdrawn" => MinedOn(at.cond)
    BY <2>1 DEF DrawIInv, DrawSound
  <2>3. /\ RowsFit(at.rows)'
        /\ at.at \in {"sign", "post"} => Covered(at.cond, at.call.amounts)'
        /\ t.state = "new" => Covered(at.cond, t.amounts)'
        /\ t.state = "overdrawn" => MinedOn(at.cond)'
    BY <1>3, <2>2, FactsStay
  <2>4. tx'[a] = t
    BY <1>1, <2>1
  <2>5. CASE att'[a] = att[a]
    <3>1. att'[a] = at
      BY <2>1, <2>5
    <3> QED BY <2>2, <2>3, <2>4, <3>1 DEF DrawSound
  <2>6. CASE /\ att'[a].cond = att[a].cond /\ att'[a].rows = <<>>
             /\ att'[a].page = 0 /\ att'[a].at = "gone"
    <3>1. att'[a].cond = at.cond
      BY <2>1, <2>6
    <3> QED BY <1>5, <2>3, <2>4, <2>6, <3>1 DEF DrawSound
  <2> QED BY <1>2, <2>5, <2>6
<1>7. RowsFit(listed)'
  <2>1. PICK rows : rows = listed
    OBVIOUS
  <2> QED BY <1>1, <1>3, <2>1, FactsStay DEF DrawIInv
<1> QED BY <1>1, <1>6, <1>7 DEF DrawIInv

\* An attempt on its way to the post, of which the relayer has nothing yet.
LEMMA DrawGoesOn ==
  ASSUME RedemptionIInv, DrawIInv, NEW a \in Attempt, UNCHANGED <<held, listed, tx>>,
         \A b \in Attempt \ {a} : att'[b] = att[b],
         att[a].at \in Unsent, att'[a].page \in Nat,
         NEW rows, RowsFit(rows), att'[a].rows = rows,
         NEW c, NEW amounts, att'[a].cond = c, att'[a].call.amounts = amounts,
         att'[a].at \in {"sign", "post"} => Covered(c, amounts)
  PROVE  DrawIInv'
<1>1. tx[a].state = "none" /\ tx'[a].state = "none"
  BY DEF RedemptionIInv, AttemptSound, InOrder
<1>2. MinedStays /\ HeldKept
  BY <1>1, DrawOff
<1>3. RowsFit(rows)' /\ (att'[a].at \in {"sign", "post"} => Covered(c, amounts)')
  BY <1>2, FactsStay
<1>4. DrawSound(a)'
  BY <1>1, <1>3 DEF DrawSound
<1>5. held' \in [Cond -> [0..1 -> Nat]]
  BY DEF DrawIInv
<1> QED BY <1>2, <1>4, <1>5, DrawOne

LEMMA PageReadFits ==
  ASSUME RedemptionIInv, DrawIInv, NEW a \in Attempt, PageRead(a)
  PROVE  DrawIInv'
<1>1. att[a].at = "read" /\ UNCHANGED <<held, listed, tx>>
  BY DEF PageRead, outside
<1>2. PICK rows : rows = att[a].rows \o Page(a)
  OBVIOUS
<1>3. RowsFit(rows) /\ att[a].page \in Nat
  BY <1>2, PageFits DEF DrawIInv, DrawSound
<1>4. /\ \A b \in Attempt \ {a} : att'[b] = att[b]
      /\ att'[a].rows = rows /\ att'[a].page \in Nat /\ att'[a].at \notin {"sign", "post"}
  BY <1>1, <1>2, <1>3 DEF PageRead, RedemptionIInv, Shape
<1>5. PICK c, amounts : c = att'[a].cond /\ amounts = att'[a].call.amounts
  OBVIOUS
<1> QED BY <1>1, <1>3, <1>4, <1>5, DrawGoesOn DEF Unsent

LEMMA BuildCovers ==
  ASSUME RedemptionIInv, DrawIInv, NEW a \in Attempt, Build(a)
  PROVE  DrawIInv'
<1>1. att[a].at = "build" /\ UNCHANGED <<held, listed, tx>>
  BY DEF Build, outside
<1>2. CASE Refusal(a) # "none" /\ End(a, Refusal(a))
  <2>1. PICK answer : answer = Refusal(a)
    OBVIOUS
  <2> QED BY <1>1, <1>2, <2>1, EndForgets
<1>3. CASE Refusal(a) = "none"
  <2>1. PICK c, rows : c = att[a].cond /\ rows = att[a].rows
    OBVIOUS
  <2>2. RowsFit(rows)
    BY <2>1 DEF DrawIInv, DrawSound
  <2>3. Matching(a) # {}
    BY <1>3 DEF Refusal
  <2>4. c \in Cond
    <3>1. PICK row \in ToSet(rows) : row.cond = c
      BY <2>1, <2>3 DEF Matching
    <3>2. row \in ApiRow
      BY <2>2, <3>1 DEF RowsFit, ToSet
    <3> QED BY <3>1, <3>2 DEF ApiRow
  <2>5. PICK amounts : amounts = Encoded(c, rows).amounts
    OBVIOUS
  <2>6. Covered(c, amounts)
    BY <2>2, <2>4, <2>5, EncodedCovered DEF DrawIInv
  <2>7. /\ \A b \in Attempt \ {a} : att'[b] = att[b]
        /\ att'[a].cond = c /\ att'[a].call.amounts = amounts
        /\ att'[a].rows = <<>> /\ att'[a].page = att[a].page
    BY <1>3, <2>1, <2>5 DEF Build, RedemptionIInv, Shape
  <2>8. att'[a].page \in Nat
    BY <2>7 DEF DrawIInv, DrawSound
  <2>9. PICK none : none = <<>> /\ RowsFit(none)
    BY Emptied
  <2> QED BY <1>1, <2>6, <2>7, <2>8, <2>9, DrawGoesOn DEF Unsent
<1> QED BY <1>2, <1>3 DEF Build

LEMMA SignCovers ==
  ASSUME RedemptionIInv, DrawIInv, NEW a \in Attempt, Sign(a)
  PROVE  DrawIInv'
<1>1. att[a].at = "sign" /\ UNCHANGED <<held, listed, tx>>
  BY DEF Sign, outside
<1>2. PICK c, amounts, rows :
        c = att[a].cond /\ amounts = att[a].call.amounts /\ rows = att[a].rows
  OBVIOUS
<1>3. Covered(c, amounts) /\ RowsFit(rows) /\ att[a].page \in Nat
  BY <1>1, <1>2 DEF DrawIInv, DrawSound
<1>4. /\ \A b \in Attempt \ {a} : att'[b] = att[b]
      /\ att'[a].cond = c /\ att'[a].call.amounts = amounts /\ att'[a].rows = rows
      /\ att'[a].page \in Nat
  BY <1>2, <1>3 DEF Sign, RedemptionIInv, Shape
<1> QED BY <1>1, <1>3, <1>4, DrawGoesOn DEF Unsent

\* The relayer has the call, as it was signed.
LEMMA PostCovers ==
  ASSUME RedemptionIInv, DrawIInv, NEW a \in Attempt, Accepted(a) \/ AnswerLost(a)
  PROVE  DrawIInv'
<1>1. /\ att[a].at = "post" /\ UNCHANGED <<held, listed>>
      /\ tx' = [tx EXCEPT ![a] = [att[a].call EXCEPT !.state = "new"]]
  BY DEF Accepted, AnswerLost, outside
<1>2. PICK c, amounts, rows :
        c = att[a].cond /\ amounts = att[a].call.amounts /\ rows = att[a].rows
  OBVIOUS
<1>3. Covered(c, amounts) /\ RowsFit(rows) /\ RowsFit(<<>>) /\ att[a].page \in Nat
  BY <1>1, <1>2, Emptied DEF DrawIInv, DrawSound
<1>4. /\ tx'[a].state = "new" /\ tx'[a].amounts = amounts /\ tx[a].state = "none"
      /\ \A b \in Attempt \ {a} : tx'[b] = tx[b]
  BY <1>1, <1>2 DEF RedemptionIInv, Shape, AttemptSound, InOrder, Unsent
<1>5. /\ \A b \in Attempt \ {a} : att'[b] = att[b]
      /\ att'[a].cond = c /\ att'[a].rows \in {rows, <<>>} /\ att'[a].page \in Nat
      /\ att'[a].at \in {"wait", "done"}
  <2>1. CASE Accepted(a)
    BY <1>2, <1>3, <2>1 DEF Accepted, RedemptionIInv, Shape
  <2>2. CASE AnswerLost(a)
    <3>1. End(a, "failed")
      BY <2>2 DEF AnswerLost
    <3>2. att' = [att EXCEPT ![a] = [Idle EXCEPT !.at = "done", !.cond = c,
                                     !.acked = att[a].acked, !.answer = "failed"]]
      BY <1>2, <3>1 DEF End
    <3> QED BY <3>2 DEF Idle, RedemptionIInv, Shape
  <2> QED BY <2>1, <2>2
<1>6. MinedStays /\ HeldKept
  BY <1>1, <1>4, <1>5 DEF MinedStays, HeldKept
<1>7. Covered(c, amounts)' /\ RowsFit(rows)' /\ RowsFit(<<>>)'
  BY <1>3, <1>6, FactsStay
<1>8. DrawSound(a)'
  <2>1. PICK kept : att'[a].rows = kept /\ kept \in {rows, <<>>}
    BY <1>5
  <2>2. RowsFit(kept)'
    BY <1>7, <2>1
  <2> QED BY <1>4, <1>5, <1>7, <2>1, <2>2 DEF DrawSound
<1>9. held' \in [Cond -> [0..1 -> Nat]]
  BY <1>1 DEF DrawIInv
<1> QED BY <1>1, <1>4, <1>5, <1>6, <1>8, <1>9, DrawOne

\* What is burned was held; the other conditions keep what they have.
LEMMA MineCovers ==
  ASSUME RedemptionIInv, DrawIInv, NEW a \in Attempt, Mine(a)
  PROVE  DrawIInv'
<1>1. tx[a].state = "new" /\ ~Overdraws(a) /\ UNCHANGED <<listed, att>>
  BY DEF Mine
<1>2. PICK c, amounts : c = att[a].cond /\ amounts = tx[a].amounts
  OBVIOUS
<1>3. c \in Cond /\ amounts \in [0..1 -> Int] /\ \A s \in 0..1 : amounts[s] <= held[c][s]
  BY <1>1, <1>2 DEF DrawIInv, DrawSound, Covered, Overdraws
<1>4. held' = [held EXCEPT ![c] = [s \in 0..1 |-> IF c \in NegRisk THEN held[c][s] - amounts[s] ELSE 0]]
  BY <1>2 DEF Mine
<1>5. held' \in [Cond -> [0..1 -> Nat]] /\ \A d \in Cond \ {c} : held'[d] = held[d]
  <2>1. \A s \in 0..1 : held[c][s] \in Nat /\ held[c][s] - amounts[s] \in Nat
    BY <1>3 DEF DrawIInv
  <2>2. [s \in 0..1 |-> IF c \in NegRisk THEN held[c][s] - amounts[s] ELSE 0] \in [0..1 -> Nat]
    BY <2>1
  <2> QED BY <1>3, <1>4, <2>2 DEF DrawIInv
<1>6. tx'[a].state = "mined" /\ \A b \in Attempt \ {a} : tx'[b] = tx[b]
  BY DEF Mine, RedemptionIInv, Shape
<1>7. MinedStays
  BY <1>1, <1>6 DEF MinedStays
<1>8. HeldKept
  <2>1. MinedOn(c)'
    BY <1>1, <1>2, <1>6 DEF MinedOn
  <2> QED BY <1>5, <2>1 DEF HeldKept
<1>9. DrawSound(a)'
  <2>1. PICK at : at = att[a]
    OBVIOUS
  <2>2. RowsFit(at.rows) /\ at.page \in Nat /\ at.at \notin {"sign", "post"}
    BY <1>1, <2>1 DEF DrawIInv, DrawSound, RedemptionIInv, AttemptSound, InOrder, Unsent
  <2>3. RowsFit(at.rows)' /\ att'[a] = at
    BY <1>1, <1>7, <1>8, <2>1, <2>2, FactsStay
  <2> QED BY <1>6, <2>2, <2>3 DEF DrawSound
<1> QED BY <1>1, <1>5, <1>6, <1>7, <1>8, <1>9, DrawOne

\* A call that was covered overdraws only where a redeem was mined since.
LEMMA RevertCovers ==
  ASSUME RedemptionIInv, DrawIInv, NEW a \in Attempt, Revert(a)
  PROVE  DrawIInv'
<1>1. /\ tx[a].state = "new" /\ UNCHANGED <<held, listed, att>>
      /\ tx'[a].state = "failed" \/ (tx'[a].state = "overdrawn" /\ Overdraws(a))
      /\ \A b \in Attempt \ {a} : tx'[b] = tx[b]
  BY DEF Revert, outside, RedemptionIInv, Shape
<1>2. PICK at, amounts : at = att[a] /\ amounts = tx[a].amounts
  OBVIOUS
<1>3. /\ RowsFit(at.rows) /\ at.page \in Nat /\ at.at \notin {"sign", "post"}
      /\ Covered(at.cond, amounts)
  BY <1>1, <1>2 DEF DrawIInv, DrawSound, RedemptionIInv, AttemptSound, InOrder, Unsent
<1>4. tx'[a].state = "overdrawn" => MinedOn(at.cond)
  <2>1. ASSUME NEW s \in 0..1, amounts[s] > held[at.cond][s] PROVE MinedOn(at.cond)
    BY <1>3, <2>1 DEF Covered, DrawIInv
  <2> QED BY <1>1, <1>2, <2>1 DEF Overdraws
<1>5. MinedStays /\ HeldKept
  BY <1>1 DEF MinedStays, HeldKept
<1>6. RowsFit(at.rows)' /\ (tx'[a].state = "overdrawn" => MinedOn(at.cond)')
  BY <1>3, <1>4, <1>5, FactsStay
<1>7. DrawSound(a)'
  <2>1. att'[a] = at
    BY <1>1, <1>2
  <2> QED BY <1>1, <1>3, <1>6, <2>1 DEF DrawSound
<1>8. held' \in [Cond -> [0..1 -> Nat]]
  BY <1>1 DEF DrawIInv
<1> QED BY <1>1, <1>5, <1>7, <1>8, DrawOne

LEMMA BeginForgets ==
  ASSUME RedemptionIInv, DrawIInv, NEW a \in Attempt, OnRedeem(a) \/ AskRedeem(a)
  PROVE  DrawIInv'
<1>1. PICK c : /\ att[a].at = "idle"
               /\ att' = [att EXCEPT ![a] = [Idle EXCEPT !.at = "read", !.cond = c]]
  BY DEF OnRedeem, AskRedeem
<1>2. UNCHANGED <<held, listed, tx>>
  BY DEF OnRedeem, AskRedeem, outside
<1>3. /\ tx[a].state = "none" /\ \A b \in Attempt \ {a} : att'[b] = att[b]
      /\ att'[a].rows = <<>> /\ att'[a].page = 0 /\ att'[a].at = "read"
  BY <1>1 DEF Idle, RedemptionIInv, Shape, AttemptSound, InOrder, Unsent
<1> QED BY <1>2, <1>3, DrawForgets

\* The ends before the post and those of the wait, and its turn to the one read.
LEMMA EndsForget ==
  ASSUME RedemptionIInv, DrawIInv, NEW a \in Attempt,
         \/ ReadFails(a) \/ Refused(a) \/ Mined(a) \/ WaitTimeout(a) \/ PollFails(a) \/ Check(a)
         \/ Undefined(a)
  PROVE  DrawIInv'
<1>1. UNCHANGED <<held, listed, tx>>
  BY DEF ReadFails, Refused, Mined, WaitTimeout, PollFails, Check, Undefined, outside
<1>2. CASE Undefined(a)
  <2>1. PICK at, t : at = att[a] /\ t = tx[a]
    OBVIOUS
  <2>2. /\ RowsFit(at.rows) /\ at.page \in Nat
        /\ t.state = "new" => Covered(at.cond, t.amounts)
        /\ t.state = "overdrawn" => MinedOn(at.cond)
    BY <2>1 DEF DrawIInv, DrawSound
  <2>3. /\ \A b \in Attempt \ {a} : att'[b] = att[b]
        /\ att'[a] = [at EXCEPT !.at = "check"] /\ att'[a].at = "check" /\ att'[a].cond = at.cond
        /\ att'[a].rows = at.rows /\ att'[a].page = at.page
    BY <1>2, <2>1 DEF Undefined, RedemptionIInv, Shape
  <2>4. MinedStays /\ HeldKept
    BY <1>1, <2>1, <2>3, DrawOff
  <2>5. /\ RowsFit(at.rows)'
        /\ t.state = "new" => Covered(at.cond, t.amounts)'
        /\ t.state = "overdrawn" => MinedOn(at.cond)'
    BY <2>2, <2>4, FactsStay
  <2>6. DrawSound(a)'
    BY <1>1, <2>1, <2>2, <2>3, <2>5 DEF DrawSound
  <2>7. held' \in [Cond -> [0..1 -> Nat]]
    BY <1>1 DEF DrawIInv
  <2> QED BY <1>1, <2>3, <2>4, <2>6, <2>7, DrawOne
<1>3. CASE ~Undefined(a)
  <2>1. PICK answer : End(a, answer)
    BY <1>3 DEF ReadFails, Refused, Mined, WaitTimeout, PollFails, Check
  <2> QED BY <1>1, <2>1, EndForgets
<1> QED BY <1>2, <1>3

\* The inductive invariant of what is drawn: as long as no redeem of a condition
\* was mined, every row that is listed or was read of it, and every call made of
\* them, is covered by what the Safe holds.
THEOREM CallsAreCovered == RedemptionSpec => []DrawIInv
<1>1. RedemptionInit => DrawIInv
  <2> SUFFICES ASSUME RedemptionInit PROVE DrawIInv
    OBVIOUS
  <2>1. held \in [Cond -> [0..1 -> Nat]]
    BY RedemptionAssumption DEF RedemptionInit
  <2>2. RowsFit(listed)
    BY <2>1, ListingRows DEF RedemptionInit
  <2>3. \A a \in Attempt : DrawSound(a)
    BY Emptied DEF RedemptionInit, DrawSound, Idle, NoTx
  <2> QED BY <2>1, <2>2, <2>3 DEF DrawIInv
<1>2. RedemptionIInv /\ DrawIInv /\ [RedemptionNext]_vars => DrawIInv'
  <2> SUFFICES ASSUME RedemptionIInv, DrawIInv, [RedemptionNext]_vars PROVE DrawIInv'
    OBVIOUS
  <2>1. CASE \/ UNCHANGED vars \/ Refresh \/ ClosePopup \/ JournalStep
             \/ \E a \in Click : PanelGivesUp(a)
    <3>1. UNCHANGED <<held, listed, tx, att>>
      BY <2>1, JournalOnly DEF vars, outside, Refresh, ClosePopup, PanelGivesUp
    <3>2. RowsFit(listed)'
      BY <3>1 DEF DrawIInv, RowsFit, Fits, MinedOn
    <3> QED BY <3>1, <3>2, DrawAside
  <2>2. CASE ListAnew \/ Teardown
    BY <2>2, ListingKeeps, TeardownForgets
  <2>3. ASSUME NEW a \in Click, OnRedeem(a) PROVE DrawIInv'
    BY <2>3, BeginForgets DEF Attempt
  <2>4. ASSUME NEW a \in Ask, AskRedeem(a) PROVE DrawIInv'
    BY <2>4, BeginForgets DEF Attempt
  <2>5. ASSUME NEW a \in Attempt, Attempted(a) PROVE DrawIInv'
    BY <2>5, PageReadFits, BuildCovers, SignCovers, PostCovers, EndsForget DEF Attempted
  <2>6. ASSUME NEW a \in Attempt, Mine(a) \/ Revert(a) PROVE DrawIInv'
    BY <2>6, MineCovers, RevertCovers
  <2> QED BY <2>1, <2>2, <2>3, <2>4, <2>5, <2>6 DEF RedemptionNext, JournalStep
<1> QED BY RedemptionInvariant, <1>1, <1>2, PTL DEF RedemptionSpec

\* A call reverts for want of balance only because another redeem of the same
\* condition took it: neither float noise, nor a missing outcome, nor a row that
\* two pages brought, nor a listing in another order ever makes it.
THEOREM OverdrawsAreExplained == RedemptionSpec => []OverdrawnOnlyAfterAnother
<1>1. DrawIInv => OverdrawnOnlyAfterAnother
  BY DEF DrawIInv, DrawSound, MinedOn, OverdrawnOnlyAfterAnother
<1> QED BY <1>1, CallsAreCovered, PTL
=============================================================================
