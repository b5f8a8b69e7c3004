----------------------------- MODULE Redemption -----------------------------
(***************************************************************************)
(* Redeeming a resolved position of one Safe.  Two clients do it: the      *)
(* popup's PositionsPanel through the offscreen document (redeemPosition   *)
(* of extension/src/background/redeem.ts), signing over WalletConnect, and *)
(* the agent's redeem_position (packages/mcp-server/src/tools), signing    *)
(* with a local key.  Both read the positions from Polymarket's data-api,  *)
(* encode one call (packages/core/src/redeem.ts), hand it to the Safe      *)
(* relayer and wait a bounded time for the chain.                          *)
(*                                                                         *)
(* External: the data-api, whose rows lag behind the chain and are put in  *)
(* another order now and then; the relayer, which accepts or refuses; the  *)
(* contracts.  An attempt is one click or one tool call; it makes at most  *)
(* one transaction, which bears its name here.                             *)
(***************************************************************************)
EXTENDS Integers, FiniteSets, FiniteSetsExt, SequencesExt

CONSTANTS
  Cond,          \* conditions (markets)
  NegRisk,       \* those of a neg-risk event
  Settled,       \* those that have resolved
  Won,           \* condition -> the outcome slot that wins, 0 or 1
  Holdings,      \* what the Safe may hold at first: [Cond -> [0..1 -> Nat]]
  Click,         \* attempts of the panel
  Ask,           \* attempts of the agent
  Order,         \* other writers of the trade log: orders logged or settled
  LogMax,        \* MAX_TRADE_LOG_ITEMS
  PageLimit,     \* PAGE_LIMIT of the MCP server
  MaxPages,      \* MAX_PAGES of the MCP server
  ApiCap,        \* rows the data-api gives at most for one request
  ApiDefault,    \* rows it gives when no limit is asked for
  Ways,          \* how it lists: float noise, outcomes missing, order turned
  MaxListings,   \* bound: times the data-api lists the Safe anew
  MaxFaults,     \* bound: requests, answers and transactions that go wrong
  MaxCloses      \* bound: times the popup or the offscreen document goes away

Attempt == Click \cup Ask
Writer == Click \cup Order

ASSUME RedemptionAssumption ==
  /\ IsFiniteSet(Cond)
  /\ NegRisk \subseteq Cond /\ Settled \subseteq Cond
  /\ Won \in [Cond -> 0..1] /\ Holdings \subseteq [Cond -> [0..1 -> Nat]]
  /\ Click \cap Ask = {} /\ Order \cap Attempt = {} /\ "none" \notin Attempt
  /\ {PageLimit, MaxPages, ApiCap, ApiDefault, LogMax} \subseteq Nat \ {0}
  /\ Ways \subseteq [noise : -1..1, blind : BOOLEAN, turned : BOOLEAN]
  /\ {MaxListings, MaxFaults, MaxCloses} \subseteq Nat

VARIABLES
  held,      \* the chain: condition -> slot -> base units of the Safe
  tx,        \* the relayer: attempt -> its transaction
  listed,    \* the data-api: the rows it lists for the Safe
  listings,  \* how often it listed them anew
  faults,    \* how many things went wrong
  closes,    \* how often the popup or the offscreen document went away
  att,       \* attempt -> where it stands
  panel,     \* the popup: [shown, redeeming], or Closed
  log,       \* the trade log in chrome.storage, newest row first
  write      \* writer -> its logTrade or updateTradeStatus

outside == <<held, listed, listings>>
journal == <<log, write>>
vars == <<outside, tx, faults, closes, att, panel, journal>>

Closed == [open |-> FALSE, shown |-> {}, redeeming |-> "none"]
NoTx == [state |-> "none", amounts |-> [s \in 0..1 |-> 0]]
NoWrite == [at |-> "none", new |-> <<>>, snap |-> <<>>]
Idle == [at |-> "idle", cond |-> "none", page |-> 0, rows |-> <<>>,
         call |-> NoTx, acked |-> FALSE, answer |-> "none"]

-----------------------------------------------------------------------------
(* The data-api.  A size is a float: here it is in halves of a base unit,  *)
(* and off by at most one of them.  outcomeIndex may be missing: -1.       *)

Row(h, c, slot, noise, blind) ==
  [cond |-> c, slot |-> IF blind THEN -1 ELSE slot, size |-> 2 * h[c][slot] + noise,
   redeemable |-> c \in Settled, pays |-> c \notin Settled \/ slot = Won[c]]

Listing(h, noise, blind) ==
  {Row(h, p[1], p[2], noise, blind) : p \in {q \in Cond \X (0..1) : h[q[1]][q[2]] > 0}}

ListAnew ==
  \E way \in Ways :
    LET rows == SetToSeq(Listing(held, way.noise, way.blind))
    IN /\ listings < MaxListings /\ listings' = listings + 1
       /\ listed' = IF way.turned THEN Reverse(rows) ELSE rows
       /\ listed' # listed
       /\ UNCHANGED <<held, tx, faults, closes, att, panel, journal>>

RedemptionInit ==
  /\ held \in Holdings
  /\ tx = [a \in Attempt |-> NoTx]
  /\ listed = SetToSeq(Listing(held, 0, FALSE))
  /\ listings = 0 /\ faults = 0 /\ closes = 0
  /\ att = [a \in Attempt |-> Idle]
  /\ panel = Closed
  /\ log = <<>> /\ write = [w \in Writer |-> NoWrite]

-----------------------------------------------------------------------------
(* The trade log.  A write is a get, an await and a set of all rows; nobody *)
(* waits for it, what it throws is swallowed, and two of them overlap.     *)

LogRow(w, status, ref) == [of |-> w, status |-> status, ref |-> ref]

\* A write that is to put the rows new on top of what it read.
Writing(at, new, snap) == [at |-> at, new |-> new, snap |-> snap]

\* One that is to log a row; one that landed while nobody else had read; and one
\* whose row may be lost.
Starting(row) == Writing("get", <<row>>, <<>>)
Landed == Writing("landed", <<>>, <<>>)
Exposed == Writing("exposed", <<>>, <<>>)

\* logTrade, when its get is answered.
LogReads(w) ==
  /\ write[w].at = "get"
  /\ write' = [write EXCEPT ![w] = Writing("set", @.new, log)]
  /\ UNCHANGED <<outside, tx, faults, closes, att, panel, log>>

\* An order is logged, or updateTradeStatus changes the row of one.
OrderReads(w) ==
  \E new \in {<<>>, <<LogRow(w, "placed", TRUE)>>} :
    /\ write[w].at = "none"
    /\ write' = [write EXCEPT ![w] = Writing("set", new, log)]
    /\ UNCHANGED <<outside, tx, faults, closes, att, panel, log>>

\* What does not fit goes: the oldest rows.
Trimmed(rows) == IF Len(rows) > LogMax THEN SubSeq(rows, 1, LogMax) ELSE rows
TrimmedOff(rows, w) == \E i \in LogMax + 1..Len(rows) : rows[i].of = w

\* The set lands.  Whoever else has read by now will put back what it read.
LogLands(w) ==
  LET rows == write[w].new \o write[w].snap
      alone == \A v \in Writer \ {w} : write[v].at # "set"
  IN /\ write[w].at = "set"
     /\ log' = Trimmed(rows)
     /\ write' = [v \in Writer |->
          IF v = w THEN IF alone THEN Landed ELSE Exposed
          ELSE IF write[v].at = "landed" /\ TrimmedOff(rows, v) THEN Exposed ELSE write[v]]
     /\ UNCHANGED <<outside, tx, faults, closes, att, panel>>

\* The storage refuses the get or the set.
LogFails(w) ==
  /\ write[w].at \in {"get", "set"}
  /\ write' = [write EXCEPT ![w] = Exposed]
  /\ UNCHANGED <<outside, tx, faults, closes, att, panel, log>>

\* The user clears the History tab: the rows written so far go.
ClearLog ==
  /\ panel.open /\ log # <<>>
  /\ log' = <<>>
  /\ write' = [w \in Writer |-> IF write[w].at = "landed" THEN Exposed ELSE write[w]]
  /\ UNCHANGED <<outside, tx, faults, closes, att, panel>>

-----------------------------------------------------------------------------
(* The end of an attempt.                                                  *)

StatusOf(answer) ==
  CASE answer = "ok" -> "placed" [] answer = "unknown" -> "unknown" [] OTHER -> "failed"

\* Mutant: the popup writes the row, if it is still there.
LoggedByPopup(a, answer) ==
  IF a \in Click /\ panel.redeeming = a
  THEN [write EXCEPT ![a] = Starting(LogRow(a, StatusOf(answer), att[a].acked))]
  ELSE write

\* The offscreen document starts to log a redeem that reached redeemPosition,
\* and answers without waiting for it.
Logged(a, answer) ==
  IF a \in Click /\ answer # "unread"
  THEN [write EXCEPT ![a] = Starting(LogRow(a, StatusOf(answer), att[a].acked))]
  ELSE write

\* The answer: the offscreen document logs it, the panel if open is free again.
End(a, answer) ==
  /\ att' = [att EXCEPT ![a] = [Idle EXCEPT !.at = "done", !.cond = att[a].cond,
                                !.acked = att[a].acked, !.answer = answer]]
  /\ write' = Logged(a, answer) /\ UNCHANGED log
  /\ panel' = IF panel.redeeming = a THEN [panel EXCEPT !.redeeming = "none"] ELSE panel

Fault == faults < MaxFaults /\ faults' = faults + 1

-----------------------------------------------------------------------------
(* The panel.                                                              *)

\* The popup opens, or the panel refreshes: positions through the Worker.
Refresh ==
  /\ panel' = [panel EXCEPT !.open = TRUE,
                            !.shown = ToSet(SubSeq(listed, 1, Min({ApiDefault, Len(listed)})))]
  /\ panel' # panel
  /\ UNCHANGED <<outside, tx, faults, closes, att, journal>>

\* onRedeem: the link of a row that pays; one redeem at a time per popup.
OnRedeem(a) ==
  \E row \in panel.shown :
    /\ att[a].at = "idle" /\ panel.redeeming = "none"
    /\ row.redeemable /\ row.pays
    /\ panel' = [panel EXCEPT !.redeeming = a]
    /\ att' = [att EXCEPT ![a] = [Idle EXCEPT !.at = "read", !.cond = row.cond]]
    /\ UNCHANGED <<outside, tx, faults, closes, journal>>

\* The writes of a document that goes away are dropped, and their rows lost.
Dropped(ws) == [w \in Writer |-> IF w \in ws THEN Exposed ELSE write[w]]

Unfinished == {a \in Click : write[a].at \in {"get", "set"}}

\* The popup goes away, and with it a write of its own; the offscreen document
\* works on.
ClosePopup ==
  /\ panel.open /\ closes < MaxCloses
  /\ panel' = Closed /\ closes' = closes + 1
  /\ write' = Dropped({a \in Unfinished : att[a].at = "gone"})
  /\ UNCHANGED <<outside, tx, faults, att, log>>

\* Chrome takes the offscreen document away: what it was doing, the writes of
\* the log included, is forgotten, and a popup that waits gets an error.
Teardown ==
  LET lost == {a \in Click : att[a].at \notin {"idle", "done", "gone"}}
      dying == {a \in Unfinished : att[a].at = "done"}
  IN /\ lost \cup dying # {} /\ closes < MaxCloses
     /\ closes' = closes + 1
     /\ att' = [a \in Attempt |->
                  IF a \in lost THEN [Idle EXCEPT !.at = "gone", !.cond = att[a].cond] ELSE att[a]]
     /\ write' = Dropped(dying)
     /\ UNCHANGED <<outside, tx, faults, panel, log>>

\* The popup gets that error, and logs the redeem as failed itself.
PanelGivesUp(a) ==
  /\ panel.redeeming = a /\ att[a].at = "gone"
  /\ panel' = [panel EXCEPT !.redeeming = "none"]
  /\ write' = [write EXCEPT ![a] = Starting(LogRow(a, "failed", FALSE))]
  /\ UNCHANGED <<outside, tx, faults, closes, att, log>>

\* The agent calls redeem_position.
AskRedeem(a) ==
  \E c \in Cond :
    /\ att[a].at = "idle"
    /\ att' = [att EXCEPT ![a] = [Idle EXCEPT !.at = "read", !.cond = c]]
    /\ UNCHANGED <<outside, tx, faults, closes, panel, journal>>

-----------------------------------------------------------------------------
(* Reading the positions and encoding the call.                            *)

Page(a) ==
  LET from == att[a].page * PageLimit
      size == IF a \in Ask THEN Min({PageLimit, ApiCap}) ELSE ApiDefault
  IN SubSeq(listed, from + 1, Min({from + size, Len(listed)}))

\* fetchPositions of the MCP server goes on after a full page.
HasMore(a) ==
  a \in Ask /\ Len(Page(a)) >= PageLimit /\ att[a].page + 1 < MaxPages

Matching(a) == {row \in ToSet(att[a].rows) : row.cond = att[a].cond}

\* Mutant: a missing outcomeIndex is taken for the first outcome.
BlindIsFirst(row) == IF row.slot = -1 THEN 0 ELSE row.slot

SlotOf(row) == row.slot

\* toBaseUnits: rounded down to whole base units.
BaseUnits(row) == row.size \div 2

\* Two rows of one slot: the later one is taken, not both.
AmountOf(c, rows, slot) ==
  LET i == SelectLastInSeq(rows, LAMBDA row : row.cond = c /\ SlotOf(row) = slot)
  IN IF i = 0 THEN 0 ELSE BaseUnits(rows[i])

\* buildRedeemTransaction; a call of the base contract has no amounts.
Encoded(c, rows) ==
  [state |-> "none",
   amounts |-> [s \in 0..1 |-> IF c \in NegRisk THEN AmountOf(c, rows, s) ELSE 0]]

PageRead(a) ==
  LET rows == att[a].rows \o Page(a)
  IN /\ att[a].at = "read"
     /\ att' = IF HasMore(a)
               THEN [att EXCEPT ![a].rows = rows, ![a].page = @ + 1]
               ELSE [att EXCEPT ![a].rows = rows, ![a].at = "build"]
     /\ UNCHANGED <<outside, tx, faults, closes, panel, journal>>

\* positions_unavailable, or no wallet or Worker to ask: the offscreen document
\* does not log it.
ReadFails(a) ==
  /\ att[a].at = "read" /\ Fault
  /\ End(a, "unread")
  /\ UNCHANGED <<outside, tx, closes>>

\* What is refused before anything is signed.
Refusal(a) ==
  LET rows == Matching(a)
  IN CASE rows = {} -> "not_found"
       [] ~ \E row \in rows : row.redeemable -> "not_yet"
       [] a \in Ask /\ ~ \E row \in rows : row.pays -> "nothing"
       [] att[a].cond \in NegRisk /\ \E row \in rows : SlotOf(row) \notin 0..1 -> "build_failed"
       [] OTHER -> "none"

Build(a) ==
  /\ att[a].at = "build"
  /\ \/ /\ Refusal(a) # "none"
        /\ End(a, Refusal(a))
     \/ /\ Refusal(a) = "none"
        /\ att' = [att EXCEPT ![a].at = IF a \in Click THEN "sign" ELSE "post",
                              ![a].call = Encoded(att[a].cond, att[a].rows), ![a].rows = <<>>]
        /\ UNCHANGED <<panel, journal>>
  /\ UNCHANGED <<outside, tx, faults, closes>>

-----------------------------------------------------------------------------
(* execute(): the wallet signs, the relayer accepts.  Whatever it throws   *)
(* is reported as a plain failure.                                         *)

Sign(a) ==
  /\ att[a].at = "sign"
  /\ att' = [att EXCEPT ![a].at = "post"]
  /\ UNCHANGED <<outside, tx, faults, closes, panel, journal>>

\* The wallet declines, the Worker does not sign the headers, no credentials,
\* the relayer refuses.
Refused(a) ==
  /\ att[a].at \in {"sign", "post"} /\ Fault
  /\ End(a, "failed")
  /\ UNCHANGED <<outside, tx, closes>>

Accepted(a) ==
  /\ att[a].at = "post"
  /\ tx' = [tx EXCEPT ![a] = [att[a].call EXCEPT !.state = "new"]]
  /\ att' = [att EXCEPT ![a].at = "wait", ![a].acked = TRUE]
  /\ UNCHANGED <<outside, faults, closes, panel, journal>>

\* The relayer accepted, and its answer is lost.
AnswerLost(a) ==
  /\ att[a].at = "post" /\ Fault
  /\ tx' = [tx EXCEPT ![a] = [att[a].call EXCEPT !.state = "new"]]
  /\ End(a, "failed")
  /\ UNCHANGED <<outside, closes>>

-----------------------------------------------------------------------------
(* The chain.                                                              *)

Overdraws(a) == \E s \in 0..1 : tx[a].amounts[s] > held[att[a].cond][s]

\* The base contract burns all there is, the adapter the amounts of the call.
Mine(a) ==
  /\ tx[a].state = "new" /\ ~Overdraws(a)
  /\ held' = [held EXCEPT ![att[a].cond] =
                [s \in 0..1 |-> IF att[a].cond \in NegRisk THEN @[s] - tx[a].amounts[s] ELSE 0]]
  /\ tx' = [tx EXCEPT ![a].state = "mined"]
  /\ UNCHANGED <<listed, listings, faults, closes, att, panel, journal>>

Revert(a) ==
  /\ tx[a].state = "new"
  /\ \/ /\ Overdraws(a)
        /\ tx' = [tx EXCEPT ![a].state = "overdrawn"]
        /\ UNCHANGED faults
     \/ /\ Fault
        /\ tx' = [tx EXCEPT ![a].state = "failed"]
  /\ UNCHANGED <<outside, closes, att, panel, journal>>

Dead(a) == tx[a].state \in {"overdrawn", "failed"}

-----------------------------------------------------------------------------
(* wait(), raced with the timer.  It gives the transaction once it is      *)
(* mined, and undefined when it failed or the polls ran out.               *)

Mined(a) ==
  /\ att[a].at = "wait" /\ tx[a].state = "mined"
  /\ End(a, "ok")
  /\ UNCHANGED <<outside, tx, faults, closes>>

\* Mutant: undefined is read as the state at submission.
UndefinedIsSuccess(a) ==
  /\ att[a].at = "wait" /\ tx[a].state # "mined"
  /\ End(a, "ok")
  /\ UNCHANGED <<outside, tx, faults, closes>>

Undefined(a) ==
  /\ att[a].at = "wait" /\ tx[a].state # "mined"
  /\ att' = [att EXCEPT ![a].at = "check"]
  /\ UNCHANGED <<outside, tx, faults, closes, panel, journal>>

\* Mutant: the wait is not capped; a poll that hangs hangs the attempt.
Uncapped(a) == FALSE /\ UNCHANGED vars

\* wait_timeout.
WaitTimeout(a) ==
  /\ att[a].at = "wait"
  /\ End(a, "unknown")
  /\ UNCHANGED <<outside, tx, faults, closes>>

\* A poll throws; so may the one read of the status.
PollFails(a) ==
  /\ att[a].at \in {"wait", "check"} /\ Fault
  /\ End(a, "unknown")
  /\ UNCHANGED <<outside, tx, closes>>

\* getTransaction.
Check(a) ==
  /\ att[a].at = "check"
  /\ End(a, IF Dead(a) THEN "relayer_state" ELSE "unknown")
  /\ UNCHANGED <<outside, tx, faults, closes>>

-----------------------------------------------------------------------------
Attempted(a) ==
  \/ PageRead(a) \/ ReadFails(a) \/ Build(a)
  \/ Sign(a) \/ Refused(a) \/ Accepted(a) \/ AnswerLost(a)
  \/ Mined(a) \/ Undefined(a) \/ WaitTimeout(a) \/ PollFails(a) \/ Check(a)

RedemptionNext ==
  \/ ListAnew \/ Refresh \/ ClosePopup \/ Teardown
  \/ \E a \in Click : OnRedeem(a) \/ PanelGivesUp(a)
  \/ \E a \in Ask : AskRedeem(a)
  \/ \E a \in Attempt : Attempted(a) \/ Mine(a) \/ Revert(a)
  \/ ClearLog \/ \E w \in Writer : LogReads(w) \/ LogLands(w) \/ LogFails(w)
  \/ \E w \in Order : OrderReads(w)

\* Requests are answered or fail, the timer fires; the poll and the chain may
\* be silent for ever.
Fairness ==
  \A a \in Attempt :
    /\ WF_vars(PageRead(a) \/ Build(a) \/ Sign(a) \/ Accepted(a) \/ Check(a))
    /\ WF_vars(WaitTimeout(a))

RedemptionSpec == RedemptionInit /\ [][RedemptionNext]_vars /\ Fairness

-----------------------------------------------------------------------------
(* Properties *)

\* A redeem is called done only when its transaction was mined, and failed on
\* the chain only when it is known to have failed there: what wait() leaves
\* open is never read as either (redeem.ts, "undefined must never be read as
\* success").
VerdictIsTrue ==
  \A a \in Attempt :
    /\ att[a].answer = "ok" => tx[a].state = "mined"
    /\ att[a].answer = "relayer_state" => Dead(a)

\* A call asks the adapter for more than the Safe holds only after another
\* redeem of the same condition took it: neither float noise, nor a missing
\* outcome, nor a row that two pages brought makes a call revert (toBaseUnits
\* and buildRedeemTransaction of core/redeem.ts).
OverdrawnOnlyAfterAnother ==
  \A a \in Attempt : tx[a].state = "overdrawn" =>
    \E b \in Attempt \ {a} : att[b].cond = att[a].cond /\ tx[b].state = "mined"

\* A redeem that the relayer acknowledged is in the trade log with its id, or
\* on its way there, whatever becomes of the popup (offscreen.ts, audit F13),
\* unless its row is exposed: another write overlapped its own, the storage
\* refused it, the offscreen document was taken away before it landed, LogMax
\* newer rows have pushed it out, or the user cleared the log.  A row with an id
\* that is in the log says placed only of what was mined and failed only of what
\* is dead.
InLog(rows, a) == \E row \in ToSet(rows) : row.of = a /\ row.ref
RowIsTrue(row) ==
  (row.of \in Click /\ row.ref) =>
    /\ row.status = "placed" => tx[row.of].state = "mined"
    /\ row.status = "failed" => Dead(row.of)

AcknowledgedIsLogged ==
  /\ \A a \in Click : (att[a].at = "done" /\ att[a].acked) =>
       write[a].at \in {"get", "set", "exposed"} \/ InLog(log, a)
  /\ \A row \in ToSet(log) : RowIsTrue(row)

\* Every redeem ends, though polls and chain stay silent.
RedeemEnds ==
  \A a \in Attempt : att[a].at # "idle" ~> att[a].at \in {"done", "gone"}
=============================================================================
