---------------------------- MODULE WalletSession ----------------------------
(***************************************************************************)
(* extension/src: connecting, restoring and disconnecting the wallet       *)
(* (background/trade.ts, background/wallet.ts, the connect registry of     *)
(* offscreen/offscreen.ts, the Trade tab of popup_new/TradeTabWired.tsx,   *)
(* the settings they share in background/settings.ts).                     *)
(*                                                                         *)
(* The popup comes and goes; the offscreen document runs the connect,      *)
(* answers the popup's polls from a registry, and keeps the wallet in the  *)
(* settings record; the service worker rewrites the same record.  A        *)
(* WalletConnect session is named after the connect that opened it, and    *)
(* credentials after the account they were derived for.                    *)
(***************************************************************************)
EXTENDS Integers, FiniteSets

CONSTANTS
  Account,     \* accounts of the user's wallet app
  MaxConns,    \* bound on the connects begun
  MaxRetries,  \* SESSION_RETRY_DELAYS_MS.length
  MaxEvents    \* bound, all together, on the connects begun, the disconnects,
               \* the settings saved, the sessions the wallet ends or moves, and
               \* the deaths of the offscreen document

ASSUME WalletAssumption ==
  /\ {MaxConns, MaxRetries, MaxEvents} \subseteq Nat
  /\ Account \cap {"none", "unused", "gone", "failed"} = {}

VARIABLES
  wallet,    \* storage: the wallet fields of the settings
  save,      \* the SAVE_SETTINGS under way in the service worker
  session,   \* session[c]: the account the session of connect c signs for
  client,    \* the document's SignClient; "ready" once its store is loaded
  cut,       \* connects awaiting approval on a SignClient that was since reset
  registry,  \* sessions[c]: what a poll about connect c is told
  current,   \* currentConnectId, 0 for none
  conn,      \* conn[c]: where connectWallet is, and what it holds
  stale,     \* stale[c]: the sessions c's prune still has to end
  call,      \* the restoreWallet the Trade tab has asked for
  wipe,      \* the OS_DISCONNECT_WALLET under way
  ui,        \* the Trade tab
  starts,    \* its OS_START_CONNECT requests not yet handled, each "current"
             \* while of the generation of connectGenRef, or "stale"
  pumps,     \* its polling loops, current or stale in the same way
  events,    \* how many of those so far
  wiped,     \* history: "due" in a Disconnect while nothing else was under way,
             \* "yes" after it, "no" once something is
  clobbered  \* history: a SAVE_SETTINGS has undone a change of the wallet

settings == <<wallet, save, clobbered>>
sessions == <<session, client, cut, stale>>
popup == <<ui, starts, pumps>>
vars == <<settings, sessions, registry, current, conn, call, wipe, popup, events, wiped>>

Conn == 1..MaxConns
NoWallet == [topic |-> 0, account |-> "none", creds |-> "none"]
Wallet == [topic : Conn, account : Account, creds : Account] \cup {NoWallet}
Shown == Account \cup {"none"}

Busy == {"gate", "waiting", "signing", "saving", "saved"}
Stage == {"pending", "awaiting_approval", "signing", "done", "error"}
InFlightStage == {"pending", "awaiting_approval", "signing"}
NoRecord == [stage |-> "unknown", account |-> "none"]
NoReply == [stage |-> "none", account |-> "none"]
Record == [stage : Stage, account : Shown] \cup {NoRecord}
Gen == {"current", "stale"}
Save == [at : {"idle", "merging"}, snap : Wallet]
Flow == [at : Busy \cup {"idle", "over"}, known : Wallet, account : Shown, creds : Shown]
Restore == [at : {"idle", "read", "look", "answered"}, snap : Wallet, tries : 0..MaxRetries,
            answer : Shown \cup {"failed"}]
Wipe == [at : {"idle", "restore", "write", "close"}, topic : 0..MaxConns,
         tab : {"Trade", "Settings"}]
Tab == [at : {"closed", "restoring", "poll", "polled", "ready"}, wallet : Shown,
        connect : {"idle", "connecting", "error"}, reply : Record \cup {NoReply}]
Loop == [id : 0..MaxConns, gen : Gen, reply : Record \cup {NoReply}]

Idle == [at |-> "idle", snap |-> NoWallet, tries |-> 0, answer |-> "none"]

WalletTypeOK ==
  /\ wallet \in Wallet /\ save \in Save
  /\ session \in [Conn -> Account \cup {"unused", "gone"}]
  /\ client \in {"none", "loading", "ready"}
  /\ cut \subseteq Conn
  /\ stale \in [Conn -> SUBSET Conn]
  /\ registry \in [Conn -> Record] /\ current \in 0..MaxConns
  /\ conn \in [Conn -> Flow]
  /\ call \in Restore
  /\ wipe \in Wipe
  /\ ui \in Tab /\ starts \subseteq Gen /\ pumps \subseteq Loop
  /\ events \in 0..MaxEvents
  /\ wiped \in {"no", "due", "yes"} /\ clobbered \in BOOLEAN

NoConn == [at |-> "idle", known |-> NoWallet, account |-> "none", creds |-> "none"]
Over == [NoConn EXCEPT !.at = "over"]
Closed == [at |-> "closed", wallet |-> "none", connect |-> "idle", reply |-> NoReply]

WalletInit ==
  /\ wallet = NoWallet
  /\ save = [at |-> "idle", snap |-> NoWallet]
  /\ session = [c \in Conn |-> "unused"]
  /\ client = "none"
  /\ cut = {}
  /\ registry = [c \in Conn |-> NoRecord]
  /\ current = 0
  /\ conn = [c \in Conn |-> NoConn]
  /\ stale = [c \in Conn |-> {}]
  /\ call = Idle
  /\ wipe = [at |-> "idle", topic |-> 0, tab |-> "Settings"]
  /\ ui = Closed
  /\ starts = {}
  /\ pumps = {}
  /\ events = 0
  /\ wiped = "no"
  /\ clobbered = FALSE

Live == {c \in Conn : session[c] \in Account}
Running == {c \in Conn : conn[c].at \in Busy}
Goto(c, at) == conn' = [conn EXCEPT ![c].at = at]

-----------------------------------------------------------------------------
(* connectWallet, run by the registry's OS_START_CONNECT.                   *)

Report(c, stage, account) ==
  registry' = [registry EXCEPT ![c] = [stage |-> stage, account |-> account]]

(* An answered request starts the loop, unless the tab has abandoned it. *)
NewLoop(id) == [id |-> id, gen |-> "current", reply |-> NoReply]

Drive(gen, id) == pumps' = IF gen = "current" THEN pumps \cup {NewLoop(id)} ELSE pumps

(* Mutant: a connect that waits for the signature no longer counts. *)
InFlightUnsigned ==
  current # 0 /\ registry[current].stage \in {"pending", "awaiting_approval"}

InFlight == current # 0 /\ registry[current].stage \in InFlightStage

RejoinConnect(gen) ==
  /\ gen \in starts
  /\ InFlight
  /\ starts' = starts \ {gen}
  /\ Drive(gen, current)
  /\ UNCHANGED <<settings, sessions, registry, current, conn, call, wipe, ui, events, wiped>>

BeginConnect(gen) ==
  LET c == Cardinality({d \in Conn : conn[d].at # "idle"}) + 1 IN
  /\ gen \in starts
  /\ ~InFlight
  /\ c \in Conn
  /\ events < MaxEvents
  /\ events' = events + 1
  /\ starts' = starts \ {gen}
  /\ current' = c
  /\ registry' = [d \in Conn |-> IF d = c THEN [stage |-> "pending", account |-> "none"] ELSE NoRecord]
  /\ conn' = [conn EXCEPT ![c] = [NoConn EXCEPT !.at = "gate", !.known = wallet]]
  /\ Drive(gen, c)
  /\ wiped' = "no"
  /\ UNCHANGED <<settings, sessions, call, wipe, ui>>

(* The URI is there to be scanned; the SignClient was built for it if need be. *)
ShowUri(c) ==
  /\ conn[c].at = "gate"
  /\ client' = IF client = "none" THEN "loading" ELSE client
  /\ Goto(c, "waiting")
  /\ Report(c, "awaiting_approval", "none")
  /\ UNCHANGED <<settings, session, cut, stale, current, call, wipe, popup, events, wiped>>

(* Not configured, geo-blocked, no SignClient, no URI; declined or expired, *)
(* or a session without Polygon or the signing method; a signature refused, *)
(* or not given in SIGNATURE_TIMEOUT_MS.                                    *)
ConnectFails(c) ==
  /\ conn[c].at \in {"gate", "waiting", "signing"}
  /\ conn' = [conn EXCEPT ![c] = Over]
  /\ Report(c, "error", "none")
  /\ UNCHANGED <<settings, sessions, current, call, wipe, popup, events, wiped>>

(* Mutant: credentials are reused whoever they belong to. *)
reusableCredsAny(known, a) == known.creds

reusableCreds(known, a) == IF known.account = a THEN known.creds ELSE "none"

(* The wallet opens the session. One a Disconnect has cut from its store    *)
(* may be lost to the next SignClient.                                      *)
Approve(c, a) ==
  LET creds == reusableCreds(conn[c].known, a) IN
  /\ conn[c].at = "waiting"
  /\ \E held \in {a, "gone"} :
       /\ c \notin cut => held = a
       /\ session' = [session EXCEPT ![c] = held]
  /\ conn' = [conn EXCEPT ![c] = [at |-> IF creds = "none" THEN "signing" ELSE "saving",
                                  known |-> NoWallet, account |-> a, creds |-> creds]]
  /\ IF creds = "none" THEN Report(c, "signing", "none") ELSE UNCHANGED registry
  /\ UNCHANGED <<settings, client, cut, stale, current, call, wipe, popup, events, wiped>>

(* The session is opened, and is of no use: the connect fails. *)
ApproveUnusable(c, a) ==
  /\ conn[c].at = "waiting"
  /\ session' = [session EXCEPT ![c] = a]
  /\ conn' = [conn EXCEPT ![c] = Over]
  /\ Report(c, "error", "none")
  /\ UNCHANGED <<settings, client, cut, stale, current, call, wipe, popup, events, wiped>>

Sign(c) ==
  /\ conn[c].at = "signing"
  /\ session[c] = conn[c].account
  /\ conn' = [conn EXCEPT ![c] = [@ EXCEPT !.at = "saving", !.creds = conn[c].account]]
  /\ UNCHANGED <<settings, sessions, registry, current, call, wipe, popup, events, wiped>>

(* Mutant: the session just connected is pruned with the others. *)
SupersededAll(c) == Live

Superseded(c) == Live \ {c}

(* The credentials are stored, then the sessions the SignClient lists other *)
(* than this one are ended, without being waited for.                       *)
SaveWallet(c) ==
  /\ conn[c].at = "saving"
  /\ wallet' = [topic |-> c, account |-> conn[c].account, creds |-> conn[c].creds]
  /\ Goto(c, "saved")
  /\ \E listed \in SUBSET Superseded(c) :
       stale' = [stale EXCEPT ![c] = listed]
  /\ UNCHANGED <<save, clobbered, session, client, cut, registry, current, call, wipe, popup, events, wiped>>

Connected(c) ==
  /\ conn[c].at = "saved"
  /\ Report(c, "done", conn[c].account)
  /\ conn' = [conn EXCEPT ![c] = Over]
  /\ UNCHANGED <<settings, sessions, current, call, wipe, popup, events, wiped>>

(* pruneOtherSessions, which gives up a teardown that takes too long. *)
PruneEnds(c, t) ==
  /\ t \in stale[c]
  /\ session' = [session EXCEPT ![t] = "gone"]
  /\ stale' = [stale EXCEPT ![c] = @ \ {t}]
  /\ UNCHANGED <<settings, client, cut, registry, current, conn, call, wipe, popup, events, wiped>>

-----------------------------------------------------------------------------
(* restoreWallet, called as the Trade tab is mounted.                        *)

Answers(answer) == call' = [Idle EXCEPT !.at = "answered", !.answer = answer]

CallReads ==
  /\ call.at = "read"
  /\ IF wallet = NoWallet
     THEN Answers("none")
     ELSE call' = [call EXCEPT !.at = "look", !.snap = wallet]
  /\ UNCHANGED <<settings, sessions, registry, current, conn, wipe, popup, events, wiped>>

(* getSignClient cannot be had. *)
LookFails ==
  /\ call.at = "look"
  /\ client = "none"
  /\ Answers("failed")
  /\ UNCHANGED <<settings, sessions, registry, current, conn, wipe, popup, events, wiped>>

(* Mutant: the account the session signs for is not looked at. *)
AnyAccount == TRUE

SameAccount == session[call.snap.topic] = call.snap.account

LookFinds ==
  /\ call.at = "look"
  /\ session[call.snap.topic] \in Account
  /\ client' = IF client = "none" THEN "loading" ELSE client
  /\ Answers(IF SameAccount THEN call.snap.account ELSE "none")
  /\ UNCHANGED <<settings, session, cut, stale, registry, current, conn, wipe, popup, events, wiped>>

(* The session is not, or not yet, among those of the SignClient. *)
LookMisses ==
  /\ call.at = "look"
  /\ session[call.snap.topic] \in Account => client # "ready"
  /\ client' = IF client = "none" THEN "loading" ELSE client
  /\ IF call.tries < MaxRetries
     THEN call' = [call EXCEPT !.tries = @ + 1]
     ELSE Answers("none")
  /\ UNCHANGED <<settings, session, cut, stale, registry, current, conn, wipe, popup, events, wiped>>

ClientLoads ==
  /\ client = "loading"
  /\ client' = "ready"
  /\ UNCHANGED <<settings, session, cut, stale, registry, current, conn, call, wipe, popup, events, wiped>>

-----------------------------------------------------------------------------
(* OS_DISCONNECT_WALLET, pressed in the Trade tab, or in Settings while the  *)
(* Trade tab is not mounted.  What its restoreWallet answers, a session or   *)
(* none or that it cannot be had, matters only to what can be torn down.     *)

Quiet == /\ Running = {} /\ save.at = "idle"
         /\ starts = {} /\ pumps = {} /\ ui.reply = NoReply

UserDisconnects ==
  /\ wipe.at = "idle"
  /\ events < MaxEvents
  /\ events' = events + 1
  /\ IF ui.at = "closed" THEN wallet # NoWallet ELSE ui.wallet # "none"
  /\ wipe' = [at |-> "restore", topic |-> 0,
              tab |-> IF ui.at = "closed" THEN "Settings" ELSE "Trade"]
  /\ wiped' = IF Quiet THEN "due" ELSE "no"
  /\ UNCHANGED <<settings, sessions, registry, current, conn, call, popup>>

(* Mutant: a restore that throws ends the handler. *)
WipeRestoresOrThrows ==
  /\ wipe.at = "restore"
  /\ \/ \E topic \in {0, wallet.topic} : wipe' = [wipe EXCEPT !.at = "write", !.topic = topic]
        /\ UNCHANGED wiped
     \/ /\ client = "none"
        /\ wipe' = [wipe EXCEPT !.at = "idle"]
        /\ wiped' = IF wiped = "due" THEN "yes" ELSE wiped
  /\ UNCHANGED <<settings, sessions, registry, current, conn, call, popup, events>>

WipeRestores ==
  /\ wipe.at = "restore"
  /\ \E topic \in {0, wallet.topic} : wipe' = [wipe EXCEPT !.at = "write", !.topic = topic]
  /\ UNCHANGED <<settings, sessions, registry, current, conn, call, popup, events, wiped>>

WipeWrites ==
  /\ wipe.at = "write"
  /\ wallet' = NoWallet
  /\ wipe' = [wipe EXCEPT !.at = "close"]
  /\ UNCHANGED <<save, clobbered, sessions, registry, current, conn, call, popup, events, wiped>>

(* wcDisconnect of the restored session and wipeWalletConnectStorage, of    *)
(* which either may not work; resetSignClient; the reply.                   *)
WipeEnds ==
  /\ wipe.at = "close"
  /\ \/ UNCHANGED session
     \/ /\ wipe.topic # 0
        /\ session' = [session EXCEPT ![wipe.topic] = "gone"]
     \/ session' = [c \in Conn |-> IF c \in Live THEN "gone" ELSE session[c]]
  /\ client' = "none"
  /\ cut' = {c \in Conn : conn[c].at = "waiting"}
  /\ wipe' = [at |-> "idle", topic |-> 0, tab |-> "Settings"]
  /\ ui' = IF wipe.tab = "Trade" THEN [ui EXCEPT !.wallet = "none"] ELSE ui
  /\ wiped' = IF wiped = "due" THEN "yes" ELSE wiped
  /\ UNCHANGED <<settings, stale, registry, current, conn, call, starts, pumps, events>>

-----------------------------------------------------------------------------
(* SAVE_SETTINGS, of fields other than the wallet's: saveSettings merges     *)
(* them into the record it has read, and stores all of it.                   *)

SaveReads ==
  /\ save.at = "idle"
  /\ events < MaxEvents
  /\ events' = events + 1
  /\ save' = [at |-> "merging", snap |-> wallet]
  /\ wiped' = IF wiped = "due" THEN "no" ELSE wiped
  /\ UNCHANGED <<wallet, clobbered, sessions, registry, current, conn, call, wipe, popup>>

SaveLands ==
  /\ save.at = "merging"
  /\ wallet' = save.snap
  /\ clobbered' = (clobbered \/ save.snap # wallet)
  /\ save' = [at |-> "idle", snap |-> NoWallet]
  /\ UNCHANGED <<sessions, registry, current, conn, call, wipe, popup, events, wiped>>

-----------------------------------------------------------------------------
(* The Trade tab.                                                            *)

OpenTrade ==
  /\ ui.at = "closed"
  /\ ui' = [ui EXCEPT !.at = "restoring"]
  /\ call' = [Idle EXCEPT !.at = "read"]
  /\ UNCHANGED <<settings, sessions, registry, current, conn, wipe, starts, pumps, events, wiped>>

(* connectGenRef is bumped: what was started before it is of no more use, and *)
(* a loop that is asleep ends as it wakes.  Bound: one abandoned request, and *)
(* one abandoned loop with a poll under way, at a time.                       *)
Abandon(requests) == starts' = {"stale" : r \in requests}
Stale == {[p EXCEPT !.gen = "stale", !.id = 0] : p \in {q \in pumps : q.reply # NoReply}}
NoneStale == \A p \in pumps : p.gen = "current"

(* The popup loses the focus, or another tab is shown; what the tab had     *)
(* asked for goes on without it.                                            *)
CloseTrade ==
  /\ ui.at # "closed"
  /\ starts # Gen
  /\ ui' = Closed
  /\ pumps' = {}
  /\ Abandon(starts)
  /\ call' = Idle
  /\ wipe' = [wipe EXCEPT !.tab = "Settings"]
  /\ UNCHANGED <<settings, sessions, registry, current, conn, events, wiped>>

MountRestored ==
  LET a == call.answer IN
  /\ ui.at = "restoring"
  /\ call.at = "answered"
  /\ ui' = IF a \in Account THEN [ui EXCEPT !.at = "ready", !.wallet = a]
                             ELSE [ui EXCEPT !.at = "poll"]
  /\ call' = Idle
  /\ UNCHANGED <<settings, sessions, registry, current, conn, wipe, starts, pumps, events, wiped>>

(* OS_POLL_CONNECT, of the current connect without an id. *)
Poll(id) ==
  LET c == IF id = 0 THEN current ELSE id IN IF c = 0 THEN NoRecord ELSE registry[c]

MountPolls ==
  /\ ui.at = "poll"
  /\ ui' = [ui EXCEPT !.at = "polled", !.reply = Poll(0)]
  /\ UNCHANGED <<settings, sessions, registry, current, conn, call, wipe, starts, pumps, events, wiped>>

MountTakes ==
  LET seen == [ui EXCEPT !.at = "ready", !.reply = NoReply]
      r == ui.reply IN
  /\ ui.at = "polled"
  /\ \/ /\ r.stage = "done"
        /\ ui' = [seen EXCEPT !.wallet = r.account]
        /\ UNCHANGED <<starts, pumps>>
     \/ /\ r.stage \in InFlightStage
        /\ ui' = [seen EXCEPT !.connect = "connecting"]
        /\ pumps' = Stale \cup {NewLoop(0)}
        /\ Abandon(starts)
     \/ /\ r.stage \in {"error", "unknown"}
        /\ ui' = [seen EXCEPT !.connect = IF r.stage = "error" THEN "error" ELSE @]
        /\ UNCHANGED <<starts, pumps>>
  /\ UNCHANGED <<settings, sessions, registry, current, conn, call, wipe, events, wiped>>

UserConnects ==
  /\ ui.at \in {"poll", "polled", "ready"}
  /\ ui.wallet = "none"
  /\ ui.connect = "idle"
  /\ ui' = [ui EXCEPT !.connect = "connecting"]
  /\ starts' = starts \cup {"current"}
  /\ wiped' = "no"
  /\ UNCHANGED <<settings, sessions, registry, current, conn, call, wipe, pumps, events>>

UserCancels ==
  /\ ui.connect # "idle"
  /\ starts # Gen
  /\ NoneStale
  /\ ui' = [ui EXCEPT !.connect = "idle"]
  /\ pumps' = Stale
  /\ Abandon(starts)
  /\ UNCHANGED <<settings, sessions, registry, current, conn, call, wipe, events, wiped>>

(* The offscreen document cannot be had. *)
StartFails(gen) ==
  /\ gen \in starts
  /\ starts' = starts \ {gen}
  /\ ui' = IF gen = "current" THEN [ui EXCEPT !.connect = "error"] ELSE ui
  /\ UNCHANGED <<settings, sessions, registry, current, conn, call, wipe, pumps, events, wiped>>

PumpAsks(p) ==
  /\ p \in pumps
  /\ p.reply = NoReply
  /\ pumps' = (pumps \ {p}) \cup {[p EXCEPT !.reply = Poll(p.id)]}
  /\ UNCHANGED <<settings, sessions, registry, current, conn, call, wipe, ui, starts, events, wiped>>

(* Mutant: a loop looks at its generation before it asks, not after. *)
PumpTakesLate(p) ==
  /\ p \in pumps
  /\ p.reply # NoReply
  /\ \/ /\ p.reply.stage = "done"
        /\ ui' = [ui EXCEPT !.wallet = p.reply.account, !.connect = "idle"]
        /\ pumps' = pumps \ {p}
     \/ /\ p.reply.stage \in {"error", "unknown"}
        /\ ui' = [ui EXCEPT !.connect = "error"]
        /\ pumps' = pumps \ {p}
     \/ /\ p.reply.stage \in InFlightStage
        /\ pumps' = (pumps \ {p}) \cup {[p EXCEPT !.reply = NoReply]}
        /\ UNCHANGED ui
  /\ UNCHANGED <<settings, sessions, registry, current, conn, call, wipe, starts, events, wiped>>

PumpTakes(p) ==
  /\ p \in pumps
  /\ p.reply # NoReply
  /\ \/ /\ p.gen = "stale"
        /\ pumps' = pumps \ {p}
        /\ UNCHANGED ui
     \/ /\ p.gen = "current"
        /\ p.reply.stage = "done"
        /\ ui' = [ui EXCEPT !.wallet = p.reply.account, !.connect = "idle"]
        /\ pumps' = pumps \ {p}
     \/ /\ p.gen = "current"
        /\ p.reply.stage \in {"error", "unknown"}
        /\ ui' = [ui EXCEPT !.connect = "error"]
        /\ pumps' = pumps \ {p}
     \/ /\ p.gen = "current"
        /\ p.reply.stage \in InFlightStage
        /\ ui' = [ui EXCEPT !.connect = "connecting"]
        /\ pumps' = (pumps \ {p}) \cup {[p EXCEPT !.reply = NoReply]}
  /\ UNCHANGED <<settings, sessions, registry, current, conn, call, wipe, starts, events, wiped>>

(* Mutant: the deadline passes without a word. *)
PumpGivesUpSilently(p) ==
  /\ p \in pumps
  /\ pumps' = pumps \ {p}
  /\ UNCHANGED <<settings, sessions, registry, current, conn, call, wipe, ui, starts, events, wiped>>

(* Five minutes have gone by, or a poll could not be answered. *)
PumpGivesUp(p) ==
  /\ p \in pumps
  /\ pumps' = pumps \ {p}
  /\ ui' = IF p.gen = "current" THEN [ui EXCEPT !.connect = "error"] ELSE ui
  /\ UNCHANGED <<settings, sessions, registry, current, conn, call, wipe, starts, events, wiped>>

(* refreshPortfolio, in one step: its own restoreWallet comes up empty, and  *)
(* the tab falls back to Connect.  It runs when the tab gets a wallet and    *)
(* when the user asks.                                                       *)
NotRestorable ==
  wallet # NoWallet => session[wallet.topic] # wallet.account \/ client # "ready"

PortfolioSaysNoWallet ==
  /\ ui.wallet # "none"
  /\ NotRestorable
  /\ ui' = [ui EXCEPT !.wallet = "none"]
  /\ client' = IF client = "none" /\ wallet # NoWallet THEN "loading" ELSE client
  /\ UNCHANGED <<settings, session, cut, stale, registry, current, conn, call, wipe, starts, pumps, events, wiped>>

-----------------------------------------------------------------------------
(* The wallet app ends a session or signs for another account; Chrome ends  *)
(* the offscreen document, with all it holds.                               *)

WalletTurns(t, held) ==
  /\ t \in Live
  /\ held # session[t]
  /\ events < MaxEvents
  /\ events' = events + 1
  /\ session' = [session EXCEPT ![t] = held]
  /\ UNCHANGED <<settings, client, cut, stale, registry, current, conn, call, wipe, popup, wiped>>

OffscreenDies ==
  /\ events < MaxEvents
  /\ events' = events + 1
  /\ client' = "none"
  /\ cut' = {}
  /\ stale' = [c \in Conn |-> {}]
  /\ registry' = [c \in Conn |-> NoRecord]
  /\ current' = 0
  /\ conn' = [c \in Conn |-> IF c \in Running THEN Over ELSE conn[c]]
  /\ call' = IF call.at = "idle" THEN call ELSE [Idle EXCEPT !.at = "answered", !.answer = "failed"]
  /\ wipe' = [at |-> "idle", topic |-> 0, tab |-> "Settings"]
  /\ wiped' = IF wiped = "due" THEN "no" ELSE wiped
  /\ UNCHANGED <<settings, session, popup>>

ConnectStep(c) ==
  \/ ShowUri(c) \/ ConnectFails(c)
  \/ \E a \in Account : Approve(c, a) \/ ApproveUnusable(c, a)
  \/ Sign(c) \/ SaveWallet(c) \/ Connected(c)

PruneStep(c) == \E t \in Conn : PruneEnds(c, t)
CallStep == CallReads \/ LookFails \/ LookFinds \/ LookMisses
WipeStep == WipeRestores \/ WipeWrites \/ WipeEnds
StartStep(gen) == RejoinConnect(gen) \/ BeginConnect(gen) \/ StartFails(gen)
MountStep == MountRestored \/ MountPolls \/ MountTakes
PumpStep(p) == PumpAsks(p) \/ PumpTakes(p) \/ PumpGivesUp(p)

UserStep ==
  OpenTrade \/ CloseTrade \/ UserConnects \/ UserCancels \/ UserDisconnects

WalletNext ==
  \/ \E c \in Conn : ConnectStep(c) \/ PruneStep(c)
  \/ CallStep
  \/ ClientLoads
  \/ WipeStep
  \/ SaveReads \/ SaveLands
  \/ \E gen \in Gen : StartStep(gen)
  \/ MountStep \/ PortfolioSaysNoWallet
  \/ \E p \in pumps : PumpStep(p)
  \/ UserStep
  \/ \E t \in Conn, held \in Account \cup {"gone"} : WalletTurns(t, held)
  \/ OffscreenDies

WalletSpec == WalletInit /\ [][WalletNext]_vars

-----------------------------------------------------------------------------
(* Stored credentials belong to the stored account, whatever connects,      *)
(* disconnects and settings saves have met on the way (reusableCreds).      *)
CredsOfTheirAccount == wallet.creds = wallet.account

(* "Two live flows means two QR codes, two pairings": one connect runs at a  *)
(* time, however often the popup is closed, reopened, cancelled and pressed *)
(* again (OS_START_CONNECT).                                                *)
OneConnect == \A c, d \in Running : c = d

(* A connecting screen has something that will take it further: a request,  *)
(* or a loop of its own generation (pumpConnect).                           *)
ScreenIsDriven ==
  ui.connect = "connecting" => "current" \in starts \/ \E p \in pumps : p.gen = "current"

(* Disconnect leaves nothing behind, relay or not, when no connect, poll or *)
(* settings save was under way, until a connect is asked for again          *)
(* (OS_DISCONNECT_WALLET, disconnectWallet).                                *)
QuietWipeHolds == wiped = "yes" => wallet = NoWallet

(* Cancelled is cancelled: while idle, in the whole of an opening, the tab  *)
(* is moved on by the press of Connect only, never by an answer, a failure  *)
(* or a loop of before the cancel.  One exception, once in an opening: the  *)
(* answer to the poll the tab makes as it mounts, which looks at its own    *)
(* cancelled flag and not at connectGenRef (pumpConnect, the mount effect). *)
IdleTab ==
  ui.at \in {"poll", "polled", "ready"} /\ ui.connect = "idle" /\ ui.wallet = "none"
OnlyConnectMoves ==
  /\ ui'.wallet = "none"
  /\ \/ ui'.connect = "idle"
     \/ ui'.connect = "connecting" /\ "current" \in starts' /\ "current" \notin starts
MountAnswered == ui.at = "polled" /\ ui'.at = "ready"
CancelSticks ==
  [][IdleTab /\ ui'.at # "closed" => OnlyConnectMoves \/ MountAnswered]_vars

(* Without the exception, which no run checks: it does not hold.  Connect,  *)
(* then Cancel, before the poll of the mount is answered, and the answer    *)
(* shows the connect just cancelled, or its wallet.                         *)
CancelSticksAtOnce ==
  [][IdleTab /\ ui'.at # "closed" => OnlyConnectMoves]_vars

(* What a restore hands out is signed for by the account whose credentials  *)
(* come with it, even when the wallet has switched accounts meanwhile.      *)
RestoreAnswersItsAccount ==
  [][\A acc \in Account : call'.answer = acc /\ call.answer # acc
       => session[call.snap.topic] = acc /\ call.snap.creds = acc]_vars

(* Housekeeping never ends the stored session, unless a settings save has   *)
(* put an older one back (pruneOtherSessions).                              *)
PruneSparesStored ==
  [][~clobbered => \A c, t \in Conn : PruneEnds(c, t) => wallet.topic # t]_vars

(* Why they hold: every copy of the wallet on its way to storage is of one  *)
(* account; the connect that runs is the one the registry has as current    *)
(* and in flight; the tab has one driver while connecting, none while idle. *)
CopiesOfTheirAccount ==
  /\ save.snap.creds = save.snap.account
  /\ \A c \in Conn : conn[c].known.creds = conn[c].known.account
  /\ \A c \in Conn : conn[c].at = "saving" => conn[c].creds = conn[c].account
ApprovedHasAccount ==
  \A c \in Conn : conn[c].at \in {"signing", "saving", "saved"} => conn[c].account \in Account
RunningIsCurrent ==
  \A c \in Running : c = current /\ registry[c].stage \in InFlightStage
OneDriver ==
  /\ \A p, q \in pumps : p.gen = "current" /\ q.gen = "current" => p = q
  /\ "current" \in starts => \A p \in pumps : p.gen = "stale"
IdleUndriven ==
  ui.connect = "idle" => "current" \notin starts /\ \A p \in pumps : p.gen = "stale"

WalletIInv ==
  /\ WalletTypeOK
  /\ CredsOfTheirAccount /\ CopiesOfTheirAccount /\ ApprovedHasAccount
  /\ RunningIsCurrent
  /\ ScreenIsDriven /\ OneDriver /\ IdleUndriven
(* Why a restore answers of its account: what it looks at was read whole.   *)
SnapOfItsAccount == call.snap.creds = call.snap.account

(* Why a prune spares the stored session: connects are begun in order, one  *)
(* that waits for its session has none yet, and no prune begun before it    *)
(* is approved, or by itself, has that session on its list.                 *)
BegunInOrder ==
  \E n \in 0..MaxConns : {d \in Conn : conn[d].at # "idle"} = 1..n
PruneIInv ==
  /\ BegunInOrder
  /\ \A c \in Conn : conn[c].at \in {"idle", "gate", "waiting"} => c \notin Live
  /\ \A c, d \in Conn :
       conn[c].at \in {"idle", "gate", "waiting", "signing", "saving"} => c \notin stale[d]
  /\ ~clobbered => \A d \in Conn : wallet.topic \notin stale[d]

(* Why a quiet Disconnect holds: no connect runs that could store a wallet, *)
(* and a save that has read the record read it before any of it or after.   *)
QuietIInv ==
  /\ wiped # "no" => Running = {}
  /\ wiped = "due" => /\ save.at = "idle" /\ wipe.at # "idle"
                      /\ wipe.at = "close" => wallet = NoWallet
  /\ wiped = "yes" => /\ wallet = NoWallet
                      /\ save.at = "merging" => save.snap = NoWallet
=============================================================================
