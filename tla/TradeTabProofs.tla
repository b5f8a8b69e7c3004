--------------------------- MODULE TradeTabProofs ---------------------------
(***************************************************************************)
(* The Trade tab.  What the wallet's session keeps true for any accounts,  *)
(* any number of connects, lookups and events: types, credentials of their *)
(* own account, one connect at a time, a connecting screen that something  *)
(* drives, by the inductive invariant WalletIInv; and, by invariants on    *)
(* top of it, what a restore answers, a quiet Disconnect and whom a prune  *)
(* spares.                                                                 *)
(*                                                                         *)
(* Then the order tickets, for every grid, price, minimum and order book:  *)
(* the minimum a ticket names is enough, the cap and the floor of market   *)
(* orders are on the market's grid, the answers it shows are of what it    *)
(* asks now, what the wallet is asked to sign the exchange takes (by the   *)
(* invariant PriceIInv), and an estimate is the least that its book        *)
(* allows.                                                                 *)
(***************************************************************************)
EXTENDS WalletSession, OrderTicket, FiniteSetTheorems, SumTheorems, TLAPS

-----------------------------------------------------------------------------
(* The records the operations build are of their types. *)

LEMMA Bounds ==
  ASSUME WalletAssumption
  PROVE MaxConns \in Nat /\ MaxRetries \in Nat /\ MaxEvents \in Nat
BY DEF WalletAssumption

LEMMA ConstantTypes ==
  ASSUME WalletAssumption
  PROVE /\ NoWallet \in Wallet /\ NoWallet.topic = 0 /\ NoRecord \in Record
        /\ NoConn \in Flow /\ Over \in Flow
        /\ Idle \in Restore /\ Closed \in Tab
        /\ [Idle EXCEPT !.at = "read"] \in Restore
        /\ \A x \in Shown \cup {"failed"} :
             [Idle EXCEPT !.at = "answered", !.answer = x] \in Restore
<1>1. NoWallet \in Wallet /\ NoWallet.topic = 0
  BY DEF NoWallet, Wallet
<1>2. NoRecord \in Record
  BY DEF NoRecord, Record
<1>3. NoConn \in Flow /\ Over \in Flow
  BY <1>1 DEF NoConn, Over, Flow, Shown, Busy
<1>4. 0 \in 0..MaxRetries
  BY Bounds
<1>5. /\ Idle \in Restore
      /\ [Idle EXCEPT !.at = "read"] \in Restore
      /\ \A x \in Shown \cup {"failed"} :
             [Idle EXCEPT !.at = "answered", !.answer = x] \in Restore
  BY <1>1, <1>4 DEF Restore, Idle, Shown
<1>6. Closed \in Tab
  BY DEF Closed, Tab, Shown
<1> QED
  BY <1>1, <1>2, <1>3, <1>5, <1>6

LEMMA WalletTypes ==
  ASSUME NEW w \in Wallet, WalletAssumption
  PROVE /\ w.topic \in 0..MaxConns /\ w.account \in Shown /\ w.creds \in Shown
        /\ w # NoWallet => w.topic \in Conn /\ w.account \in Account
<1>1. CASE w = NoWallet
  BY <1>1, Bounds DEF NoWallet, Shown
<1>2. CASE w \in [topic : Conn, account : Account, creds : Account]
  BY <1>2, Bounds DEF Conn, Shown
<1> QED
  BY <1>1, <1>2 DEF Wallet

LEMMA ReportTypes ==
  ASSUME registry \in [Conn -> Record], NEW c \in Conn, NEW s \in Stage, NEW a \in Shown,
         Report(c, s, a)
  PROVE registry' \in [Conn -> Record]
BY DEF Report, Record

LEMMA PollTypes ==
  ASSUME WalletAssumption, registry \in [Conn -> Record], current \in 0..MaxConns,
         NEW id \in 0..MaxConns
  PROVE Poll(id) \in Record
<1> DEFINE c == IF id = 0 THEN current ELSE id
<1>1. c # 0 => c \in Conn
  BY Bounds DEF Conn
<1>2. Poll(id) = IF c = 0 THEN NoRecord ELSE registry[c]
  BY DEF Poll
<1> HIDE DEF c
<1> QED
  BY <1>1, <1>2, ConstantTypes

LEMMA LoopTypes ==
  ASSUME WalletAssumption, pumps \subseteq Loop
  PROVE /\ Stale \subseteq Loop
        /\ \A id \in 0..MaxConns : NewLoop(id) \in Loop /\ NewLoop(id).gen = "current"
        /\ \A p \in Loop, r \in Record \cup {NoReply} : [p EXCEPT !.reply = r] \in Loop
<1>1. 0 \in 0..MaxConns
  BY Bounds
<1>2. \A p \in Loop : [p EXCEPT !.gen = "stale", !.id = 0] \in Loop
  BY <1>1 DEF Loop, Gen
<1>3. Stale \subseteq Loop
  BY <1>2 DEF Stale
<1>4. \A id \in 0..MaxConns : NewLoop(id) \in Loop /\ NewLoop(id).gen = "current"
  BY DEF NewLoop, Loop, Gen
<1>5. \A p \in Loop, r \in Record \cup {NoReply} : [p EXCEPT !.reply = r] \in Loop
  BY DEF Loop
<1> QED
  BY <1>3, <1>4, <1>5

LEMMA TabTypes ==
  ASSUME NEW t \in Tab
  PROVE /\ \A w \in Shown :
             /\ [t EXCEPT !.wallet = w] \in Tab
             /\ [t EXCEPT !.at = "ready", !.wallet = w] \in Tab
             /\ [t EXCEPT !.at = "ready", !.reply = NoReply, !.wallet = w] \in Tab
        /\ \A k \in {"idle", "connecting", "error"} :
             /\ [t EXCEPT !.connect = k] \in Tab
             /\ [t EXCEPT !.at = "ready", !.reply = NoReply, !.connect = k] \in Tab
             /\ \A w \in Shown : [t EXCEPT !.wallet = w, !.connect = k] \in Tab
        /\ [t EXCEPT !.at = "restoring"] \in Tab /\ [t EXCEPT !.at = "poll"] \in Tab
        /\ \A r \in Record : [t EXCEPT !.at = "polled", !.reply = r] \in Tab
BY DEF Tab

LEMMA TabReads ==
  ASSUME NEW t \in Tab, NEW w, NEW k
  PROVE /\ [t EXCEPT !.wallet = w].connect = t.connect
        /\ [t EXCEPT !.connect = k].connect = k
        /\ [t EXCEPT !.at = "ready", !.reply = NoReply] \in Tab
        /\ [t EXCEPT !.at = "ready", !.reply = NoReply].connect = t.connect
        /\ [t EXCEPT !.wallet = w, !.connect = k].connect = k
BY DEF Tab
LEMMA RecordTypes ==
  ASSUME NEW r \in Record
  PROVE r.account \in Shown /\ r.stage \in Stage \cup {"unknown"}
BY DEF Record, NoRecord, Shown

(* What each step lemma below keeps, apart from the types. *)
WalletCreds == CredsOfTheirAccount /\ CopiesOfTheirAccount /\ ApprovedHasAccount
TabDriven == ScreenIsDriven /\ OneDriver /\ IdleUndriven

(* A request that is handled hands the tab over to a loop; a loop that asks *)
(* again keeps it.                                                          *)
LEMMA RequestToLoop ==
  ASSUME TabDriven, NEW gen \in starts, starts' = starts \ {gen}, ui' = ui,
         NEW l, l.gen = "current",
         pumps' = IF gen = "current" THEN pumps \cup {l} ELSE pumps
  PROVE TabDriven'
<1>1. CASE gen = "current"
  BY <1>1 DEF TabDriven, ScreenIsDriven, OneDriver, IdleUndriven
<1>2. CASE gen # "current"
  BY <1>2 DEF TabDriven, ScreenIsDriven, OneDriver, IdleUndriven
<1> QED
  BY <1>1, <1>2

LEMMA LoopAsksAgain ==
  ASSUME TabDriven, NEW p \in pumps, NEW q, q.gen = p.gen, starts' = starts,
         pumps' = (pumps \ {p}) \cup {q}, p.gen = "current" \/ ui' = ui,
         p.gen = "current" => ui'.connect = "connecting"
  PROVE TabDriven'
BY DEF TabDriven, ScreenIsDriven, OneDriver, IdleUndriven

(* Every step keeps the variables in their types. *)
LEMMA TypeStep ==
  ASSUME WalletAssumption, WalletTypeOK, ApprovedHasAccount, CopiesOfTheirAccount,
         [WalletNext]_vars
  PROVE WalletTypeOK'
<1> USE DEF WalletTypeOK, settings, sessions, popup
<1>1. ASSUME NEW gen \in Gen, RejoinConnect(gen) PROVE WalletTypeOK'
  <2>1. pumps' \subseteq Loop
    BY <1>1, LoopTypes DEF RejoinConnect, Drive
  <2> QED
    BY <1>1, <2>1 DEF RejoinConnect
<1>2. ASSUME NEW gen \in Gen, BeginConnect(gen) PROVE WalletTypeOK'
  <2>1. wallet \in Wallet /\ events' \in 0..MaxEvents /\ current' \in Conn
    BY <1>2, Bounds DEF BeginConnect
  <2>2. [NoConn EXCEPT !.at = "gate", !.known = wallet] \in Flow
    BY <1>2, <2>1, ConstantTypes DEF Flow, Busy
  <2>3. conn' \in [Conn -> Flow]
    BY <1>2, <2>2 DEF BeginConnect
  <2>4. [stage |-> "pending", account |-> "none"] \in Record
    BY <1>2 DEF Record, Stage, Shown
  <2>5. registry' \in [Conn -> Record]
    BY <1>2, <2>4, ConstantTypes DEF BeginConnect
  <2>6. current' \in 0..MaxConns
    BY <1>2, <2>1, Bounds DEF Conn
  <2>7. pumps' \subseteq Loop
    BY <1>2, <2>1, <2>6, LoopTypes DEF BeginConnect, Drive
  <2> QED
    BY <1>2, <2>1, <2>2, <2>3, <2>4, <2>5, <2>6, <2>7 DEF BeginConnect
<1>3. ASSUME NEW gen \in Gen, StartFails(gen) PROVE WalletTypeOK'
  <2>1. ui' \in Tab
    BY <1>3, TabTypes DEF StartFails
  <2> QED
    BY <1>3, <2>1 DEF StartFails
<1>4. ASSUME NEW c \in Conn, ShowUri(c) PROVE WalletTypeOK'
  <2>1. conn' \in [Conn -> Flow]
    BY <1>4 DEF ShowUri, Goto, Flow, Busy
  <2>2. registry' \in [Conn -> Record]
    BY <1>4, ReportTypes DEF ShowUri, Stage, Shown
  <2> QED
    BY <1>4, <2>1, <2>2 DEF ShowUri
<1>5. ASSUME NEW c \in Conn, ConnectFails(c) PROVE WalletTypeOK'
  <2>1. conn' \in [Conn -> Flow]
    BY <1>5, ConstantTypes DEF ConnectFails
  <2>2. registry' \in [Conn -> Record]
    BY <1>5, ReportTypes DEF ConnectFails, Stage, Shown
  <2> QED
    BY <1>5, <2>1, <2>2 DEF ConnectFails
<1>6. ASSUME NEW c \in Conn, NEW a \in Account, Approve(c, a) PROVE WalletTypeOK'
  <2>1. reusableCreds(conn[c].known, a) \in Shown
    BY <1>6, WalletTypes DEF reusableCreds, Flow, Shown
  <2>2. conn' \in [Conn -> Flow]
    BY <1>6, <2>1, ConstantTypes DEF Approve, Flow, Busy, Shown
  <2>3. registry' \in [Conn -> Record]
    BY <1>6, ReportTypes DEF Approve, Stage, Shown
  <2>4. session' \in [Conn -> Account \cup {"unused", "gone"}]
    BY <1>6 DEF Approve
  <2> QED
    BY <1>6, <2>1, <2>2, <2>3, <2>4 DEF Approve
<1>7. ASSUME NEW c \in Conn, NEW a \in Account, ApproveUnusable(c, a) PROVE WalletTypeOK'
  <2>1. conn' \in [Conn -> Flow]
    BY <1>7, ConstantTypes DEF ApproveUnusable
  <2>2. registry' \in [Conn -> Record]
    BY <1>7, ReportTypes DEF ApproveUnusable, Stage, Shown
  <2> QED
    BY <1>7, <2>1, <2>2 DEF ApproveUnusable
<1>8. ASSUME NEW c \in Conn, Sign(c) PROVE WalletTypeOK'
  <2>1. conn[c] \in Flow
    BY <1>8
  <2>2. [conn[c] EXCEPT !.at = "saving", !.creds = conn[c].account] \in Flow
    BY <1>8, <2>1 DEF Flow, Busy
  <2>3. conn' \in [Conn -> Flow]
    BY <1>8, <2>2 DEF Sign
  <2> QED
    BY <1>8, <2>1, <2>2, <2>3 DEF Sign
<1>9. ASSUME NEW c \in Conn, SaveWallet(c) PROVE WalletTypeOK'
  <2>1. conn' \in [Conn -> Flow]
    BY <1>9 DEF SaveWallet, Goto, Flow, Busy
  <2>2. conn[c].account \in Account /\ conn[c].creds = conn[c].account
    BY <1>9 DEF SaveWallet, ApprovedHasAccount, CopiesOfTheirAccount
  <2>3. wallet' \in Wallet
    BY <1>9, <2>2 DEF SaveWallet, Wallet
  <2>4. stale' \in [Conn -> SUBSET Conn]
    BY <1>9 DEF SaveWallet, Superseded, Live
  <2> QED
    BY <1>9, <2>1, <2>2, <2>3, <2>4 DEF SaveWallet
<1>10. ASSUME NEW c \in Conn, Connected(c) PROVE WalletTypeOK'
  <2>1. conn' \in [Conn -> Flow]
    BY <1>10, ConstantTypes DEF Connected
  <2>2. conn[c].account \in Shown
    BY <1>10 DEF Flow
  <2>3. registry' \in [Conn -> Record]
    BY <1>10, <2>2, ReportTypes DEF Connected, Stage
  <2> QED
    BY <1>10, <2>1, <2>2, <2>3 DEF Connected
<1>11. ASSUME NEW c \in Conn, NEW t \in Conn, PruneEnds(c, t) PROVE WalletTypeOK'
  BY <1>11 DEF PruneEnds
<1>12. CASE CallReads
  <2>1. [call EXCEPT !.at = "look", !.snap = wallet] \in Restore
    BY <1>12 DEF Restore
  <2>2. call' \in Restore
    BY <1>12, <2>1, ConstantTypes DEF CallReads, Answers, Shown
  <2> QED
    BY <1>12, <2>1, <2>2 DEF CallReads
<1>13. CASE LookFails
  <2>1. call' \in Restore
    BY <1>13, ConstantTypes DEF LookFails, Answers
  <2> QED
    BY <1>13, <2>1 DEF LookFails
<1>14. CASE LookFinds
  <2>1. call.snap \in Wallet
    BY <1>14 DEF Restore
  <2>2. call.snap.account \in Shown
    BY <1>14, <2>1, WalletTypes
  <2>3. call' \in Restore
    BY <1>14, <2>2, ConstantTypes DEF LookFinds, Answers, Shown
  <2> QED
    BY <1>14, <2>1, <2>2, <2>3 DEF LookFinds
<1>15. CASE LookMisses
  <2>1. call.tries < MaxRetries => call.tries + 1 \in 0..MaxRetries
    BY <1>15, Bounds DEF Restore
  <2>2. call.tries < MaxRetries => [call EXCEPT !.tries = call.tries + 1] \in Restore
    BY <1>15, <2>1 DEF Restore
  <2>3. call' \in Restore
    BY <1>15, <2>2, ConstantTypes DEF LookMisses, Answers, Shown
  <2> QED
    BY <1>15, <2>1, <2>2, <2>3 DEF LookMisses
<1>16. CASE ClientLoads
  BY <1>16 DEF ClientLoads
<1>17. CASE WipeRestores
  <2>1. {0, wallet.topic} \subseteq 0..MaxConns
    BY <1>17, WalletTypes, Bounds
  <2>2. \A x \in 0..MaxConns : [wipe EXCEPT !.at = "write", !.topic = x] \in Wipe
    BY <1>17 DEF Wipe
  <2>3. wipe' \in Wipe
    BY <1>17, <2>1, <2>2 DEF WipeRestores
  <2> QED
    BY <1>17, <2>1, <2>2, <2>3 DEF WipeRestores
<1>18. CASE WipeWrites
  <2>1. wipe' \in Wipe
    BY <1>18 DEF WipeWrites, Wipe
  <2>2. NoWallet \in Wallet
    BY <1>18, ConstantTypes
  <2> QED
    BY <1>18, <2>1, <2>2 DEF WipeWrites
<1>19. CASE WipeEnds
  <2>1. 0 \in 0..MaxConns
    BY <1>19, Bounds
  <2>2. wipe' \in Wipe
    BY <1>19, <2>1 DEF WipeEnds, Wipe
  <2>3. ui' \in Tab
    BY <1>19, TabTypes DEF WipeEnds, Shown
  <2>4. wipe.topic # 0 => wipe.topic \in Conn
    BY <1>19, Bounds DEF Wipe, Conn
  <2>5. session' \in [Conn -> Account \cup {"unused", "gone"}]
    BY <1>19, <2>4 DEF WipeEnds
  <2> QED
    BY <1>19, <2>1, <2>2, <2>3, <2>4, <2>5 DEF WipeEnds
<1>20. CASE SaveReads
  <2>1. save' \in Save
    BY <1>20 DEF SaveReads, Save
  <2>2. events' \in 0..MaxEvents
    BY <1>20, Bounds DEF SaveReads
  <2> QED
    BY <1>20, <2>1, <2>2 DEF SaveReads
<1>21. CASE SaveLands
  <2>1. wallet' \in Wallet
    BY <1>21 DEF SaveLands, Save
  <2>2. save' \in Save
    BY <1>21, ConstantTypes DEF SaveLands, Save
  <2> QED
    BY <1>21, <2>1, <2>2 DEF SaveLands
<1>22. CASE MountRestored
  <2>1. ui' \in Tab
    BY <1>22, TabTypes DEF MountRestored, Shown
  <2>2. Idle \in Restore
    BY <1>22, ConstantTypes
  <2> QED
    BY <1>22, <2>1, <2>2 DEF MountRestored
<1>23. CASE MountPolls
  <2>1. Poll(0) \in Record
    BY <1>23, PollTypes, Bounds
  <2>2. ui' \in Tab
    BY <1>23, <2>1, TabTypes DEF MountPolls, Shown
  <2> QED
    BY <1>23, <2>1, <2>2 DEF MountPolls
<1>24. CASE MountTakes
  <2>1. ui.reply.stage \in Stage \cup {"unknown"} => ui.reply \in Record
    BY <1>24 DEF Tab, Stage, NoReply
  <2>2. ui.reply \in Record => ui.reply.account \in Shown
    BY <1>24, RecordTypes
  <2>3. [ui EXCEPT !.at = "ready", !.reply = NoReply] \in Tab
    BY <1>24 DEF Tab
  <2>4. ui.reply.stage = "done" =>
         [[ui EXCEPT !.at = "ready", !.reply = NoReply] EXCEPT !.wallet = ui.reply.account] \in Tab
    BY <1>24, <2>1, <2>2, <2>3, TabTypes DEF Stage
  <2>5. [[ui EXCEPT !.at = "ready", !.reply = NoReply] EXCEPT !.connect = "connecting"] \in Tab
    BY <1>24, <2>3, TabTypes
  <2>6. [[ui EXCEPT !.at = "ready", !.reply = NoReply] EXCEPT !.connect = IF ui.reply.stage = "error" THEN "error" ELSE @] \in Tab
    BY <1>24, <2>3 DEF Tab
  <2>7. ui' \in Tab
    BY <1>24, <2>4, <2>5, <2>6 DEF MountTakes
  <2>8. 0 \in 0..MaxConns
    BY <1>24, Bounds
  <2>9. pumps' \subseteq Loop
    BY <1>24, <2>8, LoopTypes DEF MountTakes
  <2>10. starts' \subseteq Gen
    BY <1>24 DEF MountTakes, Abandon, Gen
  <2> QED
    BY <1>24, <2>1, <2>2, <2>3, <2>4, <2>5, <2>6, <2>7, <2>8, <2>9, <2>10 DEF MountTakes
<1>25. CASE PortfolioSaysNoWallet
  <2>1. ui' \in Tab
    BY <1>25, TabTypes DEF PortfolioSaysNoWallet, Shown
  <2> QED
    BY <1>25, <2>1 DEF PortfolioSaysNoWallet
<1>26. ASSUME NEW p \in pumps, PumpAsks(p) PROVE WalletTypeOK'
  <2>1. p \in Loop /\ p.id \in 0..MaxConns
    BY <1>26 DEF Loop
  <2>2. Poll(p.id) \in Record
    BY <1>26, <2>1, PollTypes
  <2>3. pumps' \subseteq Loop
    BY <1>26, <2>1, <2>2, LoopTypes DEF PumpAsks
  <2> QED
    BY <1>26, <2>1, <2>2, <2>3 DEF PumpAsks
<1>27. ASSUME NEW p \in pumps, PumpTakes(p) PROVE WalletTypeOK'
  <2>1. p \in Loop
    BY <1>27
  <2>2. p.reply \in Record
    BY <1>27, <2>1 DEF PumpTakes, Loop
  <2>3. p.reply.account \in Shown
    BY <1>27, <2>2, RecordTypes
  <2>4. \A k \in {"error", "connecting"} : [ui EXCEPT !.connect = k] \in Tab
    BY <1>27 DEF Tab
  <2>5. [ui EXCEPT !.wallet = p.reply.account, !.connect = "idle"] \in Tab
    BY <1>27, <2>3 DEF Tab
  <2>6. ui' \in Tab
    BY <1>27, <2>4, <2>5 DEF PumpTakes
  <2>7. pumps' \subseteq Loop
    BY <1>27, <2>1, LoopTypes DEF PumpTakes
  <2> QED
    BY <1>27, <2>1, <2>2, <2>3, <2>4, <2>5, <2>6, <2>7 DEF PumpTakes
<1>28. ASSUME NEW p \in pumps, PumpGivesUp(p) PROVE WalletTypeOK'
  <2>1. ui' \in Tab
    BY <1>28, TabTypes DEF PumpGivesUp
  <2> QED
    BY <1>28, <2>1 DEF PumpGivesUp
<1>29. CASE OpenTrade
  <2>1. ui' \in Tab
    BY <1>29, TabTypes DEF OpenTrade
  <2>2. call' \in Restore
    BY <1>29, ConstantTypes DEF OpenTrade
  <2> QED
    BY <1>29, <2>1, <2>2 DEF OpenTrade
<1>30. CASE CloseTrade
  <2>1. ui' \in Tab /\ call' \in Restore
    BY <1>30, ConstantTypes DEF CloseTrade
  <2>2. wipe' \in Wipe
    BY <1>30 DEF CloseTrade, Wipe
  <2>3. starts' \subseteq Gen
    BY <1>30 DEF CloseTrade, Abandon, Gen
  <2> QED
    BY <1>30, <2>1, <2>2, <2>3 DEF CloseTrade
<1>31. CASE UserConnects
  <2>1. ui' \in Tab
    BY <1>31, TabTypes DEF UserConnects
  <2>2. starts' \subseteq Gen
    BY <1>31 DEF UserConnects, Gen
  <2> QED
    BY <1>31, <2>1, <2>2 DEF UserConnects
<1>32. CASE UserCancels
  <2>1. ui' \in Tab
    BY <1>32, TabTypes DEF UserCancels
  <2>2. pumps' \subseteq Loop
    BY <1>32, LoopTypes DEF UserCancels
  <2>3. starts' \subseteq Gen
    BY <1>32 DEF UserCancels, Abandon, Gen
  <2> QED
    BY <1>32, <2>1, <2>2, <2>3 DEF UserCancels
<1>33. CASE UserDisconnects
  <2>1. 0 \in 0..MaxConns
    BY <1>33, Bounds
  <2>2. wipe' \in Wipe
    BY <1>33, <2>1 DEF UserDisconnects, Wipe
  <2>3. events' \in 0..MaxEvents
    BY <1>33, Bounds DEF UserDisconnects
  <2> QED
    BY <1>33, <2>1, <2>2, <2>3 DEF UserDisconnects
<1>34. ASSUME NEW t \in Conn, NEW held \in Account \cup {"gone"}, WalletTurns(t, held) PROVE WalletTypeOK'
  <2>1. events' \in 0..MaxEvents
    BY <1>34, Bounds DEF WalletTurns
  <2> QED
    BY <1>34, <2>1 DEF WalletTurns
<1>35. CASE OffscreenDies
  <2>1. 0 \in 0..MaxConns
    BY <1>35, Bounds
  <2>2. wipe' \in Wipe
    BY <1>35, <2>1 DEF OffscreenDies, Wipe
  <2>3. events' \in 0..MaxEvents
    BY <1>35, Bounds DEF OffscreenDies
  <2>4. conn' \in [Conn -> Flow]
    BY <1>35, ConstantTypes DEF OffscreenDies
  <2>5. registry' \in [Conn -> Record]
    BY <1>35, ConstantTypes DEF OffscreenDies
  <2>6. call' \in Restore
    BY <1>35, ConstantTypes DEF OffscreenDies
  <2> QED
    BY <1>35, <2>1, <2>2, <2>3, <2>4, <2>5, <2>6 DEF OffscreenDies
<1>36. CASE UNCHANGED vars
  BY <1>36 DEF vars
<1> QED
  BY <1>1, <1>2, <1>3, <1>4, <1>5, <1>6, <1>7, <1>8, <1>9, <1>10, <1>11, <1>12, <1>13,
     <1>14, <1>15, <1>16, <1>17, <1>18, <1>19, <1>20, <1>21, <1>22, <1>23, <1>24, <1>25,
     <1>26, <1>27, <1>28, <1>29, <1>30, <1>31, <1>32, <1>33, <1>34, <1>35, <1>36
  DEF WalletNext, ConnectStep, PruneStep, CallStep,
     WipeStep, StartStep, MountStep, PumpStep, UserStep

(* A step copies credentials with their account, or derives them for it. *)
LEMMA CredsStep ==
  ASSUME WalletAssumption, WalletTypeOK, WalletCreds, [WalletNext]_vars
  PROVE WalletCreds'
<1> USE DEF WalletTypeOK, WalletCreds, CredsOfTheirAccount, CopiesOfTheirAccount,
          ApprovedHasAccount, settings, sessions, popup
<1>1. ASSUME NEW gen \in Gen, RejoinConnect(gen) PROVE WalletCreds'
  BY <1>1 DEF RejoinConnect
<1>2. ASSUME NEW gen \in Gen, BeginConnect(gen) PROVE WalletCreds'
  <2>1. conn' = [conn EXCEPT ![current'] = [NoConn EXCEPT !.at = "gate", !.known = wallet]]
    BY <1>2 DEF BeginConnect
  <2>2. [NoConn EXCEPT !.at = "gate", !.known = wallet].known = wallet
       /\ [NoConn EXCEPT !.at = "gate", !.known = wallet].at = "gate"
    BY <1>2 DEF NoConn
  <2> QED
    BY <1>2, <2>1, <2>2 DEF BeginConnect
<1>3. ASSUME NEW gen \in Gen, StartFails(gen) PROVE WalletCreds'
  BY <1>3 DEF StartFails
<1>4. ASSUME NEW c \in Conn, ShowUri(c) PROVE WalletCreds'
  BY <1>4 DEF ShowUri, Goto, Flow
<1>5. ASSUME NEW c \in Conn, ConnectFails(c) PROVE WalletCreds'
  BY <1>5 DEF ConnectFails, Over, NoConn, NoWallet
<1>6. ASSUME NEW c \in Conn, NEW a \in Account, Approve(c, a) PROVE WalletCreds'
  <2>1. NoWallet.creds = NoWallet.account
    BY <1>6 DEF NoWallet
  <2>2. reusableCreds(conn[c].known, a) \in {a, "none"}
    BY <1>6 DEF reusableCreds
  <2> QED
    BY <1>6, <2>1, <2>2 DEF Approve
<1>7. ASSUME NEW c \in Conn, NEW a \in Account, ApproveUnusable(c, a) PROVE WalletCreds'
  BY <1>7 DEF ApproveUnusable, Over, NoConn, NoWallet
<1>8. ASSUME NEW c \in Conn, Sign(c) PROVE WalletCreds'
  BY <1>8 DEF Sign, Flow
<1>9. ASSUME NEW c \in Conn, SaveWallet(c) PROVE WalletCreds'
  BY <1>9 DEF SaveWallet, Goto, Flow
<1>10. ASSUME NEW c \in Conn, Connected(c) PROVE WalletCreds'
  BY <1>10 DEF Connected, Over, NoConn, NoWallet
<1>11. ASSUME NEW c \in Conn, NEW t \in Conn, PruneEnds(c, t) PROVE WalletCreds'
  BY <1>11 DEF PruneEnds
<1>12. CASE CallReads
  BY <1>12 DEF CallReads
<1>13. CASE LookFails
  BY <1>13 DEF LookFails
<1>14. CASE LookFinds
  BY <1>14 DEF LookFinds
<1>15. CASE LookMisses
  BY <1>15 DEF LookMisses
<1>16. CASE ClientLoads
  BY <1>16 DEF ClientLoads
<1>17. CASE WipeRestores
  BY <1>17 DEF WipeRestores
<1>18. CASE WipeWrites
  BY <1>18 DEF WipeWrites, NoWallet
<1>19. CASE WipeEnds
  BY <1>19 DEF WipeEnds
<1>20. CASE SaveReads
  BY <1>20 DEF SaveReads
<1>21. CASE SaveLands
  BY <1>21 DEF SaveLands, NoWallet
<1>22. CASE MountRestored
  BY <1>22 DEF MountRestored
<1>23. CASE MountPolls
  BY <1>23 DEF MountPolls
<1>24. CASE MountTakes
  BY <1>24 DEF MountTakes
<1>25. CASE PortfolioSaysNoWallet
  BY <1>25 DEF PortfolioSaysNoWallet
<1>26. ASSUME NEW p \in pumps, PumpAsks(p) PROVE WalletCreds'
  BY <1>26 DEF PumpAsks
<1>27. ASSUME NEW p \in pumps, PumpTakes(p) PROVE WalletCreds'
  BY <1>27 DEF PumpTakes
<1>28. ASSUME NEW p \in pumps, PumpGivesUp(p) PROVE WalletCreds'
  BY <1>28 DEF PumpGivesUp
<1>29. CASE OpenTrade
  BY <1>29 DEF OpenTrade
<1>30. CASE CloseTrade
  BY <1>30 DEF CloseTrade
<1>31. CASE UserConnects
  BY <1>31 DEF UserConnects
<1>32. CASE UserCancels
  BY <1>32 DEF UserCancels
<1>33. CASE UserDisconnects
  BY <1>33 DEF UserDisconnects
<1>34. ASSUME NEW t \in Conn, NEW held \in Account \cup {"gone"}, WalletTurns(t, held) PROVE WalletCreds'
  BY <1>34 DEF WalletTurns
<1>35. CASE OffscreenDies
  BY <1>35 DEF OffscreenDies, Over, NoConn, NoWallet
<1>36. CASE UNCHANGED vars
  BY <1>36 DEF vars
<1> QED
  BY <1>1, <1>2, <1>3, <1>4, <1>5, <1>6, <1>7, <1>8, <1>9, <1>10, <1>11, <1>12, <1>13,
     <1>14, <1>15, <1>16, <1>17, <1>18, <1>19, <1>20, <1>21, <1>22, <1>23, <1>24, <1>25,
     <1>26, <1>27, <1>28, <1>29, <1>30, <1>31, <1>32, <1>33, <1>34, <1>35, <1>36
  DEF WalletNext, ConnectStep, PruneStep, CallStep,
     WipeStep, StartStep, MountStep, PumpStep, UserStep

(* The registry follows the one connect that runs. *)
LEMMA RunningStep ==
  ASSUME WalletAssumption, WalletTypeOK, RunningIsCurrent, [WalletNext]_vars
  PROVE RunningIsCurrent'
<1> USE DEF WalletTypeOK, RunningIsCurrent, Running, InFlightStage, settings, sessions, popup
<1>1. ASSUME NEW gen \in Gen, RejoinConnect(gen) PROVE RunningIsCurrent'
  BY <1>1 DEF RejoinConnect
<1>2. ASSUME NEW gen \in Gen, BeginConnect(gen) PROVE RunningIsCurrent'
  <2>1. Running = {}
    BY <1>2 DEF BeginConnect, InFlight, Conn
  <2>2. \A d \in Conn : d # current' => conn'[d] = conn[d]
    BY <1>2 DEF BeginConnect
  <2>3. current' \in Conn /\ registry'[current'].stage = "pending"
    BY <1>2 DEF BeginConnect
  <2> QED
    BY <1>2, <2>1, <2>2, <2>3
<1>3. ASSUME NEW gen \in Gen, StartFails(gen) PROVE RunningIsCurrent'
  BY <1>3 DEF StartFails
<1>4. ASSUME NEW c \in Conn, ShowUri(c) PROVE RunningIsCurrent'
  BY <1>4 DEF ShowUri, Goto, Report, Flow, Busy
<1>5. ASSUME NEW c \in Conn, ConnectFails(c) PROVE RunningIsCurrent'
  <2>1. Over.at = "over"
    BY <1>5 DEF Over, NoConn
  <2> QED
    BY <1>5, <2>1 DEF ConnectFails, Report, Busy
<1>6. ASSUME NEW c \in Conn, NEW a \in Account, Approve(c, a) PROVE RunningIsCurrent'
  <2>1. c = current /\ registry[c].stage \in InFlightStage
    BY <1>6 DEF Approve, Busy
  <2>2. registry'[c].stage \in InFlightStage
    BY <1>6, <2>1 DEF Approve, Report
  <2>3. \A d \in Conn : d # c => conn'[d] = conn[d]
    BY <1>6 DEF Approve
  <2> QED
    BY <1>6, <2>1, <2>2, <2>3 DEF Approve
<1>7. ASSUME NEW c \in Conn, NEW a \in Account, ApproveUnusable(c, a) PROVE RunningIsCurrent'
  <2>1. Over.at = "over"
    BY <1>7 DEF Over, NoConn
  <2> QED
    BY <1>7, <2>1 DEF ApproveUnusable, Report, Busy
<1>8. ASSUME NEW c \in Conn, Sign(c) PROVE RunningIsCurrent'
  BY <1>8 DEF Sign, Flow, Busy
<1>9. ASSUME NEW c \in Conn, SaveWallet(c) PROVE RunningIsCurrent'
  BY <1>9 DEF SaveWallet, Goto, Flow, Busy
<1>10. ASSUME NEW c \in Conn, Connected(c) PROVE RunningIsCurrent'
  <2>1. Over.at = "over"
    BY <1>10 DEF Over, NoConn
  <2> QED
    BY <1>10, <2>1 DEF Connected, Report, Busy
<1>11. ASSUME NEW c \in Conn, NEW t \in Conn, PruneEnds(c, t) PROVE RunningIsCurrent'
  BY <1>11 DEF PruneEnds
<1>12. CASE CallReads
  BY <1>12 DEF CallReads
<1>13. CASE LookFails
  BY <1>13 DEF LookFails
<1>14. CASE LookFinds
  BY <1>14 DEF LookFinds
<1>15. CASE LookMisses
  BY <1>15 DEF LookMisses
<1>16. CASE ClientLoads
  BY <1>16 DEF ClientLoads
<1>17. CASE WipeRestores
  BY <1>17 DEF WipeRestores
<1>18. CASE WipeWrites
  BY <1>18 DEF WipeWrites
<1>19. CASE WipeEnds
  BY <1>19 DEF WipeEnds
<1>20. CASE SaveReads
  BY <1>20 DEF SaveReads
<1>21. CASE SaveLands
  BY <1>21 DEF SaveLands
<1>22. CASE MountRestored
  BY <1>22 DEF MountRestored
<1>23. CASE MountPolls
  BY <1>23 DEF MountPolls
<1>24. CASE MountTakes
  BY <1>24 DEF MountTakes
<1>25. CASE PortfolioSaysNoWallet
  BY <1>25 DEF PortfolioSaysNoWallet
<1>26. ASSUME NEW p \in pumps, PumpAsks(p) PROVE RunningIsCurrent'
  BY <1>26 DEF PumpAsks
<1>27. ASSUME NEW p \in pumps, PumpTakes(p) PROVE RunningIsCurrent'
  BY <1>27 DEF PumpTakes
<1>28. ASSUME NEW p \in pumps, PumpGivesUp(p) PROVE RunningIsCurrent'
  BY <1>28 DEF PumpGivesUp
<1>29. CASE OpenTrade
  BY <1>29 DEF OpenTrade
<1>30. CASE CloseTrade
  BY <1>30 DEF CloseTrade
<1>31. CASE UserConnects
  BY <1>31 DEF UserConnects
<1>32. CASE UserCancels
  BY <1>32 DEF UserCancels
<1>33. CASE UserDisconnects
  BY <1>33 DEF UserDisconnects
<1>34. ASSUME NEW t \in Conn, NEW held \in Account \cup {"gone"}, WalletTurns(t, held) PROVE RunningIsCurrent'
  BY <1>34 DEF WalletTurns
<1>35. CASE OffscreenDies
  <2>1. Over.at \notin Busy
    BY <1>35 DEF Over, NoConn, Busy
  <2> QED
    BY <1>35, <2>1 DEF OffscreenDies
<1>36. CASE UNCHANGED vars
  BY <1>36 DEF vars
<1> QED
  BY <1>1, <1>2, <1>3, <1>4, <1>5, <1>6, <1>7, <1>8, <1>9, <1>10, <1>11, <1>12, <1>13,
     <1>14, <1>15, <1>16, <1>17, <1>18, <1>19, <1>20, <1>21, <1>22, <1>23, <1>24, <1>25,
     <1>26, <1>27, <1>28, <1>29, <1>30, <1>31, <1>32, <1>33, <1>34, <1>35, <1>36
  DEF WalletNext, ConnectStep, PruneStep, CallStep,
     WipeStep, StartStep, MountStep, PumpStep, UserStep

(* A connecting tab has one driver, an idle one has none. *)
LEMMA DriverStep ==
  ASSUME WalletAssumption, WalletTypeOK, TabDriven, [WalletNext]_vars
  PROVE TabDriven'
<1> USE DEF WalletTypeOK, TabDriven, ScreenIsDriven, OneDriver, IdleUndriven, settings, sessions,
          popup
<1>1. ASSUME NEW gen \in Gen, RejoinConnect(gen) PROVE TabDriven'
  <2>1. NewLoop(current).gen = "current"
    BY <1>1 DEF NewLoop
  <2> QED
    BY <1>1, <2>1, RequestToLoop DEF RejoinConnect, Drive
<1>2. ASSUME NEW gen \in Gen, BeginConnect(gen) PROVE TabDriven'
  <2>1. NewLoop(current').gen = "current"
    BY <1>2 DEF NewLoop
  <2> QED
    BY <1>2, <2>1, RequestToLoop DEF BeginConnect, Drive
<1>3. ASSUME NEW gen \in Gen, StartFails(gen) PROVE TabDriven'
  <2>1. ui \in Tab
    BY <1>3
  <2> QED
    BY <1>3, <2>1 DEF StartFails, Tab
<1>4. ASSUME NEW c \in Conn, ShowUri(c) PROVE TabDriven'
  BY <1>4 DEF ShowUri
<1>5. ASSUME NEW c \in Conn, ConnectFails(c) PROVE TabDriven'
  BY <1>5 DEF ConnectFails
<1>6. ASSUME NEW c \in Conn, NEW a \in Account, Approve(c, a) PROVE TabDriven'
  BY <1>6 DEF Approve
<1>7. ASSUME NEW c \in Conn, NEW a \in Account, ApproveUnusable(c, a) PROVE TabDriven'
  BY <1>7 DEF ApproveUnusable
<1>8. ASSUME NEW c \in Conn, Sign(c) PROVE TabDriven'
  BY <1>8 DEF Sign
<1>9. ASSUME NEW c \in Conn, SaveWallet(c) PROVE TabDriven'
  BY <1>9 DEF SaveWallet
<1>10. ASSUME NEW c \in Conn, Connected(c) PROVE TabDriven'
  BY <1>10 DEF Connected
<1>11. ASSUME NEW c \in Conn, NEW t \in Conn, PruneEnds(c, t) PROVE TabDriven'
  BY <1>11 DEF PruneEnds
<1>12. CASE CallReads
  BY <1>12 DEF CallReads
<1>13. CASE LookFails
  BY <1>13 DEF LookFails
<1>14. CASE LookFinds
  BY <1>14 DEF LookFinds
<1>15. CASE LookMisses
  BY <1>15 DEF LookMisses
<1>16. CASE ClientLoads
  BY <1>16 DEF ClientLoads
<1>17. CASE WipeRestores
  BY <1>17 DEF WipeRestores
<1>18. CASE WipeWrites
  BY <1>18 DEF WipeWrites
<1>19. CASE WipeEnds
  BY <1>19 DEF WipeEnds, Tab
<1>20. CASE SaveReads
  BY <1>20 DEF SaveReads
<1>21. CASE SaveLands
  BY <1>21 DEF SaveLands
<1>22. CASE MountRestored
  BY <1>22 DEF MountRestored, Tab
<1>23. CASE MountPolls
  BY <1>23 DEF MountPolls, Tab
<1>24. CASE MountTakes
  <2> DEFINE seen == [ui EXCEPT !.at = "ready", !.reply = NoReply]
  <2>1. seen \in Tab /\ seen.connect = ui.connect
    BY TabReads
  <2>2. /\ \A w : [seen EXCEPT !.wallet = w].connect = ui.connect
        /\ \A k : [seen EXCEPT !.connect = k].connect = k
    <3> HIDE DEF seen
    <3>1. ASSUME NEW w, NEW k
          PROVE  /\ [seen EXCEPT !.wallet = w].connect = seen.connect
                 /\ [seen EXCEPT !.connect = k].connect = k
      BY <2>1, TabReads
    <3> QED BY <2>1, <3>1
  <2>3. \/ UNCHANGED <<starts, pumps>> /\ ui' = [seen EXCEPT !.wallet = ui.reply.account]
        \/ /\ UNCHANGED <<starts, pumps>>
           /\ ui' = [seen EXCEPT !.connect = IF ui.reply.stage = "error" THEN "error" ELSE @]
        \/ /\ starts' = {"stale" : r \in starts} /\ pumps' = Stale \cup {NewLoop(0)}
           /\ ui' = [seen EXCEPT !.connect = "connecting"]
    BY <1>24 DEF MountTakes, Abandon
  <2> HIDE DEF seen
  <2>4. \/ UNCHANGED <<starts, pumps>> /\ ui'.connect \in {ui.connect, "error"}
        \/ /\ starts' = {"stale" : r \in starts} /\ pumps' = Stale \cup {NewLoop(0)}
           /\ ui'.connect = "connecting"
    BY <2>1, <2>2, <2>3
  <2>5. \A p \in Stale : p.gen = "stale"
    BY DEF Stale, Loop
  <2>6. NewLoop(0).gen = "current"
    BY DEF NewLoop
  <2> QED
    BY <2>4, <2>5, <2>6
<1>25. CASE PortfolioSaysNoWallet
  BY <1>25 DEF PortfolioSaysNoWallet, Tab
<1>26. ASSUME NEW p \in pumps, PumpAsks(p) PROVE TabDriven'
  <2>1. p \in Loop
    BY <1>26
  <2>2. [p EXCEPT !.reply = Poll(p.id)].gen = p.gen
    BY <1>26, <2>1 DEF Loop
  <2> QED
    BY <1>26, <2>1, <2>2 DEF PumpAsks
<1>27. ASSUME NEW p \in pumps, PumpTakes(p) PROVE TabDriven'
  <2> DEFINE again == [p EXCEPT !.reply = NoReply]
  <2>1. again.gen = p.gen /\ \A q \in pumps : q.gen \in {"current", "stale"}
    BY <1>27 DEF Loop, Gen
  <2>2. \A k : [ui EXCEPT !.connect = k].connect = k
    BY TabReads
  <2>3. [ui EXCEPT !.wallet = p.reply.account, !.connect = "idle"].connect = "idle"
    BY DEF Tab
  <2>4. starts' = starts /\ p \in pumps
    BY <1>27 DEF PumpTakes
  <2>5. \/ p.gen = "stale" /\ pumps' = pumps \ {p} /\ ui' = ui
        \/ /\ p.gen = "current" /\ pumps' = pumps \ {p}
           /\ ui' = [ui EXCEPT !.wallet = p.reply.account, !.connect = "idle"]
        \/ /\ p.gen = "current" /\ pumps' = pumps \ {p}
           /\ ui' = [ui EXCEPT !.connect = "error"]
        \/ /\ p.gen = "current" /\ pumps' = (pumps \ {p}) \cup {again}
           /\ ui' = [ui EXCEPT !.connect = "connecting"]
    BY <1>27 DEF PumpTakes
  <2> HIDE DEF again
  <2>6. CASE p.gen = "stale" /\ pumps' = pumps \ {p} /\ ui' = ui
    BY <2>4, <2>6
  <2>7. CASE p.gen = "current" /\ pumps' = pumps \ {p} /\ ui'.connect \in {"idle", "error"}
    BY <2>1, <2>4, <2>7
  <2>8. CASE /\ p.gen = "current" /\ pumps' = (pumps \ {p}) \cup {again}
             /\ ui'.connect = "connecting"
    BY <2>1, <2>4, <2>8, LoopAsksAgain
  <2> QED
    BY <2>2, <2>3, <2>5, <2>6, <2>7, <2>8
<1>28. ASSUME NEW p \in pumps, PumpGivesUp(p) PROVE TabDriven'
  BY <1>28 DEF PumpGivesUp, Tab, Loop, Gen
<1>29. CASE OpenTrade
  BY <1>29 DEF OpenTrade, Tab
<1>30. CASE CloseTrade
  BY <1>30 DEF CloseTrade, Abandon, Closed
<1>31. CASE UserConnects
  BY <1>31 DEF UserConnects, Tab
<1>32. CASE UserCancels
  <2>1. \A p \in Stale : p.gen = "stale"
    BY <1>32 DEF Stale, Loop
  <2> QED
    BY <1>32, <2>1 DEF UserCancels, Abandon, Tab
<1>33. CASE UserDisconnects
  BY <1>33 DEF UserDisconnects
<1>34. ASSUME NEW t \in Conn, NEW held \in Account \cup {"gone"}, WalletTurns(t, held) PROVE TabDriven'
  BY <1>34 DEF WalletTurns
<1>35. CASE OffscreenDies
  BY <1>35 DEF OffscreenDies
<1>36. CASE UNCHANGED vars
  BY <1>36 DEF vars
<1> QED
  BY <1>1, <1>2, <1>3, <1>4, <1>5, <1>6, <1>7, <1>8, <1>9, <1>10, <1>11, <1>12, <1>13,
     <1>14, <1>15, <1>16, <1>17, <1>18, <1>19, <1>20, <1>21, <1>22, <1>23, <1>24, <1>25,
     <1>26, <1>27, <1>28, <1>29, <1>30, <1>31, <1>32, <1>33, <1>34, <1>35, <1>36
  DEF WalletNext, ConnectStep, PruneStep, CallStep,
     WipeStep, StartStep, MountStep, PumpStep, UserStep

LEMMA InvInit ==
  ASSUME WalletAssumption, WalletInit
  PROVE WalletIInv
<1> USE DEF WalletInit
<1>1. 0 \in 0..MaxConns /\ 0 \in 0..MaxEvents
  BY Bounds
<1>2. WalletTypeOK
  BY <1>1, ConstantTypes DEF WalletTypeOK, Save, Wipe
<1>3. CredsOfTheirAccount /\ CopiesOfTheirAccount /\ ApprovedHasAccount
  BY DEF CredsOfTheirAccount, CopiesOfTheirAccount, ApprovedHasAccount, NoWallet, NoConn
<1>4. RunningIsCurrent
  BY DEF RunningIsCurrent, Running, NoConn, Busy
<1>5. ScreenIsDriven /\ OneDriver /\ IdleUndriven
  BY DEF ScreenIsDriven, OneDriver, IdleUndriven, Closed
<1> QED
  BY <1>2, <1>3, <1>4, <1>5 DEF WalletIInv

LEMMA InvStep ==
  ASSUME WalletAssumption, WalletIInv, [WalletNext]_vars
  PROVE WalletIInv'
<1> USE DEF WalletIInv
<1>1. WalletTypeOK'
  BY TypeStep
<1>2. WalletCreds'
  BY CredsStep DEF WalletCreds
<1>3. RunningIsCurrent'
  BY RunningStep
<1>4. TabDriven'
  BY DriverStep DEF TabDriven
<1> QED
  BY <1>1, <1>2, <1>3, <1>4 DEF WalletCreds, TabDriven

-----------------------------------------------------------------------------
StaysIdle == OnlyConnectMoves \/ MountAnswered

(* While the tab is idle nothing drives it, so that only Connect moves it on, *)
(* or the one poll of the mount.                                              *)
LEMMA IdleStep ==
  ASSUME WalletTypeOK, IdleUndriven, [WalletNext]_vars, IdleTab, ui'.at # "closed"
  PROVE StaysIdle
<1> USE DEF WalletTypeOK, IdleUndriven, IdleTab, OnlyConnectMoves, MountAnswered, settings, sessions, popup
<1>1. ASSUME NEW gen \in Gen, RejoinConnect(gen) PROVE StaysIdle
  BY <1>1 DEF RejoinConnect, StaysIdle
<1>2. ASSUME NEW gen \in Gen, BeginConnect(gen) PROVE StaysIdle
  BY <1>2 DEF BeginConnect, StaysIdle
<1>3. ASSUME NEW gen \in Gen, StartFails(gen) PROVE StaysIdle
  BY <1>3 DEF StartFails, StaysIdle
<1>4. ASSUME NEW c \in Conn, ShowUri(c) PROVE StaysIdle
  BY <1>4 DEF ShowUri, StaysIdle
<1>5. ASSUME NEW c \in Conn, ConnectFails(c) PROVE StaysIdle
  BY <1>5 DEF ConnectFails, StaysIdle
<1>6. ASSUME NEW c \in Conn, NEW a \in Account, Approve(c, a) PROVE StaysIdle
  BY <1>6 DEF Approve, StaysIdle
<1>7. ASSUME NEW c \in Conn, NEW a \in Account, ApproveUnusable(c, a) PROVE StaysIdle
  BY <1>7 DEF ApproveUnusable, StaysIdle
<1>8. ASSUME NEW c \in Conn, Sign(c) PROVE StaysIdle
  BY <1>8 DEF Sign, StaysIdle
<1>9. ASSUME NEW c \in Conn, SaveWallet(c) PROVE StaysIdle
  BY <1>9 DEF SaveWallet, StaysIdle
<1>10. ASSUME NEW c \in Conn, Connected(c) PROVE StaysIdle
  BY <1>10 DEF Connected, StaysIdle
<1>11. ASSUME NEW c \in Conn, NEW t \in Conn, PruneEnds(c, t) PROVE StaysIdle
  BY <1>11 DEF PruneEnds, StaysIdle
<1>12. CASE CallReads
  BY <1>12 DEF CallReads, StaysIdle
<1>13. CASE LookFails
  BY <1>13 DEF LookFails, StaysIdle
<1>14. CASE LookFinds
  BY <1>14 DEF LookFinds, StaysIdle
<1>15. CASE LookMisses
  BY <1>15 DEF LookMisses, StaysIdle
<1>16. CASE ClientLoads
  BY <1>16 DEF ClientLoads, StaysIdle
<1>17. CASE WipeRestores
  BY <1>17 DEF WipeRestores, StaysIdle
<1>18. CASE WipeWrites
  BY <1>18 DEF WipeWrites, StaysIdle
<1>19. CASE WipeEnds
  BY <1>19 DEF WipeEnds, Tab, StaysIdle
<1>20. CASE SaveReads
  BY <1>20 DEF SaveReads, StaysIdle
<1>21. CASE SaveLands
  BY <1>21 DEF SaveLands, StaysIdle
<1>22. CASE MountRestored
  BY <1>22 DEF MountRestored, StaysIdle
<1>23. CASE MountPolls
  BY <1>23 DEF MountPolls, StaysIdle
<1>24. CASE MountTakes
  <2> DEFINE seen == [ui EXCEPT !.at = "ready", !.reply = NoReply]
  <2>1. seen \in Tab /\ seen.at = "ready"
    BY ONLY ui \in Tab DEF Tab
  <2>2. ui.at = "polled" /\ \E w, k : ui' = [seen EXCEPT !.wallet = w] \/ ui' = [seen EXCEPT !.connect = k]
    BY ONLY <1>24, Zenon DEF MountTakes
  <2>3. \A w, k : [seen EXCEPT !.wallet = w].at = "ready" /\ [seen EXCEPT !.connect = k].at = "ready"
    <3> HIDE DEF seen
    <3> QED
      BY ONLY <2>1 DEF Tab
  <2>4. ui'.at = "ready"
    BY ONLY <2>2, <2>3
  <2> QED
    BY ONLY <2>2, <2>4 DEF MountAnswered, StaysIdle
<1>25. CASE PortfolioSaysNoWallet
  BY <1>25 DEF PortfolioSaysNoWallet, StaysIdle
<1>26. ASSUME NEW p \in pumps, PumpAsks(p) PROVE StaysIdle
  BY <1>26 DEF PumpAsks, StaysIdle
<1>27. ASSUME NEW p \in pumps, PumpTakes(p) PROVE StaysIdle
  BY <1>27 DEF PumpTakes, StaysIdle
<1>28. ASSUME NEW p \in pumps, PumpGivesUp(p) PROVE StaysIdle
  BY <1>28 DEF PumpGivesUp, StaysIdle
<1>29. CASE OpenTrade
  BY <1>29 DEF OpenTrade, StaysIdle
<1>30. CASE CloseTrade
  BY <1>30 DEF CloseTrade, Closed, StaysIdle
<1>31. CASE UserConnects
  BY <1>31 DEF UserConnects, Tab, StaysIdle
<1>32. CASE UserCancels
  BY <1>32 DEF UserCancels, StaysIdle
<1>33. CASE UserDisconnects
  BY <1>33 DEF UserDisconnects, StaysIdle
<1>34. ASSUME NEW t \in Conn, NEW held \in Account \cup {"gone"}, WalletTurns(t, held) PROVE StaysIdle
  BY <1>34 DEF WalletTurns, StaysIdle
<1>35. CASE OffscreenDies
  BY <1>35 DEF OffscreenDies, StaysIdle
<1>36. CASE UNCHANGED vars
  BY <1>36 DEF vars, StaysIdle
<1> QED
  BY <1>1, <1>2, <1>3, <1>4, <1>5, <1>6, <1>7, <1>8, <1>9, <1>10, <1>11, <1>12, <1>13,
     <1>14, <1>15, <1>16, <1>17, <1>18, <1>19, <1>20, <1>21, <1>22, <1>23, <1>24, <1>25,
     <1>26, <1>27, <1>28, <1>29, <1>30, <1>31, <1>32, <1>33, <1>34, <1>35, <1>36
  DEF WalletNext, ConnectStep, PruneStep, CallStep,
     WipeStep, StartStep, MountStep, PumpStep, UserStep

-----------------------------------------------------------------------------
(* The invariant the others follow from holds in every reachable state. *)
THEOREM WalletInvariant == WalletSpec => []WalletIInv
<1>1. WalletInit => WalletIInv
  BY WalletAssumption, InvInit
<1>2. WalletIInv /\ [WalletNext]_vars => WalletIInv'
  BY WalletAssumption, InvStep
<1> QED
  BY <1>1, <1>2, PTL DEF WalletSpec

(* Every variable stays of its type: no lookup beyond the retries, no poll   *)
(* or prune of a connect never begun.                                        *)
THEOREM WalletTypesHold == WalletSpec => []WalletTypeOK
<1>1. WalletIInv => WalletTypeOK
  BY DEF WalletIInv
<1> QED
  BY <1>1, WalletInvariant, PTL

(* The stored credentials are always those of the stored account, although   *)
(* connects, Disconnect and SAVE_SETTINGS overwrite the record without       *)
(* waiting for one another (connectWallet, reusableCreds, saveSettings).     *)
THEOREM StoredCredentialsMatch == WalletSpec => []CredsOfTheirAccount
<1>1. WalletIInv => CredsOfTheirAccount
  BY DEF WalletIInv
<1> QED
  BY <1>1, WalletInvariant, PTL

(* No two connects run at once, in however many popups and after whatever   *)
(* cancels (OS_START_CONNECT).                                               *)
THEOREM AtMostOneConnect == WalletSpec => []OneConnect
<1>1. WalletIInv => OneConnect
  BY DEF WalletIInv, OneConnect, RunningIsCurrent
<1> QED
  BY <1>1, WalletInvariant, PTL

(* A tab that shows a connect under way always has a request or a loop that *)
(* will move it on (pumpConnect, connectGenRef).                             *)
THEOREM ConnectingIsDriven == WalletSpec => []ScreenIsDriven
<1>1. WalletIInv => ScreenIsDriven
  BY DEF WalletIInv
<1> QED
  BY <1>1, WalletInvariant, PTL

(* A cancelled connect stays cancelled: an answer, a failure or a loop of an *)
(* earlier generation does not move the idle tab on (connectGenRef).  The    *)
(* answer to the poll of the mount still may, once in an opening.            *)
THEOREM CancelledStaysCancelled == WalletSpec => CancelSticks
<1>1. WalletIInv /\ [WalletNext]_vars =>
        [IdleTab /\ ui'.at # "closed" => OnlyConnectMoves \/ MountAnswered]_vars
  BY IdleStep DEF WalletIInv, StaysIdle
<1> QED
  BY <1>1, WalletInvariant, PTL DEF WalletSpec, CancelSticks

-----------------------------------------------------------------------------
(* What a restore looks at. *)

(* The steps that move the restore. *)
LEMMA CallFrame ==
  ASSUME [WalletNext]_vars
  PROVE \/ UNCHANGED call
        \/ CallStep \/ OpenTrade \/ CloseTrade \/ MountRestored \/ OffscreenDies
<1> USE DEF settings, sessions, popup
<1>1. ASSUME NEW c \in Conn, ConnectStep(c) \/ PruneStep(c) PROVE UNCHANGED call
  BY <1>1 DEF ConnectStep, PruneStep, ShowUri, ConnectFails, Approve, ApproveUnusable, Sign,
              SaveWallet, Connected, PruneEnds
<1>2. ASSUME ClientLoads \/ WipeStep \/ SaveReads \/ SaveLands PROVE UNCHANGED call
  BY <1>2 DEF ClientLoads, WipeStep, WipeRestores, WipeWrites, WipeEnds, SaveReads, SaveLands
<1>3. ASSUME NEW gen \in Gen, StartStep(gen) PROVE UNCHANGED call
  BY <1>3 DEF StartStep, RejoinConnect, BeginConnect, StartFails
<1>4. ASSUME MountPolls \/ MountTakes \/ PortfolioSaysNoWallet PROVE UNCHANGED call
  BY <1>4 DEF MountPolls, MountTakes, PortfolioSaysNoWallet
<1>5. ASSUME NEW p \in pumps, PumpStep(p) PROVE UNCHANGED call
  BY <1>5 DEF PumpStep, PumpAsks, PumpTakes, PumpGivesUp
<1>6. ASSUME UserConnects \/ UserCancels \/ UserDisconnects PROVE UNCHANGED call
  BY <1>6 DEF UserConnects, UserCancels, UserDisconnects
<1>7. ASSUME NEW t \in Conn, NEW held \in Account \cup {"gone"}, WalletTurns(t, held)
      PROVE  UNCHANGED call
  BY <1>7 DEF WalletTurns
<1>8. UNCHANGED vars => UNCHANGED call
  BY DEF vars
<1> QED
  BY <1>1, <1>2, <1>3, <1>4, <1>5, <1>6, <1>7, <1>8 DEF WalletNext, MountStep, UserStep

LEMMA SnapStep ==
  ASSUME WalletTypeOK, CredsOfTheirAccount, SnapOfItsAccount, [WalletNext]_vars
  PROVE SnapOfItsAccount'
<1> USE DEF WalletTypeOK, CredsOfTheirAccount, SnapOfItsAccount, settings, sessions, popup
<1>1. /\ Idle.snap.creds = Idle.snap.account
      /\ [Idle EXCEPT !.at = "read"].snap = Idle.snap
      /\ \A x : [Idle EXCEPT !.at = "answered", !.answer = x].snap = Idle.snap
  BY DEF Idle, NoWallet
<1>2. CASE UNCHANGED call
  BY <1>2
<1>3. CASE CallReads
  <2>1. CASE wallet = NoWallet
    <3>1. call' = [Idle EXCEPT !.at = "answered", !.answer = "none"]
      BY <1>3, <2>1 DEF CallReads, Answers
    <3>2. call'.snap = Idle.snap
      BY <1>1, <3>1
    <3> QED
      BY <1>1, <3>2
  <2>2. CASE wallet # NoWallet
    <3>1. call'.snap = wallet
      BY <1>3, <2>2 DEF CallReads, Restore
    <3> QED
      BY <3>1
  <2> QED
    BY <2>1, <2>2
<1>4. CASE LookFails
  BY <1>1, <1>4 DEF LookFails, Answers
<1>5. CASE LookFinds
  BY <1>1, <1>5 DEF LookFinds, Answers
<1>6. CASE LookMisses
  <2>1. [call EXCEPT !.tries = @ + 1].snap = call.snap
    BY DEF Restore
  <2>2. call'.snap = call.snap \/ call'.snap = Idle.snap
    BY <1>1, <1>6, <2>1 DEF LookMisses, Answers
  <2> QED
    BY <1>1, <2>2
<1>7. CASE OpenTrade
  BY <1>1, <1>7 DEF OpenTrade
<1>8. CASE CloseTrade
  BY <1>1, <1>8 DEF CloseTrade
<1>9. CASE MountRestored
  BY <1>1, <1>9 DEF MountRestored
<1>10. CASE OffscreenDies
  BY <1>1, <1>10 DEF OffscreenDies
<1> QED
  BY <1>2, <1>3, <1>4, <1>5, <1>6, <1>7, <1>8, <1>9, <1>10, CallFrame DEF CallStep

(* An account is answered only where the session signs for it. *)
LEMMA AnswerStep ==
  ASSUME WalletAssumption, WalletTypeOK, SnapOfItsAccount, [WalletNext]_vars,
         NEW acc \in Account, call'.answer = acc, call.answer # acc
  PROVE session[call.snap.topic] = acc /\ call.snap.creds = acc
<1> USE DEF WalletTypeOK
<1>1. acc # "none" /\ acc # "failed"
  BY DEF WalletAssumption
<1>2. /\ Idle.answer = "none" /\ [Idle EXCEPT !.at = "read"].answer = "none"
      /\ \A x : [Idle EXCEPT !.at = "answered", !.answer = x].answer = x
  BY DEF Idle
<1>3. CASE UNCHANGED call
  BY <1>3
<1>4. CASE CallReads
  BY <1>1, <1>2, <1>4 DEF CallReads, Answers, Restore
<1>5. CASE LookFails
  BY <1>1, <1>2, <1>5 DEF LookFails, Answers
<1>6. CASE LookFinds
  <2>1. call' = [Idle EXCEPT !.at = "answered",
                             !.answer = IF SameAccount THEN call.snap.account ELSE "none"]
    BY <1>6 DEF LookFinds, Answers
  <2>2. SameAccount /\ call.snap.account = acc
    BY <1>1, <1>2, <2>1
  <2> QED
    BY <2>2 DEF SameAccount, SnapOfItsAccount
<1>7. CASE LookMisses
  BY <1>1, <1>2, <1>7 DEF LookMisses, Answers, Restore
<1>8. CASE OpenTrade
  BY <1>1, <1>2, <1>8 DEF OpenTrade
<1>9. CASE CloseTrade
  BY <1>1, <1>2, <1>9 DEF CloseTrade
<1>10. CASE MountRestored
  BY <1>1, <1>2, <1>10 DEF MountRestored
<1>11. CASE OffscreenDies
  BY <1>1, <1>2, <1>11 DEF OffscreenDies
<1> QED
  BY <1>3, <1>4, <1>5, <1>6, <1>7, <1>8, <1>9, <1>10, <1>11, CallFrame DEF CallStep

(* restoreWallet never hands one account's credentials to a session that    *)
(* signs for another, whatever has been connected, saved, disconnected or   *)
(* switched between its read of the record and its look at the session.     *)
THEOREM RestoredIsItsOwn == WalletSpec => RestoreAnswersItsAccount
<1>1. WalletInit => SnapOfItsAccount
  BY DEF WalletInit, SnapOfItsAccount, Idle, NoWallet
<1>2. WalletIInv /\ SnapOfItsAccount /\ [WalletNext]_vars => SnapOfItsAccount'
  BY SnapStep DEF WalletIInv
<1>3. WalletIInv /\ SnapOfItsAccount /\ [WalletNext]_vars =>
        [\A acc \in Account : call'.answer = acc /\ call.answer # acc
           => session[call.snap.topic] = acc /\ call.snap.creds = acc]_vars
  BY WalletAssumption, AnswerStep DEF WalletIInv
<1> QED
  BY <1>1, <1>2, <1>3, WalletInvariant, PTL DEF WalletSpec, RestoreAnswersItsAccount

-----------------------------------------------------------------------------
(* A Disconnect with nothing else under way. *)

(* The steps that touch what QuietIInv is about. *)
LEMMA QuietFrame ==
  ASSUME [WalletNext]_vars
  PROVE \/ UNCHANGED <<wallet, save, conn, wipe, wiped>>
        \/ \E gen \in Gen : BeginConnect(gen)
        \/ \E c \in Conn : ConnectStep(c)
        \/ WipeStep \/ SaveReads \/ SaveLands
        \/ CloseTrade \/ UserConnects \/ UserDisconnects \/ OffscreenDies
<1> DEFINE Still == UNCHANGED <<wallet, save, conn, wipe, wiped>>
<1> USE DEF settings, sessions, popup
<1>1. ASSUME NEW c \in Conn, PruneStep(c) PROVE Still
  BY <1>1 DEF PruneStep, PruneEnds
<1>2. ASSUME CallStep \/ ClientLoads PROVE Still
  BY <1>2 DEF CallStep, CallReads, LookFails, LookFinds, LookMisses, ClientLoads
<1>3. ASSUME NEW gen \in Gen, RejoinConnect(gen) \/ StartFails(gen) PROVE Still
  BY <1>3 DEF RejoinConnect, StartFails
<1>4. ASSUME MountStep \/ PortfolioSaysNoWallet PROVE Still
  BY <1>4 DEF MountStep, MountRestored, MountPolls, MountTakes, PortfolioSaysNoWallet
<1>5. ASSUME NEW p \in pumps, PumpStep(p) PROVE Still
  BY <1>5 DEF PumpStep, PumpAsks, PumpTakes, PumpGivesUp
<1>6. ASSUME OpenTrade \/ UserCancels PROVE Still
  BY <1>6 DEF OpenTrade, UserCancels
<1>7. ASSUME NEW t \in Conn, NEW held \in Account \cup {"gone"}, WalletTurns(t, held)
      PROVE  Still
  BY <1>7 DEF WalletTurns
<1>8. UNCHANGED vars => Still
  BY DEF vars
<1> HIDE DEF Still
<1>9. \/ Still
      \/ \E gen \in Gen : BeginConnect(gen)
      \/ \E c \in Conn : ConnectStep(c)
      \/ WipeStep \/ SaveReads \/ SaveLands
      \/ CloseTrade \/ UserConnects \/ UserDisconnects \/ OffscreenDies
  BY <1>1, <1>2, <1>3, <1>4, <1>5, <1>6, <1>7, <1>8 DEF WalletNext, StartStep, UserStep
<1> QED
  BY <1>9 DEF Still

(* A connect that runs is what can store a wallet again. *)
LEMMA ConnectQuiet ==
  ASSUME NEW c \in Conn, ConnectStep(c)
  PROVE c \in Running /\ UNCHANGED wiped
<1> USE DEF Running, Busy, settings, sessions, popup
<1>1. ShowUri(c) => c \in Running /\ UNCHANGED wiped
  BY DEF ShowUri
<1>2. ConnectFails(c) => c \in Running /\ UNCHANGED wiped
  BY DEF ConnectFails
<1>3. \A a \in Account : Approve(c, a) => c \in Running /\ UNCHANGED wiped
  BY DEF Approve
<1>4. \A a \in Account : ApproveUnusable(c, a) => c \in Running /\ UNCHANGED wiped
  BY DEF ApproveUnusable
<1>5. Sign(c) => c \in Running /\ UNCHANGED wiped
  BY DEF Sign
<1>6. SaveWallet(c) => c \in Running /\ UNCHANGED wiped
  BY DEF SaveWallet
<1>7. Connected(c) => c \in Running /\ UNCHANGED wiped
  BY DEF Connected
<1> QED
  BY <1>1, <1>2, <1>3, <1>4, <1>5, <1>6, <1>7 DEF ConnectStep

LEMMA QuietStep ==
  ASSUME WalletTypeOK, QuietIInv, [WalletNext]_vars
  PROVE QuietIInv'
<1> USE DEF WalletTypeOK, QuietIInv, settings, sessions, popup
<1>1. CASE UNCHANGED <<wallet, save, conn, wipe, wiped>>
  BY <1>1 DEF Running
<1>2. ASSUME NEW gen \in Gen, BeginConnect(gen) PROVE QuietIInv'
  BY <1>2 DEF BeginConnect
<1>3. ASSUME NEW c \in Conn, ConnectStep(c) PROVE QuietIInv'
  BY <1>3, ConnectQuiet
<1>4. CASE WipeRestores
  BY <1>4 DEF WipeRestores, Running, Wipe
<1>5. CASE WipeWrites
  BY <1>5 DEF WipeWrites, Running, Wipe
<1>6. CASE WipeEnds
  BY <1>6 DEF WipeEnds, Running
<1>7. CASE SaveReads
  BY <1>7 DEF SaveReads, Running
<1>8. CASE SaveLands
  BY <1>8 DEF SaveLands, Running
<1>9. CASE CloseTrade
  <2>1. wipe'.at = wipe.at
    BY <1>9 DEF CloseTrade, Wipe
  <2> QED
    BY <1>9, <2>1 DEF CloseTrade, Running
<1>10. CASE UserConnects
  BY <1>10 DEF UserConnects
<1>11. CASE UserDisconnects
  BY <1>11 DEF UserDisconnects, Quiet, Running
<1>12. CASE OffscreenDies
  <2>1. Over.at \notin Busy
    BY DEF Over, NoConn, Busy
  <2>2. Running' = {}
    BY <1>12, <2>1 DEF OffscreenDies, Running
  <2> QED
    BY <1>12, <2>2 DEF OffscreenDies
<1> QED
  BY <1>1, <1>2, <1>3, <1>4, <1>5, <1>6, <1>7, <1>8, <1>9, <1>10, <1>11, <1>12, QuietFrame
  DEF WipeStep

(* A Disconnect begun with no connect, poll or settings save under way ends *)
(* with an empty record, and unless a save is begun in it nothing puts the  *)
(* wallet back until a connect is asked for (OS_DISCONNECT_WALLET).         *)
THEOREM QuietDisconnectHolds == WalletSpec => []QuietWipeHolds
<1>1. WalletInit => QuietIInv
  BY DEF WalletInit, QuietIInv
<1>2. WalletIInv /\ QuietIInv /\ [WalletNext]_vars => QuietIInv'
  BY QuietStep DEF WalletIInv
<1>3. QuietIInv => QuietWipeHolds
  BY DEF QuietIInv, QuietWipeHolds
<1> QED
  BY <1>1, <1>2, <1>3, WalletInvariant, PTL DEF WalletSpec

-----------------------------------------------------------------------------
(* The prunes. *)

Unapproved == {"idle", "gate", "waiting"}
Unsaved == Unapproved \cup {"signing", "saving"}

(* The four parts of PruneIInv, by name. *)
UnapprovedNotLive == \A c \in Conn : conn[c].at \in Unapproved => c \notin Live
UnsavedNotListed == \A c, d \in Conn : conn[c].at \in Unsaved => c \notin stale[d]
StoredNotListed == ~clobbered => \A d \in Conn : wallet.topic \notin stale[d]

LEMMA PruneParts ==
  PruneIInv <=> BegunInOrder /\ UnapprovedNotLive /\ UnsavedNotListed /\ StoredNotListed
BY DEF PruneIInv, UnapprovedNotLive, UnsavedNotListed, StoredNotListed, Unapproved, Unsaved

(* The steps that touch what PruneIInv is about. *)
LEMMA PruneFrame ==
  ASSUME [WalletNext]_vars
  PROVE \/ UNCHANGED <<wallet, clobbered, session, stale, conn>>
        \/ \E gen \in Gen : BeginConnect(gen)
        \/ \E c \in Conn : ConnectStep(c) \/ PruneStep(c)
        \/ WipeWrites \/ WipeEnds \/ SaveLands \/ OffscreenDies
        \/ \E t \in Conn, held \in Account \cup {"gone"} : WalletTurns(t, held)
<1> DEFINE Still == UNCHANGED <<wallet, clobbered, session, stale, conn>>
<1> USE DEF settings, sessions, popup
<1>1. ASSUME CallStep \/ ClientLoads PROVE Still
  BY <1>1 DEF CallStep, CallReads, LookFails, LookFinds, LookMisses, ClientLoads
<1>2. ASSUME WipeRestores \/ SaveReads PROVE Still
  BY <1>2 DEF WipeRestores, SaveReads
<1>3. ASSUME NEW gen \in Gen, RejoinConnect(gen) \/ StartFails(gen) PROVE Still
  BY <1>3 DEF RejoinConnect, StartFails
<1>4. ASSUME MountStep \/ PortfolioSaysNoWallet PROVE Still
  BY <1>4 DEF MountStep, MountRestored, MountPolls, MountTakes, PortfolioSaysNoWallet
<1>5. ASSUME NEW p \in pumps, PumpStep(p) PROVE Still
  BY <1>5 DEF PumpStep, PumpAsks, PumpTakes, PumpGivesUp
<1>6. ASSUME UserStep PROVE Still
  BY <1>6 DEF UserStep, OpenTrade, CloseTrade, UserConnects, UserCancels, UserDisconnects
<1>7. UNCHANGED vars => Still
  BY DEF vars
<1> HIDE DEF Still
<1>8. \/ Still
      \/ \E gen \in Gen : BeginConnect(gen)
      \/ \E c \in Conn : ConnectStep(c) \/ PruneStep(c)
      \/ WipeWrites \/ WipeEnds \/ SaveLands \/ OffscreenDies
      \/ \E t \in Conn, held \in Account \cup {"gone"} : WalletTurns(t, held)
  BY <1>1, <1>2, <1>3, <1>4, <1>5, <1>6, <1>7 DEF WalletNext, StartStep, WipeStep
<1> QED
  BY <1>8 DEF Still

(* The connect begun is the first that never was. *)
LEMMA BeginsNext ==
  ASSUME WalletAssumption, BegunInOrder
  PROVE \E n \in 0..MaxConns :
          /\ {d \in Conn : conn[d].at # "idle"} = 1..n
          /\ Cardinality({d \in Conn : conn[d].at # "idle"}) = n
<1>1. PICK n \in 0..MaxConns : {d \in Conn : conn[d].at # "idle"} = 1..n
  BY DEF BegunInOrder
<1>2. n \in Nat
  BY Bounds
<1>3. Cardinality(1..n) = n
  BY <1>2, FS_Interval
<1> QED
  BY <1>1, <1>3

(* A step that leaves idle connects idle, and begun ones begun. *)
LEMMA OrderKept ==
  ASSUME BegunInOrder, \A d \in Conn : conn'[d].at = "idle" <=> conn[d].at = "idle"
  PROVE BegunInOrder'
<1>1. {d \in Conn : conn'[d].at # "idle"} = {d \in Conn : conn[d].at # "idle"}
  OBVIOUS
<1> QED
  BY <1>1 DEF BegunInOrder

(* A step that neither begins a connect nor lists sessions to end. *)
LEMMA PruneKept ==
  ASSUME PruneIInv, stale \in [Conn -> SUBSET Conn],
         \A d \in Conn : /\ conn'[d].at = "idle" <=> conn[d].at = "idle"
                         /\ conn'[d].at \in Unapproved => conn[d].at \in Unapproved
                         /\ conn'[d].at \in Unsaved => conn[d].at \in Unsaved
                         /\ conn'[d].at \in Unapproved /\ d \in Live' => d \in Live
                         /\ stale'[d] \subseteq stale[d],
         ~clobbered' => ~clobbered /\ wallet'.topic \in {wallet.topic, 0}
  PROVE PruneIInv'
<1>1. BegunInOrder'
  BY OrderKept, PruneParts
<1>2. UnapprovedNotLive'
  BY PruneParts DEF UnapprovedNotLive
<1>3. UnsavedNotListed'
  BY PruneParts DEF UnsavedNotListed
<1>4. 0 \notin Conn
  BY DEF Conn
<1>5. StoredNotListed'
  BY <1>4, PruneParts DEF StoredNotListed
<1>6. PruneIInv' <=> (BegunInOrder /\ UnapprovedNotLive /\ UnsavedNotListed /\ StoredNotListed)'
  BY DEF PruneIInv, UnapprovedNotLive, UnsavedNotListed, StoredNotListed, Unapproved, Unsaved
<1> QED
  BY <1>1, <1>2, <1>3, <1>5, <1>6

LEMMA PruneBegins ==
  ASSUME WalletAssumption, WalletTypeOK, PruneIInv, NEW gen \in Gen, BeginConnect(gen)
  PROVE PruneIInv'
<1> USE DEF WalletTypeOK
<1>1. PICK n \in 0..MaxConns : /\ {d \in Conn : conn[d].at # "idle"} = 1..n
                               /\ Cardinality({d \in Conn : conn[d].at # "idle"}) = n
  BY BeginsNext, PruneParts
<1> DEFINE c == n + 1
<1>2. n \in Nat /\ MaxConns \in Nat
  BY Bounds
<1>3. /\ c \in Conn
      /\ conn' = [conn EXCEPT ![c] = [NoConn EXCEPT !.at = "gate", !.known = wallet]]
      /\ UNCHANGED <<wallet, clobbered, session, stale>>
  BY <1>1 DEF BeginConnect, settings, sessions
<1>4. [NoConn EXCEPT !.at = "gate", !.known = wallet].at = "gate"
  BY DEF NoConn
<1>5. c \notin 1..n /\ 1..c = 1..n \cup {c} /\ c \in 0..MaxConns
  BY <1>2, <1>3 DEF Conn
<1>6. conn[c].at = "idle"
  BY <1>1, <1>3, <1>5
<1>7. conn'[c].at = "gate" /\ \A d \in Conn : d # c => conn'[d] = conn[d]
  BY <1>3, <1>4
<1> HIDE DEF c
<1>8. BegunInOrder'
  <2>1. {d \in Conn : conn'[d].at # "idle"} = {d \in Conn : conn[d].at # "idle"} \cup {c}
    BY <1>3, <1>7
  <2>2. {d \in Conn : conn'[d].at # "idle"} = 1..c
    BY <1>1, <1>5, <2>1
  <2> QED
    BY <1>5, <2>2 DEF BegunInOrder
<1>9. UnapprovedNotLive' /\ UnsavedNotListed' /\ StoredNotListed'
  <2>1. Live' = Live
    BY <1>3 DEF Live
  <2>2. "idle" \in Unapproved /\ "idle" \in Unsaved
    BY DEF Unapproved, Unsaved
  <2>3. UnapprovedNotLive'
    BY <1>3, <1>6, <1>7, <2>1, <2>2, PruneParts DEF UnapprovedNotLive
  <2>4. UnsavedNotListed'
    BY <1>3, <1>6, <1>7, <2>2, PruneParts DEF UnsavedNotListed
  <2>5. StoredNotListed'
    BY <1>3, PruneParts DEF StoredNotListed
  <2> QED
    BY <2>3, <2>4, <2>5
<1> QED
  BY <1>8, <1>9 DEF PruneIInv, UnapprovedNotLive, UnsavedNotListed, StoredNotListed,
                    Unapproved, Unsaved

LEMMA PruneSaves ==
  ASSUME WalletTypeOK, RunningIsCurrent, PruneIInv, NEW c \in Conn, SaveWallet(c)
  PROVE PruneIInv'
<1> USE DEF WalletTypeOK
<1>1. PICK listed \in SUBSET Superseded(c) : stale' = [stale EXCEPT ![c] = listed]
  BY DEF SaveWallet
<1>2. /\ conn[c].at = "saving" /\ conn' = [conn EXCEPT ![c].at = "saved"]
      /\ wallet'.topic = c
      /\ UNCHANGED <<clobbered, session>>
  BY DEF SaveWallet, Goto
<1>3. conn'[c].at = "saved" /\ \A d \in Conn : d # c => conn'[d] = conn[d]
  BY <1>2 DEF Flow
<1>4. Live' = Live
  BY <1>2 DEF Live
<1>5. \A d \in Conn : d # c => conn[d].at \notin {"signing", "saving"}
  BY <1>2 DEF RunningIsCurrent, Running, Busy
<1>6. BegunInOrder'
  BY <1>2, <1>3, OrderKept, PruneParts
<1>7. UnapprovedNotLive'
  BY <1>3, <1>4, PruneParts DEF UnapprovedNotLive, Unapproved
<1>8. UnsavedNotListed'
  <2> SUFFICES ASSUME NEW a \in Conn, NEW d \in Conn, conn'[a].at \in Unsaved
               PROVE  a \notin stale'[d]
    BY DEF UnsavedNotListed
  <2>1. a # c /\ conn[a].at \in Unsaved
    BY <1>3 DEF Unsaved, Unapproved
  <2>2. a \notin stale[d]
    BY <2>1, PruneParts DEF UnsavedNotListed
  <2>3. a \notin Live
    BY <1>5, <2>1, PruneParts DEF Unsaved, UnapprovedNotLive
  <2> QED
    BY <1>1, <2>2, <2>3 DEF Superseded
<1>9. StoredNotListed'
  <2> SUFFICES ASSUME NEW d \in Conn
               PROVE  c \notin stale'[d]
    BY <1>2 DEF StoredNotListed
  <2>1. c \notin stale[d]
    BY <1>2, PruneParts DEF UnsavedNotListed, Unsaved
  <2> QED
    BY <1>1, <2>1 DEF Superseded
<1> QED
  BY <1>6, <1>7, <1>8, <1>9 DEF PruneIInv, UnapprovedNotLive, UnsavedNotListed, StoredNotListed,
                                Unapproved, Unsaved

LEMMA PruneInvStep ==
  ASSUME WalletAssumption, WalletTypeOK, RunningIsCurrent, PruneIInv, [WalletNext]_vars
  PROVE PruneIInv'
<1> USE DEF WalletTypeOK
<1>0. "gone" \notin Account /\ "unused" \notin Account
  BY DEF WalletAssumption
<1>1. CASE UNCHANGED <<wallet, clobbered, session, stale, conn>>
  BY <1>1, PruneKept DEF Live
<1>2. ASSUME NEW gen \in Gen, BeginConnect(gen) PROVE PruneIInv'
  BY <1>2, PruneBegins
<1>3. ASSUME NEW c \in Conn, ShowUri(c) PROVE PruneIInv'
  <2>1. /\ conn[c].at = "gate" /\ conn' = [conn EXCEPT ![c].at = "waiting"]
        /\ UNCHANGED <<wallet, clobbered, session, stale>>
    BY <1>3 DEF ShowUri, Goto, settings
  <2>2. conn'[c].at = "waiting"
    BY <2>1 DEF Flow
  <2> QED
    BY <2>1, <2>2, PruneKept DEF Live, Unapproved, Unsaved
<1>4. \A c \in Conn : conn[c].at # "idle" /\ conn' = [conn EXCEPT ![c] = Over]
        => /\ conn'[c].at = "over" /\ \A d \in Conn : d # c => conn'[d] = conn[d]
           /\ "over" \notin Unapproved /\ "over" \notin Unsaved
  BY DEF Over, NoConn, Unapproved, Unsaved
<1>5. ASSUME NEW c \in Conn, ConnectFails(c) PROVE PruneIInv'
  <2>1. /\ conn[c].at # "idle" /\ conn' = [conn EXCEPT ![c] = Over]
        /\ UNCHANGED <<wallet, clobbered, session, stale>>
    BY <1>5 DEF ConnectFails, settings, sessions
  <2>2. Live' = Live
    BY <2>1 DEF Live
  <2> QED
    BY <1>4, <2>1, <2>2, PruneKept
<1>6. ASSUME NEW c \in Conn, NEW a \in Account, Approve(c, a) PROVE PruneIInv'
  <2>1. /\ conn[c].at = "waiting" /\ conn'[c].at \in {"signing", "saving"}
        /\ \A d \in Conn : d # c => conn'[d] = conn[d] /\ session'[d] = session[d]
        /\ UNCHANGED <<wallet, clobbered, stale>>
    BY <1>6 DEF Approve, settings
  <2> QED
    BY <2>1, PruneKept DEF Live, Unapproved, Unsaved
<1>7. ASSUME NEW c \in Conn, NEW a \in Account, ApproveUnusable(c, a) PROVE PruneIInv'
  <2>1. /\ conn[c].at = "waiting" /\ conn' = [conn EXCEPT ![c] = Over]
        /\ \A d \in Conn : d # c => session'[d] = session[d]
        /\ UNCHANGED <<wallet, clobbered, stale>>
    BY <1>7 DEF ApproveUnusable, settings
  <2>2. \A d \in Conn : d # c => (d \in Live' <=> d \in Live)
    BY <2>1 DEF Live
  <2> QED
    BY <1>4, <2>1, <2>2, PruneKept
<1>8. ASSUME NEW c \in Conn, Sign(c) PROVE PruneIInv'
  <2>1. /\ conn[c].at = "signing" /\ conn'[c].at = "saving"
        /\ \A d \in Conn : d # c => conn'[d] = conn[d]
        /\ UNCHANGED <<wallet, clobbered, session, stale>>
    BY <1>8 DEF Sign, Flow, settings, sessions
  <2> QED
    BY <2>1, PruneKept DEF Live, Unapproved, Unsaved
<1>9. ASSUME NEW c \in Conn, SaveWallet(c) PROVE PruneIInv'
  BY <1>9, PruneSaves
<1>10. ASSUME NEW c \in Conn, Connected(c) PROVE PruneIInv'
  <2>1. /\ conn[c].at # "idle" /\ conn' = [conn EXCEPT ![c] = Over]
        /\ UNCHANGED <<wallet, clobbered, session, stale>>
    BY <1>10 DEF Connected, settings, sessions
  <2>2. Live' = Live
    BY <2>1 DEF Live
  <2> QED
    BY <1>4, <2>1, <2>2, PruneKept
<1>11. ASSUME NEW c \in Conn, NEW t \in Conn, PruneEnds(c, t) PROVE PruneIInv'
  <2>1. /\ session' = [session EXCEPT ![t] = "gone"]
        /\ stale' = [stale EXCEPT ![c] = @ \ {t}]
        /\ UNCHANGED <<wallet, clobbered, conn>>
    BY <1>11 DEF PruneEnds, settings
  <2>2. \A d \in Conn : (d \in Live' => d \in Live) /\ stale'[d] \subseteq stale[d]
    BY <1>0, <2>1 DEF Live
  <2> QED
    BY <2>1, <2>2, PruneKept
<1>12. CASE WipeWrites
  BY <1>12, PruneKept DEF WipeWrites, sessions, Live, NoWallet
<1>13. CASE WipeEnds
  <2>1. UNCHANGED <<wallet, clobbered, conn, stale>>
    BY <1>13 DEF WipeEnds, settings
  <2>2. \A d \in Conn : d \in Live' => d \in Live
    BY <1>0, <1>13 DEF WipeEnds, Live
  <2> QED
    BY <2>1, <2>2, PruneKept
<1>14. CASE SaveLands
  <2>1. /\ ~clobbered' => ~clobbered /\ wallet' = wallet
        /\ UNCHANGED <<conn, session, stale>>
    BY <1>14 DEF SaveLands, sessions
  <2> QED
    BY <2>1, PruneKept DEF Live
<1>15. ASSUME NEW t \in Conn, NEW held \in Account \cup {"gone"}, WalletTurns(t, held)
       PROVE  PruneIInv'
  <2>1. UNCHANGED <<wallet, clobbered, conn, stale>>
    BY <1>15 DEF WalletTurns, settings
  <2>2. \A d \in Conn : d \in Live' => d \in Live
    BY <1>15 DEF WalletTurns, Live
  <2> QED
    BY <2>1, <2>2, PruneKept
<1>16. CASE OffscreenDies
  <2>1. /\ stale' = [d \in Conn |-> {}]
        /\ conn' = [d \in Conn |-> IF d \in Running THEN Over ELSE conn[d]]
        /\ UNCHANGED <<wallet, clobbered, session>>
    BY <1>16 DEF OffscreenDies, settings
  <2>2. Over.at = "over" /\ Live' = Live
    BY <2>1 DEF Over, NoConn, Live
  <2>3. \A d \in Conn : conn'[d] = conn[d] \/ (conn[d].at # "idle" /\ conn'[d].at = "over")
    BY <2>1, <2>2 DEF Running, Busy
  <2>4. \A d \in Conn : stale'[d] \subseteq stale[d]
    BY <2>1
  <2>5. "over" \notin Unapproved /\ "over" \notin Unsaved
    BY DEF Unapproved, Unsaved
  <2> QED
    BY <2>1, <2>2, <2>3, <2>4, <2>5, PruneKept
<1> QED
  BY <1>1, <1>2, <1>3, <1>5, <1>6, <1>7, <1>8, <1>9, <1>10, <1>11, <1>12, <1>13, <1>14, <1>15,
     <1>16, PruneFrame DEF ConnectStep, PruneStep

(* Ending the sessions a connect has superseded never ends the one the      *)
(* record names, in however many documents and with however many prunes of  *)
(* earlier connects still under way, as long as no SAVE_SETTINGS has put an *)
(* older wallet back (pruneOtherSessions, connectWallet).                   *)
THEOREM StoredSessionSpared == WalletSpec => PruneSparesStored
<1>1. WalletInit => PruneIInv
  <2> SUFFICES ASSUME WalletInit PROVE PruneIInv
    OBVIOUS
  <2>1. \A c \in Conn : conn[c].at = "idle" /\ stale[c] = {}
    BY DEF WalletInit, NoConn
  <2>2. Live = {}
    BY WalletAssumption DEF WalletInit, Live, WalletAssumption
  <2>3. 0 \in 0..MaxConns /\ 1..0 = {}
    BY WalletAssumption, Bounds
  <2>4. {d \in Conn : conn[d].at # "idle"} = 1..0
    BY <2>1, <2>3
  <2>5. BegunInOrder
    BY <2>3, <2>4 DEF BegunInOrder
  <2> QED
    BY <2>1, <2>2, <2>5 DEF PruneIInv
<1>2. WalletIInv /\ PruneIInv /\ [WalletNext]_vars => PruneIInv'
  BY WalletAssumption, PruneInvStep DEF WalletIInv
<1>3. PruneIInv =>
        [~clobbered => \A c, t \in Conn : PruneEnds(c, t) => wallet.topic # t]_vars
  BY DEF PruneIInv, PruneEnds
<1> QED
  BY <1>1, <1>2, <1>3, WalletInvariant, PTL DEF WalletSpec, PruneSparesStored

-----------------------------------------------------------------------------
(* The order tickets: division.                                            *)

\* Products keep an order.
LEMMA ProductMonotone ==
  ASSUME NEW a \in Int, NEW b \in Int, NEW p \in Nat, a <= b
  PROVE  a * p <= b * p
<1>1. (b - a) \in Nat
  OBVIOUS
<1>2. (b - a) * p \in Nat
  BY <1>1
<1>3. (b - a) * p = b * p - a * p
  OBVIOUS
<1> QED BY <1>2, <1>3

\* A quotient and its remainder.
LEMMA DivMod ==
  ASSUME NEW a \in Nat, NEW p \in Nat \ {0}
  PROVE  /\ a \div p \in Nat
         /\ (a \div p) * p <= a
         /\ a < (a \div p) * p + p
         /\ a % p = a - (a \div p) * p
  BY Z3

\* A quotient is at least n when n divisors fit.
LEMMA DivAtLeast ==
  ASSUME NEW a \in Nat, NEW p \in Nat \ {0}, NEW n \in Nat, n * p <= a
  PROVE  a \div p >= n
<1> DEFINE q == a \div p
<1>1. q \in Nat /\ a < q * p + p
  BY DivMod
<1>2. SUFFICES ASSUME q + 1 <= n PROVE FALSE
  BY <1>1
<1>3. (q + 1) * p <= n * p
  BY <1>1, <1>2, ProductMonotone
<1>4. (q + 1) * p = q * p + p
  BY <1>1
<1> QED BY <1>1, <1>3, <1>4

\* The quotient of a multiple.
LEMMA DivExact ==
  ASSUME NEW n \in Nat, NEW p \in Nat \ {0}
  PROVE  n * p \in Nat /\ (n * p) \div p = n
<1> DEFINE q == (n * p) \div p
<1>1. n * p \in Nat
  OBVIOUS
<1>2. q \in Nat /\ q * p <= n * p /\ q >= n
  BY <1>1, DivMod, DivAtLeast
<1>3. SUFFICES ASSUME n + 1 <= q PROVE FALSE
  BY <1>1, <1>2
<1>4. (n + 1) * p <= q * p
  BY <1>2, <1>3, ProductMonotone
<1>5. (n + 1) * p = n * p + p
  OBVIOUS
<1> QED BY <1>1, <1>2, <1>4, <1>5

\* A quotient rounded up.
LEMMA CeilDivMod ==
  ASSUME NEW a \in Nat, NEW p \in Nat \ {0}
  PROVE  /\ CeilDiv(a, p) \in Nat
         /\ a <= CeilDiv(a, p) * p
         /\ CeilDiv(a, p) * p < a + p
<1> DEFINE b == a + p - 1
           q == b \div p
<1>1. b \in Nat /\ b + 1 = a + p
  OBVIOUS
<1>2. q \in Nat /\ q * p <= b /\ b < q * p + p
  BY <1>1, DivMod
<1>3. CeilDiv(a, p) = q
  BY DEF CeilDiv
<1> HIDE DEF b, q
<1>4. q * p \in Nat
  BY <1>2
<1> QED BY <1>1, <1>2, <1>3, <1>4

-----------------------------------------------------------------------------
(* The minimum in dollars.                                                 *)

LEMMA MinimumIsPositive ==
  ASSUME NEW known \in Nat
  PROVE  minOrderShares(known) \in Nat \ {0}
BY DEF minOrderShares, DefaultMinimum

\* A cent above the closed form buys enough, whether or not the division
\* falls short by a hundredth.
LEMMA OneCentMore ==
  ASSUME NEW price \in 1..One - 1, NEW known \in Nat
  PROVE  LET base == CeilDiv(minOrderShares(known) * price, 10)
         IN /\ base \in Nat
            /\ orderShares(base + 1, price) >= 100 * minOrderShares(known)
<1> DEFINE m == minOrderShares(known)
           base == CeilDiv(m * price, 10)
           cents == (base + 1) * One
<1>1. m \in Nat \ {0} /\ price \in Nat \ {0} /\ price < 1000
  BY MinimumIsPositive DEF One
<1>2. m * price \in Nat
  BY <1>1
<1>3. base \in Nat /\ m * price + 9 < base * 10 + 10
  <2> DEFINE a == m * price
             ten == 10
  <2>1. a \in Nat /\ ten \in Nat \ {0}
    BY <1>2
  <2>2. base = CeilDiv(a, ten)
    OBVIOUS
  <2> HIDE DEF a, ten, base
  <2>3. base \in Nat /\ a <= base * ten
    BY <2>1, <2>2, CeilDivMod
  <2> QED BY <2>1, <2>3 DEF a, ten
<1>4. cents \in Nat /\ cents >= 100 * (m * price) + price
  BY <1>1, <1>2, <1>3 DEF One
<1>5. (100 * m + 1) * price = 100 * (m * price) + price
  BY <1>1
<1>6. cents \div price >= 100 * m + 1
  BY <1>1, <1>4, <1>5, DivAtLeast
<1>7. cents \div price \in Nat
  BY <1>1, <1>4, DivMod
<1>8. sharesFor(base + 1, price) = cents \div price
  BY <1>1, <1>3 DEF sharesFor
<1>9. orderShares(base + 1, price) >= sharesFor(base + 1, price) - 1
  BY <1>7, <1>8 DEF orderShares
<1> HIDE DEF base, cents
<1>10. orderShares(base + 1, price) \in Int
  BY <1>7, <1>8 DEF orderShares
<1> QED BY <1>1, <1>3, <1>6, <1>7, <1>8, <1>9, <1>10 DEF base

\* The dollar minimum a ticket names is one it accepts, for every price,
\* every minimum of a market and every quotient that falls short
\* (minOrderUsd and isBelowMinOrderSize of core/orderSize.ts).
THEOREM MinimumSuffices ==
  ASSUME NEW price \in 1..One - 1, NEW known \in Nat
  PROVE  ~isBelowMinOrderSize(minOrderUsd(price, known), price, known)
<1> DEFINE m == minOrderShares(known)
           base == CeilDiv(m * price, 10)
           Enough(u) == orderShares(u, price) >= 100 * m
           Named(u) == /\ Enough(u) \/ u = base + 3
                       /\ \A v \in base..u - 1 : ~Enough(v)
<1>1. base \in Nat /\ Enough(base + 1)
  BY OneCentMore
<1> HIDE DEF base, Enough
<1>2. \E u \in base..base + 3 : Named(u)
  <2>1. CASE Enough(base)
    BY <1>1, <2>1
  <2>2. CASE ~Enough(base)
    BY <1>1, <2>2
  <2> QED BY <2>1, <2>2
<1>3. minOrderUsd(price, known) = CHOOSE u \in base..base + 3 : Named(u)
  BY DEF minOrderUsd, base, Enough
<1>4. PICK u \in base..base + 3 : minOrderUsd(price, known) = u /\ Named(u)
  BY <1>2, <1>3
<1>5. Enough(u)
  BY <1>1, <1>4
<1>6. orderShares(u, price) \in Int /\ m \in Nat
  <2>1. u \in Nat /\ price \in Nat \ {0}
    BY <1>1 DEF One
  <2>2. u * One \in Nat
    BY <2>1 DEF One
  <2>3. sharesFor(u, price) \in Int
    BY <2>1, <2>2, DivMod DEF sharesFor
  <2> QED BY <2>3, MinimumIsPositive DEF orderShares
<1> QED BY <1>4, <1>5, <1>6 DEF isBelowMinOrderSize, Enough

-----------------------------------------------------------------------------
(* Prices on the grid.                                                     *)

LEMMA OnGrid ==
  ASSUME NEW n \in Nat, NEW tick \in Nat \ {0}, n * tick \in 1..One - 1
  PROVE  isValidTickPrice(n * tick, tick)
BY DivExact DEF isValidTickPrice, roundToTick

\* Where the grid divides a dollar, its last price is n - 1 ticks.
LEMMA GridOfADollar ==
  ASSUME NEW tick \in 1..One - 1, One % tick = 0
  PROVE  One = (One \div tick) * tick /\ One \div tick \in Nat /\ One \div tick >= 2
<1>1. tick \in Nat \ {0} /\ One \in Nat /\ tick < One
  BY DEF One
<1>2. One = (One \div tick) * tick /\ One \div tick \in Nat
  BY <1>1, DivMod
<1> DEFINE q == One \div tick
<1>3. SUFFICES ASSUME q \in {0, 1} PROVE FALSE
  BY <1>2
<1> QED BY <1>1, <1>2, <1>3

\* The cap of a market buy is a price the exchange takes, whatever the ask
\* (marketCapPrice of core/pricing.ts).
THEOREM CapIsOnTheGrid ==
  ASSUME NEW tick \in 1..One - 1, One % tick = 0, CapPct \in 0..100,
         NEW ask \in Nat \ {0}
  PROVE  isValidTickPrice(marketCapPrice(ask, tick), tick)
<1> DEFINE rise == ask * (100 + CapPct)
           step == 100 * tick
           c == CeilDiv(rise, step)
           top == One \div tick - 1
<1>1. tick \in Nat \ {0} /\ One \in Nat /\ step \in Nat \ {0} /\ rise \in Nat \ {0}
  BY DEF One
<1>2. c \in Nat /\ c >= 1
  <2> HIDE DEF rise, step
  <2>1. c \in Nat /\ rise <= c * step
    BY <1>1, CeilDivMod
  <2> HIDE DEF c
  <2>2. c # 0
    BY <1>1, <2>1
  <2> QED BY <2>1, <2>2
<1>3. top \in Nat /\ top >= 1 /\ top * tick = One - tick
  <2>1. One = (One \div tick) * tick /\ One \div tick \in Nat /\ One \div tick >= 2
    BY GridOfADollar
  <2>2. top * tick = (One \div tick) * tick - tick
    BY <1>1, <2>1
  <2> QED BY <2>1, <2>2
<1>4. marketCapPrice(ask, tick) = Least(c * tick, One - tick)
  BY DEF marketCapPrice
<1>5. PICK n \in Nat : n >= 1 /\ marketCapPrice(ask, tick) = n * tick /\ n * tick <= One - tick
  <2> HIDE DEF c, top
  <2>1. CASE c * tick < One - tick
    BY <1>1, <1>2, <1>4, <2>1 DEF Least
  <2>2. CASE ~(c * tick < One - tick)
    BY <1>1, <1>3, <1>4, <2>2 DEF Least
  <2> QED BY <2>1, <2>2
<1>6. n * tick >= 1
  <2>1. 1 * tick <= n * tick
    BY <1>1, <1>5, ProductMonotone
  <2> QED BY <1>1, <2>1
<1>7. n * tick \in 1..One - 1
  BY <1>1, <1>5, <1>6
<1> QED BY <1>1, <1>5, <1>7, OnGrid

-----------------------------------------------------------------------------
(* The answers of the book.                                                *)

BuyFields == {"side", "type", "usd", "price", "book", "estimate", "step"}
LookupFields == {"for", "what", "token", "shares", "live", "read", "seen"}

\* A buy ticket's token and shares hang on what it buys, for how much, at
\* which price and by which book.
LEMMA SameFigures ==
  ASSUME NEW b, NEW d, b.side = d.side, b.type = d.type, b.usd = d.usd, b.price = d.price,
         b.book = d.book
  PROVE  TokenFor(b) = TokenFor(d) /\ Shares(b) = Shares(d)
BY DEF TokenFor, Shares, activePrice, capPrice

\* What a lookup is made of.
LEMMA NewLookup ==
  ASSUME NEW for, NEW what, NEW token, NEW shares
  PROVE  LET l == Lookup(for, what, token, shares)
         IN /\ DOMAIN l = LookupFields /\ l.for = for /\ l.what = what
            /\ l.token = token /\ l.shares = shares
BY DEF Lookup, LookupFields

\* What is left of the lookups where some are no longer wanted.
LEMMA StillWanted ==
  ASSUME NEW ls, NEW for, NEW what, \A l \in ls : DOMAIN l = LookupFields,
         NEW l \in Cancelled(ls, for, what)
  PROVE  \E k \in ls : /\ DOMAIN l = LookupFields
                       /\ l.for = k.for /\ l.what = k.what /\ l.token = k.token
                       /\ l.shares = k.shares
                       /\ l.live => k.live /\ ~(k.for = for /\ k.what \in what)
<1>1. PICK k \in ls :
        l = IF k.for = for /\ k.what \in what THEN [k EXCEPT !.live = FALSE] ELSE k
  BY DEF Cancelled
<1>2. DOMAIN k = LookupFields
  OBVIOUS
<1>3. CASE k.for = for /\ k.what \in what
  BY <1>1, <1>2, <1>3 DEF LookupFields
<1>4. CASE ~(k.for = for /\ k.what \in what)
  BY <1>1, <1>2, <1>4
<1> QED
  BY <1>3, <1>4

\* Cancelling, and asking for the sell ticket, leave the buy ticket's alone.
LEMMA CancelKeeps ==
  ASSUME \A l \in lookups : LookupSound(l), NEW for, NEW what,
         buy' = buy,
         lookups' \subseteq lookups \cup Cancelled(lookups, for, what)
                            \cup {Lookup("sell", "top", HeldToken, 0)}
  PROVE  \A l \in lookups' : LookupSound(l)'
<1> SUFFICES ASSUME NEW l \in lookups' PROVE LookupSound(l)'
  OBVIOUS
<1>1. CASE l \in Cancelled(lookups, for, what)
  <2>1. PICK k \in lookups : /\ DOMAIN l = LookupFields
                             /\ l.for = k.for /\ l.what = k.what /\ l.token = k.token
                             /\ l.shares = k.shares /\ (l.live => k.live)
    BY <1>1, StillWanted DEF LookupSound, LookupFields
  <2>2. LookupSound(k)
    OBVIOUS
  <2> QED
    BY <2>1, <2>2 DEF LookupSound, LookupFields
<1>2. CASE l = Lookup("sell", "top", HeldToken, 0)
  BY <1>2, NewLookup DEF LookupSound, LookupFields
<1>3. CASE l \in lookups
  BY <1>3 DEF LookupSound
<1> QED
  BY <1>1, <1>2, <1>3

\* The effects of a ticket that became b: the lookups still wanted are of b,
\* and so is an estimate on show.
LEMMA BecomeKeeps ==
  ASSUME TicketIInv, NEW b, DOMAIN b = BuyFields, b.estimate = buy.estimate,
         NEW ls, ls \subseteq lookups, NEW again \in BOOLEAN, Become(b, ls, again)
  PROVE  /\ TicketIInv'
         /\ buy'.book # buy.book =>
              buy'.book.token = NoToken \/ (buy'.book = b.book /\ TokenFor(buy') = TokenFor(b))
<1> DEFINE turned == again \/ TokenFor(b) # TokenFor(buy)
           resized == <<b.type, TokenFor(b), Shares(b)>> # <<buy.type, TokenFor(buy), Shares(buy)>>
           known == IF turned /\ TokenFor(b) = NoToken THEN [b EXCEPT !.book = NoBook] ELSE b
           what == (IF turned THEN {"top"} ELSE {}) \cup (IF resized THEN {"depth"} ELSE {})
<1>1. /\ buy' = IF resized THEN [known EXCEPT !.estimate = NoEstimate] ELSE known
      /\ lookups' =
           Cancelled(ls, "buy", what)
           \cup (IF turned /\ TokenFor(b) # NoToken THEN {Lookup("buy", "top", TokenFor(b), 0)} ELSE {})
           \cup (IF resized /\ b.type = "MARKET" /\ TokenFor(b) # NoToken /\ Shares(b) > 0
                 THEN {Lookup("buy", "depth", TokenFor(b), Shares(b))} ELSE {})
  BY DEF Become
<1>2. DOMAIN known = BuyFields /\ known.estimate = buy.estimate /\ TokenFor(known) = TokenFor(b)
  <2>1. DOMAIN [b EXCEPT !.book = NoBook] = BuyFields
        /\ [b EXCEPT !.book = NoBook].estimate = b.estimate
        /\ [b EXCEPT !.book = NoBook].side = b.side
    BY DEF BuyFields
  <2> QED
    BY <2>1 DEF TokenFor
<1>3. TokenFor(b) # NoToken => known = b
  OBVIOUS
<1>4. known = b \/ known.book = NoBook
  BY DEF BuyFields
<1> HIDE DEF known
<1>5. /\ DOMAIN buy' = BuyFields
      /\ resized => buy'.estimate = NoEstimate
      /\ ~resized => buy'.estimate = buy.estimate
      /\ TokenFor(buy') = TokenFor(known) /\ Shares(buy') = Shares(known)
      /\ buy'.book = known.book
  <2> HIDE DEF resized
  <2>1. CASE ~resized
    BY <1>1, <1>2, <2>1
  <2>2. CASE resized
    <3> DEFINE d == [known EXCEPT !.estimate = NoEstimate]
    <3>1. /\ DOMAIN d = BuyFields /\ d.estimate = NoEstimate /\ d.side = known.side
          /\ d.type = known.type /\ d.usd = known.usd /\ d.price = known.price
          /\ d.book = known.book
      BY <1>2 DEF BuyFields
    <3>2. buy' = d
      BY <1>1, <2>2
    <3> HIDE DEF d
    <3>3. TokenFor(d) = TokenFor(known) /\ Shares(d) = Shares(known)
      BY <3>1, SameFigures
    <3> QED
      BY <2>2, <3>1, <3>2, <3>3
  <2> QED
    BY <2>1, <2>2
<1>6. ~resized => TokenFor(b) = TokenFor(buy) /\ Shares(b) = Shares(buy)
  OBVIOUS
<1>7. TokenFor(buy') = TokenFor(b) /\ (TokenFor(b) # NoToken => Shares(buy') = Shares(b))
  BY <1>2, <1>3, <1>5
<1>8. EstimateSound'
  <2> HIDE DEF resized
  <2> SUFFICES ASSUME buy'.estimate # NoEstimate
               PROVE  /\ buy'.estimate.token # NoToken
                      /\ <<buy'.estimate.token, buy'.estimate.shares>> = <<TokenFor(buy'), Shares(buy')>>
    BY DEF EstimateSound, TokenFor, Shares, activePrice, capPrice
  <2>1. ~resized /\ buy'.estimate = buy.estimate
    BY <1>5
  <2>2. /\ buy.estimate.token # NoToken
        /\ buy.estimate.token = TokenFor(buy) /\ buy.estimate.shares = Shares(buy)
    BY <2>1 DEF TicketIInv, EstimateSound
  <2> QED
    BY <1>6, <1>7, <2>1, <2>2
<1>9. ASSUME NEW l \in lookups' PROVE LookupSound(l)'
  <2> SUFFICES /\ DOMAIN l = LookupFields
               /\ l.what \in {"top", "depth"}
               /\ l.what = "depth" => l.for = "buy" /\ l.token # NoToken
               /\ l.live /\ l.for = "buy" =>
                    l.token = TokenFor(buy') /\ (l.what = "depth" => l.shares = Shares(buy'))
    BY DEF LookupSound, LookupFields, TokenFor, Shares, activePrice, capPrice
  <2>1. CASE l \in Cancelled(ls, "buy", what)
    <3>1. PICK k \in ls : /\ DOMAIN l = LookupFields
                          /\ l.for = k.for /\ l.what = k.what /\ l.token = k.token
                          /\ l.shares = k.shares
                          /\ l.live => k.live /\ ~(k.for = "buy" /\ k.what \in what)
      <4>1. \A k \in ls : DOMAIN k = LookupFields
        BY DEF TicketIInv, LookupSound, LookupFields
      <4> HIDE DEF what
      <4> QED
        BY <2>1, <4>1, StillWanted
    <3>2. /\ k.what \in {"top", "depth"}
          /\ k.what = "depth" => k.for = "buy" /\ k.token # NoToken
          /\ k.live /\ k.for = "buy" =>
               k.token = TokenFor(buy) /\ (k.what = "depth" => k.shares = Shares(buy))
      BY DEF TicketIInv, LookupSound
    <3>3. ASSUME l.live, l.for = "buy"
          PROVE  l.token = TokenFor(buy') /\ (l.what = "depth" => l.shares = Shares(buy'))
      <4>1. CASE k.what = "top"
        <5>1. ~turned
          BY <3>1, <3>3, <4>1
        <5> QED
          BY <1>7, <3>1, <3>2, <3>3, <4>1, <5>1
      <4>2. CASE k.what = "depth"
        <5>1. ~resized
          BY <3>1, <3>3, <4>2
        <5> HIDE DEF resized
        <5> QED
          BY <1>6, <1>7, <3>1, <3>2, <3>3, <4>2, <5>1
      <4> QED
        BY <3>2, <4>1, <4>2
    <3> HIDE DEF turned, resized, what
    <3> QED
      BY <3>1, <3>2, <3>3
  <2>2. CASE TokenFor(b) # NoToken /\ l = Lookup("buy", "top", TokenFor(b), 0)
    BY <1>7, <2>2, NewLookup
  <2>3. CASE TokenFor(b) # NoToken /\ l = Lookup("buy", "depth", TokenFor(b), Shares(b))
    BY <1>7, <2>3, NewLookup
  <2> HIDE DEF turned, resized, what
  <2> QED
    BY <1>1, <1>9, <2>1, <2>2, <2>3
<1>10. NoBook.token = NoToken
  BY DEF NoBook
<1> HIDE DEF turned, resized, what
<1> QED
  BY <1>2, <1>4, <1>5, <1>8, <1>9, <1>10 DEF TicketIInv, BuyFields

BookIsCurrent == buy'.book # buy.book => buy'.book.token \in {TokenFor(buy'), NoToken}

\* Where the ticket moves on to another step of its order, or not at all.
LEMMA StepKeeps ==
  ASSUME TicketIInv, buy' = buy \/ \E step : buy' = [buy EXCEPT !.step = step],
         \A l \in lookups' : l \in lookups \/ LookupSound(l)
  PROVE  TicketIInv' /\ BookIsCurrent
<1>1. /\ DOMAIN buy' = BuyFields /\ buy'.estimate = buy.estimate /\ buy'.book = buy.book
      /\ buy'.side = buy.side /\ buy'.type = buy.type /\ buy'.usd = buy.usd
      /\ buy'.price = buy.price
  BY DEF TicketIInv, BuyFields
<1>2. TokenFor(buy') = TokenFor(buy) /\ Shares(buy') = Shares(buy)
  BY <1>1, SameFigures
<1>3. TokenFor(buy)' = TokenFor(buy') /\ Shares(buy)' = Shares(buy')
  BY DEF TokenFor, Shares, activePrice, capPrice
<1>4. EstimateSound'
  BY <1>1, <1>2, <1>3 DEF TicketIInv, EstimateSound
<1>5. \A l \in lookups' : LookupSound(l)'
  BY <1>2, <1>3 DEF TicketIInv, LookupSound
<1> QED
  BY <1>1, <1>4, <1>5 DEF TicketIInv, BookIsCurrent, BuyFields

LEMMA EditKeeps ==
  ASSUME TicketIInv, EditBuy \/ TryAgain
  PROVE  TicketIInv' /\ BookIsCurrent
<1> DEFINE Edited(b) == DOMAIN b = BuyFields /\ b.estimate = buy.estimate /\ b.book = buy.book
<1>1. DOMAIN buy = BuyFields
  BY DEF TicketIInv, BuyFields
<1>2. \A v : /\ Edited([buy EXCEPT !.side = v]) /\ Edited([buy EXCEPT !.type = v])
             /\ Edited([buy EXCEPT !.usd = v]) /\ Edited([buy EXCEPT !.price = v])
  BY <1>1 DEF BuyFields
<1>3. Edited(buy)
  BY <1>1
<1> HIDE DEF Edited
<1>4. CASE EditBuy
  <2>1. PICK b : Become(b, lookups, FALSE) /\ Edited(b)
    BY <1>2, <1>4 DEF EditBuy
  <2> QED
    BY <2>1, BecomeKeeps DEF BookIsCurrent, Edited
<1>5. CASE TryAgain
  BY <1>3, <1>5, BecomeKeeps DEF TryAgain, BookIsCurrent, Edited
<1> QED
  BY <1>4, <1>5

LEMMA RemountKeeps ==
  ASSUME TicketIInv, Remount
  PROVE  TicketIInv' /\ BookIsCurrent
<1>1. buy' = NewBuy /\ lookups' = Cancelled(lookups, "buy", {"top", "depth"}) \cup FirstLookups
  BY DEF Remount
<1>2. /\ DOMAIN NewBuy = BuyFields /\ NewBuy.estimate = NoEstimate /\ NewBuy.side = FirstSide
      /\ NewBuy.book.token = NoToken
  BY DEF NewBuy, BuyFields, NoBook
<1>3. TokenFor(buy') = TokenOf[FirstSide]
  BY <1>1, <1>2 DEF TokenFor
<1>4. ASSUME NEW l \in lookups' PROVE LookupSound(l)'
  <2> SUFFICES /\ DOMAIN l = LookupFields
               /\ l.what \in {"top", "depth"}
               /\ l.what = "depth" => l.for = "buy" /\ l.token # NoToken
               /\ l.live /\ l.for = "buy" =>
                    l.token = TokenFor(buy') /\ (l.what = "depth" => l.shares = Shares(buy'))
    BY DEF LookupSound, LookupFields, TokenFor, Shares, activePrice, capPrice
  <2>1. CASE l \in FirstLookups
    <3>1. l = Lookup("buy", "top", TokenOf[FirstSide], 0)
      BY <2>1 DEF FirstLookups
    <3> QED
      BY <1>3, <3>1, NewLookup
  <2>2. CASE l \in Cancelled(lookups, "buy", {"top", "depth"})
    <3>1. \A k \in lookups : DOMAIN k = LookupFields
      BY DEF TicketIInv, LookupSound, LookupFields
    <3>2. PICK k \in lookups : /\ DOMAIN l = LookupFields
                               /\ l.for = k.for /\ l.what = k.what /\ l.token = k.token
                               /\ l.live => ~(k.for = "buy" /\ k.what \in {"top", "depth"})
      BY <2>2, <3>1, StillWanted
    <3>3. k.what \in {"top", "depth"} /\ (k.what = "depth" => k.for = "buy" /\ k.token # NoToken)
      BY DEF TicketIInv, LookupSound
    <3> QED
      BY <3>2, <3>3
  <2> QED
    BY <1>1, <2>1, <2>2
<1>5. buy'.book.token = NoToken /\ buy'.estimate = NoEstimate /\ DOMAIN buy' = BuyFields
  BY <1>1, <1>2
<1> QED
  BY <1>4, <1>5 DEF TicketIInv, EstimateSound, BookIsCurrent, BuyFields

\* An answer is read off the exchange, or comes to nothing.
LEMMA AnswerKeeps ==
  ASSUME TicketIInv, NEW l \in lookups, ReadBook(l) \/ LookupFails(l)
  PROVE  TicketIInv' /\ BookIsCurrent
<1>1. PICK seen : /\ lookups' = (lookups \ {l}) \cup {[l EXCEPT !.read = TRUE, !.seen = seen]}
                  /\ buy' = buy
  BY DEF ReadBook, LookupFails
<1> DEFINE k == [l EXCEPT !.read = TRUE, !.seen = seen]
<1>2. LookupSound(l)
  BY DEF TicketIInv
<1>3. /\ DOMAIN k = LookupFields /\ k.for = l.for /\ k.what = l.what /\ k.token = l.token
      /\ k.shares = l.shares /\ k.live = l.live
  BY <1>2 DEF LookupSound, LookupFields
<1> HIDE DEF k
<1>4. LookupSound(k)
  BY <1>2, <1>3 DEF LookupSound, LookupFields
<1> QED
  BY <1>1, <1>4, StepKeeps DEF k

LEMMA TopKeeps ==
  ASSUME TicketIInv, NEW l \in lookups, TopArrives(l)
  PROVE  TicketIInv' /\ BookIsCurrent
<1>1. CASE ~Wanted(l)
  BY <1>1, StepKeeps DEF TopArrives
<1>2. CASE Wanted(l)
  <2> DEFINE snap == Snapshot(l.token, l.seen)
  <2>1. PICK price : Become([buy EXCEPT !.book = snap, !.price = price], lookups \ {l}, FALSE)
    BY <1>2 DEF TopArrives
  <2>2. l.token = TokenFor(buy)
    BY <1>2 DEF TopArrives, Wanted, TicketIInv, LookupSound
  <2>3. snap.token = l.token
    BY DEF Snapshot, NoBook
  <2> HIDE DEF snap
  <2> DEFINE b == [buy EXCEPT !.book = snap, !.price = price]
  <2>4. /\ DOMAIN b = BuyFields /\ b.estimate = buy.estimate /\ b.book = snap
        /\ b.side = buy.side
    BY DEF TicketIInv, BuyFields
  <2>5. Become(b, lookups \ {l}, FALSE)
    BY <2>1
  <2> HIDE DEF b
  <2>6. /\ TicketIInv'
        /\ buy'.book # buy.book =>
             buy'.book.token = NoToken \/ (buy'.book = b.book /\ TokenFor(buy') = TokenFor(b))
    BY <2>4, <2>5, BecomeKeeps
  <2>7. TokenFor(b) = TokenFor(buy)
    BY <2>4 DEF TokenFor
  <2> QED
    BY <2>2, <2>3, <2>4, <2>6, <2>7 DEF BookIsCurrent
<1> QED
  BY <1>1, <1>2

\* An estimate that is shown is the one that was asked for.
LEMMA DepthKeeps ==
  ASSUME TicketIInv, NEW l \in lookups, DepthArrives(l)
  PROVE  TicketIInv' /\ BookIsCurrent
<1>1. CASE ~Wanted(l)
  BY <1>1, StepKeeps DEF DepthArrives
<1>2. CASE Wanted(l)
  <2> DEFINE e == estimateBuy(l.token, l.seen, l.shares)
  <2>1. buy' = [buy EXCEPT !.estimate = e] /\ lookups' = lookups \ {l} /\ l.what = "depth"
    BY <1>2 DEF DepthArrives
  <2>2. e # NoEstimate => e.token = l.token /\ e.shares = l.shares
    BY DEF estimateBuy
  <2> HIDE DEF e
  <2>3. /\ DOMAIN buy' = BuyFields /\ buy'.estimate = e /\ buy'.book = buy.book
        /\ buy'.side = buy.side /\ buy'.type = buy.type /\ buy'.usd = buy.usd
        /\ buy'.price = buy.price
    BY <2>1 DEF TicketIInv, BuyFields
  <2>4. TokenFor(buy') = TokenFor(buy) /\ Shares(buy') = Shares(buy)
    BY <2>3, SameFigures
  <2>5. TokenFor(buy)' = TokenFor(buy') /\ Shares(buy)' = Shares(buy')
    BY DEF TokenFor, Shares, activePrice, capPrice
  <2>6. l.token = TokenFor(buy) /\ l.shares = Shares(buy) /\ l.token # NoToken
    BY <1>2, <2>1 DEF Wanted, TicketIInv, LookupSound
  <2>7. EstimateSound'
    BY <2>2, <2>3, <2>4, <2>5, <2>6 DEF EstimateSound
  <2>8. \A k \in lookups' : LookupSound(k)'
    BY <2>1, <2>4, <2>5 DEF TicketIInv, LookupSound
  <2> QED
    BY <2>3, <2>7, <2>8 DEF TicketIInv, BookIsCurrent, BuyFields
<1> QED
  BY <1>1, <1>2

\* What the sell ticket asks for, and no longer wants.
LEMMA SellKeeps ==
  ASSUME TicketIInv, OpenSell \/ TrySellAgain \/ CloseSell
  PROVE  TicketIInv' /\ BookIsCurrent
<1>1. /\ buy' = buy
      /\ lookups' \subseteq lookups \cup Cancelled(lookups, "sell", {"top"})
                            \cup {Lookup("sell", "top", HeldToken, 0)}
  BY DEF OpenSell, TrySellAgain, CloseSell
<1>2. \A l \in lookups' : LookupSound(l)'
  BY <1>1, CancelKeeps DEF TicketIInv
<1> QED
  BY <1>1, <1>2 DEF TicketIInv, EstimateSound, BookIsCurrent, TokenFor, Shares, activePrice, capPrice

LEMMA AnsweredKeeps ==
  ASSUME TicketIInv, NEW o \in orders, OrderAnswered(o)
  PROVE  TicketIInv' /\ BookIsCurrent
<1>1. \/ /\ lookups' = lookups
         /\ buy' = buy \/ \E step : buy' = [buy EXCEPT !.step = step]
      \/ buy' = buy /\ lookups' = Cancelled(lookups, "sell", {"top"})
  BY DEF OrderAnswered
<1>2. CASE /\ lookups' = lookups
           /\ buy' = buy \/ \E step : buy' = [buy EXCEPT !.step = step]
  BY <1>2, StepKeeps
<1>3. CASE buy' = buy /\ lookups' = Cancelled(lookups, "sell", {"top"})
  <2>1. \A l \in lookups' : LookupSound(l)'
    BY <1>3, CancelKeeps DEF TicketIInv
  <2> QED
    BY <1>3, <2>1 DEF TicketIInv, EstimateSound, BookIsCurrent, TokenFor, Shares, activePrice,
                      capPrice
<1> QED
  BY <1>1, <1>2, <1>3

LEMMA TicketStep ==
  ASSUME TicketIInv, [OrderTicketNext]_ticketVars
  PROVE  TicketIInv' /\ BookIsCurrent
<1>1. CASE EditBuy \/ TryAgain
  BY <1>1, EditKeeps
<1>2. CASE OpenSell \/ TrySellAgain \/ CloseSell
  BY <1>2, SellKeeps
<1>3. CASE Remount
  BY <1>3, RemountKeeps
<1>4. CASE EditSell \/ AgentOrder \/ SubmitSell \/ MarketMoves
  BY <1>4, StepKeeps DEF EditSell, AgentOrder, SubmitSell, MarketMoves
<1>5. CASE AskToConfirm \/ StepBack \/ SubmitBuy
  <2>1. lookups' = lookups /\ (buy' = buy \/ \E step : buy' = [buy EXCEPT !.step = step])
    BY <1>5 DEF AskToConfirm, StepBack, SubmitBuy
  <2> QED
    BY <2>1, StepKeeps
<1>6. ASSUME NEW s \in Side, GetMarket(s) PROVE TicketIInv' /\ BookIsCurrent
  BY <1>6, StepKeeps DEF GetMarket
<1>7. ASSUME NEW l \in lookups, ReadBook(l) \/ LookupFails(l) PROVE TicketIInv' /\ BookIsCurrent
  BY <1>7, AnswerKeeps
<1>8. ASSUME NEW l \in lookups, TopArrives(l) PROVE TicketIInv' /\ BookIsCurrent
  BY <1>8, TopKeeps
<1>9. ASSUME NEW l \in lookups, DepthArrives(l) PROVE TicketIInv' /\ BookIsCurrent
  BY <1>9, DepthKeeps
<1>10. ASSUME NEW l \in lookups, SellBookArrives(l) PROVE TicketIInv' /\ BookIsCurrent
  BY <1>10, StepKeeps DEF SellBookArrives
<1>11. ASSUME NEW o \in orders, CheckOrder(o) \/ WalletAnswers(o) PROVE TicketIInv' /\ BookIsCurrent
  BY <1>11, StepKeeps DEF CheckOrder, WalletAnswers, OrderGoes
<1>12. ASSUME NEW o \in orders, OrderAnswered(o) PROVE TicketIInv' /\ BookIsCurrent
  BY <1>12, AnsweredKeeps
<1>13. CASE UNCHANGED ticketVars
  BY <1>13, StepKeeps DEF ticketVars
<1> QED
  BY <1>1, <1>2, <1>3, <1>4, <1>5, <1>6, <1>7, <1>8, <1>9, <1>10, <1>11, <1>12, <1>13
  DEF OrderTicketNext

\* What the buy ticket shows of the book is of its token, and an estimate of
\* its share count, although any number of lookups overtake each other while
\* the side, the type and the amount change and the ticket is remounted (the
\* cancelled flags of OrderFormWired's effects).
THEOREM ShownIsCurrent == OrderTicketSpec => AnswersAreCurrent
<1>1. OrderTicketInit => TicketIInv
  <2> SUFFICES ASSUME OrderTicketInit PROVE TicketIInv
    OBVIOUS
  <2>1. buy = NewBuy /\ lookups = FirstLookups
    BY DEF OrderTicketInit
  <2>2. DOMAIN NewBuy = BuyFields /\ NewBuy.estimate = NoEstimate /\ NewBuy.side = FirstSide
    BY DEF NewBuy, BuyFields
  <2>3. \A l \in lookups : l = Lookup("buy", "top", TokenFor(buy), 0)
    BY <2>1, <2>2 DEF FirstLookups, TokenFor
  <2>4. \A l \in lookups : LookupSound(l)
    BY <2>3, NewLookup DEF LookupSound, LookupFields
  <2> QED
    BY <2>1, <2>2, <2>4 DEF TicketIInv, EstimateSound, BuyFields
<1>2. TicketIInv /\ [OrderTicketNext]_ticketVars => TicketIInv'
  BY TicketStep
<1>3. TicketIInv /\ [OrderTicketNext]_ticketVars =>
        [/\ buy'.book # buy.book => buy'.book.token \in {TokenFor(buy'), NoToken}
         /\ buy'.estimate # NoEstimate =>
              <<buy'.estimate.token, buy'.estimate.shares>> = <<TokenFor(buy'), Shares(buy')>>]_ticketVars
  <2> SUFFICES ASSUME TicketIInv, [OrderTicketNext]_ticketVars
               PROVE  /\ buy'.book # buy.book => buy'.book.token \in {TokenFor(buy'), NoToken}
                      /\ buy'.estimate # NoEstimate =>
                           <<buy'.estimate.token, buy'.estimate.shares>> =
                             <<TokenFor(buy'), Shares(buy')>>
    OBVIOUS
  <2>1. TokenFor(buy)' = TokenFor(buy') /\ Shares(buy)' = Shares(buy')
    BY DEF TokenFor, Shares, activePrice, capPrice
  <2>2. EstimateSound' /\ BookIsCurrent
    BY TicketStep DEF TicketIInv
  <2> QED
    BY <2>1, <2>2 DEF EstimateSound, BookIsCurrent
<1> QED
  BY <1>1, <1>2, <1>3, PTL DEF OrderTicketSpec, AnswersAreCurrent

-----------------------------------------------------------------------------
(* The levels of a book, cheapest first; the floor of a market sell.       *)

\* A level of a book.
Level == [price : 1..One - 1, size : Nat \ {0}]

\* The levels a book is walked by are those that were sent, cheapest first.
LEMMA SortedLevels ==
  ASSUME NEW asks \in Seq(Level)
  PROVE  \E p \in Bijection(DOMAIN asks, DOMAIN asks) :
           /\ Sorted(asks) = [i \in DOMAIN asks |-> asks[p[i]]]
           /\ \A i, j \in DOMAIN asks : i < j => Sorted(asks)[i].price <= Sorted(asks)[j].price
<1> DEFINE n == Len(asks)
           D == DOMAIN asks
           f == [i \in 1..n |-> asks[i].price]
           Reordered(p) == [i \in D |-> asks[p[i]]]
           all == {Reordered(p) : p \in Bijection(D, D)}
           Ascending(s) == \A i, j \in D : i < j => s[i].price <= s[j].price
<1>1. n \in Nat /\ D = 1..n /\ \A i \in D : asks[i] \in Level
  OBVIOUS
<1>2. \A i \in 1..n : f[i] \in Int
  BY <1>1 DEF Level
<1>3. PICK p : Orders(p, f, n)
  <2> HIDE DEF n, f
  <2> QED BY <1>1, <1>2, OrderExists
<1>4. p \in Bijection(D, D)
  BY <1>1, <1>3 DEF Orders, Bijection, Injection, Surjection, IsInjective
<1>5. Ascending(Reordered(p))
  BY <1>1, <1>3 DEF Orders
<1>6. Sorted(asks) = CHOOSE s \in all : Ascending(s)
  BY DEF Sorted
<1>7. Sorted(asks) \in all /\ Ascending(Sorted(asks))
  <2>1. \E s \in all : Ascending(s)
    BY <1>4, <1>5
  <2> HIDE DEF all, Ascending
  <2> QED BY <1>6, <2>1
<1> QED BY <1>7

\* The best ask is a price of the book.
LEMMA BestAskIsPrice ==
  ASSUME NEW l, l.asks \in Seq(Level)
  PROVE  /\ bestAsk(l) \in 0..One - 1
         /\ bestAsk(l) = 0 <=> l.asks = <<>>
<1>1. CASE l.asks = <<>>
  BY <1>1 DEF bestAsk, One
<1>2. CASE l.asks # <<>>
  <2> DEFINE asks == l.asks
  <2>1. DOMAIN asks = 1..Len(asks) /\ Len(asks) \in Nat \ {0} /\ \A i \in DOMAIN asks : asks[i] \in Level
    BY <1>2
  <2>2. PICK p \in Bijection(DOMAIN asks, DOMAIN asks) : Sorted(asks) = [i \in DOMAIN asks |-> asks[p[i]]]
    BY SortedLevels
  <2>3. 1 \in DOMAIN asks
    BY <2>1
  <2>4. p[1] \in DOMAIN asks
    BY <2>3 DEF Bijection, Injection
  <2>5. Sorted(asks)[1] = asks[p[1]]
    BY <2>2, <2>3
  <2>6. bestAsk(l) \in 1..One - 1
    BY <1>2, <2>1, <2>4, <2>5 DEF bestAsk, Level
  <2>7. \A x \in 1..One - 1 : x \in 0..One - 1 /\ x # 0
    BY DEF One
  <2> QED BY <1>2, <2>6, <2>7
<1> QED BY <1>1, <1>2

\* The floor of a market sell is a price the exchange takes, whatever the bid
\* (marketFloorPrice of core/pricing.ts).
THEOREM FloorIsOnTheGrid ==
  ASSUME NEW tick \in 1..One - 1, One % tick = 0, CapPct \in 0..100,
         NEW bid \in 1..One - 1
  PROVE  isValidTickPrice(marketFloorPrice(bid, tick), tick)
<1> DEFINE fall == bid * (100 - CapPct)
           step == 100 * tick
           c == fall \div step
           half == 2 * bid + tick
           d == half \div (2 * tick) - 1
<1>1. tick \in Nat \ {0} /\ One \in Nat /\ step \in Nat \ {0} /\ fall \in Nat
  BY DEF One
<1>2. c \in Nat /\ c * tick <= bid
  <2>1. c \in Nat /\ c * step <= fall
    <3> HIDE DEF fall, step
    <3> QED BY <1>1, DivMod
  <2>2. fall <= 100 * bid
    <3>1. (100 - CapPct) * bid <= 100 * bid
      BY ProductMonotone
    <3> QED BY <3>1
  <2>3. c * step = 100 * (c * tick)
    <3> HIDE DEF c
    <3> QED BY <1>1, <2>1
  <2> HIDE DEF c, fall, step
  <2>4. c * tick \in Nat
    BY <1>1, <2>1
  <2> QED BY <1>1, <2>1, <2>2, <2>3, <2>4
<1>3. d \in Int
  <2>1. half \in Nat /\ 2 * tick \in Nat \ {0}
    BY <1>1
  <2> HIDE DEF half
  <2>2. half \div (2 * tick) \in Nat
    BY <2>1, DivMod
  <2> QED BY <2>2
<1>4. marketFloorPrice(bid, tick) = Most(tick, Least(c * tick, d * tick))
  BY DEF marketFloorPrice
<1> HIDE DEF c, d
<1>5. c * tick \in Int /\ d * tick \in Int
  BY <1>1, <1>2, <1>3
<1>6. PICK n \in Int : Least(c * tick, d * tick) = n * tick /\ n * tick <= bid
  BY <1>1, <1>2, <1>3, <1>5 DEF Least
<1>7. PICK m \in Nat \ {0} : Most(tick, n * tick) = m * tick /\ m * tick \in 1..One - 1
  <2>1. n * tick \in Int
    BY <1>1
  <2>2. CASE tick > n * tick
    <3>1. Most(tick, n * tick) = 1 * tick
      BY <1>1, <2>2 DEF Most
    <3> QED BY <1>1, <3>1
  <2>3. CASE ~(tick > n * tick)
    <3>1. Most(tick, n * tick) = n * tick
      BY <2>3 DEF Most
    <3>2. n >= 1
      <4>1. SUFFICES ASSUME n <= 0 PROVE FALSE
        OBVIOUS
      <4>2. n * tick <= 0 * tick
        BY <1>1, <4>1, ProductMonotone
      <4> QED BY <1>1, <2>1, <2>3, <4>2
    <3> QED BY <1>1, <1>6, <2>1, <2>3, <3>1, <3>2
  <2> QED BY <2>2, <2>3
<1> QED BY <1>1, <1>4, <1>6, <1>7, OnGrid

-----------------------------------------------------------------------------
(* What is signed.                                                         *)

\* The market's record, or what stands in for it, is true of the market, and
\* its least order is no larger than the one assumed where the record has
\* none or is not consulted (the agent's orders, sells).
RecordFits ==
  /\ FormTick = Tick
  /\ Minimum <= DefaultMinimum /\ Minimum <= minOrderShares(KnownMinimum)

SellFields == {"open", "type", "count", "price", "book", "step"}
OrderFields == {"kind", "by", "live", "token", "type", "amount", "price", "tick", "bookOf", "stage", "answer"}

\* A book that has a bid has told its grid as well.
BookSound(b) ==
  /\ b.ask \in 0..One - 1 /\ b.bid \in 0..One - 1 /\ b.tick \in {0, Tick}
  /\ b.bid > 0 => b.tick = Tick
BuySound(b) ==
  /\ DOMAIN b = BuyFields
  /\ b.side \in Side /\ b.type \in {"LIMIT", "MARKET"}
  /\ b.usd \in Nat /\ b.price \in Nat /\ BookSound(b.book)
SellSound(s) ==
  /\ DOMAIN s = SellFields
  /\ s.type \in {"LIMIT", "MARKET"}
  /\ s.count \in Nat /\ s.price \in Nat /\ BookSound(s.book)
AnswerSound(l) ==
  /\ DOMAIN l = LookupFields /\ l.token \in Token /\ l.shares \in Nat
  /\ l.seen.asks \in Seq(Level) /\ l.seen.bid \in 0..One - 1
QuotedPrice(p) == p \in Nat /\ (p = 0 \/ isValidTickPrice(p, QuoteTick))

\* An order on its way has a price on the grid, unless it is a limit sell or
\* the agent's, which are checked later; one that waits for the wallet has
\* been checked.
OrderSound(o) ==
  /\ DOMAIN o = OrderFields
  /\ o.kind \in {"BUY", "SELL"} /\ o.by \in {"ticket", "agent"} /\ o.type \in {"LIMIT", "MARKET"}
  /\ o.amount \in Nat \ {0} /\ o.price \in Nat
  /\ o.kind = "BUY" \/ o.by = "agent" => o.tick = KnownTick
  /\ o.by = "ticket" /\ o.kind = "BUY" => isValidTickPrice(o.price, FormTick)
  /\ o.by = "ticket" /\ o.kind = "SELL" =>
       /\ o.tick \in {0, Tick} /\ o.amount <= floorShares
       /\ o.type = "MARKET" => isValidTickPrice(o.price, Tick)
  /\ o.stage = "prompt" => Passes(o)

PriceIInv ==
  /\ ladder \in [Token -> Ladders]
  /\ BuySound(buy)
  /\ SellSound(sell)
  /\ \A l \in lookups : AnswerSound(l)
  /\ QuotedPrice(quote.cap) /\ QuotedPrice(quote.floor)
  /\ \A o \in orders : OrderSound(o)

\* The grids prices are rounded to divide a dollar.
LEMMA TicketGrids ==
  /\ \A t \in {FormTick, QuoteTick, Tick} : t \in 1..One - 1 /\ One % t = 0
  /\ CapPct \in 0..100 /\ Minimum \in Nat /\ KnownMinimum \in Nat
  /\ floorShares \in Nat /\ MaxOrderUsd \in Nat
<1>1. \A t \in {1, 10} : t \in 1..One - 1 /\ One % t = 0
  BY DEF One
<1>2. /\ Tick \in 1..One - 1 /\ One % Tick = 0 /\ KnownTick \in {0, Tick}
      /\ CapPct \in 0..100 /\ Minimum \in Nat /\ KnownMinimum \in Nat /\ Held \in Nat
      /\ MaxOrderUsd \in Nat
  BY OrderTicketAssumption
<1>3. floorShares \in Nat
  BY <1>2 DEF floorShares
<1> QED BY <1>1, <1>2, <1>3 DEF FormTick, QuoteTick

\* The books and the inputs are of the types the assumption gives them.
LEMMA LaddersSound ==
  ASSUME NEW l \in Ladders
  PROVE  l.asks \in Seq(Level) /\ l.bid \in 0..One - 1
BY OrderTicketAssumption DEF Level

LEMMA TypedNumbers ==
  /\ Counts \subseteq Nat /\ Amounts \subseteq Nat /\ Prices \subseteq Nat
  /\ HeldToken \in Token /\ FirstSide \in Side
  /\ \A s \in Side : TokenOf[s] # NoToken => TokenOf[s] \in Token
BY OrderTicketAssumption DEF Token

\* The prices a ticket or get_market makes of a book are on the grid.
LEMMA CapSound ==
  ASSUME NEW ask \in 0..One - 1, ask # 0, NEW tick \in {FormTick, QuoteTick, Tick}
  PROVE  isValidTickPrice(marketCapPrice(ask, tick), tick)
<1>1. ask \in Nat \ {0}
  BY DEF One
<1>2. tick \in 1..One - 1 /\ One % tick = 0 /\ CapPct \in 0..100
  BY TicketGrids
<1> QED BY <1>1, <1>2, CapIsOnTheGrid

LEMMA FloorSound ==
  ASSUME NEW bid \in 0..One - 1, bid # 0, NEW tick \in {FormTick, QuoteTick, Tick}
  PROVE  isValidTickPrice(marketFloorPrice(bid, tick), tick)
<1>1. bid \in 1..One - 1
  BY DEF One
<1>2. tick \in 1..One - 1 /\ One % tick = 0 /\ CapPct \in 0..100
  BY TicketGrids
<1> QED BY <1>1, <1>2, FloorIsOnTheGrid

\* What the checks pass is a price.
LEMMA ValidIsPrice ==
  ASSUME NEW p, NEW tick, isValidTickPrice(p, tick)
  PROVE  p \in Nat \ {0} /\ p \in 1..One - 1
BY DEF isValidTickPrice, One

\* What a ticket keeps of an answer.
LEMMA SnapshotSound ==
  ASSUME NEW token, NEW seen, seen.asks \in Seq(Level), seen.bid \in 0..One - 1
  PROVE  BookSound(Snapshot(token, seen))
<1>1. 0 \in 0..One - 1
  BY DEF One
<1>2. bestAsk(seen) \in 0..One - 1
  BY BestAskIsPrice
<1>3. CASE seen = Failure
  BY <1>1, <1>3 DEF Snapshot, NoBook, BookSound
<1>4. CASE seen # Failure
  BY <1>1, <1>2, <1>4 DEF Snapshot, BookSound
<1> QED BY <1>3, <1>4

\* A ticket starts out sound.
LEMMA NewTicketsSound ==
  /\ BookSound(NoBook)
  /\ BuySound(NewBuy) /\ SellSound(NewSell) /\ SellSound(NotSelling)
<1>1. BookSound(NoBook)
  BY DEF BookSound, NoBook, One
<1>2. BuySound(NewBuy)
  BY <1>1, TypedNumbers DEF BuySound, NewBuy, BuyFields
<1>3. SellSound(NewSell)
  BY <1>1, TicketGrids DEF SellSound, NewSell, SellFields
<1>4. SellSound(NotSelling)
  BY <1>1, TicketGrids DEF SellSound, NewSell, NotSelling, SellFields
<1> QED BY <1>1, <1>2, <1>3, <1>4

\* One lemma for each part of the invariant.
LEMMA LadderStep ==
  ASSUME PriceIInv, [OrderTicketNext]_ticketVars
  PROVE  ladder' \in [Token -> Ladders]
<1>1. CASE MarketMoves
  BY <1>1 DEF MarketMoves, PriceIInv
<1>2. CASE UNCHANGED ladder
  BY <1>2 DEF PriceIInv
<1> QED
  BY <1>1, <1>2 DEF OrderTicketNext, ticketVars, outside, EditBuy, TryAgain, EditSell, OpenSell,
     TrySellAgain, CloseSell, Remount, AgentOrder, AskToConfirm, StepBack, SubmitBuy, SubmitSell,
     GetMarket, ReadBook, LookupFails, TopArrives, DepthArrives, SellBookArrives, CheckOrder,
     WalletAnswers, OrderAnswered, OrderGoes

\* An edit leaves a sound buy ticket, as do the effects it sets off.
LEMMA BecomeSound ==
  ASSUME NEW b, BuySound(b), NEW ls, NEW again, Become(b, ls, again)
  PROVE  BuySound(buy')
<1>1. PICK d : (d = b \/ d = [b EXCEPT !.book = NoBook])
               /\ (buy' = d \/ buy' = [d EXCEPT !.estimate = NoEstimate])
  BY DEF Become
<1>2. BuySound(d)
  BY <1>1, NewTicketsSound DEF BuySound, BuyFields
<1> QED
  BY <1>1, <1>2 DEF BuySound, BuyFields

\* What the buy ticket is edited into, and what an answer makes of it.
LEMMA BuyBecomes ==
  ASSUME PriceIInv, EditBuy \/ TryAgain \/ \E l \in lookups : TopArrives(l) /\ Wanted(l)
  PROVE  \E b, again : \E ls \in SUBSET lookups : BuySound(b) /\ Become(b, ls, again)
<1>1. BuySound(buy)
  BY DEF PriceIInv
<1>2. CASE EditBuy
  <2>1. PICK b \in {[buy EXCEPT !.side = s] : s \in Side}
                    \cup {[buy EXCEPT !.type = t] : t \in {"LIMIT", "MARKET"}}
                    \cup {[buy EXCEPT !.usd = u] : u \in Amounts}
                    \cup {[buy EXCEPT !.price = p] : p \in Prices} :
          Become(b, lookups, FALSE)
    BY <1>2 DEF EditBuy
  <2>2. BuySound(b)
    BY <1>1, TypedNumbers DEF BuySound, BuyFields
  <2> QED BY <2>1, <2>2
<1>3. CASE TryAgain
  BY <1>1, <1>3 DEF TryAgain
<1>4. ASSUME NEW l \in lookups, TopArrives(l), Wanted(l)
      PROVE  \E b, again : \E ls \in SUBSET lookups : BuySound(b) /\ Become(b, ls, again)
  <2> DEFINE snap == Snapshot(l.token, l.seen)
             price == IF snap.ask > 0 THEN roundToTick(snap.ask, FormTick) ELSE buy.price
             b == [buy EXCEPT !.book = snap, !.price = price]
  <2>1. Become(b, lookups \ {l}, FALSE)
    BY <1>4 DEF TopArrives
  <2>2. BookSound(snap)
    BY SnapshotSound DEF PriceIInv, AnswerSound
  <2> HIDE DEF snap
  <2>3. price \in Nat
    <3>1. snap.ask \in Nat
      BY <2>2 DEF BookSound, One
    <3>2. FormTick \in Nat \ {0}
      BY TicketGrids
    <3>3. roundToTick(snap.ask, FormTick) \in Nat
      <4>1. snap.ask \div FormTick \in Nat
        BY <3>1, <3>2, DivMod
      <4> QED BY <3>2, <4>1 DEF roundToTick
    <3> QED BY <1>1, <3>3 DEF BuySound
  <2> HIDE DEF price
  <2>4. BuySound(b)
    BY <1>1, <2>2, <2>3 DEF BuySound, BuyFields
  <2> HIDE DEF b
  <2> QED BY <2>1, <2>4
<1> QED BY <1>2, <1>3, <1>4

LEMMA BuyStep ==
  ASSUME PriceIInv, [OrderTicketNext]_ticketVars
  PROVE  BuySound(buy')
<1>1. BuySound(buy)
  BY DEF PriceIInv
<1>2. CASE EditBuy \/ TryAgain \/ \E l \in lookups : TopArrives(l) /\ Wanted(l)
  BY <1>2, BuyBecomes, BecomeSound
<1>3. CASE \E l \in lookups : TopArrives(l) /\ ~Wanted(l)
  BY <1>1, <1>3 DEF TopArrives
<1>4. CASE Remount
  BY <1>4, NewTicketsSound DEF Remount
<1>5. CASE \E step : buy' = [buy EXCEPT !.step = step]
  BY <1>1, <1>5 DEF BuySound, BuyFields
<1>6. CASE buy' = buy
  BY <1>1, <1>6
<1>7. ASSUME NEW l \in lookups, DepthArrives(l) PROVE BuySound(buy')
  <2>1. PICK e : buy' = [buy EXCEPT !.estimate = e] \/ buy' = buy
    BY <1>7 DEF DepthArrives
  <2> QED BY <1>1, <2>1 DEF BuySound, BuyFields
<1> QED
  BY <1>2, <1>3, <1>4, <1>5, <1>6, <1>7 DEF OrderTicketNext, ticketVars, EditSell, OpenSell,
     TrySellAgain, CloseSell, AgentOrder, AskToConfirm, StepBack, SubmitBuy, SubmitSell,
     GetMarket, ReadBook, LookupFails, SellBookArrives, CheckOrder,
     WalletAnswers, OrderAnswered, OrderGoes, MarketMoves

LEMMA SellStep ==
  ASSUME PriceIInv, [OrderTicketNext]_ticketVars
  PROVE  SellSound(sell')
<1>1. SellSound(sell)
  BY DEF PriceIInv
<1>2. CASE EditSell
  <2>1. PICK s \in {[sell EXCEPT !.type = t] : t \in {"LIMIT", "MARKET"}}
                    \cup {[sell EXCEPT !.count = c] : c \in Counts}
                    \cup {[sell EXCEPT !.price = p] : p \in Prices} :
          sell' = s
    BY <1>2 DEF EditSell
  <2>2. SellSound(s)
    BY <1>1, TypedNumbers DEF SellSound, SellFields
  <2> QED BY <2>1, <2>2
<1>3. CASE sell' \in {NewSell, NotSelling, sell}
  BY <1>1, <1>3, NewTicketsSound
<1>4. CASE \E step : sell' = [sell EXCEPT !.step = step]
  BY <1>1, <1>4 DEF SellSound, SellFields
<1>5. ASSUME NEW l \in lookups, SellBookArrives(l) PROVE SellSound(sell')
  <2> DEFINE snap == Snapshot(l.token, l.seen)
             price == IF snap.bid > 0 THEN snap.bid ELSE sell.price
  <2>1. sell' = [sell EXCEPT !.book = snap, !.price = price] \/ sell' = sell
    BY <1>5 DEF SellBookArrives
  <2>2. BookSound(snap)
    BY SnapshotSound DEF PriceIInv, AnswerSound
  <2> HIDE DEF snap
  <2>3. price \in Nat
    <3>1. \A x \in 0..One - 1 : x \in Nat
      BY DEF One
    <3> QED BY <1>1, <2>2, <3>1 DEF BookSound, SellSound
  <2> HIDE DEF price
  <2> QED BY <1>1, <2>1, <2>2, <2>3 DEF SellSound, SellFields
<1> QED
  BY <1>2, <1>3, <1>4, <1>5 DEF OrderTicketNext, ticketVars, EditBuy, TryAgain, OpenSell,
     TrySellAgain, CloseSell, Remount, AgentOrder, AskToConfirm, StepBack, SubmitBuy, SubmitSell,
     GetMarket, ReadBook, LookupFails, TopArrives, DepthArrives, CheckOrder,
     WalletAnswers, OrderAnswered, OrderGoes, MarketMoves

\* Lookups that are started or cancelled.
LEMMA NewLookupSound ==
  ASSUME NEW for, NEW what, NEW token \in Token, NEW shares \in Nat
  PROVE  AnswerSound(Lookup(for, what, token, shares))
<1>1. Unread.asks \in Seq(Level) /\ Unread.bid \in 0..One - 1
  BY DEF Unread, One
<1> HIDE DEF Unread
<1> QED BY <1>1 DEF AnswerSound, Lookup, LookupFields

LEMMA CancelledSound ==
  ASSUME NEW ls, \A l \in ls : AnswerSound(l), NEW for, NEW what
  PROVE  \A l \in Cancelled(ls, for, what) : AnswerSound(l)
<1> SUFFICES ASSUME NEW l \in ls PROVE AnswerSound([l EXCEPT !.live = FALSE])
  BY DEF Cancelled
<1> QED BY DEF AnswerSound, LookupFields

\* The shares a ticket asks an estimate for.
LEMMA SharesNat ==
  ASSUME NEW b, BuySound(b)
  PROVE  Shares(b) \in Nat
<1>1. b.usd \in Nat /\ b.price \in Nat /\ b.book.ask \in 0..One - 1
  BY DEF BuySound, BookSound
<1>2. capPrice(b) \in Nat
  <2>1. CASE b.book.ask > 0
    <3>1. b.book.ask # 0
      BY <1>1, <2>1
    <3>2. isValidTickPrice(marketCapPrice(b.book.ask, FormTick), FormTick)
      BY <1>1, <3>1, CapSound
    <3> QED BY <2>1, <3>2, ValidIsPrice DEF capPrice
  <2>2. CASE ~(b.book.ask > 0)
    BY <2>2 DEF capPrice
  <2> QED BY <2>1, <2>2
<1>3. activePrice(b) \in Nat
  BY <1>1, <1>2 DEF activePrice
<1> DEFINE price == activePrice(b)
<1>4. CASE b.usd > 0 /\ price > 0
  <2>1. b.usd * One \in Nat
    BY <1>1 DEF One
  <2>2. (b.usd * One) \div price \in Nat
    <3>1. price \in Nat \ {0}
      BY <1>3, <1>4
    <3> HIDE DEF price
    <3> QED BY <2>1, <3>1, DivMod
  <2> QED BY <1>4, <2>2 DEF Shares, sharesFor
<1>5. CASE ~(b.usd > 0 /\ price > 0)
  BY <1>5 DEF Shares, sharesFor
<1> QED BY <1>4, <1>5

\* What the effects of an edit look up.
LEMMA BecomeLooksUp ==
  ASSUME NEW b, BuySound(b), NEW ls, \A l \in ls : AnswerSound(l), NEW again, Become(b, ls, again)
  PROVE  \A l \in lookups' : AnswerSound(l)
<1> SUFFICES ASSUME NEW l \in lookups' PROVE AnswerSound(l)
  OBVIOUS
<1>1. \/ \E what : l \in Cancelled(ls, "buy", what)
      \/ \E what : \E shares \in {0, Shares(b)} :
           TokenFor(b) # NoToken /\ l = Lookup("buy", what, TokenFor(b), shares)
  BY DEF Become
<1>2. TokenFor(b) # NoToken => TokenFor(b) \in Token
  BY TypedNumbers DEF TokenFor, BuySound
<1>3. \A shares \in {0, Shares(b)} : shares \in Nat
  BY SharesNat
<1> QED BY <1>1, <1>2, <1>3, NewLookupSound, CancelledSound

LEMMA LookupStep ==
  ASSUME PriceIInv, [OrderTicketNext]_ticketVars
  PROVE  \A l \in lookups' : AnswerSound(l)
<1>1. \A l \in lookups : AnswerSound(l)
  BY DEF PriceIInv
<1>2. \A for, what : \A l \in Cancelled(lookups, for, what) : AnswerSound(l)
  BY <1>1, CancelledSound
<1>3. AnswerSound(Lookup("sell", "top", HeldToken, 0))
  BY NewLookupSound, TypedNumbers
<1>4. \A l \in FirstLookups : AnswerSound(l)
  BY NewLookupSound, TypedNumbers DEF FirstLookups
<1>5. CASE EditBuy \/ TryAgain \/ \E l \in lookups : TopArrives(l) /\ Wanted(l)
  BY <1>1, <1>5, BuyBecomes, BecomeLooksUp
<1>6. CASE \E l \in lookups : TopArrives(l) /\ ~Wanted(l)
  BY <1>1, <1>6 DEF TopArrives
<1>7. ASSUME NEW l \in lookups, ReadBook(l) PROVE \A k \in lookups' : AnswerSound(k)
  <2> DEFINE seen == [asks |-> ladder[l.token].asks, bid |-> ladder[l.token].bid, failed |-> FALSE]
             k == [l EXCEPT !.read = TRUE, !.seen = seen]
  <2>1. lookups' = (lookups \ {l}) \cup {k}
    BY <1>7 DEF ReadBook
  <2>2. ladder[l.token] \in Ladders
    BY DEF PriceIInv, AnswerSound
  <2>3. seen.asks \in Seq(Level) /\ seen.bid \in 0..One - 1
    BY <2>2, LaddersSound
  <2> HIDE DEF seen
  <2>4. AnswerSound(k)
    BY <1>1, <2>3 DEF AnswerSound, LookupFields
  <2> QED BY <1>1, <2>1, <2>4
<1>8. ASSUME NEW l \in lookups, LookupFails(l) PROVE \A k \in lookups' : AnswerSound(k)
  <2> DEFINE k == [l EXCEPT !.read = TRUE, !.seen = Failure]
  <2>1. lookups' = (lookups \ {l}) \cup {k}
    BY <1>8 DEF LookupFails
  <2>2. Failure.asks \in Seq(Level) /\ Failure.bid \in 0..One - 1
    BY DEF Failure, One
  <2>3. AnswerSound(k)
    BY <1>1, <2>2 DEF AnswerSound, LookupFields
  <2> QED BY <1>1, <2>1, <2>3
<1>9. CASE lookups' \subseteq lookups
  BY <1>1, <1>9
<1>10. CASE \E for, what : lookups' = Cancelled(lookups, for, what) \cup FirstLookups
  BY <1>2, <1>4, <1>10
<1>11. CASE \E for, what : lookups' = Cancelled(lookups, for, what)
  BY <1>2, <1>11
<1>12. CASE OpenSell \/ TrySellAgain
  BY <1>1, <1>2, <1>3, <1>12 DEF OpenSell, TrySellAgain
<1>13. CASE CloseSell \/ Remount \/ \E o \in orders : OrderAnswered(o)
  BY <1>9, <1>10, <1>11, <1>13 DEF CloseSell, Remount, OrderAnswered
<1>14. CASE \/ EditSell \/ AgentOrder \/ AskToConfirm \/ StepBack \/ SubmitBuy \/ SubmitSell
            \/ MarketMoves \/ UNCHANGED ticketVars \/ \E s \in Side : GetMarket(s)
            \/ \E l \in lookups : DepthArrives(l) \/ SellBookArrives(l)
            \/ \E o \in orders : CheckOrder(o) \/ WalletAnswers(o)
  <2>1. lookups' \subseteq lookups
    BY <1>14 DEF EditSell, AgentOrder, AskToConfirm, StepBack, SubmitBuy, SubmitSell, MarketMoves,
       ticketVars, GetMarket, DepthArrives, SellBookArrives, CheckOrder, WalletAnswers, OrderGoes
  <2> QED BY <1>9, <2>1
<1> QED
  BY <1>5, <1>6, <1>7, <1>8, <1>12, <1>13, <1>14 DEF OrderTicketNext

\* get_market hands over prices of the grid, or none.
LEMMA QuoteStep ==
  ASSUME PriceIInv, [OrderTicketNext]_ticketVars
  PROVE  QuotedPrice(quote'.cap) /\ QuotedPrice(quote'.floor)
<1>1. QuotedPrice(0)
  BY DEF QuotedPrice
<1>2. ASSUME NEW s \in Side, GetMarket(s) PROVE QuotedPrice(quote'.cap) /\ QuotedPrice(quote'.floor)
  <2> DEFINE l == ladder[TokenOf[s]]
             cap == IF bestAsk(l) > 0 THEN marketCapPrice(bestAsk(l), QuoteTick) ELSE 0
             floor == IF l.bid > 0 THEN marketFloorPrice(l.bid, QuoteTick) ELSE 0
  <2>1. quote' = [token |-> TokenOf[s], cap |-> cap, floor |-> floor]
    BY <1>2 DEF GetMarket, parseOrderbook
  <2>2. l \in Ladders
    BY <1>2, TypedNumbers DEF GetMarket, PriceIInv
  <2>3. bestAsk(l) \in 0..One - 1 /\ l.bid \in 0..One - 1
    BY <2>2, LaddersSound, BestAskIsPrice
  <2> HIDE DEF l
  <2>4. QuotedPrice(cap)
    <3>1. CASE bestAsk(l) > 0
      <4>1. isValidTickPrice(marketCapPrice(bestAsk(l), QuoteTick), QuoteTick)
        BY <2>3, <3>1, CapSound
      <4> QED BY <3>1, <4>1, ValidIsPrice DEF QuotedPrice
    <3>2. CASE ~(bestAsk(l) > 0)
      BY <1>1, <3>2
    <3> QED BY <3>1, <3>2
  <2>5. QuotedPrice(floor)
    <3>1. CASE l.bid > 0
      <4>1. isValidTickPrice(marketFloorPrice(l.bid, QuoteTick), QuoteTick)
        BY <2>3, <3>1, FloorSound
      <4> QED BY <3>1, <4>1, ValidIsPrice DEF QuotedPrice
    <3>2. CASE ~(l.bid > 0)
      BY <1>1, <3>2
    <3> QED BY <3>1, <3>2
  <2> QED BY <2>1, <2>4, <2>5
<1>3. CASE quote' \in {quote, NoQuote}
  BY <1>1, <1>3 DEF PriceIInv, NoQuote
<1> QED
  BY <1>2, <1>3 DEF OrderTicketNext, ticketVars, EditBuy, TryAgain, EditSell, OpenSell,
     TrySellAgain, CloseSell, Remount, AgentOrder, AskToConfirm, StepBack, SubmitBuy, SubmitSell,
     ReadBook, LookupFails, TopArrives, DepthArrives, SellBookArrives, CheckOrder,
     WalletAnswers, OrderAnswered, OrderGoes, MarketMoves

\* An order that was sent with a sound price keeps it.
LEMMA SameOrder ==
  ASSUME NEW o, OrderSound(o), NEW k, DOMAIN k = OrderFields, k.stage = "prompt" => Passes(o),
         \A f \in OrderFields \ {"live", "stage", "answer"} : k[f] = o[f]
  PROVE  OrderSound(k)
<1>1. /\ k.kind = o.kind /\ k.by = o.by /\ k.type = o.type /\ k.amount = o.amount
      /\ k.price = o.price /\ k.tick = o.tick
  BY DEF OrderFields
<1>2. Passes(k) <=> Passes(o)
  BY <1>1 DEF Passes, WithinMaxUsd, MinimumFor
<1> QED BY <1>1, <1>2 DEF OrderSound

\* What the tickets send.
LEMMA BuyIsSent ==
  ASSUME PriceIInv, SubmitBuy
  PROVE  \A o \in orders' : OrderSound(o)
<1> DEFINE o == [kind |-> "BUY", by |-> "ticket", live |-> TRUE, token |-> TokenFor(buy), type |-> buy.type,
                 amount |-> buy.usd, price |-> activePrice(buy), tick |-> KnownTick,
                 bookOf |-> buy.book.token, stage |-> "sent", answer |-> "none"]
<1>1. orders' = orders \cup {o} /\ ~submitDisabled(buy)
  BY DEF SubmitBuy
<1>2. BuySound(buy)
  BY DEF PriceIInv
<1>3. buy.usd \in Nat \ {0}
  BY <1>1, <1>2, TicketGrids DEF submitDisabled, BuySound
<1>4. isValidTickPrice(activePrice(buy), FormTick)
  <2>1. CASE buy.type = "LIMIT"
    BY <1>1, <2>1 DEF submitDisabled, activePrice
  <2>2. CASE buy.type = "MARKET"
    <3>1. capPrice(buy) # 0
      BY <1>1, <2>2 DEF submitDisabled
    <3>2. buy.book.ask \in 0..One - 1 /\ buy.book.ask # 0 /\ capPrice(buy) = marketCapPrice(buy.book.ask, FormTick)
      BY <1>2, <3>1 DEF capPrice, BuySound, BookSound
    <3> QED BY <2>2, <3>2, CapSound DEF activePrice
  <2> QED BY <1>2, <2>1, <2>2 DEF BuySound
<1>5. activePrice(buy) \in Nat
  BY <1>4, ValidIsPrice
<1> DEFINE price == activePrice(buy)
<1> HIDE DEF price
<1>6. OrderSound([kind |-> "BUY", by |-> "ticket", live |-> TRUE, token |-> TokenFor(buy), type |-> buy.type,
                 amount |-> buy.usd, price |-> price, tick |-> KnownTick,
                 bookOf |-> buy.book.token, stage |-> "sent", answer |-> "none"])
  BY <1>2, <1>3, <1>4, <1>5 DEF OrderSound, OrderFields, BuySound, price
<1> QED BY <1>1, <1>6 DEF PriceIInv, price

LEMMA SellIsSent ==
  ASSUME PriceIInv, SubmitSell
  PROVE  \A o \in orders' : OrderSound(o)
<1> DEFINE price == sellPrice(sell)
           o == [kind |-> "SELL", by |-> "ticket", live |-> TRUE, token |-> HeldToken, type |-> sell.type,
                 amount |-> sell.count, price |-> price, tick |-> sell.book.tick,
                 bookOf |-> sell.book.token, stage |-> "sent", answer |-> "none"]
<1>1. orders' = orders \cup {o} /\ ~sellDisabled(sell)
  BY DEF SubmitSell
<1>2. SellSound(sell) /\ sell.book.tick \in {0, Tick} /\ sell.count \in Nat
  BY DEF PriceIInv, SellSound, BookSound
<1>3. sell.count # 0 /\ sell.count <= floorShares
  <2>1. minOrderShares(0) = 5
    BY DEF minOrderShares, DefaultMinimum
  <2>2. ~(sell.count < 100 * minOrderShares(0)) /\ ~(sell.count > floorShares)
    BY <1>1 DEF sellDisabled
  <2> QED BY <1>2, <2>1, <2>2, TicketGrids
<1>4. price \in 1..One - 1
  BY <1>1 DEF sellDisabled
<1>5. ASSUME sell.type = "MARKET" PROVE isValidTickPrice(price, Tick)
  <2>1. price = floorPrice(sell) /\ floorPrice(sell) # 0
    BY <1>4, <1>5 DEF sellPrice
  <2>2. /\ sell.book.bid \in 0..One - 1 /\ sell.book.bid # 0 /\ sell.book.bid > 0
        /\ floorPrice(sell) = marketFloorPrice(sell.book.bid, IF sell.book.tick > 0 THEN sell.book.tick ELSE SellTick)
    BY <1>2, <2>1 DEF floorPrice, SellSound, BookSound
  <2>3. sell.book.tick = Tick /\ Tick > 0
    <3>1. Tick \in {FormTick, QuoteTick, Tick}
      OBVIOUS
    <3>2. Tick \in 1..One - 1
      BY <3>1, TicketGrids
    <3> QED BY <1>2, <2>2, <3>2 DEF SellSound, BookSound
  <2>4. floorPrice(sell) = marketFloorPrice(sell.book.bid, Tick)
    BY <2>2, <2>3
  <2>5. isValidTickPrice(marketFloorPrice(sell.book.bid, Tick), Tick)
    BY <2>2, FloorSound
  <2> QED BY <2>1, <2>4, <2>5
<1>6. price \in Nat
  BY <1>4
<1> HIDE DEF price
<1>7. OrderSound(o)
  BY <1>2, <1>3, <1>5, <1>6 DEF OrderSound, OrderFields, SellSound
<1> HIDE DEF o
<1> QED BY <1>1, <1>7 DEF PriceIInv

LEMMA OrderStep ==
  ASSUME PriceIInv, [OrderTicketNext]_ticketVars
  PROVE  \A o \in orders' : OrderSound(o)
<1>1. \A o \in orders : OrderSound(o)
  BY DEF PriceIInv
<1>2. CASE SubmitBuy
  BY <1>2, BuyIsSent
<1>3. CASE SubmitSell
  BY <1>3, SellIsSent
<1>4. CASE AgentOrder
  <2>1. PICK kind \in {"BUY", "SELL"}, n \in Nat \ {0}, price \in {quote.cap, quote.floor} :
          orders' = orders \cup {[kind |-> kind, by |-> "agent", live |-> FALSE, token |-> quote.token,
                                 type |-> "MARKET", amount |-> n, tick |-> KnownTick, price |-> price,
                                 bookOf |-> NoToken, stage |-> "sent", answer |-> "none"]}
    BY <1>4, TypedNumbers DEF AgentOrder
  <2>2. price \in Nat
    BY DEF PriceIInv, QuotedPrice
  <2> DEFINE o == [kind |-> kind, by |-> "agent", live |-> FALSE, token |-> quote.token,
                   type |-> "MARKET", amount |-> n, tick |-> KnownTick, price |-> price,
                   bookOf |-> NoToken, stage |-> "sent", answer |-> "none"]
  <2>3. OrderSound(o)
    BY <2>2 DEF OrderSound, OrderFields
  <2> HIDE DEF o
  <2> QED BY <1>1, <2>1, <2>3 DEF o
<1>5. CASE Remount
  <2> SUFFICES ASSUME NEW o \in orders PROVE OrderSound([o EXCEPT !.live = FALSE])
    BY <1>5 DEF Remount
  <2> DEFINE k == [o EXCEPT !.live = FALSE]
  <2>1. DOMAIN k = OrderFields /\ k.stage = o.stage
        /\ \A f \in OrderFields \ {"live", "stage", "answer"} : k[f] = o[f]
    BY <1>1 DEF OrderSound, OrderFields
  <2> HIDE DEF k
  <2>2. k.stage = "prompt" => Passes(o)
    BY <1>1, <2>1 DEF OrderSound
  <2>3. OrderSound(k)
    BY <1>1, <2>1, <2>2, SameOrder
  <2> QED BY <2>3 DEF k
<1>6. ASSUME NEW o \in orders, CheckOrder(o) \/ WalletAnswers(o) PROVE \A k \in orders' : OrderSound(k)
  <2> DEFINE Goes(stage, answer) ==
               orders' = (orders \ {o}) \cup {[o EXCEPT !.stage = stage, !.answer = answer]}
  <2>1. PICK stage, answer : Goes(stage, answer) /\ (stage = "prompt" => Passes(o))
    <3>1. CASE CheckOrder(o)
      <4>1. CASE Passes(o) /\ OrderGoes(o, [o EXCEPT !.stage = "prompt"])
        <5>1. [o EXCEPT !.stage = "prompt"] = [o EXCEPT !.stage = "prompt", !.answer = o.answer]
          BY <1>1 DEF OrderSound, OrderFields
        <5>2. Goes("prompt", o.answer)
          BY <4>1, <5>1 DEF OrderGoes
        <5> HIDE DEF Goes
        <5> QED BY <4>1, <5>2
      <4>2. CASE OrderGoes(o, [o EXCEPT !.stage = "answered", !.answer = "failed"])
        <5>1. Goes("answered", "failed")
          BY <4>2 DEF OrderGoes
        <5> HIDE DEF Goes
        <5> QED BY <5>1
      <4> QED BY <3>1, <4>1, <4>2 DEF CheckOrder
    <3>2. CASE WalletAnswers(o)
      <4>1. PICK a : Goes("answered", a)
        BY <3>2 DEF WalletAnswers, OrderGoes
      <4> HIDE DEF Goes
      <4> QED BY <4>1
    <3> QED BY <1>6, <3>1, <3>2
  <2> DEFINE k == [o EXCEPT !.stage = stage, !.answer = answer]
  <2>2. DOMAIN k = OrderFields /\ k.stage = stage
        /\ \A f \in OrderFields \ {"live", "stage", "answer"} : k[f] = o[f]
    BY <1>1 DEF OrderSound, OrderFields
  <2> HIDE DEF k
  <2>3. OrderSound(k)
    BY <1>1, <2>1, <2>2, SameOrder
  <2> QED BY <1>1, <2>1, <2>3 DEF k
<1>7. CASE orders' \subseteq orders
  BY <1>1, <1>7
<1> QED
  BY <1>2, <1>3, <1>4, <1>5, <1>6, <1>7 DEF OrderTicketNext, ticketVars, EditBuy, TryAgain,
     EditSell, OpenSell, TrySellAgain, CloseSell, AskToConfirm, StepBack, GetMarket,
     ReadBook, LookupFails, TopArrives, DepthArrives, SellBookArrives, OrderAnswered, MarketMoves

\* What the wallet is asked to sign, the exchange takes.
LEMMA SoundIsAcceptable ==
  ASSUME RecordFits, NEW o, OrderSound(o), o.stage = "prompt", o.kind = "BUY" \/ o.type = "MARKET"
  PROVE  Acceptable(o) /\ (o.by = "ticket" => WithinMaxUsd(o))
<1>1. /\ o.kind \in {"BUY", "SELL"} /\ o.by \in {"ticket", "agent"}
      /\ o.amount \in Nat \ {0} /\ o.price \in Nat /\ Passes(o)
      /\ o.kind = "BUY" \/ o.by = "agent" => o.tick = KnownTick
      /\ o.by = "ticket" /\ o.kind = "SELL" => o.tick \in {0, Tick} /\ o.amount <= floorShares
  BY DEF OrderSound
<1>2. isValidTickPrice(o.price, Tick)
  <2>1. CASE o.by = "agent"
    BY <1>1, <2>1 DEF Passes, RecordFits
  <2>2. CASE o.by = "ticket" /\ o.kind = "BUY"
    BY <2>2 DEF OrderSound, RecordFits
  <2>3. CASE o.by = "ticket" /\ o.kind = "SELL"
    BY <2>3 DEF OrderSound
  <2> QED BY <1>1, <2>1, <2>2, <2>3
<1>3. Tick \in Nat \ {0} /\ o.price \in Nat \ {0} /\ o.price \in 1..One - 1
  <2>1. Tick \in {FormTick, QuoteTick, Tick}
    OBVIOUS
  <2>2. Tick \in 1..One - 1
    BY <2>1, TicketGrids
  <2>3. o.price \in Nat \ {0} /\ o.price \in 1..One - 1
    BY <1>2, ValidIsPrice
  <2> QED BY <2>2, <2>3
<1>4. o.price % Tick = 0
  <2>1. o.price % Tick = o.price - (o.price \div Tick) * Tick
    BY <1>1, <1>3, DivMod
  <2>2. (o.price \div Tick) * Tick = o.price
    BY <1>2 DEF isValidTickPrice, roundToTick
  <2> QED BY <1>1, <2>1, <2>2
<1>5. SignedTick(o) = Tick
  <2>1. CASE o.kind = "BUY" \/ o.by = "agent"
    BY <1>1, <1>3, <2>1 DEF SignedTick, RecordFits, FormTick
  <2>2. CASE ~(o.kind = "BUY" \/ o.by = "agent")
    BY <1>1, <1>3, <2>2 DEF SignedTick
  <2> QED BY <2>1, <2>2
<1>6. \A known \in {0, KnownMinimum} :
        minOrderShares(known) \in Nat /\ minOrderShares(known) >= Minimum
  BY TicketGrids DEF minOrderShares, RecordFits, DefaultMinimum
<1>7. SharesOf(o) >= 100 * Minimum
  <2>1. MinimumFor(o) \in {0, KnownMinimum}
    BY DEF MinimumFor
  <2> DEFINE m == minOrderShares(MinimumFor(o))
  <2>2. m \in Nat /\ m >= Minimum /\ Minimum \in Nat
    BY <1>6, <2>1, TicketGrids
  <2>3. CASE o.kind = "BUY"
    <3>1. ~(orderShares(o.amount, o.price) < 100 * m)
      BY <1>1, <1>3, <2>3 DEF Passes, isBelowMinOrderSize
    <3>2. orderShares(o.amount, o.price) \in Int
      <4>1. o.amount * One \in Nat
        BY <1>1 DEF One
      <4>2. sharesFor(o.amount, o.price) \in Int
        BY <1>1, <1>3, <4>1, DivMod DEF sharesFor
      <4> QED BY <4>2 DEF orderShares
    <3> HIDE DEF m
    <3> QED BY <2>2, <2>3, <3>1, <3>2 DEF SharesOf
  <2>4. CASE o.kind = "SELL"
    <3>1. o.amount >= 100 * m
      BY <1>1, <2>4 DEF Passes
    <3> HIDE DEF m
    <3> QED BY <1>1, <2>2, <2>4, <3>1 DEF SharesOf
  <2> QED BY <1>1, <2>3, <2>4
<1>8. o.by = "ticket" => WithinMaxUsd(o)
  BY <1>1 DEF Passes
<1> QED BY <1>1, <1>3, <1>4, <1>5, <1>7, <1>8 DEF Acceptable

\* The invariant holds at the start, and every step keeps it.
LEMMA PriceInit == OrderTicketInit => PriceIInv
<1> SUFFICES ASSUME OrderTicketInit PROVE PriceIInv
  OBVIOUS
<1>1. /\ ladder \in [Token -> Ladders] /\ buy = NewBuy /\ sell = NotSelling
      /\ lookups = FirstLookups /\ orders = {} /\ quote = NoQuote
  BY DEF OrderTicketInit
<1>2. QuotedPrice(quote.cap) /\ QuotedPrice(quote.floor)
  BY <1>1 DEF QuotedPrice, NoQuote
<1>3. \A l \in FirstLookups : AnswerSound(l)
  BY NewLookupSound, TypedNumbers DEF FirstLookups
<1> QED BY <1>1, <1>2, <1>3, NewTicketsSound DEF PriceIInv

LEMMA PriceStep == PriceIInv /\ [OrderTicketNext]_ticketVars => PriceIInv'
BY LadderStep, BuyStep, SellStep, LookupStep, QuoteStep, OrderStep DEF PriceIInv

\* The wallet is never asked to sign an order that the exchange must refuse
\* or that is over the cap, whatever the market's grid and minimum are that
\* its record tells right, whatever the book was and however its answers, the
\* edits and the agent's orders interleave (TradeTabWired.tsx, SellTicket.tsx,
\* trade.ts, getMarket.ts).
THEOREM SignedIsAcceptable == RecordFits => (OrderTicketSpec => []NothingSignedInVain)
<1> SUFFICES ASSUME RecordFits PROVE OrderTicketSpec => []NothingSignedInVain
  OBVIOUS
<1>1. PriceIInv => NothingSignedInVain
  BY SoundIsAcceptable DEF PriceIInv, NothingSignedInVain
<1> QED
  BY <1>1, PriceInit, PriceStep, PTL DEF OrderTicketSpec

-----------------------------------------------------------------------------
(* The walk through a book, level by level.                                *)

\* What the walk through a book is defined by: the fold of the community modules.
Filled(start, s, g) ==
  g = [S \in SUBSET DOMAIN s |-> IF S = {} THEN start ELSE Fill(g[S \ {Max(S)}], s[Max(S)])]

LEMMA WalkDef ==
  ASSUME NEW start, NEW s
  PROVE  FoldLeft(Fill, start, s) = (CHOOSE g : Filled(start, s, g))[DOMAIN s]
BY DEF FoldLeft, MapThenFoldSet, Filled

\* The n levels of a book.
Book(s, n) == DOMAIN s = 1..n /\ \A i \in 1..n : s[i] \in Level

\* What is left to fill after the levels of S, and what they cost: each level
\* gives what is left before it less what is left after it.
Remaining(s, shares, S) == Most(shares - Sum([i \in S |-> s[i].size], S), 0)
Taken(s, shares, S, i) ==
  Remaining(s, shares, {j \in S : j < i}) - Remaining(s, shares, {j \in S : j <= i})
Paid(s, shares, S) == [i \in S |-> s[i].price * Taken(s, shares, S, i)]
AfterLevels(s, shares, S) == [left |-> Remaining(s, shares, S), cost |-> Sum(Paid(s, shares, S), S)]

LEMMA RemainingStep ==
  ASSUME NEW n \in Nat, NEW s, Book(s, n), NEW shares \in Nat,
         NEW S \in SUBSET (1..n), NEW m \in S
  PROVE  /\ Remaining(s, shares, S) \in Nat /\ Remaining(s, shares, S \ {m}) \in Nat
         /\ Remaining(s, shares, S) =
              Remaining(s, shares, S \ {m}) - Least(Remaining(s, shares, S \ {m}), s[m].size)
<1> DEFINE R == S \ {m}
           f == [i \in S |-> s[i].size]
           g == [i \in R |-> s[i].size]
<1>1. IsFiniteSet(S) /\ IsFiniteSet(R)
  <2>1. IsFiniteSet(1..n)
    BY FS_Interval
  <2>2. IsFiniteSet(S)
    BY <2>1, FS_Subset
  <2> QED BY <2>2, FS_RemoveElement
<1>2. \A i \in S : f[i] \in Nat /\ f[i] = s[i].size
  BY DEF Book, Level
<1>3. \A i \in R : f[i] \in Nat /\ g[i] = f[i]
  BY <1>2
<1>4. Remaining(s, shares, S) = Most(shares - Sum(f, S), 0)
  BY DEF Remaining
<1>5. Remaining(s, shares, R) = Most(shares - Sum(g, R), 0)
  BY DEF Remaining
<1>6. f[m] \in Nat /\ f[m] = s[m].size
  BY <1>2
<1> HIDE DEF f, g
<1>7. Sum(f, S) = f[m] + Sum(f, R)
  BY <1>1, <1>2, SumStep
<1>8. Sum(g, R) = Sum(f, R) /\ Sum(f, R) \in Nat
  <2>1. Sum(g, R) = Sum(f, R)
    BY <1>1, <1>3, SumEqual
  <2>2. Sum(f, R) \in Nat
    BY <1>1, <1>3, SumNat
  <2> QED BY <2>1, <2>2
<1> DEFINE rest == Sum(f, R)
<1>9. /\ Remaining(s, shares, S) = Most(shares - (f[m] + rest), 0)
      /\ Remaining(s, shares, R) = Most(shares - rest, 0) /\ rest \in Nat
  BY <1>4, <1>5, <1>7, <1>8
<1> HIDE DEF rest, R
<1> QED BY <1>6, <1>9 DEF Most, Least, R

\* What the levels of S give and cost are amounts.
LEMMA PaidNat ==
  ASSUME NEW n \in Nat, NEW s, Book(s, n), NEW shares \in Nat,
         NEW S \in SUBSET (1..n)
  PROVE  /\ \A i \in S : Taken(s, shares, S, i) \in Nat /\ Paid(s, shares, S)[i] \in Nat
         /\ Sum(Paid(s, shares, S), S) \in Nat
<1> DEFINE paid == Paid(s, shares, S)
<1>1. ASSUME NEW i \in S
      PROVE  Taken(s, shares, S, i) \in Nat
  <2> DEFINE Upto == {j \in S : j <= i}
             Under == {j \in S : j < i}
             before == Remaining(s, shares, Under)
             after == Remaining(s, shares, Upto)
  <2>1. \A j \in S : j \in 1..n /\ j \in Int
    OBVIOUS
  <2>2. Upto \in SUBSET (1..n) /\ i \in Upto /\ Under = Upto \ {i}
    <3>1. i <= i /\ \A j \in S : j < i <=> j <= i /\ j # i
      BY <2>1
    <3> QED BY <2>1, <3>1
  <2>3. after \in Nat /\ before \in Nat /\ after = before - Least(before, s[i].size)
    <3> HIDE DEF Upto, Under
    <3> QED BY <2>2, RemainingStep
  <2>4. s[i].size \in Nat /\ Taken(s, shares, S, i) = before - after
    BY DEF Book, Level, Taken
  <2> HIDE DEF before, after
  <2> QED BY <2>3, <2>4 DEF Least
<1>2. \A i \in S : paid[i] \in Nat
  <2> SUFFICES ASSUME NEW i \in S PROVE s[i].price * Taken(s, shares, S, i) \in Nat
    BY DEF Paid
  <2>1. s[i].price \in Nat
    BY DEF Book, Level
  <2> QED BY <1>1, <2>1
<1>3. IsFiniteSet(S)
  <2>1. IsFiniteSet(1..n)
    BY FS_Interval
  <2> QED BY <2>1, FS_Subset
<1>4. Sum(paid, S) \in Nat
  <2> HIDE DEF paid
  <2> QED BY <1>2, <1>3, SumNat
<1> QED BY <1>1, <1>2, <1>4

\* One level more is one step of the walk.
LastOf(S, m) == m \in S /\ \A i \in S : m >= i

LEMMA AfterLast ==
  ASSUME NEW n \in Nat, NEW s, Book(s, n), NEW shares \in Nat,
         NEW S \in SUBSET (1..n), NEW m, LastOf(S, m)
  PROVE  AfterLevels(s, shares, S) = Fill(AfterLevels(s, shares, S \ {m}), s[m])
<1>1. m \in S /\ \A i \in S : m >= i
  BY DEF LastOf
<1>2. \A i \in S : i \in 1..n /\ i \in Int
  OBVIOUS
<1>3. \A T \in SUBSET (1..n) : \A k \in T :
        /\ Remaining(s, shares, T) \in Nat /\ Remaining(s, shares, T \ {k}) \in Nat
        /\ Remaining(s, shares, T) =
             Remaining(s, shares, T \ {k}) - Least(Remaining(s, shares, T \ {k}), s[k].size)
  BY RemainingStep
<1> DEFINE R == S \ {m}
           Left(T) == Remaining(s, shares, T)
           Upto(T, i) == {j \in T : j <= i}
           Under(T, i) == {j \in T : j < i}
           take == Least(Left(R), s[m].size)
           paid == Paid(s, shares, S)
           before == Paid(s, shares, R)
<1>4. IsFiniteSet(S)
  <2>1. IsFiniteSet(1..n)
    BY FS_Interval
  <2> QED BY <2>1, FS_Subset
<1>5. IsFiniteSet(R)
  BY <1>4, FS_RemoveElement
<1>6. Left(R) \in Nat /\ Left(S) \in Nat /\ Left(S) = Left(R) - take
  <2>1. S \in SUBSET (1..n) /\ m \in S
    BY <1>1
  <2>2. /\ Remaining(s, shares, S) \in Nat /\ Remaining(s, shares, S \ {m}) \in Nat
        /\ Remaining(s, shares, S) =
             Remaining(s, shares, S \ {m}) - Least(Remaining(s, shares, S \ {m}), s[m].size)
    BY <2>1, RemainingStep
  <2> QED BY <2>2
<1>7. s[m].size \in Nat /\ s[m].price \in Nat
  <2>1. s[m] \in Level
    BY <1>1 DEF Book
  <2> QED BY <2>1 DEF Level
<1>8. take \in Nat /\ Taken(s, shares, S, m) = take
  <2>1. Under(S, m) = R /\ Upto(S, m) = S
    <3>1. \A i \in S : i <= m /\ (i < m <=> i # m)
      BY <1>1, <1>2
    <3> QED BY <3>1
  <2>2. Taken(s, shares, S, m) = Left(R) - Left(S)
    BY <2>1 DEF Taken
  <2> HIDE DEF Left
  <2> QED BY <1>6, <1>7, <2>2 DEF Least
<1>9. ASSUME NEW i \in S
      PROVE  Taken(s, shares, S, i) \in Nat /\ (i # m => Taken(s, shares, S, i) = Taken(s, shares, R, i))
  <2>1. Upto(S, i) \in SUBSET (1..n) /\ i \in Upto(S, i) /\ Under(S, i) = Upto(S, i) \ {i}
    <3>1. i <= i /\ \A j \in S : j < i <=> j <= i /\ j # i
      BY <1>2
    <3> QED BY <1>2, <3>1
  <2>2. /\ Left(Upto(S, i)) \in Nat /\ Left(Under(S, i)) \in Nat
        /\ Left(Upto(S, i)) = Left(Under(S, i)) - Least(Left(Under(S, i)), s[i].size)
    BY <1>3, <2>1
  <2>3. s[i].size \in Nat
    BY DEF Book, Level
  <2>4. Taken(s, shares, S, i) = Left(Under(S, i)) - Left(Upto(S, i))
    BY DEF Taken
  <2>5. i # m => Upto(S, i) = Upto(R, i) /\ Under(S, i) = Under(R, i)
    BY <1>1
  <2>6. Taken(s, shares, R, i) = Left(Under(R, i)) - Left(Upto(R, i))
    BY DEF Taken
  <2> HIDE DEF Left, Upto, Under
  <2> QED BY <2>2, <2>3, <2>4, <2>5, <2>6 DEF Least
<1>10. \A i \in S : paid[i] \in Nat /\ paid[i] = s[i].price * Taken(s, shares, S, i)
  <2> SUFFICES ASSUME NEW i \in S PROVE s[i].price * Taken(s, shares, S, i) \in Nat
    BY DEF Paid
  <2>1. s[i].price \in Nat
    BY DEF Book, Level
  <2> QED BY <1>9, <2>1
<1>11. \A i \in R : paid[i] \in Nat /\ before[i] = paid[i]
  BY <1>9, <1>10 DEF Paid
<1>12. paid[m] = take * s[m].price
  BY <1>1, <1>7, <1>8, <1>10
<1> HIDE DEF paid, before, take, Left
<1>13. Sum(paid, S) = paid[m] + Sum(paid, R)
  BY <1>1, <1>4, <1>10, SumStep
<1>14. Sum(before, R) = Sum(paid, R) /\ Sum(paid, R) \in Nat
  <2>1. Sum(before, R) = Sum(paid, R)
    BY <1>5, <1>11, SumEqual
  <2>2. Sum(paid, R) \in Nat
    BY <1>5, <1>11, SumNat
  <2> QED BY <2>1, <2>2
<1>15. AfterLevels(s, shares, S) = [left |-> Left(S), cost |-> Sum(paid, S)]
  BY DEF AfterLevels, Left, paid
<1>16. AfterLevels(s, shares, R) = [left |-> Left(R), cost |-> Sum(before, R)]
  BY DEF AfterLevels, Left, before
<1>17. Fill(AfterLevels(s, shares, R), s[m]) =
         [left |-> Left(R) - take, cost |-> Sum(before, R) + take * s[m].price]
  <2> DEFINE acc == AfterLevels(s, shares, R)
  <2>1. acc.left = Left(R) /\ acc.cost = Sum(before, R)
    BY <1>16
  <2> HIDE DEF acc
  <2>2. Fill(acc, s[m]) = [left |-> acc.left - Least(acc.left, s[m].size),
                          cost |-> acc.cost + Least(acc.left, s[m].size) * s[m].price]
    BY DEF Fill
  <2>3. take = Least(acc.left, s[m].size)
    BY <2>1 DEF take
  <2>4. Fill(acc, s[m]) = [left |-> Left(R) - take, cost |-> Sum(before, R) + take * s[m].price]
    BY <2>1, <2>2, <2>3
  <2> QED BY <2>4 DEF acc
<1>18. Sum(paid, S) = Sum(before, R) + take * s[m].price
  <2>1. paid[m] \in Nat
    BY <1>1, <1>10
  <2> QED BY <1>12, <1>13, <1>14, <2>1
<1>19. AfterLevels(s, shares, S) = Fill(AfterLevels(s, shares, R), s[m])
  BY <1>6, <1>15, <1>17, <1>18
<1> QED BY <1>19

\* The walk ends as the closed form says.
LEMMA WalkIs ==
  ASSUME NEW n \in Nat, NEW s, Book(s, n), NEW shares \in Nat
  PROVE  FoldLeft(Fill, [left |-> shares, cost |-> 0], s) = AfterLevels(s, shares, 1..n)
<1> DEFINE D == 1..n
           start == [left |-> shares, cost |-> 0]
           after == [S \in SUBSET D |-> AfterLevels(s, shares, S)]
<1>1. after[{}] = start
  <2>1. Sum([i \in {} |-> s[i].size], {}) = 0 /\ Sum(Paid(s, shares, {}), {}) = 0
    BY SumEmpty
  <2>2. Remaining(s, shares, {}) = shares
    BY <2>1 DEF Remaining, Most
  <2> QED BY <2>1, <2>2 DEF AfterLevels
<1>2. \A S \in SUBSET D : S # {} =>
        Max(S) \in S /\ after[S] = Fill(after[S \ {Max(S)}], s[Max(S)])
  <2> SUFFICES ASSUME NEW S \in SUBSET D, S # {}
               PROVE  Max(S) \in S /\ after[S] = Fill(after[S \ {Max(S)}], s[Max(S)])
    OBVIOUS
  <2>1. Max(S) \in S /\ \A i \in S : Max(S) >= i
    BY MaxIndex
  <2>2. AfterLevels(s, shares, S) = Fill(AfterLevels(s, shares, S \ {Max(S)}), s[Max(S)])
    <3> DEFINE m == Max(S)
    <3>1. LastOf(S, m)
      BY <2>1 DEF LastOf
    <3> HIDE DEF m
    <3>2. AfterLevels(s, shares, S) = Fill(AfterLevels(s, shares, S \ {m}), s[m])
      BY <3>1, AfterLast
    <3> QED BY <3>2 DEF m
  <2> QED BY <2>1, <2>2
<1> HIDE DEF start
<1>3. Filled(start, s, after)
  <2>1. \A S \in SUBSET D : after[S] = IF S = {} THEN start ELSE Fill(after[S \ {Max(S)}], s[Max(S)])
    BY <1>1, <1>2
  <2>2. after = [S \in SUBSET D |-> after[S]]
    OBVIOUS
  <2> HIDE DEF after
  <2>3. after = [S \in SUBSET D |-> IF S = {} THEN start ELSE Fill(after[S \ {Max(S)}], s[Max(S)])]
    BY <2>1, <2>2
  <2> QED BY <2>3 DEF Filled, Book
<1> DEFINE g == CHOOSE h : Filled(start, s, h)
<1>4. Filled(start, s, g)
  BY <1>3
<1> HIDE DEF g, after
<1>5. \A S \in SUBSET D : g[S] = IF S = {} THEN start ELSE Fill(g[S \ {Max(S)}], s[Max(S)])
  BY <1>4 DEF Filled, Book
<1>6. \A S \in SUBSET D : g[S] = after[S]
  <2> DEFINE Bad == {S \in SUBSET D : g[S] # after[S]}
  <2> SUFFICES ASSUME Bad # {} PROVE FALSE
    OBVIOUS
  <2>1. PICK S \in Bad : \A U \in Bad : U \subseteq S => U = S
    <3>1. Bad \in SUBSET SUBSET D /\ IsFiniteSet(D)
      BY FS_Interval
    <3> HIDE DEF Bad, D
    <3> QED BY <3>1, LeastSubset
  <2>2. S \in SUBSET D /\ g[S] # after[S]
    OBVIOUS
  <2>3. S # {}
    BY <1>1, <1>5, <2>2
  <2>4. Max(S) \in S /\ S \ {Max(S)} \in SUBSET D
    BY <1>2, <2>2, <2>3
  <2>5. g[S \ {Max(S)}] = after[S \ {Max(S)}]
    BY <2>1, <2>4
  <2> QED BY <1>2, <1>5, <2>2, <2>3, <2>5
<1>7. FoldLeft(Fill, start, s) = g[D]
  BY WalkDef DEF g, Book
<1> QED BY <1>6, <1>7 DEF after, start

\* What the levels of S that are cheaper than p leave of p.
SpareOf(s, p, S) == Sum([i \in S |-> Most(p - s[i].price, 0) * s[i].size], S)

\* A level and what is taken of it, held against a price: never cheaper than
\* that price less what the level leaves of it.
LEMMA LevelAgainstPrice ==
  ASSUME NEW price \in Nat, NEW size \in Nat, NEW take \in Nat, take <= size, NEW p \in Nat
  PROVE  /\ Most(p - price, 0) * size \in Nat /\ take * price \in Nat /\ p * take \in Nat
         /\ take * price + Most(p - price, 0) * size >= p * take
<1>1. take * price \in Nat /\ p * take \in Nat
  OBVIOUS
<1>2. CASE p <= price
  <2>1. Most(p - price, 0) * size = 0
    <3>1. Most(p - price, 0) = 0
      BY <1>2 DEF Most
    <3> QED BY <3>1
  <2>2. p * take <= price * take
    BY <1>2, ProductMonotone
  <2>3. price * take = take * price
    OBVIOUS
  <2> QED BY <1>1, <2>1, <2>2, <2>3
<1>3. CASE price < p
  <2> DEFINE d == p - price
  <2>1. d \in Nat /\ Most(p - price, 0) = d
    BY <1>3 DEF Most
  <2>2. p * take = take * price + d * take
    OBVIOUS
  <2> HIDE DEF d
  <2>3. d * size \in Nat /\ d * take \in Nat /\ d * take <= d * size
    <3>1. take * d <= size * d
      BY <2>1, ProductMonotone
    <3>2. take * d = d * take /\ size * d = d * size
      BY <2>1
    <3> QED BY <2>1, <3>1, <3>2
  <2>4. Most(p - price, 0) * size = d * size
    BY <2>1
  <2> QED BY <1>1, <2>2, <2>3, <2>4
<1> QED BY <1>2, <1>3

\* Just that where all of a cheaper level is taken, or nothing of a dearer one.
Fits(price, size, take, p) == (take = size /\ price <= p) \/ (take = 0 /\ p <= price) \/ price = p

LEMMA LevelAtPrice ==
  ASSUME NEW price \in Nat, NEW size \in Nat, NEW take \in Nat, NEW p \in Nat,
         Fits(price, size, take, p)
  PROVE  take * price + Most(p - price, 0) * size = p * take
<1>1. CASE p <= price
  <2>1. Most(p - price, 0) * size = 0
    <3>1. Most(p - price, 0) = 0
      BY <1>1 DEF Most
    <3> QED BY <3>1
  <2>2. p = price \/ take = 0
    BY <1>1 DEF Fits
  <2>3. take * price = p * take
    BY <2>2
  <2>4. take * price \in Nat
    OBVIOUS
  <2> QED BY <2>1, <2>3, <2>4
<1>2. CASE price < p
  <2>1. take = size /\ Most(p - price, 0) = p - price
    BY <1>2 DEF Most, Fits
  <2>2. take * price + (p - price) * take = p * take
    OBVIOUS
  <2> QED BY <2>1, <2>2
<1> QED BY <1>1, <1>2

\* The sorted levels of a book, and how the walk goes through them.
LeftAfter(s, shares, k) == Remaining(s, shares, 1..k)
CostAfter(s, shares, k) == Sum(Paid(s, shares, 1..k), 1..k)

\* The walk, one level of the sorted book after the other.
LEMMA AfterLevel ==
  ASSUME NEW n \in Nat, NEW s, Book(s, n), NEW shares \in Nat, NEW k \in 1..n
  PROVE  AfterLevels(s, shares, 1..k) = Fill(AfterLevels(s, shares, 1..k - 1), s[k])
<1> DEFINE S == 1..k
           R == 1..k - 1
           m == k
<1>1. S \in SUBSET (1..n) /\ S \ {m} = R /\ LastOf(S, m)
  BY DEF LastOf
<1> HIDE DEF S, R, m
<1>2. AfterLevels(s, shares, S) = Fill(AfterLevels(s, shares, S \ {m}), s[m])
  BY <1>1, AfterLast
<1>3. AfterLevels(s, shares, S) = Fill(AfterLevels(s, shares, R), s[m])
  BY <1>1, <1>2
<1> QED BY <1>3 DEF S, R, m

LEMMA NextLevel ==
  ASSUME NEW n \in Nat, NEW s, Book(s, n), NEW shares \in Nat, NEW k \in 1..n, NEW p \in Nat
  PROVE  LET take == Least(LeftAfter(s, shares, k - 1), s[k].size)
         IN /\ LeftAfter(s, shares, k) = LeftAfter(s, shares, k - 1) - take
            /\ CostAfter(s, shares, k) = CostAfter(s, shares, k - 1) + take * s[k].price
            /\ SpareOf(s, p, 1..k) = SpareOf(s, p, 1..k - 1) + Most(p - s[k].price, 0) * s[k].size
<1> DEFINE S == 1..k
           R == 1..k - 1
           f == [i \in S |-> Most(p - s[i].price, 0) * s[i].size]
           g == [i \in R |-> Most(p - s[i].price, 0) * s[i].size]
<1>1. S \in SUBSET (1..n) /\ S # {} /\ S \ {k} = R /\ k \in S /\ \A i \in S : i <= k
  OBVIOUS
<1>2. \A i \in S : s[i].price \in Nat /\ s[i].size \in Nat
  BY <1>1 DEF Book, Level
<1>3. \A i \in S : f[i] \in Nat
  <2> SUFFICES ASSUME NEW i \in S PROVE Most(p - s[i].price, 0) * s[i].size \in Nat
    OBVIOUS
  <2>1. Most(p - s[i].price, 0) \in Nat
    BY <1>2 DEF Most
  <2> QED BY <1>2, <2>1
<1>4. \A i \in R : f[i] \in Nat /\ g[i] = f[i]
  BY <1>3
<1>5. f[k] = Most(p - s[k].price, 0) * s[k].size
  OBVIOUS
<1>6. SpareOf(s, p, S) = Sum(f, S) /\ SpareOf(s, p, R) = Sum(g, R)
  BY DEF SpareOf
<1>7. IsFiniteSet(S) /\ IsFiniteSet(R)
  <2>1. IsFiniteSet(S)
    BY FS_Interval
  <2> HIDE DEF S
  <2> QED BY <1>1, <2>1, FS_RemoveElement
<1>9. AfterLevels(s, shares, S) = Fill(AfterLevels(s, shares, R), s[k])
  BY AfterLevel
<1>10. SpareOf(s, p, S) = SpareOf(s, p, R) + Most(p - s[k].price, 0) * s[k].size
  <2> HIDE DEF S, R, f, g
  <2>1. Sum(f, S) = f[k] + Sum(f, R)
    BY <1>1, <1>3, <1>7, SumStep
  <2>2. Sum(g, R) = Sum(f, R) /\ Sum(f, R) \in Nat
    <3>1. Sum(g, R) = Sum(f, R)
      BY <1>4, <1>7, SumEqual
    <3>2. Sum(f, R) \in Nat
      BY <1>4, <1>7, SumNat
    <3> QED BY <3>1, <3>2
  <2>3. f[k] \in Nat
    BY <1>1, <1>3
  <2> QED BY <1>5, <1>6, <2>1, <2>2, <2>3
<1>11. \A T : /\ AfterLevels(s, shares, T).left = Remaining(s, shares, T)
              /\ AfterLevels(s, shares, T).cost = Sum(Paid(s, shares, T), T)
  BY DEF AfterLevels
<1>12. /\ LeftAfter(s, shares, k) = LeftAfter(s, shares, k - 1) - Least(LeftAfter(s, shares, k - 1), s[k].size)
       /\ CostAfter(s, shares, k) =
            CostAfter(s, shares, k - 1) + Least(LeftAfter(s, shares, k - 1), s[k].size) * s[k].price
  BY <1>9, <1>11 DEF LeftAfter, CostAfter, Fill
<1> QED BY <1>10, <1>12

\* What is left, paid and spared are amounts, and at the start nothing is done.
LEMMA BookTypes ==
  ASSUME NEW n \in Nat, NEW s, Book(s, n), NEW shares \in Nat, NEW p \in Nat, NEW k \in 0..n
  PROVE  /\ LeftAfter(s, shares, k) \in Nat /\ CostAfter(s, shares, k) \in Nat
         /\ SpareOf(s, p, 1..k) \in Nat
         /\ k = 0 => /\ LeftAfter(s, shares, k) = shares /\ CostAfter(s, shares, k) = 0
                     /\ SpareOf(s, p, 1..k) = 0
<1> DEFINE S == 1..k
           f == [i \in S |-> Most(p - s[i].price, 0) * s[i].size]
           g == [i \in S |-> s[i].size]
<1>1. S \in SUBSET (1..n)
  OBVIOUS
<1>2. IsFiniteSet(S)
  BY FS_Interval
<1>3. \A i \in S : s[i].price \in Nat /\ s[i].size \in Nat
  BY <1>1 DEF Book, Level
<1>4. \A i \in S : f[i] \in Nat
  <2> SUFFICES ASSUME NEW i \in S PROVE Most(p - s[i].price, 0) * s[i].size \in Nat
    OBVIOUS
  <2>1. Most(p - s[i].price, 0) \in Nat
    BY <1>3 DEF Most
  <2> QED BY <1>3, <2>1
<1>5. \A i \in S : g[i] \in Nat
  BY <1>3
<1>6. SpareOf(s, p, S) = Sum(f, S) /\ LeftAfter(s, shares, k) = Most(shares - Sum(g, S), 0)
  BY DEF SpareOf, LeftAfter, Remaining
<1>7. Sum(Paid(s, shares, S), S) \in Nat
  <2> HIDE DEF S
  <2> QED BY <1>1, PaidNat
<1>8. CostAfter(s, shares, k) = Sum(Paid(s, shares, S), S)
  BY DEF CostAfter
<1>9. k = 0 => S = {}
  OBVIOUS
<1> HIDE DEF f, g, S
<1>10. Sum(f, S) \in Nat /\ Sum(g, S) \in Nat
  <2>1. Sum(f, S) \in Nat
    BY <1>2, <1>4, SumNat
  <2>2. Sum(g, S) \in Nat
    BY <1>2, <1>5, SumNat
  <2> QED BY <2>1, <2>2
<1>11. S = {} => Sum(f, S) = 0 /\ Sum(g, S) = 0 /\ Sum(Paid(s, shares, S), S) = 0
  BY SumEmpty
<1> QED BY <1>6, <1>7, <1>8, <1>9, <1>10, <1>11 DEF Most, S

\* Held against any price, the walk so far paid no less than that price for
\* what it has, less what the cheaper levels leave over.
LEMMA CostAgainstPrice ==
  ASSUME NEW n \in Nat, NEW s, Book(s, n), NEW shares \in Nat, NEW p \in Nat
  PROVE  CostAfter(s, shares, n) + SpareOf(s, p, 1..n) >= p * (shares - LeftAfter(s, shares, n))
<1> DEFINE Holds(k) == CostAfter(s, shares, k) + SpareOf(s, p, 1..k) >= p * (shares - LeftAfter(s, shares, k))
           Bad == {k \in 1..n : ~Holds(k)}
<1>1. Holds(0)
  BY BookTypes
<1>2. ASSUME NEW k \in 1..n, Holds(k - 1) PROVE Holds(k)
  <2> DEFINE left == LeftAfter(s, shares, k - 1)
             cost == CostAfter(s, shares, k - 1)
             spare == SpareOf(s, p, 1..k - 1)
             take == Least(left, s[k].size)
             more == Most(p - s[k].price, 0) * s[k].size
  <2>1. k - 1 \in 0..n
    OBVIOUS
  <2>2. left \in Nat /\ cost \in Nat /\ spare \in Nat
    BY <2>1, BookTypes
  <2>3. s[k].price \in Nat /\ s[k].size \in Nat
    BY DEF Book, Level
  <2>4. /\ LeftAfter(s, shares, k) = left - take
        /\ CostAfter(s, shares, k) = cost + take * s[k].price
        /\ SpareOf(s, p, 1..k) = spare + more
    BY NextLevel
  <2>5. cost + spare >= p * (shares - left)
    BY <1>2
  <2> HIDE DEF left, cost, spare
  <2>6. take \in Nat /\ take <= s[k].size
    BY <2>2, <2>3 DEF Least
  <2> HIDE DEF take
  <2>7. more \in Nat /\ take * s[k].price \in Nat /\ take * s[k].price + more >= p * take
    BY <2>3, <2>6, LevelAgainstPrice
  <2> HIDE DEF more
  <2>8. p * (shares - (left - take)) = p * (shares - left) + p * take
    BY <2>2, <2>6
  <2>9. p * (shares - left) \in Int /\ p * take \in Int
    BY <2>2, <2>6
  <2> QED BY <2>2, <2>4, <2>5, <2>7, <2>8, <2>9
<1> HIDE DEF Holds
<1>3. ASSUME Bad # {} PROVE FALSE
  <2>1. PICK k \in Bad : \A i \in Bad : k <= i
    <3>1. Bad \in SUBSET (1..n)
      OBVIOUS
    <3> HIDE DEF Bad
    <3> QED BY <1>3, <3>1, LeastIndex
  <2>2. Holds(k - 1)
    BY <1>1, <2>1
  <2> QED BY <1>2, <2>2
<1> QED BY <1>1, <1>3 DEF Holds

\* Held against the price of the level that fills it, the walk paid just that.
Ascends(s, n) == \A i, j \in 1..n : i < j => s[i].price <= s[j].price
FilledAt(s, shares, m) ==
  LeftAfter(s, shares, m) = 0 /\ \A k \in 1..m - 1 : LeftAfter(s, shares, k) # 0

LEMMA CostAtPrice ==
  ASSUME NEW n \in Nat, NEW s, Book(s, n), NEW shares \in Nat, NEW m \in 1..n,
         Ascends(s, n), FilledAt(s, shares, m)
  PROVE  CostAfter(s, shares, n) + SpareOf(s, s[m].price, 1..n) =
           s[m].price * (shares - LeftAfter(s, shares, n))
<1> DEFINE p == s[m].price
<1>1. p \in Nat /\ \A i \in 1..n : (i < m => s[i].price <= p) /\ (i > m => p <= s[i].price)
  BY DEF Ascends, Book, Level
<1>2. \A i \in 1..n : i = m => s[i].price = p
  OBVIOUS
<1> HIDE DEF p
<1> DEFINE Holds(k) ==
             /\ CostAfter(s, shares, k) + SpareOf(s, p, 1..k) = p * (shares - LeftAfter(s, shares, k))
             /\ k >= m => LeftAfter(s, shares, k) = 0
           Bad == {k \in 1..n : ~Holds(k)}
<1>3. Holds(0)
  BY <1>1, BookTypes
<1>4. ASSUME NEW k \in 1..n, Holds(k - 1) PROVE Holds(k)
  <2> DEFINE left == LeftAfter(s, shares, k - 1)
             cost == CostAfter(s, shares, k - 1)
             spare == SpareOf(s, p, 1..k - 1)
             size == s[k].size
             take == Least(left, size)
             more == Most(p - s[k].price, 0) * size
  <2>1. k - 1 \in 0..n
    OBVIOUS
  <2>2. left \in Nat /\ cost \in Nat /\ spare \in Nat
    BY <1>1, <2>1, BookTypes
  <2>3. s[k].price \in Nat /\ size \in Nat
    BY DEF Book, Level
  <2>4. /\ LeftAfter(s, shares, k) = left - take
        /\ CostAfter(s, shares, k) = cost + take * s[k].price
        /\ SpareOf(s, p, 1..k) = spare + more
    BY <1>1, NextLevel
  <2>5. cost + spare = p * (shares - left) /\ (k > m => left = 0)
    BY <1>4
  <2>6. k < m => left - take # 0
    BY <2>4 DEF FilledAt
  <2> HIDE DEF left, cost, spare, size
  <2>7. take \in Nat /\ take <= size
    BY <2>2, <2>3 DEF Least
  <2>8. (k < m => take = size) /\ (k > m => take = 0)
    BY <2>2, <2>3, <2>5, <2>6 DEF Least
  <2>9. k >= m => left - take = 0
    <3>1. CASE k = m
      BY <2>4, <3>1 DEF FilledAt
    <3>2. CASE k > m
      BY <2>5, <2>8, <3>2
    <3> QED BY <3>1, <3>2
  <2>10. Fits(s[k].price, size, take, p)
    BY <1>1, <1>2, <2>8 DEF Fits
  <2> HIDE DEF take
  <2>11. more \in Nat /\ take * s[k].price \in Nat /\ take * s[k].price + more = p * take
    <3> DEFINE price == s[k].price
    <3>1. price \in Nat
      BY <2>3
    <3>2. Fits(price, size, take, p)
      BY <2>10
    <3> HIDE DEF price
    <3>3. Most(p - price, 0) * size \in Nat /\ take * price \in Nat
      <4>1. Most(p - price, 0) \in Nat
        BY <1>1, <3>1 DEF Most
      <4> QED BY <2>3, <2>7, <3>1, <4>1
    <3>4. take * price + Most(p - price, 0) * size = p * take
      BY <1>1, <2>3, <2>7, <3>1, <3>2, LevelAtPrice
    <3>5. more = Most(p - price, 0) * size /\ s[k].price = price
      BY DEF price
    <3> HIDE DEF more
    <3> QED BY <3>3, <3>4, <3>5
  <2> HIDE DEF more
  <2>12. p * (shares - (left - take)) = p * (shares - left) + p * take
    BY <1>1, <2>2, <2>7
  <2>13. p * (shares - left) \in Int /\ p * take \in Int
    BY <1>1, <2>2, <2>7
  <2>14. CostAfter(s, shares, k) + SpareOf(s, p, 1..k) = p * (shares - LeftAfter(s, shares, k))
    BY <2>2, <2>4, <2>5, <2>11, <2>12, <2>13
  <2> QED BY <2>4, <2>9, <2>14
<1> HIDE DEF Holds
<1>5. ASSUME Bad # {} PROVE FALSE
  <2>1. PICK k \in Bad : \A i \in Bad : k <= i
    <3>1. Bad \in SUBSET (1..n)
      OBVIOUS
    <3> HIDE DEF Bad
    <3> QED BY <1>5, <3>1, LeastIndex
  <2>2. Holds(k - 1)
    BY <1>3, <2>1
  <2> QED BY <1>4, <2>2
<1> QED BY <1>3, <1>5 DEF Holds, p

-----------------------------------------------------------------------------
(* What an estimate says.                                                  *)

\* The levels of a book by place, for what Depth and Spare add up.
LEMMA BookIsSorted ==
  ASSUME NEW asks \in Seq(Level)
  PROVE  LET s == Sorted(asks)
             n == Len(asks)
         IN /\ Book(s, n)
            /\ Ascends(s, n)
            /\ {s[i].price : i \in 1..n} = {asks[i].price : i \in DOMAIN asks}
            /\ Sum([i \in 1..n |-> s[i].size], 1..n) = Depth(asks)
            /\ \A p \in Nat : SpareOf(s, p, 1..n) = Spare(asks, p)
<1> DEFINE s == Sorted(asks)
           n == Len(asks)
           D == 1..n
<1>1. n \in Nat /\ DOMAIN asks = D /\ \A i \in D : asks[i] \in Level
  OBVIOUS
<1>2. PICK perm \in Bijection(D, D) :
        /\ s = [i \in D |-> asks[perm[i]]]
        /\ Ascends(s, n)
  <2>1. DOMAIN asks = D
    BY <1>1
  <2> QED BY <2>1, SortedLevels DEF Ascends
<1>3. /\ \A i \in D : perm[i] \in D
      /\ \A x \in D : \E i \in D : perm[i] = x
  BY DEF Bijection, Injection, Surjection
<1>4. \A i \in D : s[i] = asks[perm[i]]
  BY <1>2
<1>5. Book(s, n)
  BY <1>1, <1>2, <1>3 DEF Book
<1>6. {s[i].price : i \in D} = {asks[i].price : i \in DOMAIN asks}
  <2>1. \A i \in D : s[i].price = asks[perm[i]].price
    BY <1>4
  <2>2. \A i \in D : \E j \in D : s[i].price = asks[j].price
    BY <1>3, <2>1
  <2>3. \A j \in D : \E i \in D : s[i].price = asks[j].price
    BY <1>3, <2>1
  <2> DEFINE sent == {asks[i].price : i \in D}
             sorted == {s[i].price : i \in D}
  <2> HIDE DEF s, D
  <2>4. sorted \subseteq sent
    <3> SUFFICES ASSUME NEW i \in D PROVE s[i].price \in sent
      OBVIOUS
    <3>1. PICK j \in D : s[i].price = asks[j].price
      BY <2>2
    <3> QED BY <3>1
  <2>5. sent \subseteq sorted
    BY <2>3
  <2> QED BY <1>1, <2>4, <2>5
<1>7. ASSUME NEW f, NEW g, DOMAIN f = D, \A i \in D : f[i] \in Nat /\ g[i] = f[perm[i]]
      PROVE  Sum(g, D) = Total(f)
  <2>1. Sum(g, D) = Sum(f, D)
    BY <1>1, <1>7, SumPermuted
  <2>2. Total(f) = Sum(f, DOMAIN f)
    BY DEF Total, Sum
  <2> QED BY <1>7, <2>1, <2>2
<1>8. Sum([i \in D |-> s[i].size], D) = Depth(asks)
  <2> DEFINE f == [i \in DOMAIN asks |-> asks[i].size]
             g == [i \in D |-> s[i].size]
  <2>1. DOMAIN f = D /\ \A i \in D : f[i] \in Nat
    BY <1>1 DEF Level
  <2>2. \A i \in D : g[i] = f[perm[i]]
    BY <1>1, <1>3, <1>4
  <2> HIDE DEF f, g
  <2>3. Sum(g, D) = Total(f)
    BY <1>7, <2>1, <2>2
  <2> QED BY <2>3 DEF f, g, Depth
<1>9. ASSUME NEW p \in Nat PROVE SpareOf(s, p, D) = Spare(asks, p)
  <2> DEFINE f == [i \in DOMAIN asks |-> Most(p - asks[i].price, 0) * asks[i].size]
             g == [i \in D |-> Most(p - s[i].price, 0) * s[i].size]
  <2>1. DOMAIN f = D /\ \A i \in D : f[i] \in Nat
    <3>1. DOMAIN f = D
      BY <1>1
    <3> SUFFICES ASSUME NEW i \in D PROVE Most(p - asks[i].price, 0) * asks[i].size \in Nat
      BY <1>1, <3>1
    <3>2. asks[i].price \in Nat /\ asks[i].size \in Nat
      BY <1>1 DEF Level
    <3>3. Most(p - asks[i].price, 0) \in Nat
      BY <3>2 DEF Most
    <3> QED BY <3>2, <3>3
  <2>2. \A i \in D : g[i] = f[perm[i]]
    BY <1>1, <1>3, <1>4
  <2> HIDE DEF f, g
  <2>3. Sum(g, D) = Total(f)
    BY <1>7, <2>1, <2>2
  <2> QED BY <2>3 DEF f, g, SpareOf, Spare
<1>10. Ascends(s, n)
  BY <1>2 DEF Ascends
<1> QED BY <1>5, <1>6, <1>8, <1>9, <1>10

\* The estimate of a book: too thin for the shares, or what they cost at least.
LEMMA EstimateOfBook ==
  ASSUME NEW l, l.asks \in Seq(Level), l.asks # <<>>, NEW token, NEW shares \in Nat
  PROVE  LET e == estimateBuy(token, l, shares)
         IN /\ e.thin = (Depth(l.asks) < shares)
            /\ ~e.thin => e.cost = LeastCost(l.asks, shares)
<1> DEFINE asks == l.asks
           s == Sorted(asks)
           n == Len(asks)
           D == 1..n
           e == estimateBuy(token, l, shares)
           left == LeftAfter(s, shares, n)
           cost == CostAfter(s, shares, n)
           sizes == Sum([i \in D |-> s[i].size], D)
           prices == {asks[i].price : i \in DOMAIN asks}
<1>1. n \in Nat \ {0} /\ asks \in Seq(Level)
  OBVIOUS
<1>2. /\ Book(s, n)
      /\ Ascends(s, n)
      /\ {s[i].price : i \in D} = prices
      /\ sizes = Depth(asks)
      /\ \A p \in Nat : SpareOf(s, p, D) = Spare(asks, p)
  BY BookIsSorted
<1>3. \A p \in prices : p \in Nat
  <2> SUFFICES ASSUME NEW i \in DOMAIN asks PROVE asks[i].price \in Nat
    OBVIOUS
  <2>1. asks[i] \in Level
    OBVIOUS
  <2> QED BY <2>1 DEF Level
<1> HIDE DEF s
<1>4. FoldLeft(Fill, [left |-> shares, cost |-> 0], s) = [left |-> left, cost |-> cost]
  <2>1. FoldLeft(Fill, [left |-> shares, cost |-> 0], s) = AfterLevels(s, shares, D)
    <3> HIDE DEF n
    <3> QED BY <1>1, <1>2, WalkIs
  <2> QED BY <2>1 DEF AfterLevels, LeftAfter, CostAfter
<1>5. s # <<>>
  BY <1>1, <1>2 DEF Book
<1>6. /\ e.thin = (left > 0)
      /\ ~(left > 0) => e.cost = cost
  <2> DEFINE walk == FoldLeft(Fill, [left |-> shares, cost |-> 0], s)
  <2>1. walk.left = left /\ walk.cost = cost
    BY <1>4
  <2> HIDE DEF walk, left, cost
  <2>2. e.thin = (walk.left > 0) /\ (~(walk.left > 0) => e.cost = walk.cost)
    BY <1>5 DEF estimateBuy, s, walk
  <2> QED BY <2>1, <2>2
<1>7. left \in Nat /\ cost \in Nat /\ left = Most(shares - sizes, 0)
  <2>1. left \in Nat /\ cost \in Nat
    <3>1. n \in 0..n
      BY <1>1
    <3> HIDE DEF n
    <3> QED BY <1>1, <1>2, <3>1, BookTypes
  <2> QED BY <2>1 DEF LeftAfter, Remaining
<1>8. sizes \in Nat
  <2> DEFINE f == [i \in D |-> s[i].size]
  <2>1. \A i \in D : f[i] \in Nat
    BY <1>2 DEF Book, Level
  <2>2. IsFiniteSet(D)
    BY <1>1, FS_Interval
  <2> HIDE DEF D, f
  <2>3. Sum(f, D) \in Nat
    BY <2>1, <2>2, SumNat
  <2> QED BY <2>3 DEF f, D
<1>9. e.thin = (Depth(asks) < shares)
  <2>1. left > 0 <=> sizes < shares
    <3> HIDE DEF left, sizes
    <3> QED BY <1>7, <1>8 DEF Most
  <2> QED BY <1>2, <1>6, <2>1
<1>10. ASSUME ~(left > 0) PROVE cost = LeastCost(asks, shares)
  <2> DEFINE Bound(p) == p * shares - Spare(asks, p)
             Ends == {k \in D : LeftAfter(s, shares, k) = 0}
  <2>1. left = 0
    <3> HIDE DEF left
    <3> QED BY <1>7, <1>10
  <2>2. n \in Ends /\ Ends \in SUBSET (1..n)
    BY <1>1, <2>1
  <2>3. PICK m \in Ends : \A k \in Ends : m <= k
    <3> HIDE DEF Ends, n
    <3> QED BY <1>1, <2>2, LeastIndex
  <2>4. m \in D /\ LeftAfter(s, shares, m) = 0 /\ \A k \in 1..m - 1 : LeftAfter(s, shares, k) # 0
    <3>1. m \in D /\ LeftAfter(s, shares, m) = 0
      OBVIOUS
    <3>2. \A k \in 1..m - 1 : k \in D /\ ~(m <= k)
      BY <1>1, <3>1
    <3> QED BY <2>3, <3>1, <3>2
  <2> DEFINE p == s[m].price
  <2>5. p \in prices /\ p \in Nat
    BY <1>2, <1>3, <2>4
  <2>6. \A q \in Nat : SpareOf(s, q, D) \in Nat /\ SpareOf(s, q, D) = Spare(asks, q)
    <3> SUFFICES ASSUME NEW q \in Nat PROVE SpareOf(s, q, D) \in Nat
      BY <1>2
    <3>1. n \in 0..n
      BY <1>1
    <3> HIDE DEF n
    <3> QED BY <1>1, <1>2, <3>1, BookTypes
  <2>7. cost = Bound(p)
    <3>1. cost + SpareOf(s, p, D) = p * (shares - left)
      <4>1. FilledAt(s, shares, m)
        BY <2>4 DEF FilledAt
      <4> HIDE DEF n
      <4> QED BY <1>1, <1>2, <2>4, <4>1, CostAtPrice
    <3>2. shares - left = shares
      BY <2>1
    <3>3. p * shares \in Nat
      BY <2>5
    <3>4. SpareOf(s, p, D) \in Nat /\ SpareOf(s, p, D) = Spare(asks, p)
      BY <2>5, <2>6
    <3>5. cost + Spare(asks, p) = p * shares
      BY <3>1, <3>2, <3>4
    <3> DEFINE over == Spare(asks, p)
               all == p * shares
    <3>6. over \in Nat /\ all \in Nat /\ cost + over = all /\ Bound(p) = all - over
      BY <3>3, <3>4, <3>5
    <3> HIDE DEF over, all, cost, Bound
    <3> QED BY <1>7, <3>6
  <2>8. ASSUME NEW q \in prices PROVE cost >= Bound(q)
    <3>1. q \in Nat
      BY <1>3
    <3>2. cost + SpareOf(s, q, D) >= q * (shares - left)
      <4> HIDE DEF n, prices
      <4> QED BY <1>1, <1>2, <3>1, CostAgainstPrice
    <3>3. shares - left = shares
      BY <2>1
    <3>4. q * shares \in Nat
      BY <3>1
    <3>5. SpareOf(s, q, D) \in Nat /\ SpareOf(s, q, D) = Spare(asks, q)
      BY <2>6, <3>1
    <3>6. cost + Spare(asks, q) >= q * shares
      BY <3>2, <3>3, <3>5
    <3> DEFINE over == Spare(asks, q)
               all == q * shares
    <3>7. over \in Nat /\ all \in Nat /\ cost + over >= all /\ Bound(q) = all - over
      BY <3>4, <3>5, <3>6
    <3> HIDE DEF over, all, cost, Bound
    <3> QED BY <1>7, <3>7
  <2> DEFINE all == {Bound(q) : q \in prices}
  <2>9. LeastCost(asks, shares) = Max(all)
    BY DEF LeastCost
  <2>10. cost \in all /\ \A x \in all : cost >= x
    BY <2>5, <2>7, <2>8
  <2>11. \A x \in all : x \in Int
    <3> SUFFICES ASSUME NEW q \in prices PROVE Bound(q) \in Int
      OBVIOUS
    <3>1. q \in Nat /\ Spare(asks, q) \in Nat
      BY <1>3, <2>6
    <3>2. q * shares \in Nat
      BY <3>1
    <3> QED BY <3>1, <3>2
  <2> HIDE DEF all, cost
  <2>12. Max(all) \in all /\ \A x \in all : Max(all) >= x
    BY <2>10 DEF Max
  <2> QED BY <2>9, <2>10, <2>11, <2>12
<1> QED BY <1>6, <1>9, <1>10

\* What tickets and tools tell of money is true, for every book, grid and
\* minimum: an estimate is the least that filling the order from its book
\* costs, or says that the book is too thin; the dollar minimum a ticket names
\* is one it takes; get_market's prices are ones the orders take where the
\* grid is on the market's record (estimateBuy of trade.ts, minOrderUsd of
\* core/orderSize.ts, getMarket.ts).
THEOREM FiguresAlwaysTrue == OrderTicketSpec => []FiguresAreTrue
<1>1. PriceIInv => EstimateIsCheapest
  <2> SUFFICES ASSUME PriceIInv, NEW l \in lookups, l.seen.asks # <<>>
               PROVE  LET e == estimateBuy(l.token, l.seen, l.shares)
                      IN /\ e.thin = (Depth(l.seen.asks) < l.shares)
                         /\ ~e.thin => e.cost = LeastCost(l.seen.asks, l.shares)
    BY DEF EstimateIsCheapest
  <2>1. l.seen.asks \in Seq(Level) /\ l.shares \in Nat
    BY DEF PriceIInv, AnswerSound
  <2> QED BY <2>1, EstimateOfBook
<1>2. NamedMinimumIsEnough
  BY MinimumSuffices, TicketGrids DEF NamedMinimumIsEnough
<1>3. PriceIInv => (KnownTick > 0 => QuoteIsUsable)
  <2> SUFFICES ASSUME PriceIInv, KnownTick > 0, NEW p \in {quote.cap, quote.floor}
               PROVE  p = 0 \/ isValidTickPrice(p, FormTick)
    BY DEF QuoteIsUsable
  <2>1. QuotedPrice(p)
    BY DEF PriceIInv
  <2>2. QuoteTick = FormTick
    BY DEF QuoteTick, FormTick
  <2> QED BY <2>1, <2>2 DEF QuotedPrice
<1>4. PriceIInv => FiguresAreTrue
  BY <1>1, <1>2, <1>3 DEF FiguresAreTrue
<1> QED
  BY <1>4, PriceInit, PriceStep, PTL DEF OrderTicketSpec
=============================================================================
