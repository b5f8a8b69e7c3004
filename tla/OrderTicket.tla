----------------------------- MODULE OrderTicket -----------------------------
(***************************************************************************)
(* The two order tickets of the popup: buying an outcome of the matched    *)
(* market (OrderFormWired of TradeTabWired.tsx) and selling a position     *)
(* (SellTicket.tsx), the order book they are filled from                   *)
(* (getOrderbookSnapshot of trade.ts), their arithmetic (orderMath.ts,     *)
(* core/orderSize.ts, core/pricing.ts), and what becomes of an order up to *)
(* its answer: the checks of trade.ts, the wallet's prompt (clob.ts), the  *)
(* exchange.  An agent of the MCP server trades with the prices get_market *)
(* hands it (getMarket.ts, core/orderbook.ts).                             *)
(*                                                                         *)
(* Prices are in thousandths of a dollar, amounts in cents, shares in      *)
(* hundredths; 0 stands for null, for an input that is no number, and for  *)
(* an option left out.  Handlers and the effects they set off are one      *)
(* step, as React runs them between two events of the user.  The hold on   *)
(* an unconfirmed order is in module OrderHold, the agent's budget in      *)
(* TradeTools.                                                             *)
(***************************************************************************)
EXTENDS Integers, FiniteSets, FiniteSetsExt, SequencesExt, TLC

CONSTANTS
  Side,           \* BUY_YES, BUY_NO
  TokenOf,        \* Side -> clobTokenIds, or NoToken
  NoToken,
  FirstSide,      \* the side a ticket starts with
  HeldToken,      \* the token of the position for sale
  Held,           \* position.size, in thousandths of a share
  Tick, Minimum,  \* the market's price grid and least order, in shares
  KnownTick, KnownMinimum,  \* the same on its Gamma record, or 0
  NegRisk,        \* fallback for the grid
  CapPct, HardSlippage, MaxOrderUsd,
  FallsShort,     \* <<cents, price>>: the quotient in doubles is below the exact one
  Ladders,        \* order books: [asks |-> levels in any order, bid |-> price]
  Amounts, Prices, Counts,   \* what users type
  MaxMoves        \* bound: edits, reopened tickets, books that change, failures

DefaultMinimum == 5
SellTick == 1
One == 1000

ASSUME OrderTicketAssumption ==
  /\ FirstSide \in Side /\ TokenOf \in [Side -> Range(TokenOf)] /\ HeldToken # NoToken
  /\ Tick \in 1..One - 1 /\ One % Tick = 0 /\ KnownTick \in {0, Tick}
  /\ Minimum \in Nat \ {0} /\ KnownMinimum \in {0, Minimum}
  /\ CapPct \in 0..100 /\ NegRisk \in BOOLEAN /\ {Held, MaxOrderUsd} \subseteq Nat
  /\ \A l \in Ladders :
       /\ l.asks \in Seq([price : 1..One - 1, size : Nat \ {0}])
       /\ \A i \in DOMAIN l.asks : l.asks[i].price % Tick = 0
       /\ l.bid \in 0..One - 1
  /\ Counts \cup Amounts \cup Prices \subseteq Nat

Token == ({TokenOf[s] : s \in Side} \cup {HeldToken}) \ {NoToken}

VARIABLES
  ladder,    \* token -> the order book at the exchange
  closeOnly, \* the region may not open positions
  buy,       \* the buy ticket
  sell,      \* the sell ticket
  lookups,   \* order book requests under way
  orders,    \* order calls under way
  quote,     \* what get_market told the agent, or NoQuote
  moves      \* how much has been typed and has changed outside

outside == <<ladder, closeOnly>>
ticketVars == <<outside, buy, sell, lookups, orders, quote, moves>>

-----------------------------------------------------------------------------
(* Arithmetic.                                                             *)

CeilDiv(a, b) == (a + b - 1) \div b
Least(a, b) == IF a < b THEN a ELSE b
Most(a, b) == IF a > b THEN a ELSE b

roundToTick(price, tick) == (price \div tick) * tick
isValidTickPrice(price, tick) == price \in 1..One - 1 /\ roundToTick(price, tick) = price

\* Mutant: not held below a price of one.
CapUnclamped(bestAsk, tick) == CeilDiv(bestAsk * (100 + CapPct), 100 * tick) * tick

marketCapPrice(bestAsk, tick) ==
  Least(CeilDiv(bestAsk * (100 + CapPct), 100 * tick) * tick, One - tick)

marketFloorPrice(bestBid, tick) ==
  Most(tick, Least(((bestBid * (100 - CapPct)) \div (100 * tick)) * tick,
                   ((2 * bestBid + tick) \div (2 * tick) - 1) * tick))

minOrderShares(known) == IF known > 0 THEN known ELSE DefaultMinimum

\* A double in the code, and not rounded; here the whole hundredths of it, so
\* that counts less than a hundredth of a share apart are one.
sharesFor(usd, price) == IF usd > 0 /\ price > 0 THEN (usd * One) \div price ELSE 0

\* The shares that are signed: truncated, so that a quotient that comes out
\* a hair too small loses a hundredth.
orderShares(usd, price) ==
  sharesFor(usd, price) -
    (IF <<usd, price>> \in FallsShort /\ (usd * One) % price = 0 THEN 1 ELSE 0)

isBelowMinOrderSize(usd, price, known) ==
  usd > 0 /\ price > 0 /\ orderShares(usd, price) < 100 * minOrderShares(known)

\* The dollar minimum the ticket names: the closed form, a cent at a time
\* further until the order it buys is large enough, three at most.
minOrderUsd(price, known) ==
  LET base == CeilDiv(minOrderShares(known) * price, 10)
      Enough(u) == orderShares(u, price) >= 100 * minOrderShares(known)
  IN CHOOSE u \in base..base + 3 :
       /\ Enough(u) \/ u = base + 3
       /\ \A v \in base..u - 1 : ~Enough(v)

-----------------------------------------------------------------------------
(* The order book (getOrderbookSnapshot).                                  *)

\* Mutant: in the order the exchange sends them, best last.
AsSent(asks) == asks

\* The same levels, the cheapest first.
Sorted(asks) ==
  CHOOSE s \in {[i \in DOMAIN asks |-> asks[p[i]]] : p \in Bijection(DOMAIN asks, DOMAIN asks)} :
    \A i, j \in DOMAIN asks : i < j => s[i].price <= s[j].price

bestAsk(l) == IF l.asks = <<>> THEN 0 ELSE Sorted(l.asks)[1].price

NoEstimate == [token |-> NoToken, shares |-> 0, cost |-> 0, ask |-> 0, thin |-> FALSE]

\* As much of a level as is still needed.
Fill(acc, level) ==
  LET take == Least(acc.left, level.size)
  IN [left |-> acc.left - take, cost |-> acc.cost + take * level.price]

\* Level after level until the shares are there; a book too thin for them is
\* priced at its worst level.
estimateBuy(token, l, shares) ==
  LET levels == Sorted(l.asks)
      walk == FoldLeft(Fill, [left |-> shares, cost |-> 0], levels)
      thin == walk.left > 0
  IN IF levels = <<>> THEN NoEstimate
     ELSE [token |-> token, shares |-> shares, ask |-> levels[1].price, thin |-> thin,
           cost |-> IF thin THEN shares * Last(levels).price ELSE walk.cost]

\* The effective price is more than a share above the best ask.
SlipsOver(e, pct) ==
  e # NoEstimate /\ (e.thin \/ 100 * (e.cost - e.ask * e.shares) > pct * e.ask * e.shares)

-----------------------------------------------------------------------------
(* The tickets.                                                            *)

NoBook == [token |-> NoToken, ask |-> 0, bid |-> 0, tick |-> 0, failed |-> FALSE]
Failure == [asks |-> <<>>, bid |-> 0, failed |-> TRUE]
Unread == [asks |-> <<>>, bid |-> 0, failed |-> FALSE]

\* What a ticket keeps of an answer.
Snapshot(token, l) ==
  IF l = Failure THEN [NoBook EXCEPT !.token = token, !.failed = TRUE]
  ELSE [token |-> token, ask |-> bestAsk(l), bid |-> l.bid, tick |-> Tick, failed |-> FALSE]

NewBuy == [side |-> FirstSide, type |-> "LIMIT", usd |-> 2000, price |-> 0, book |-> NoBook,
           estimate |-> NoEstimate, step |-> "edit"]

floorShares == Held \div 10
NewSell == [open |-> TRUE, type |-> "MARKET", count |-> floorShares, price |-> 0, book |-> NoBook,
            step |-> "edit"]
NotSelling == [NewSell EXCEPT !.open = FALSE]

NoQuote == [token |-> NoToken, cap |-> 0, floor |-> 0]

TokenFor(b) == TokenOf[b.side]
FormTick == IF KnownTick > 0 THEN KnownTick ELSE IF NegRisk THEN 1 ELSE 10

capPrice(b) == IF b.book.ask > 0 THEN marketCapPrice(b.book.ask, FormTick) ELSE 0
activePrice(b) == IF b.type = "MARKET" THEN capPrice(b) ELSE b.price
Shares(b) == sharesFor(b.usd, activePrice(b))

submitDisabled(b) ==
  \/ b.step = "submitting"
  \/ TokenFor(b) = NoToken
  \/ b.usd \notin 1..MaxOrderUsd
  \/ isBelowMinOrderSize(b.usd, activePrice(b), KnownMinimum)
  \/ b.type = "LIMIT" /\ ~isValidTickPrice(b.price, FormTick)
  \/ b.type = "MARKET" /\ capPrice(b) = 0
  \/ closeOnly
  \/ b.type = "MARKET" /\ SlipsOver(b.estimate, HardSlippage)

floorPrice(s) ==
  IF s.book.bid > 0
  THEN marketFloorPrice(s.book.bid, IF s.book.tick > 0 THEN s.book.tick ELSE SellTick) ELSE 0
sellPrice(s) == IF s.type = "MARKET" THEN floorPrice(s) ELSE s.price

sellDisabled(s) ==
  \/ s.step = "submitting"
  \/ s.count < 100 * minOrderShares(0)
  \/ s.count > floorShares
  \/ sellPrice(s) \notin 1..One - 1
  \/ s.count * sellPrice(s) > MaxOrderUsd * One

Lookup(for, what, token, shares) ==
  [for |-> for, what |-> what, token |-> token, shares |-> shares, live |-> TRUE, read |-> FALSE, seen |-> Unread]

\* An effect that is cleaned up no longer wants its answer.
Cancelled(ls, for, what) ==
  {IF l.for = for /\ l.what \in what THEN [l EXCEPT !.live = FALSE] ELSE l : l \in ls}

\* The buy ticket becomes b, and the two effects look whether that concerns
\* them: a new token (or another try) looks up the top of its book, a new
\* type, token or share count asks for a new estimate, if there is one to
\* make.
Become(b, ls, again) ==
  LET turned == again \/ TokenFor(b) # TokenFor(buy)
      resized == <<b.type, TokenFor(b), Shares(b)>> # <<buy.type, TokenFor(buy), Shares(buy)>>
      known == IF turned /\ TokenFor(b) = NoToken THEN [b EXCEPT !.book = NoBook] ELSE b
  IN /\ buy' = IF resized THEN [known EXCEPT !.estimate = NoEstimate] ELSE known
     /\ lookups' =
          Cancelled(ls, "buy", (IF turned THEN {"top"} ELSE {}) \cup (IF resized THEN {"depth"} ELSE {}))
          \cup (IF turned /\ TokenFor(b) # NoToken THEN {Lookup("buy", "top", TokenFor(b), 0)} ELSE {})
          \cup (IF resized /\ b.type = "MARKET" /\ TokenFor(b) # NoToken /\ Shares(b) > 0
                THEN {Lookup("buy", "depth", TokenFor(b), Shares(b))} ELSE {})

\* What the effects of a fresh buy ticket ask for.
FirstLookups ==
  IF TokenOf[FirstSide] = NoToken THEN {} ELSE {Lookup("buy", "top", TokenOf[FirstSide], 0)}

OrderTicketInit ==
  /\ ladder \in [Token -> Ladders]
  /\ closeOnly \in BOOLEAN
  /\ buy = NewBuy
  /\ sell = NotSelling
  /\ lookups = FirstLookups
  /\ orders = {}
  /\ quote = NoQuote
  /\ moves = 0

Move == moves < MaxMoves /\ moves' = moves + 1

-----------------------------------------------------------------------------
(* Editing; neither a confirmation nor an order under way prevents it.     *)

EditBuy ==
  /\ Move
  /\ \E b \in {[buy EXCEPT !.side = s] : s \in Side}
        \cup {[buy EXCEPT !.type = t] : t \in {"LIMIT", "MARKET"}}
        \cup {[buy EXCEPT !.usd = u] : u \in Amounts}
        \cup {[buy EXCEPT !.price = p] : p \in IF buy.type = "LIMIT" THEN Prices ELSE {}} :
       b # buy /\ Become(b, lookups, FALSE)
  /\ UNCHANGED <<outside, sell, orders, quote>>

\* The link under a book that could not be had; the buy ticket shows it when
\* it was the wallet session that failed, which is not told apart here.
TryAgain ==
  /\ Move /\ buy.type = "MARKET" /\ capPrice(buy) = 0 /\ buy.book.failed
  /\ Become(buy, lookups, TRUE)
  /\ UNCHANGED <<outside, sell, orders, quote>>

EditSell ==
  /\ Move /\ sell.open
  /\ \E s \in {[sell EXCEPT !.type = t] : t \in {"LIMIT", "MARKET"}}
        \cup {[sell EXCEPT !.count = c] : c \in Counts}
        \cup {[sell EXCEPT !.price = p] : p \in IF sell.type = "LIMIT" THEN Prices ELSE {}} :
       s # sell /\ sell' = s
  /\ UNCHANGED <<outside, buy, lookups, orders, quote>>

OpenSell ==
  /\ Move /\ ~sell.open
  /\ sell' = NewSell
  /\ lookups' = lookups \cup {Lookup("sell", "top", HeldToken, 0)}
  /\ UNCHANGED <<outside, buy, orders, quote>>

TrySellAgain ==
  /\ Move /\ sell.open /\ sell.book.failed
  /\ lookups' = Cancelled(lookups, "sell", {"top"}) \cup {Lookup("sell", "top", HeldToken, 0)}
  /\ UNCHANGED <<outside, buy, sell, orders, quote>>

CloseSell ==
  /\ sell.open /\ sell.step = "edit"
  /\ sell' = NotSelling
  /\ lookups' = Cancelled(lookups, "sell", {"top"})
  /\ UNCHANGED <<outside, buy, orders, quote, moves>>

\* Another tab and back, or the popup closed and opened: both tickets start
\* afresh, what they sent goes on.
Remount ==
  /\ Move
  /\ buy' = NewBuy /\ sell' = NotSelling
  /\ lookups' = Cancelled(lookups, "buy", {"top", "depth"}) \cup FirstLookups
  /\ orders' = {[o EXCEPT !.live = FALSE] : o \in orders}
  /\ UNCHANGED <<outside, quote>>

-----------------------------------------------------------------------------
(* The book arrives.                                                       *)

ReadBook(l) ==
  /\ ~l.read
  /\ lookups' = (lookups \ {l}) \cup {[l EXCEPT !.read = TRUE, !.seen =
                   [asks |-> ladder[l.token].asks, bid |-> ladder[l.token].bid, failed |-> FALSE]]}
  /\ UNCHANGED <<outside, buy, sell, orders, quote, moves>>

\* No wallet session at that moment, or no answer from the exchange.
LookupFails(l) ==
  /\ ~l.read /\ Move
  /\ lookups' = (lookups \ {l}) \cup {[l EXCEPT !.read = TRUE, !.seen = Failure]}
  /\ UNCHANGED <<outside, buy, sell, orders, quote>>

\* Mutant: an answer is wanted whoever asked.
AlwaysWanted(l) == TRUE

Wanted(l) == l.live

\* The limit price is filled in with the best ask.
TopArrives(l) ==
  LET snap == Snapshot(l.token, l.seen)
      prefill == roundToTick(snap.ask, FormTick)
  IN /\ l.read /\ l.for = "buy" /\ l.what = "top"
     /\ IF Wanted(l)
        THEN Become([buy EXCEPT !.book = snap, !.price = IF snap.ask > 0 THEN prefill ELSE @],
                    lookups \ {l}, FALSE)
        ELSE lookups' = lookups \ {l} /\ UNCHANGED buy
     /\ UNCHANGED <<outside, sell, orders, quote, moves>>

DepthArrives(l) ==
  /\ l.read /\ l.what = "depth"
  /\ buy' = IF Wanted(l) THEN [buy EXCEPT !.estimate = estimateBuy(l.token, l.seen, l.shares)] ELSE buy
  /\ lookups' = lookups \ {l}
  /\ UNCHANGED <<outside, sell, orders, quote, moves>>

SellBookArrives(l) ==
  LET snap == Snapshot(l.token, l.seen)
  IN /\ l.read /\ l.for = "sell"
     /\ sell' = IF Wanted(l) THEN [sell EXCEPT !.book = snap, !.price = IF snap.bid > 0 THEN snap.bid ELSE @]
                ELSE sell
     /\ lookups' = lookups \ {l}
     /\ UNCHANGED <<outside, buy, orders, quote, moves>>

\* get_market: the cap and the floor a market order of an agent may pass.
QuoteTick == IF KnownTick > 0 THEN KnownTick ELSE 1

parseOrderbook(l) == [bestBid |-> l.bid, bestAsk |-> bestAsk(l)]

GetMarket(s) ==
  LET snap == parseOrderbook(ladder[TokenOf[s]])
  IN /\ Move /\ TokenOf[s] # NoToken
     /\ quote' = [token |-> TokenOf[s],
                  cap |-> IF snap.bestAsk > 0 THEN marketCapPrice(snap.bestAsk, QuoteTick) ELSE 0,
                  floor |-> IF snap.bestBid > 0 THEN marketFloorPrice(snap.bestBid, QuoteTick) ELSE 0]
     /\ UNCHANGED <<outside, buy, sell, lookups, orders>>

-----------------------------------------------------------------------------
(* An order.                                                               *)

AskToConfirm ==
  \/ /\ buy.step = "edit" /\ ~submitDisabled(buy)
     /\ buy' = [buy EXCEPT !.step = "confirm"]
     /\ UNCHANGED <<outside, sell, lookups, orders, quote, moves>>
  \/ /\ sell.open /\ sell.step = "edit" /\ ~sellDisabled(sell)
     /\ sell' = [sell EXCEPT !.step = "confirm"]
     /\ UNCHANGED <<outside, buy, lookups, orders, quote, moves>>

StepBack ==
  \/ /\ buy.step = "confirm"
     /\ buy' = [buy EXCEPT !.step = "edit"]
     /\ UNCHANGED <<outside, sell, lookups, orders, quote, moves>>
  \/ /\ sell.step = "confirm"
     /\ sell' = [sell EXCEPT !.step = "edit"]
     /\ UNCHANGED <<outside, buy, lookups, orders, quote, moves>>

SubmitBuy ==
  /\ buy.step = "confirm" /\ ~submitDisabled(buy)
  /\ orders' = orders \cup {[kind |-> "BUY", by |-> "ticket", live |-> TRUE, token |-> TokenFor(buy), type |-> buy.type,
                             amount |-> buy.usd, price |-> activePrice(buy), tick |-> KnownTick,
                             bookOf |-> buy.book.token, stage |-> "sent", answer |-> "none"]}
  /\ buy' = [buy EXCEPT !.step = "submitting"]
  /\ UNCHANGED <<outside, sell, lookups, quote, moves>>

SubmitSell ==
  /\ sell.open /\ sell.step = "confirm" /\ ~sellDisabled(sell)
  /\ orders' = orders \cup {[kind |-> "SELL", by |-> "ticket", live |-> TRUE, token |-> HeldToken, type |-> sell.type,
                             amount |-> sell.count, price |-> sellPrice(sell), tick |-> sell.book.tick,
                             bookOf |-> sell.book.token, stage |-> "sent", answer |-> "none"]}
  /\ sell' = [sell EXCEPT !.step = "submitting"]
  /\ UNCHANGED <<outside, buy, lookups, quote, moves>>

\* A market order of the agent, at the price it was told.
AgentOrder ==
  /\ quote # NoQuote
  /\ \E kind \in {"BUY", "SELL"} :
       \E n \in (IF kind = "BUY" THEN Amounts ELSE Counts) \ {0} :
         orders' = orders \cup {[kind |-> kind, by |-> "agent", live |-> FALSE, token |-> quote.token,
                                type |-> "MARKET", amount |-> n, tick |-> KnownTick,
                                price |-> IF kind = "BUY" THEN quote.cap ELSE quote.floor,
                                bookOf |-> NoToken, stage |-> "sent", answer |-> "none"]}
  /\ quote' = NoQuote
  /\ UNCHANGED <<outside, buy, sell, lookups, moves>>

\* Shares and cents of an order.
SharesOf(o) == IF o.kind = "SELL" THEN o.amount ELSE orderShares(o.amount, o.price)
WithinMaxUsd(o) == IF o.kind = "BUY" THEN o.amount <= MaxOrderUsd ELSE o.amount * o.price <= MaxOrderUsd * One

\* Only a buy ticket has the market's minimum; get_market does not tell it.
MinimumFor(o) == IF o.by = "ticket" /\ o.kind = "BUY" THEN KnownMinimum ELSE 0

\* placeOrder and sellOrder check again before the wallet is asked; those of
\* the MCP server, which have no ticket before them, check the price as well.
Passes(o) ==
  /\ IF o.by = "agent" THEN isValidTickPrice(o.price, FormTick) ELSE WithinMaxUsd(o)
  /\ IF o.kind = "BUY" THEN ~isBelowMinOrderSize(o.amount, o.price, MinimumFor(o))
     ELSE o.amount >= 100 * minOrderShares(MinimumFor(o))

OrderGoes(o, to) ==
  /\ orders' = (orders \ {o}) \cup {to}
  /\ UNCHANGED <<outside, buy, sell, lookups, quote, moves>>

\* Refused here, by the region, by the hold, or for want of a wallet.
CheckOrder(o) ==
  /\ o.stage = "sent"
  /\ \/ Passes(o) /\ OrderGoes(o, [o EXCEPT !.stage = "prompt"])
     \/ OrderGoes(o, [o EXCEPT !.stage = "answered", !.answer = "failed"])

\* The grid a signed order names; a sell ticket may leave it to the SDK.
SignedTick(o) ==
  IF o.tick > 0 THEN o.tick
  ELSE IF o.kind = "BUY" \/ o.by = "agent" THEN (IF NegRisk THEN 1 ELSE 10) ELSE Tick

\* What the exchange takes, the wallet's answer aside.
Acceptable(o) ==
  /\ SignedTick(o) = Tick
  /\ o.price \in 1..One - 1 /\ o.price % Tick = 0
  /\ SharesOf(o) >= 100 * Minimum
  /\ o.kind = "SELL" /\ o.by = "ticket" => o.amount <= floorShares

\* The wallet signs or not; an order may be refused, or its answer be lost,
\* which to the ticket is one failure more.
WalletAnswers(o) ==
  /\ o.stage = "prompt"
  /\ \E a \in {"failed"} \cup (IF Acceptable(o) THEN {"ok"} ELSE {}) :
       OrderGoes(o, [o EXCEPT !.stage = "answered", !.answer = a])

\* The answer, or the exception of a message that had none; a sell that went
\* through closes its ticket.
OrderAnswered(o) ==
  /\ o.stage = "answered"
  /\ orders' = orders \ {o}
  /\ \/ ~o.live /\ UNCHANGED <<buy, sell, lookups>>
     \/ /\ o.live /\ o.kind = "BUY"
        /\ buy' = [buy EXCEPT !.step = "edit"]
        /\ UNCHANGED <<sell, lookups>>
     \/ /\ o.live /\ o.kind = "SELL" /\ o.answer = "ok"
        /\ sell' = NotSelling
        /\ lookups' = Cancelled(lookups, "sell", {"top"})
        /\ UNCHANGED buy
     \/ /\ o.live /\ o.kind = "SELL" /\ o.answer = "failed"
        /\ sell' = [sell EXCEPT !.step = "edit"]
        /\ UNCHANGED <<buy, lookups>>
  /\ UNCHANGED <<outside, quote, moves>>

MarketMoves ==
  /\ Move
  /\ \E t \in Token, l \in Ladders : l # ladder[t] /\ ladder' = [ladder EXCEPT ![t] = l]
  /\ UNCHANGED <<closeOnly, buy, sell, lookups, orders, quote>>

OrderTicketNext ==
  \/ EditBuy \/ TryAgain \/ EditSell \/ OpenSell \/ TrySellAgain \/ CloseSell \/ Remount
  \/ AgentOrder \/ AskToConfirm \/ StepBack \/ SubmitBuy \/ SubmitSell \/ MarketMoves
  \/ \E s \in Side : GetMarket(s)
  \/ \E l \in lookups :
       ReadBook(l) \/ LookupFails(l) \/ TopArrives(l) \/ DepthArrives(l) \/ SellBookArrives(l)
  \/ \E o \in orders : CheckOrder(o) \/ WalletAnswers(o) \/ OrderAnswered(o)

OrderTicketSpec == OrderTicketInit /\ [][OrderTicketNext]_ticketVars

-----------------------------------------------------------------------------
(* Properties *)

\* The wallet is never asked to sign an order that the exchange must refuse
\* or that is over the cap, whatever was typed and whatever the book was: the
\* checks of the ticket, its prices and those of trade.ts (or of the MCP
\* server) leave nothing to fail after the signature.  A limit sell is the
\* exception, whose price SellTicket does not hold to the grid.
NothingSignedInVain ==
  \A o \in orders : o.stage = "prompt" /\ (o.kind = "BUY" \/ o.type = "MARKET") =>
    Acceptable(o) /\ (o.by = "ticket" => WithinMaxUsd(o))

\* However the answers of the book overtake each other, one that arrives is
\* of the token, and an estimate on show is of the share count, that the
\* ticket has now (the cancelled flags of OrderFormWired's effects).
AnswersAreCurrent ==
  [][/\ buy'.book # buy.book => buy'.book.token \in {TokenFor(buy'), NoToken}
     /\ buy'.estimate # NoEstimate =>
          <<buy'.estimate.token, buy'.estimate.shares>> = <<TokenFor(buy'), Shares(buy')>>]_ticketVars

\* The cost of so many shares is the least there is: as much as any price,
\* paid for all of them, less what the cheaper levels leave over.
Total(f) == MapThenSumSet(LAMBDA i : f[i], DOMAIN f)
Depth(asks) == Total([i \in DOMAIN asks |-> asks[i].size])
Spare(asks, p) == Total([i \in DOMAIN asks |-> Most(p - asks[i].price, 0) * asks[i].size])
LeastCost(asks, shares) ==
  Max({p * shares - Spare(asks, p) : p \in {asks[i].price : i \in DOMAIN asks}})

EstimateIsCheapest ==
  \A l \in lookups : l.what = "depth" /\ l.read /\ l.seen.asks # <<>> =>
    LET e == estimateBuy(l.token, l.seen, l.shares)
    IN /\ e.thin = (Depth(l.seen.asks) < l.shares)
       /\ ~e.thin => e.cost = LeastCost(l.seen.asks, l.shares)

NamedMinimumIsEnough ==
  activePrice(buy) \in 1..One - 1 =>
    ~isBelowMinOrderSize(minOrderUsd(activePrice(buy), KnownMinimum), activePrice(buy), KnownMinimum)

QuoteIsUsable ==
  quote.token # NoToken =>
    \A p \in {quote.cap, quote.floor} : p = 0 \/ isValidTickPrice(p, FormTick)

\* What tickets and tools tell of money is true: an estimate is what filling
\* the order from the book it was made of costs at least, or says that the
\* book is too thin (estimateBuy); the dollar minimum a ticket names is one
\* that it accepts, however the division comes out (minOrderUsd); the prices
\* get_market hands over are ones place_order and sell_order take, given the
\* market's grid is on its record.
FiguresAreTrue ==
  /\ EstimateIsCheapest
  /\ NamedMinimumIsEnough
  /\ KnownTick > 0 => QuoteIsUsable

\* A market order is bounded by a book of its own token: not so while the
\* book of the side just left is still on show.
CapIsOfItsToken ==
  \A o \in orders : o.kind = "BUY" /\ o.type = "MARKET" /\ o.by = "ticket" => o.bookOf = o.token

\* Why answers are current: a lookup still wanted by the buy ticket is of its
\* token and, for an estimate, of its share count.
LookupSound(l) ==
  /\ DOMAIN l = {"for", "what", "token", "shares", "live", "read", "seen"}
  /\ l.what \in {"top", "depth"}
  /\ l.what = "depth" => l.for = "buy" /\ l.token # NoToken
  /\ l.live /\ l.for = "buy" =>
       l.token = TokenFor(buy) /\ (l.what = "depth" => l.shares = Shares(buy))
EstimateSound ==
  buy.estimate # NoEstimate =>
    /\ buy.estimate.token # NoToken
    /\ <<buy.estimate.token, buy.estimate.shares>> = <<TokenFor(buy), Shares(buy)>>
TicketIInv ==
  /\ DOMAIN buy = {"side", "type", "usd", "price", "book", "estimate", "step"}
  /\ EstimateSound
  /\ \A l \in lookups : LookupSound(l)
=============================================================================
