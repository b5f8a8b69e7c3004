------------------------------ MODULE PageCheck ------------------------------
(***************************************************************************)
(* "Check this page": the popup reads the article in the active tab,       *)
(* translates it, and asks the offscreen document for the market it is     *)
(* about (IntegratedPopup.tsx; OS_RUN_MATCH of offscreen.ts; attemptMatch  *)
(* of packages/core/src/matcher.ts; history.ts).  The answer goes to the   *)
(* Check tab, to the Trade tab and to the history, from which a market can *)
(* be picked again.                                                        *)
(*                                                                         *)
(* An article scores a market twice: by meaning alone (raw), which the     *)
(* thresholds are about, and with bonuses and penalties for what text and  *)
(* question have in common, by which those above the floor are ranked.     *)
(* Scores are in thousandths; the raw ones, and what the regular           *)
(* expressions of the matcher read off a text, are constants.  A check is  *)
(* one call of startCheck; those of a popup that was closed live on in the *)
(* offscreen document.  The cache itself is in module MarketCache.         *)
(***************************************************************************)
EXTENDS Integers, FiniteSets, FiniteSetsExt, SequencesExt

CONSTANTS
  Page,          \* articles a tab may show
  Market,        \* Yes/No markets and others
  Categorical,   \* the others: on no shelf, but the search may find them
  PerGame,       \* sports fixtures, which no list shows
  Raw,           \* Page -> Market -> cosine similarity
  Article,       \* Page -> [words, numbers, years, names, crypto]
  Question,      \* Market -> [stems, numbers, brackets, years, names, magnitude]
  StemOf,        \* word -> its stem
  LowValue,      \* LOW_VALUE_OVERLAP, a set of stems
  Coins,         \* COINS, a set of names
  ThisYear,
  Floor,         \* lowConfidenceFloor
  Confident,     \* confidenceThreshold
  Shelves,       \* what the cache may hold: a set of sets of markets
  Finds,         \* Page -> what a search for its headline lists, in order
  MaxCandidates, \* MAX_FALLBACK_CANDIDATES
  MaxRelated,    \* alternatives a match carries
  MaxHistory,    \* MAX_HISTORY_ITEMS
  Check,         \* calls of startCheck
  NoMarket,
  MaxMoves       \* bound: the tab navigates, a market ends, the cache changes,
                 \* the popup closes, an old check is picked, a call fails

ASSUME PageCheckAssumption ==
  /\ Categorical \subseteq Market /\ NoMarket \notin Market
  /\ PerGame \subseteq Market /\ Raw \in [Page -> [Market -> Int]]
  /\ \A p \in Page : IsFiniteSet(Article[p].words) /\ IsFiniteSet(Article[p].numbers)
  /\ \A m \in Market : Question[m].magnitude \in Int /\ Question[m].magnitude >= -6
  /\ Shelves \subseteq SUBSET (Market \ (Categorical \cup PerGame))
  /\ \A markets \in Shelves : IsFiniteSet(markets)
  /\ Finds \in [Page -> Seq(Market)]
  /\ {MaxCandidates, MaxRelated, MaxHistory, MaxMoves} \subseteq Nat
  /\ {Floor, Confident} \subseteq Int

VARIABLES
  page,     \* the article in the active tab
  search,   \* settings: searchFallbackEnabled
  offer,    \* settings: the offer to search has not been dismissed
  shelf,    \* the markets of the cache
  ended,    \* markets past their end date
  popup,    \* the popup's state; Shut while it is closed
  picking,  \* the history item being resolved, or NoMarket
  check,    \* check -> where it stands
  history,  \* storage: [page, market], newest first
  moves     \* how much the environment has done

settings == <<search, offer>>
world == <<page, shelf, ended, moves>>
checkVars == <<world, settings, popup, picking, check, history>>

NoMatch == [market |-> NoMarket, of |-> "none", scored |-> FALSE, confidence |-> 0,
            low |-> FALSE, rest |-> <<>>, restRaw |-> <<>>, fresh |-> NoMarket]
Shut == [open |-> FALSE, screen |-> "idle", offering |-> FALSE, match |-> NoMatch,
         source |-> "page", headline |-> "none"]
NewCheck == [at |-> "idle", page |-> "none", live |-> TRUE, mayOffer |-> FALSE, searching |-> FALSE,
             scored |-> {}, match |-> NoMatch, nearest |-> NoMarket, error |-> "none", past |-> <<>>]

PageCheckInit ==
  /\ page \in Page
  /\ search = FALSE /\ offer = TRUE
  /\ shelf \in Shelves
  /\ ended = {}
  /\ popup = Shut
  /\ picking = NoMarket
  /\ check = [c \in Check |-> NewCheck]
  /\ history = <<>>
  /\ moves = 0

Move == moves < MaxMoves /\ moves' = moves + 1

-----------------------------------------------------------------------------
(* Scores.                                                                 *)

Capped(bonus) == Min({150, bonus})

\* extractKeywords, keywordOverlapBonus: headline words with a stem of the
\* question, the commonplace ones for less.
KeywordBonus(a, q) ==
  LET shared == {w \in a.words : StemOf[w] \in q.stems}
      plain == {w \in shared : StemOf[w] \in LowValue}
  IN Capped(40 * Cardinality(shared \ plain) + 10 * Cardinality(plain))

\* Single digits and years.
Strong(numbers) == {n \in numbers : ~(n \in 0..9 \/ n \in 1900..2099)}

\* numberOverlapScore: different numbers on both sides count against it.
NumberScore(a, q) ==
  LET shared == a.numbers \cap q.numbers
      strong == Strong(shared)
  IN IF shared # {} THEN Capped(80 * Cardinality(strong) + 10 * Cardinality(shared \ strong))
     ELSE IF Strong(a.numbers) # {} /\ Strong(q.numbers) # {} THEN -50 ELSE 0

\* bracketScore: one slice of many is for an article with a number in it.
BracketScore(a, q) ==
  IF q.brackets = {} \/ \E b \in q.brackets, n \in Strong(a.numbers) : b.lo <= n /\ n <= b.hi
  THEN 0 ELSE -50

\* farFutureYearScore: a year two or more ahead must be named.
FarFutureYearScore(a, q) ==
  IF \A y \in q.years : y < ThisYear + 2 \/ y \in a.years THEN 0 ELSE -50

\* priceSubjectScore: a market on the price of an asset (names, under all its
\* aliases) is for an article that names it, or crypto as a whole.
PriceSubjectScore(a, q) ==
  IF q.names = {} \/ q.names \cap a.names # {} \/ (a.crypto /\ q.names \cap Coins # {})
  THEN 0 ELSE -50

\* Two thousandths for every power of ten in the volume, which is in dollars
\* with six decimals: less than a dollar counts against the market.
VolumeBonus(q) == Min({15, 2 * q.magnitude})

Rank == [p \in Page |-> [m \in Market |->
  LET a == Article[p]
      q == Question[m]
  IN Raw[p][m] + KeywordBonus(a, q) + NumberScore(a, q) + BracketScore(a, q)
       + FarFutureYearScore(a, q) + PriceSubjectScore(a, q) + VolumeBonus(q)]]

-----------------------------------------------------------------------------
(* The matcher.                                                            *)

\* scoreOne: what is over cannot be matched.
Scorable(markets) == markets \ ended

\* searchMarkets: where a search lists a market first, and no fixture.
searchMarkets == [p \in Page |->
  {i \in DOMAIN Finds[p] : /\ Finds[p][i] \notin PerGame
                           /\ \A j \in 1..i - 1 : Finds[p][j] # Finds[p][i]}]

\* Of what a search for the words of the headline found, the binary ones, up
\* to a number.
Candidates == [p \in Page |->
  LET binary == {i \in searchMarkets[p] : Finds[p][i] \notin Categorical}
      taken == {i \in binary : Cardinality({j \in binary : j < i}) < MaxCandidates}
  IN IF Article[p].words = {} THEN {} ELSE {Finds[p][i] : i \in taken}]

\* Mutant: ranked by the bonuses first, the best one then held to the floor.
RankedBeforeFloor(p, markets) ==
  IF markets # {} /\ \E m \in markets : Raw[p][m] >= Floor /\ \A n \in markets : Rank[p][n] <= Rank[p][m]
  THEN {m \in markets : Raw[p][m] >= Floor} ELSE {}

Eligible(p, markets) == {m \in markets : Raw[p][m] >= Floor}

\* Mutant: an alternative carries the score it was ranked by.
RankingScore(p, m) == Rank[p][m]

RawScore(p, m) == Raw[p][m]

\* Eligible markets, the best ranked first.
Ranked(p, eligible) ==
  CHOOSE best \in [1..Cardinality(eligible) -> eligible] :
    /\ IsInjective(best)
    /\ \A i, j \in DOMAIN best : i < j => Rank[p][best[i]] >= Rank[p][best[j]]

\* The match of an article among eligible markets.
MatchOf(p, eligible) ==
  LET best == Ranked(p, eligible)
      rest == SubSeq(best, 2, Min({MaxRelated + 1, Len(best)}))
  IN [market |-> best[1], of |-> p, scored |-> TRUE, confidence |-> Raw[p][best[1]],
      low |-> Raw[p][best[1]] < Confident, rest |-> rest,
      restRaw |-> [i \in DOMAIN rest |-> RawScore(p, rest[i])], fresh |-> NoMarket]

\* The closest of what was scored, by meaning alone.
Nearest(p, markets) ==
  IF markets = {} THEN NoMarket
  ELSE CHOOSE m \in markets : \A n \in markets : Raw[p][n] <= Raw[p][m]

-----------------------------------------------------------------------------
(* startCheck in the popup.                                                *)

\* The button of the Check tab, or the link of the Trade tab to it, which a
\* check under way does not hide.
MayStart ==
  \/ popup.screen \in {"idle", "error"}
  \/ popup.screen = "loading" /\ (popup.match = NoMatch \/ popup.match.rest # <<>>)

\* The settings are those of the render the call comes from.
Begin(c) ==
  /\ check[c].at = "idle"
  /\ popup' = [popup EXCEPT !.screen = "loading", !.offering = FALSE]
  /\ check' = [check EXCEPT ![c] = [NewCheck EXCEPT !.at = "extract", !.mayOffer = ~search /\ offer]]

Start(c) ==
  /\ popup.open /\ MayStart
  /\ Begin(c)
  /\ UNCHANGED <<world, settings, picking, history>>

\* enableSearchAndRetry: the setting, then the check once more, which still
\* has the settings from before.
EnableSearch(c) ==
  /\ popup.open /\ popup.screen = "error" /\ popup.offering
  /\ search' = TRUE
  /\ Begin(c)
  /\ UNCHANGED <<world, offer, picking, history>>

DismissOffer ==
  /\ popup.open /\ popup.screen = "error" /\ popup.offering
  /\ offer' = FALSE
  /\ popup' = [popup EXCEPT !.offering = FALSE]
  /\ UNCHANGED <<world, search, picking, check, history>>

Back ==
  /\ popup.open /\ popup.screen \in {"error", "success"}
  /\ popup' = [popup EXCEPT !.screen = "idle", !.offering = FALSE]
  /\ UNCHANGED <<world, settings, picking, check, history>>

\* The headline is put up before its match is there.  A page that names its
\* language, and a browser that cannot tell one, leave out the detection.
Extract(c) ==
  /\ check[c].at = "extract"
  /\ popup' = [popup EXCEPT !.headline = page, !.source = "page"]
  /\ \E next \in {"detect", "translate"} :
       check' = [check EXCEPT ![c].at = next, ![c].page = page]
  /\ UNCHANGED <<world, settings, picking, history>>

\* resolveSourceLanguage: the detector answers or throws, or never does.
Detect(c) ==
  /\ check[c].at = "detect"
  /\ check' = [check EXCEPT ![c].at = "translate"]
  /\ UNCHANGED <<world, settings, popup, picking, history>>

\* Translated or not: each call of the translator has its timeout, and the
\* check goes on.
Translate(c) ==
  /\ check[c].at = "translate"
  /\ popup' = [popup EXCEPT !.screen = "loading", !.offering = FALSE]
  /\ check' = [check EXCEPT ![c].at = "sent"]
  /\ UNCHANGED <<world, settings, picking, history>>


\* No article, or a message that is never answered: the last match stays.
CheckThrows(c) ==
  /\ check[c].at \in {"extract", "sent"} /\ check[c].live /\ Move
  /\ check' = [check EXCEPT ![c].at = "done"]
  /\ popup' = [popup EXCEPT !.screen = "error", !.offering = FALSE]
  /\ UNCHANGED <<page, shelf, ended, settings, picking, history>>

-----------------------------------------------------------------------------
(* OS_RUN_MATCH in the offscreen document.                                 *)

Outcome(c, scored, match, error) ==
  check' = [check EXCEPT ![c].at = IF match = NoMatch THEN "reply" ELSE "price",
                         ![c].scored = scored, ![c].match = match, ![c].error = error,
                         ![c].nearest = IF match = NoMatch THEN Nearest(check[c].page, scored) ELSE NoMarket]

\* An empty cache is filled first.
ReadCache(c) ==
  /\ check[c].at = "sent"
  /\ check' = [check EXCEPT ![c].at = IF shelf = {} THEN "refresh" ELSE "score",
                            ![c].searching = search]
  /\ UNCHANGED <<world, settings, popup, picking, history>>

RefreshArrives(c) ==
  /\ check[c].at = "refresh"
  /\ shelf' \in Shelves
  /\ check' = [check EXCEPT ![c].at = "score"]
  /\ UNCHANGED <<page, ended, moves, settings, popup, picking, history>>

\* cache_refresh_failed, match_error (of an embedding, those of a search too),
\* storage that throws.
HandlerFails(c) ==
  /\ check[c].at \in {"refresh", "score", "search", "past", "write"} /\ Move
  /\ Outcome(c, {}, NoMatch, "failed")
  /\ UNCHANGED <<page, shelf, ended, settings, popup, picking, history>>

Score(c) ==
  LET scored == Scorable(shelf)
      eligible == Eligible(check[c].page, scored)
  IN /\ check[c].at = "score"
     /\ \/ /\ eligible # {}
           /\ Outcome(c, scored, MatchOf(check[c].page, eligible), "none")
        \/ /\ eligible = {} /\ check[c].searching
           /\ check' = [check EXCEPT ![c].at = "search", ![c].scored = scored]
        \/ /\ eligible = {} /\ ~check[c].searching
           /\ Outcome(c, scored, NoMatch, "none")
     /\ UNCHANGED <<world, settings, popup, picking, history>>

\* searchAndScore: what it finds is held to the same floor.
SearchArrives(c) ==
  LET found == Scorable(Candidates[check[c].page])
      eligible == Eligible(check[c].page, found)
  IN /\ check[c].at = "search"
     /\ Outcome(c, check[c].scored \cup found,
                IF eligible = {} THEN NoMatch ELSE MatchOf(check[c].page, eligible), "none")
     /\ UNCHANGED <<world, settings, popup, picking, history>>

\* A search whose request fails counts as one that was not made.
SearchFails(c) ==
  /\ check[c].at = "search" /\ Move
  /\ Outcome(c, check[c].scored, NoMatch, "none")
  /\ UNCHANGED <<page, shelf, ended, settings, popup, picking, history>>

\* fetchLivePrice: the match shows what the market costs now, if that comes.
PriceArrives(c) ==
  /\ check[c].at = "price"
  /\ \E m \in {check[c].match.market, NoMarket} :
       check' = [check EXCEPT ![c].at = "past", ![c].match.fresh = m]
  /\ UNCHANGED <<world, settings, popup, picking, history>>

\* addToHistory: the list is read, and written back with the check in front,
\* but for the same page within HISTORY_DEDUP_MINUTES.
HistoryRead(c) ==
  /\ check[c].at = "past"
  /\ check' = [check EXCEPT ![c].at = "write", ![c].past = history]
  /\ UNCHANGED <<world, settings, popup, picking, history>>

HistoryWrite(c) ==
  LET past == check[c].past
      repeated == past # <<>> /\ past[1].page = check[c].page
      item == [page |-> check[c].page, market |-> check[c].match.market]
  IN /\ check[c].at = "write"
     /\ \/ history' = SubSeq(<<item>> \o past, 1, Min({MaxHistory, Len(past) + 1}))
        \/ repeated /\ history' = history
     /\ check' = [check EXCEPT ![c].at = "reply", ![c].past = <<>>]
     /\ UNCHANGED <<world, settings, popup, picking>>

\* The answer, if the popup that asked is still there.
Reply(c) ==
  /\ check[c].at = "reply"
  /\ check' = [check EXCEPT ![c] = [NewCheck EXCEPT !.at = "done"]]
  /\ popup' = IF ~check[c].live THEN popup
              ELSE [popup EXCEPT
                     !.match = check[c].match,
                     !.screen = IF check[c].match = NoMatch THEN "error" ELSE "success",
                     !.offering = /\ check[c].match = NoMatch /\ check[c].error = "none"
                                  /\ check[c].scored # {} /\ check[c].mayOffer]
  /\ UNCHANGED <<world, settings, picking, history>>

-----------------------------------------------------------------------------
(* What else the user does with a match.                                   *)

\* pickRelated: the alternative and the match change places.
PickRelated ==
  \E i \in DOMAIN popup.match.rest :
    LET m == popup.match
    IN /\ popup.open /\ popup.screen = "success"
       /\ popup' = [popup EXCEPT !.match =
            [m EXCEPT !.market = m.rest[i], !.confidence = m.restRaw[i],
                      !.low = m.restRaw[i] < Confident,
                      !.rest = <<m.market>> \o RemoveAt(m.rest, i),
                      !.restRaw = <<m.confidence>> \o RemoveAt(m.restRaw, i),
                      !.fresh = NoMarket]]
       /\ UNCHANGED <<world, settings, picking, check, history>>

\* A row of the History tab; its market is looked up first.
PickHistory ==
  \E i \in DOMAIN history :
    /\ popup.open /\ picking = NoMarket /\ Move
    /\ picking' = history[i].market
    /\ UNCHANGED <<page, shelf, ended, settings, popup, check, history>>

\* resolveHistoryMarket: an open market, from the cache or from Gamma
\* (fetchMarketById), which may not have it, goes to the Trade tab, unscored.
Picked ==
  /\ picking # NoMarket
  /\ picking' = NoMarket
  /\ \/ /\ picking \notin ended
        /\ popup' = [popup EXCEPT !.match = [NoMatch EXCEPT !.market = picking, !.confidence = 1000],
                                  !.headline = "none", !.source = "history"]
     \/ (picking \in ended \/ picking \notin shelf) /\ popup' = popup
  /\ UNCHANGED <<world, settings, check, history>>

\* clearHistory, which a check that has read the list does not notice.
ClearHistory ==
  /\ popup.open /\ history # <<>> /\ Move
  /\ history' = <<>>
  /\ UNCHANGED <<page, shelf, ended, settings, popup, picking, check>>

-----------------------------------------------------------------------------
(* The environment.                                                        *)

OpenPopup ==
  /\ ~popup.open
  /\ popup' = [popup EXCEPT !.open = TRUE]
  /\ UNCHANGED <<world, settings, picking, check, history>>

\* Its checks end where the popup runs them, and answer nobody elsewhere.
ClosePopup ==
  /\ popup.open /\ Move
  /\ popup' = Shut /\ picking' = NoMarket
  /\ check' = [c \in Check |->
                 IF check[c].at \in {"extract", "detect", "translate"} THEN [NewCheck EXCEPT !.at = "done"]
                 ELSE [check[c] EXCEPT !.live = check[c].at = "idle"]]
  /\ UNCHANGED <<page, shelf, ended, settings, history>>

Navigate ==
  /\ Move /\ page' \in Page \ {page}
  /\ UNCHANGED <<shelf, ended, settings, popup, picking, check, history>>

MarketEnds ==
  /\ Move /\ \E m \in Market \ ended : ended' = ended \cup {m}
  /\ UNCHANGED <<page, shelf, settings, popup, picking, check, history>>

\* A refresh of somebody else, a cleared cache.
Restock ==
  /\ Move /\ shelf' \in Shelves \ {shelf}
  /\ UNCHANGED <<page, ended, settings, popup, picking, check, history>>

-----------------------------------------------------------------------------
\* What has no deadline: the script in the tab, the language detector, and the
\* embeddings, by which the cache is filled, an article scored, and what a
\* search found.
Awaits(c) ==
  Extract(c) \/ Detect(c) \/ RefreshArrives(c) \/ Score(c) \/ SearchArrives(c)

Runs(c) ==
  \/ Translate(c) \/ ReadCache(c) \/ PriceArrives(c)
  \/ HistoryRead(c) \/ HistoryWrite(c) \/ Reply(c)

PageCheckNext ==
  \/ OpenPopup \/ ClosePopup \/ Navigate \/ MarketEnds \/ Restock
  \/ DismissOffer \/ Back \/ PickRelated \/ PickHistory \/ Picked \/ ClearHistory
  \/ \E c \in Check :
       \/ Start(c) \/ EnableSearch(c) \/ Awaits(c) \/ Runs(c)
       \/ CheckThrows(c) \/ HandlerFails(c) \/ SearchFails(c)

\* The translator and the price of a match have their timeouts, and the messages
\* and the storage of the browser answer.  Nothing says that Awaits(c) does.
PageCheckSpec ==
  PageCheckInit /\ [][PageCheckNext]_checkVars /\ \A c \in Check : WF_checkVars(Runs(c))

-----------------------------------------------------------------------------
(* The types, and what a check and a match keep true of themselves.        *)

AnyMarket == Market \cup {NoMarket}
AnyPage == Page \cup {"none"}
Items == [page : Page, market : AnyMarket]
Matches == [market : AnyMarket, of : AnyPage, scored : BOOLEAN, confidence : Int, low : BOOLEAN,
            rest : Seq(Market), restRaw : Seq(Int), fresh : AnyMarket]
Popups == [open : BOOLEAN, screen : {"idle", "loading", "error", "success"}, offering : BOOLEAN,
           match : Matches, source : {"page", "history"}, headline : AnyPage]
Checks == [at : {"idle", "extract", "detect", "translate", "sent", "refresh", "score", "search", "price",
                 "past", "write", "reply", "done"},
           page : AnyPage, live : BOOLEAN, mayOffer : BOOLEAN, searching : BOOLEAN,
           scored : SUBSET Market, match : Matches, nearest : AnyMarket,
           error : {"none", "failed"}, past : Seq(Items)]

PageTypeOK ==
  /\ page \in Page /\ search \in BOOLEAN /\ offer \in BOOLEAN
  /\ shelf \in Shelves /\ ended \in SUBSET Market /\ picking \in AnyMarket
  /\ popup \in Popups /\ check \in [Check -> Checks]
  /\ history \in Seq(Items) /\ moves \in Nat

\* Every market of a match with its own score, and each of them once.
OwnScores(m) ==
  /\ m.confidence = Raw[m.of][m.market] /\ m.low = (m.confidence < Confident)
  /\ m.fresh \in {m.market, NoMarket}
  /\ \A i \in DOMAIN m.rest : m.restRaw[i] = Raw[m.of][m.rest[i]]
  /\ \A i, j \in DOMAIN m.rest : m.rest[i] # m.market /\ (m.rest[i] = m.rest[j] => i = j)

\* A match that was scored names its article; one that was not has no alternatives.
MatchSound(m) ==
  IF m.scored
  THEN m.of \in Page /\ m.market \in Market /\ Len(m.restRaw) = Len(m.rest) /\ OwnScores(m)
  ELSE m.rest = <<>>

\* What a check that scored may say.
Verdict(k) ==
  LET clear == {m \in k.scored : Raw[k.page][m] >= Floor}
      match == k.match.market
  IN IF match = NoMarket
     THEN clear = {} /\ (k.scored # {} =>
            Raw[k.page][k.nearest] = Max({Raw[k.page][m] : m \in k.scored}))
     ELSE match \in clear /\ \A m \in clear : Rank[k.page][m] <= Rank[k.page][match]

\* A check searches only when nothing on the shelf has cleared the floor.
CheckSound(k) ==
  /\ k.at \notin {"idle", "extract", "done"} => k.page \in Page
  /\ IsFiniteSet(k.scored) /\ MatchSound(k.match)
  /\ k.at = "search" => {m \in k.scored : Raw[k.page][m] >= Floor} = {}
  /\ k.at \in {"price", "past", "write", "reply"} /\ k.error = "none" => Verdict(k)

PageIInv == PageTypeOK /\ MatchSound(popup.match) /\ \A c \in Check : CheckSound(check[c])

-----------------------------------------------------------------------------
(* Properties *)

\* "No market" is said only when nothing that was scored clears the floor on
\* meaning alone, and then the closest is named; a market is offered only if
\* it clears the floor, and is the best ranked of those that do in the set it
\* came from (attemptMatch, searchAndScore, audit F06).
FloorBeforeRank ==
  \A c \in Check :
    check[c].at \in {"price", "past", "write", "reply"} /\ check[c].error = "none" => Verdict(check[c])

\* However often the featured market and an alternative change places, each
\* keeps its own raw score, the warning goes with it, and a live price is the
\* market's own (buildMatchFromAlternative, audit F20).
ScoresAreTheirOwn == popup.match.scored => OwnScores(popup.match)

\* Where a check stands at one of its Awaits.
NoDeadline == {"extract", "detect", "refresh", "score", "search"}

\* Check c is one the open popup waits for, with its spinner on.
Turns(c) ==
  popup.screen = "loading" /\ check[c].live /\ check[c].at \notin {"idle", "done"}


\* What the Trade tab calls "Matched at 100% confidence" was scored against a
\* page: a market picked from the history is not shown as one.
HistoryPickIsNotScored ==
  popup.match # NoMatch /\ popup.source = "page" => popup.match.scored

\* A gap of a tenth in meaning survives every bonus, as keywordOverlapBonus
\* says of its own: with the caps at 150 it does not.
ClearGapsSurvive ==
  \A p \in Page : \A m, n \in Market : Raw[p][m] >= Raw[p][n] + 100 => Rank[p][m] > Rank[p][n]
=============================================================================
