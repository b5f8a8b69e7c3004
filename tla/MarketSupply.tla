---------------------------- MODULE MarketSupply ----------------------------
(***************************************************************************)
(* How a market reaches the agent.  The cron job pages Gamma's listings    *)
(* (fetchActiveMarkets of packages/core/src/polymarketApi.ts), embeds what *)
(* it found and puts the blob on the Worker (market-cache-builder);        *)
(* WorkerMarketStore of the MCP server reads it, keeps it for a few        *)
(* minutes and shares one load among its callers; check_news matches       *)
(* against it and says when it is too old.                                 *)
(*                                                                         *)
(* Gamma's listings move while they are paged: a market is traded and      *)
(* comes to the front of an ordering.  What the Worker makes of a request  *)
(* is in module Worker; here a request is answered or fails.               *)
(***************************************************************************)
EXTENDS Integers, FiniteSets, FiniteSetsExt, SequencesExt

CONSTANTS
  GammaRow,       \* rows Gamma may list
  PerGame,        \* rows never taken: per-game sports, required fields missing
  Unfit,          \* noise and categorical markets, taken but never embedded
  Listings,       \* what Gamma may list at first: a set of [Order -> sequence]
  Slices,         \* CACHE_SLICES: a sequence of [order, quota], quota of Total
  Total,          \* markets asked for
  MaxMarkets,     \* MAX_MARKETS_CACHE: a blob embeds no more of them
  PageSize,       \* GAMMA_PAGE
  MaxPage,        \* last page below GAMMA_MAX_OFFSET
  FetchAttempts,  \* FETCH_ATTEMPTS
  Passes,         \* attempts of withRetry
  Served,         \* what the Worker may serve at first: blobs of earlier runs
  Job,            \* runs of the cron job
  NewsCall,       \* calls of check_news
  Ttl, MaxAge,    \* CACHE_TTL_MS and MAX_CACHE_AGE_MS in ticks
  MaxNow,         \* bound: last tick
  MaxShifts       \* bound: moves in the listings

\* After the slices comes the backfill from lifetime volume.
Order == {"volumeNum"} \cup {Slices[i].order : i \in DOMAIN Slices}

NoBlob == [builtAt |-> -1, markets |-> <<>>]

\* No fixture, no market that cannot be matched, none twice, not too many.
Clean(blob) ==
  /\ Len(blob.markets) <= MaxMarkets
  /\ \A i \in DOMAIN blob.markets : blob.markets[i] \notin PerGame \cup Unfit
  /\ IsInjective(blob.markets)

ASSUME SupplyAssumption ==
  /\ {Total, MaxMarkets, PageSize, FetchAttempts, Passes} \subseteq Nat \ {0}
  /\ {MaxPage, Ttl, MaxAge, MaxNow, MaxShifts} \subseteq Nat
  /\ Slices \in Seq([order : STRING, quota : Nat \ {0}])
  /\ \A start \in Listings : start \in [Order -> Seq(GammaRow)]
  /\ \A blob \in Served \ {NoBlob} :
       blob \in [builtAt : Int \ {-1}, markets : Seq(GammaRow)] /\ Clean(blob)

VARIABLES
  now,
  listing,   \* order -> the markets Gamma lists, best first
  shifts,    \* how often they moved
  job,       \* run -> where it stands, with the locals of fetchActiveMarkets
  kv,        \* the blob the Worker serves, or NoBlob
  cached,    \* the store: [blob, fetchedAt], or NotCached
  builtAt,   \* the store: builtAt of the last blob it took, or -1
  inFlight,  \* the store: TRUE while a load is out
  call       \* call -> where it stands, the blob it works on, its warning

jobVars == <<job, kv>>
storeVars == <<cached, builtAt, inFlight, call>>
supplyVars == <<now, listing, shifts, jobVars, storeVars>>

NotCached == [blob |-> NoBlob, fetchedAt |-> -1]
NoJob == [at |-> "idle", slice |-> 0, page |-> 0, upTo |-> 0, out |-> <<>>,
          attempt |-> 0, pass |-> 0, builtAt |-> -1, quiet |-> TRUE]

\* A run that is over keeps nothing.
Over(at) == [NoJob EXCEPT !.at = at]

SupplyInit ==
  /\ now = 0
  /\ listing \in Listings
  /\ shifts = 0
  /\ job = [j \in Job |-> NoJob]
  /\ kv \in Served
  /\ cached = NotCached /\ builtAt = -1 /\ inFlight = FALSE
  /\ call = [c \in NewsCall |-> [at |-> "idle", blob |-> NoBlob, flagged |-> FALSE]]

-----------------------------------------------------------------------------
(* The cron job: fetchActiveMarkets, then the model, the blob and the PUT. *)

OrderOf(slice) == IF slice <= Len(Slices) THEN Slices[slice].order ELSE "volumeNum"
UpTo(found, slice) ==
  IF slice <= Len(Slices) THEN Min({Total, Len(found) + Slices[slice].quota}) ELSE Total

\* What a page of an ordering holds now.
Rows(by, page) ==
  LET all == listing[by]
  IN SubSeq(all, page * PageSize + 1, Min({(page + 1) * PageSize, Len(all)}))

\* The k-th of a set of indices, and what a sequence has at the first n.
Nth(I, k) == CHOOSE i \in I : Cardinality({j \in I : j < i}) = k - 1
FirstOf(n, I, seq) == [k \in 1..n |-> seq[Nth(I, k)]]

\* The rows fillFrom takes: no per-game row, none seen before, up to upTo.
Unseen(found, rows) ==
  {i \in DOMAIN rows : /\ rows[i] \notin PerGame \cup ToSet(found)
                       /\ \A j \in 1..i - 1 : rows[j] # rows[i]}
Taken(found, rows, upTo) ==
  LET unseen == Unseen(found, rows)
  IN FirstOf(Min({Cardinality(unseen), upTo - Len(found)}), unseen, rows)

\* Mutant: a slice that came up short is left short.
EnterWithoutBackfill(s, found, slice) ==
  IF Len(found) = Total \/ slice > Len(Slices)
  THEN [NoJob EXCEPT !.at = "model", !.out = found, !.quiet = s.quiet]
  ELSE [s EXCEPT !.at = "page", !.slice = slice, !.page = 0, !.attempt = 0,
                 !.upTo = UpTo(found, slice), !.out = found]

\* The next slice that has room, the backfill after the last, or done.
Enter(s, found, slice) ==
  IF Len(found) = Total \/ slice > Len(Slices) + 1
  THEN [NoJob EXCEPT !.at = "model", !.out = found, !.quiet = s.quiet]
  ELSE [s EXCEPT !.at = "page", !.slice = slice, !.page = 0, !.attempt = 0,
                 !.upTo = UpTo(found, slice), !.out = found]

Pass(s) == Enter([s EXCEPT !.quiet = TRUE], <<>>, 1)

StartJob(j) ==
  /\ job[j].at = "idle"
  /\ job' = [job EXCEPT ![j] = Pass(@)]
  /\ UNCHANGED <<now, listing, shifts, kv, storeVars>>

PageArrives(j) ==
  LET s == job[j]
      rows == Rows(OrderOf(s.slice), s.page)
      found == s.out \o Taken(s.out, rows, s.upTo)
  IN /\ s.at = "page"
     /\ job' = [job EXCEPT ![j] =
                  IF rows = <<>> \/ Len(found) = s.upTo \/ s.page = MaxPage
                  THEN Enter(s, found, s.slice + 1)
                  ELSE [s EXCEPT !.page = @ + 1, !.attempt = 0, !.out = found]]
     /\ UNCHANGED <<now, listing, shifts, kv, storeVars>>

\* Mutant: the pass that starts over is not counted.
PageFailsUncounted(j) ==
  LET s == job[j] IN
  /\ s.at = "page"
  /\ \/ /\ s.attempt < FetchAttempts - 1
        /\ job' = [job EXCEPT ![j].attempt = @ + 1]
     \/ job' = [job EXCEPT ![j] = IF s.pass < Passes - 1 THEN Pass(s) ELSE Over("failed")]
  /\ UNCHANGED <<now, listing, shifts, kv, storeVars>>

\* A 5xx, and a 429 of the job, is tried again; the last attempt, any other
\* status and a fetch that throws end the pass, and withRetry starts over.  Any
\* number of requests may fail: only the attempts and the passes run out.
PageFails(j) ==
  LET s == job[j] IN
  /\ s.at = "page"
  /\ \/ /\ s.attempt < FetchAttempts - 1
        /\ job' = [job EXCEPT ![j].attempt = @ + 1]
     \/ job' = [job EXCEPT ![j] = IF s.pass < Passes - 1 THEN Pass([s EXCEPT !.pass = @ + 1])
                                  ELSE Over("failed")]
  /\ UNCHANGED <<now, listing, shifts, kv, storeVars>>

\* The model is not to be had; withRetry tries again.
ModelFails(j) ==
  LET s == job[j] IN
  /\ s.at = "model"
  /\ job' = [job EXCEPT ![j] = IF s.attempt < Passes - 1 THEN [s EXCEPT !.attempt = @ + 1]
                               ELSE Over("failed")]
  /\ UNCHANGED <<now, listing, shifts, kv, storeVars>>

\* The model is there and buildBlob starts: the blob is dated now.
ModelLoads(j) ==
  /\ job[j].at = "model"
  /\ job' = [job EXCEPT ![j].at = "embed", ![j].builtAt = now]
  /\ UNCHANGED <<now, listing, shifts, kv, storeVars>>

Embeds(j) ==
  /\ job[j].at = "embed"
  /\ job' = [job EXCEPT ![j].at = "put"]
  /\ UNCHANGED <<now, listing, shifts, kv, storeVars>>

Blob(s) ==
  LET fit == {i \in DOMAIN s.out : i <= MaxMarkets /\ s.out[i] \notin Unfit}
  IN [builtAt |-> s.builtAt, markets |-> FirstOf(Cardinality(fit), fit, s.out)]

\* The Worker refuses an empty blob and stores any other as it is; a run whose
\* answer is lost has failed although its blob is served.
Put(j) ==
  LET blob == Blob(job[j]) IN
  /\ job[j].at = "put"
  /\ \/ /\ blob.markets # <<>> /\ kv' = blob
        /\ \E at \in {"done", "failed"} : job' = [job EXCEPT ![j] = Over(at)]
     \/ /\ blob.markets = <<>> /\ job' = [job EXCEPT ![j] = Over("failed")]
        /\ UNCHANGED kv
  /\ UNCHANGED <<now, listing, shifts, storeVars>>

\* An embedding throws or the blob is not stored: main catches, and the run is
\* over.
RunFails(j) ==
  /\ job[j].at \in {"embed", "put"}
  /\ job' = [job EXCEPT ![j] = Over("failed")]
  /\ UNCHANGED <<now, listing, shifts, kv, storeVars>>

-----------------------------------------------------------------------------
(* The store of the MCP server and check_news.                             *)

Fresh == cached # NotCached /\ now - cached.fetchedAt < Ttl

\* getMarkets: answered from the store, or by the one load that is out.
AskNews(c) ==
  /\ call[c].at = "idle"
  /\ \/ /\ Fresh
        /\ call' = [call EXCEPT ![c].at = "match", ![c].blob = cached.blob]
        /\ UNCHANGED inFlight
     \/ /\ ~Fresh
        /\ call' = [call EXCEPT ![c].at = "load"]
        /\ inFlight' = TRUE
  /\ UNCHANGED <<now, listing, shifts, jobVars, cached, builtAt>>

\* The load ends for everyone who waits on it.
Released(at, blob) ==
  [c \in NewsCall |-> IF call[c].at = "load" THEN [call[c] EXCEPT !.at = at, !.blob = blob] ELSE call[c]]

\* Mutant: the data is taken to be as young as the poll.
LoadDatedByThePoll ==
  /\ inFlight /\ kv # NoBlob
  /\ cached' = [blob |-> kv, fetchedAt |-> now]
  /\ builtAt' = now
  /\ call' = Released("match", kv)
  /\ inFlight' = FALSE
  /\ UNCHANGED <<now, listing, shifts, jobVars>>

LoadArrives ==
  /\ inFlight /\ kv # NoBlob
  /\ cached' = [blob |-> kv, fetchedAt |-> now]
  /\ builtAt' = kv.builtAt
  /\ call' = Released("match", kv)
  /\ inFlight' = FALSE
  /\ UNCHANGED <<now, listing, shifts, jobVars>>

\* No blob yet, a blob of another model, an error or the timeout: everyone who
\* waits gets the error, and the next caller loads again.
LoadFails ==
  /\ inFlight
  /\ call' = Released("error", NoBlob)
  /\ inFlight' = FALSE
  /\ UNCHANGED <<now, listing, shifts, jobVars, cached, builtAt>>

\* The text was embedded and matched; the warning is about what the store holds
\* by now.
Answers(c) ==
  /\ call[c].at = "match"
  /\ call' = [call EXCEPT ![c].at = "done", ![c].blob = NoBlob, ![c].flagged = builtAt # -1 /\ now - builtAt > MaxAge]
  /\ UNCHANGED <<now, listing, shifts, jobVars, cached, builtAt, inFlight>>

\* The embedder or the search of the long tail throws.
MatchFails(c) ==
  /\ call[c].at = "match"
  /\ call' = [call EXCEPT ![c].at = "error", ![c].blob = NoBlob]
  /\ UNCHANGED <<now, listing, shifts, jobVars, cached, builtAt, inFlight>>

-----------------------------------------------------------------------------
(* Gamma and the clock.                                                    *)

\* A market is traded and comes to the front of an ordering.
Shift(by, i) ==
  /\ shifts < MaxShifts
  /\ listing' = [listing EXCEPT ![by] = <<@[i]>> \o RemoveAt(@, i)]
  /\ shifts' = shifts + 1
  /\ job' = [j \in Job |-> [job[j] EXCEPT !.quiet = (@ /\ job[j].at # "page")]]
  /\ UNCHANGED <<now, kv, storeVars>>

SupplyTick ==
  /\ now < MaxNow
  /\ now' = now + 1
  /\ UNCHANGED <<listing, shifts, jobVars, storeVars>>

JobStep(j) ==
  \/ StartJob(j) \/ PageArrives(j) \/ PageFails(j)
  \/ ModelLoads(j) \/ ModelFails(j) \/ Embeds(j) \/ Put(j) \/ RunFails(j)
NewsStep(c) == Answers(c) \/ MatchFails(c)

SupplyNext ==
  \/ \E j \in Job : JobStep(j)
  \/ \E c \in NewsCall : AskNews(c) \/ NewsStep(c)
  \/ LoadArrives \/ LoadFails
  \/ \E by \in DOMAIN listing : \E i \in 2..Len(listing[by]) : Shift(by, i)
  \/ SupplyTick

\* Every request ends: by its answer, by the timeout its caller sets, or, for the
\* PUT and the download of the model, by the one Node's fetch has of its own; so
\* does an embedding.  How many of them fail is left open.
SupplySpec ==
  /\ SupplyInit /\ [][SupplyNext]_supplyVars
  /\ \A j \in Job : WF_supplyVars(JobStep(j))
  /\ WF_supplyVars(LoadArrives \/ LoadFails)
  /\ \A c \in NewsCall : WF_supplyVars(NewsStep(c))

-----------------------------------------------------------------------------
(* The types, and what every run and the store keep true of themselves.    *)

Blobs == [builtAt : Int, markets : Seq(GammaRow)]
Runs == [at : {"idle", "page", "model", "embed", "put", "done", "failed"},
         slice : Nat, page : Nat, upTo : Nat, out : Seq(GammaRow), attempt : Nat,
         pass : Nat, builtAt : Int, quiet : BOOLEAN]
Calls == [at : {"idle", "load", "match", "done", "error"}, blob : Blobs, flagged : BOOLEAN]

SupplyTypeOK ==
  /\ now \in Nat /\ shifts \in Nat
  /\ listing \in [Order -> Seq(GammaRow)]
  /\ job \in [Job -> Runs] /\ kv \in Blobs
  /\ cached \in [blob : Blobs, fetchedAt : Int] /\ builtAt \in Int /\ inFlight \in BOOLEAN
  /\ call \in [NewsCall -> Calls]

\* What lifetime volume lists first has been taken.
Covered(found, byVolume, n) ==
  \A i \in DOMAIN byVolume : i <= n => byVolume[i] \in PerGame \cup ToSet(found)

\* A run takes no fixture and no market twice.
Shelf(found) ==
  /\ found \in Seq(GammaRow) /\ IsInjective(found)
  /\ \A i \in DOMAIN found : found[i] \notin PerGame

\* It stops at its slice's limit; the backfill, while nothing moves (still),
\* skips nothing.
RunSound(s, byVolume, still) ==
  /\ Shelf(s.out) /\ Len(s.out) <= Total
  /\ s.at = "page" =>
       /\ s.slice \in 1..Len(Slices) + 1 /\ s.page <= MaxPage
       /\ Len(s.out) <= s.upTo /\ s.upTo <= Total
       /\ s.slice > Len(Slices) => s.upTo = Total
       /\ s.slice > Len(Slices) /\ still => Covered(s.out, byVolume, s.page * PageSize)
  /\ s.at = "model" /\ still /\ Len(s.out) < Total =>
       Covered(s.out, byVolume, (MaxPage + 1) * PageSize)
  /\ s.at \in {"embed", "put"} => s.builtAt \in Nat

JobsSound == \A j \in Job : RunSound(job[j], listing["volumeNum"], shifts = 0)

\* What is served is dated and clean, and so is what was taken from it.
Sound(blob) == blob.builtAt # -1 /\ Clean(blob)

StoreSound ==
  /\ kv # NoBlob => Sound(kv)
  /\ cached # NotCached => Sound(cached.blob) /\ builtAt = cached.blob.builtAt
  /\ \A c \in NewsCall : call[c].at = "match" => cached # NotCached /\ Sound(call[c].blob)

SupplyIInv == SupplyTypeOK /\ JobsSound /\ StoreSound

-----------------------------------------------------------------------------
(* What the supply promises.                                               *)

\* "A thin slice costs coverage of its kind, not the size of the whole cache":
\* a pass that ends short of the total while the listings stood still has taken
\* every market that lifetime volume lists within reach of the offsets.
ThinShelfIsExhausted ==
  \A j \in Job :
    LET s == job[j]
        all == listing["volumeNum"]
        reach == SubSeq(all, 1, Min({Len(all), (MaxPage + 1) * PageSize}))
    IN s.at = "model" /\ s.quiet /\ shifts = 0 /\ Len(s.out) < Total =>
         ToSet(reach) \ PerGame \subseteq ToSet(s.out)

\* "Instead of silently trusting however old the data is, tell the agent": an
\* answer from markets past their age is flagged, unless the store has taken in
\* a younger blob while the answer was computed.
StaleIsTold ==
  [][\A c \in NewsCall :
       call[c].at = "match" /\ call'[c].at = "done" /\ now - call[c].blob.builtAt > MaxAge
         => call'[c].flagged \/ cached.blob.builtAt > call[c].blob.builtAt]_supplyVars

\* Every run of the job ends and every call is answered, however many requests
\* fail: the attempts at a page, the passes and the attempts at the model run
\* out, and a load that fails is not waited for again.
EveryoneFinishes ==
  /\ \A j \in Job : (job[j].at # "idle") ~> (job[j].at \in {"done", "failed"})
  /\ \A c \in NewsCall : (call[c].at # "idle") ~> (call[c].at \in {"done", "error"})
=============================================================================
