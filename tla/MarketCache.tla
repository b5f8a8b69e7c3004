---------------------------- MODULE MarketCache ----------------------------
(***************************************************************************)
(* extension/src: the market cache and the switch of embedding provider    *)
(* (background/cache.ts, background/index.ts SAVE_SETTINGS,                *)
(* background/settings.ts, offscreen/offscreen.ts).                        *)
(*                                                                         *)
(* The service worker saves the settings; on a switch it bumps the cache   *)
(* epoch and clears the cache.  The offscreen document refreshes the       *)
(* cache, one refresh at a time, on behalf of its calls.  The two share    *)
(* only chrome.storage, and interleave at every await.                     *)
(*                                                                         *)
(* A stored embedding is abstracted to the model that computed it.         *)
(***************************************************************************)
EXTENDS Integers, FiniteSets

CONSTANTS
  Call,         \* calls the offscreen document may have open at once
  MarketId,     \* market ids
  Ttl,          \* CACHE_TTL_MINUTES, in ticks
  Cooldown,     \* STALE_REFRESH_RETRY_COOLDOWN_MS, in ticks
  MaxSwitches,  \* bound on the settings saved
  MaxDeaths     \* bound on the deaths of the offscreen document

ASSUME CacheAssumption ==
  /\ MarketId # {}
  /\ {Ttl, Cooldown, MaxSwitches, MaxDeaths} \subseteq Nat

VARIABLES
  provider,   \* storage: settings.embeddingProvider
  cacheEpoch, \* storage
  vectors,    \* storage, marketCache: the model of each market's embedding
  model,      \* storage, marketCacheModel
  age,        \* ticks since marketCacheTs, Missing without one
  saver,      \* the SAVE_SETTINGS under way in the service worker
  switches,
  stage,      \* stage[c]: the await call c is at
  wanted,     \* wanted[c]: the provider in the settings c read
  refresh,    \* refreshInFlight, or NoRefresh
  cooldown,   \* ticks until a failed TTL refresh may be tried again
  late,       \* history: writes of this refresh after a bump it did not see
  deaths

storage == <<provider, cacheEpoch, vectors, model, age>>
worker == <<saver, switches>>
document == <<stage, wanted, refresh, cooldown, late, deaths>>
vars == <<storage, worker, document>>

Provider == {"local", "openai"}
Vectors == [MarketId -> Provider \cup {"none"}]
Empty == [m \in MarketId |-> "none"]
Missing == Ttl + 1
Stored(v) == {m \in MarketId : v[m] # "none"}

Phases == {"epoch", "blob", "blobCheck", "blobWrite", "key", "wipe", "setKey",
           "list", "existing", "embed", "check", "write"}
NoRefresh == [phase |-> "none"]
Refreshes == [phase : Phases, provider : Provider, epoch : 0..MaxSwitches,
              byTtl : BOOLEAN, todo : SUBSET MarketId, merged : Vectors]

CacheTypeOK ==
  /\ provider \in Provider
  /\ cacheEpoch \in 0..MaxSwitches
  /\ vectors \in Vectors
  /\ model \in Provider \cup {"none"}
  /\ age \in 0..Missing
  /\ saver \in [at : {"idle", "save", "bump", "clear"}, to : Provider, switching : BOOLEAN]
  /\ switches \in 0..MaxSwitches
  /\ stage \in [Call -> {"idle", "match", "refresh", "waiting", "waitingMatch", "matched", "ttl"}]
  /\ wanted \in [Call -> Provider]
  /\ refresh \in Refreshes \cup {NoRefresh}
  /\ cooldown \in 0..Cooldown
  /\ late \in Nat
  /\ deaths \in 0..MaxDeaths

Idle(to) == [at |-> "idle", to |-> to, switching |-> FALSE]

CacheInit ==
  /\ provider \in Provider
  /\ cacheEpoch = 0
  /\ vectors = Empty
  /\ model = "none"
  /\ age = Missing
  /\ saver = Idle(provider)
  /\ switches = 0
  /\ stage = [c \in Call |-> "idle"]
  /\ wanted = [c \in Call |-> provider]
  /\ refresh = NoRefresh
  /\ cooldown = 0
  /\ late = 0
  /\ deaths = 0

-----------------------------------------------------------------------------
(* SAVE_SETTINGS in the service worker: the settings it compares with are   *)
(* read first, then merged and saved, then a switch bumps and clears.       *)

SaveSettings(to) ==
  /\ saver.at = "idle"
  /\ switches < MaxSwitches
  /\ saver' = [at |-> "save", to |-> to, switching |-> to # provider]
  /\ switches' = switches + 1
  /\ UNCHANGED <<storage, document>>

Save ==
  /\ saver.at = "save"
  /\ provider' = saver.to
  /\ saver' = IF saver.switching THEN [saver EXCEPT !.at = "bump"] ELSE Idle(saver.to)
  /\ UNCHANGED <<cacheEpoch, vectors, model, age, switches, document>>

bumpCacheEpoch ==
  /\ saver.at = "bump"
  /\ cacheEpoch' = cacheEpoch + 1
  /\ saver' = [saver EXCEPT !.at = "clear"]
  /\ UNCHANGED <<provider, vectors, model, age, switches, document>>

Clear ==
  /\ saver.at = "clear"
  /\ vectors' = Empty
  /\ age' = Missing
  /\ saver' = Idle(saver.to)
  /\ UNCHANGED <<provider, cacheEpoch, model, switches, document>>

-----------------------------------------------------------------------------
(* The calls of the offscreen document.                                     *)

Begun(p, ttl) == [phase |-> "epoch", provider |-> p, epoch |-> 0, byTtl |-> ttl,
                  todo |-> {}, merged |-> Empty]

(* A call joins the refresh in flight, whoever it is for, or starts one.    *)
coordinatedRefresh(c, ttl) ==
  IF refresh = NoRefresh
  THEN refresh' = Begun(wanted[c], ttl) /\ late' = 0
  ELSE refresh' = [refresh EXCEPT !.byTtl = @ \/ ttl] /\ UNCHANGED late

(* OS_RUN_MATCH or OS_REFRESH_CACHE reads the settings. *)
ReadSettings(c, what) ==
  /\ stage[c] = "idle"
  /\ stage' = [stage EXCEPT ![c] = what]
  /\ wanted' = [wanted EXCEPT ![c] = provider]
  /\ UNCHANGED <<storage, worker, refresh, cooldown, late, deaths>>

RefreshCache(c) ==
  /\ stage[c] = "refresh"
  /\ coordinatedRefresh(c, FALSE)
  /\ stage' = [stage EXCEPT ![c] = "waiting"]
  /\ UNCHANGED <<storage, worker, wanted, cooldown, deaths>>

(* A match without a cache waits for a refresh. *)
RunMatch(c) ==
  /\ stage[c] = "match"
  /\ \/ /\ Stored(vectors) = {}
        /\ coordinatedRefresh(c, FALSE)
        /\ stage' = [stage EXCEPT ![c] = "waitingMatch"]
     \/ /\ Stored(vectors) # {}
        /\ stage' = [stage EXCEPT ![c] = "matched"]
        /\ UNCHANGED <<refresh, late>>
  /\ UNCHANGED <<storage, worker, wanted, cooldown, deaths>>

(* Mutant: a match that had a cache never looks at its age.                 *)
NeverRefreshStale(c) ==
  /\ stage[c] = "matched"
  /\ stage' = [stage EXCEPT ![c] = "idle"]
  /\ UNCHANGED <<storage, worker, wanted, refresh, cooldown, late, deaths>>

(* maybeRefreshStale, with the settings the match began with: first what    *)
(* it knows at once, then the age of the cache.                             *)
MaybeRefreshStale(c) ==
  /\ stage[c] = "matched"
  /\ stage' = [stage EXCEPT ![c] = IF refresh # NoRefresh \/ cooldown > 0 THEN "idle" ELSE "ttl"]
  /\ UNCHANGED <<storage, worker, wanted, refresh, cooldown, late, deaths>>

CheckTtl(c) ==
  /\ stage[c] = "ttl"
  /\ stage' = [stage EXCEPT ![c] = "idle"]
  /\ IF age > Ttl THEN coordinatedRefresh(c, TRUE) ELSE UNCHANGED <<refresh, late>>
  /\ UNCHANGED <<storage, worker, wanted, cooldown, deaths>>

-----------------------------------------------------------------------------
(* The refresh.                                                             *)
In(phase) == refresh.phase = phase
Goto(phase) == refresh' = [refresh EXCEPT !.phase = phase]

(* The refresh settles: its callers go on, the TTL's cooldown is kept.      *)
Settles(ok) ==
  /\ refresh' = NoRefresh
  /\ stage' = [c \in Call |->
       CASE stage[c] = "waiting" -> "idle"
         [] stage[c] = "waitingMatch" -> IF ok THEN "matched" ELSE "idle"
         [] OTHER -> stage[c]]
  /\ cooldown' = IF ~refresh.byTtl THEN cooldown ELSE IF ok THEN 0 ELSE Cooldown
  /\ UNCHANGED <<wanted, deaths>>

KeepsCalls == UNCHANGED <<stage, wanted, cooldown, deaths>>

CaptureEpoch ==
  /\ In("epoch")
  /\ refresh' = [refresh EXCEPT !.epoch = cacheEpoch,
                                !.phase = IF refresh.provider = "local" THEN "blob" ELSE "key"]
  /\ KeepsCalls
  /\ UNCHANGED <<storage, worker, late>>

(* The precomputed blob arrives, of the right model and age, or not.        *)
BlobArrives(markets) ==
  /\ In("blob")
  /\ refresh' = [refresh EXCEPT !.phase = "blobCheck",
       !.merged = [m \in MarketId |-> IF m \in markets THEN "local" ELSE "none"]]
  /\ KeepsCalls
  /\ UNCHANGED <<storage, worker, late>>

BlobUnavailable ==
  /\ In("blob")
  /\ Goto("key")
  /\ KeepsCalls
  /\ UNCHANGED <<storage, worker, late>>

(* Mutant: only a refresh from the blob looks at the epoch. *)
CheckEpochBlobOnly ==
  /\ In("blobCheck") \/ In("check")
  /\ \/ /\ cacheEpoch = refresh.epoch \/ In("check")
        /\ Goto(IF In("check") THEN "write" ELSE "blobWrite")
        /\ KeepsCalls
     \/ /\ cacheEpoch # refresh.epoch /\ In("blobCheck")
        /\ Settles(TRUE)
  /\ UNCHANGED <<storage, worker, late>>

(* writeIfCurrentEpoch: a get, then a set; a stale refresh ends as a no-op. *)
CheckEpoch ==
  /\ In("blobCheck") \/ In("check")
  /\ \/ /\ cacheEpoch = refresh.epoch
        /\ Goto(IF In("check") THEN "write" ELSE "blobWrite")
        /\ KeepsCalls
     \/ /\ cacheEpoch # refresh.epoch
        /\ Settles(TRUE)
  /\ UNCHANGED <<storage, worker, late>>

Lateness == IF cacheEpoch = refresh.epoch THEN late ELSE late + 1

WriteBlob ==
  /\ In("blobWrite")
  /\ vectors' = refresh.merged
  /\ model' = "local"
  /\ age' = 0
  /\ late' = Lateness
  /\ Settles(TRUE)
  /\ UNCHANGED <<provider, cacheEpoch, worker>>

(* Mutant: a cache with no model named is taken over as it is. *)
ReadKeyLoose ==
  /\ In("key")
  /\ Goto("list")
  /\ KeepsCalls
  /\ UNCHANGED <<storage, worker, late>>

(* refreshByEmbedding: embeddings of another model are wiped first.         *)
ReadKey ==
  /\ In("key")
  /\ Goto(IF model = refresh.provider THEN "list" ELSE "wipe")
  /\ KeepsCalls
  /\ UNCHANGED <<storage, worker, late>>

Wipe ==
  /\ In("wipe")
  /\ vectors' = Empty
  /\ age' = Missing
  /\ Goto("setKey")
  /\ KeepsCalls
  /\ UNCHANGED <<provider, cacheEpoch, model, worker, late>>

SetKey ==
  /\ In("setKey")
  /\ model' = refresh.provider
  /\ Goto("list")
  /\ KeepsCalls
  /\ UNCHANGED <<provider, cacheEpoch, vectors, age, worker, late>>

(* The active markets arrive. *)
MarketsArrive(markets) ==
  /\ In("list")
  /\ refresh' = [refresh EXCEPT !.phase = "existing", !.todo = markets]
  /\ KeepsCalls
  /\ UNCHANGED <<storage, worker, late>>

(* The stored embeddings of unchanged questions are reused, whatever their  *)
(* model; a question may have changed.                                      *)
ReadExisting(changed) ==
  /\ In("existing")
  /\ LET reused == (refresh.todo \cap Stored(vectors)) \ changed
         todo == refresh.todo \ reused
     IN refresh' = [refresh EXCEPT
          !.merged = [m \in MarketId |-> IF m \in reused THEN vectors[m] ELSE "none"],
          !.todo = todo,
          !.phase = IF todo = {} THEN "check" ELSE "embed"]
  /\ KeepsCalls
  /\ UNCHANGED <<storage, worker, late>>

(* A chunk of one market is embedded. *)
Embed(m) ==
  /\ In("embed")
  /\ m \in refresh.todo
  /\ refresh' = [refresh EXCEPT !.merged[m] = refresh.provider,
                                !.todo = @ \ {m},
                                !.phase = "check"]
  /\ KeepsCalls
  /\ UNCHANGED <<storage, worker, late>>

(* The partial result is stored; the model is not named again.              *)
Write ==
  /\ In("write")
  /\ vectors' = refresh.merged
  /\ age' = 0
  /\ late' = Lateness
  /\ IF refresh.todo = {} THEN Settles(TRUE) ELSE Goto("embed") /\ KeepsCalls
  /\ UNCHANGED <<provider, cacheEpoch, model, worker>>

(* The list or an embedding cannot be had. *)
RefreshFails ==
  /\ In("list") \/ In("embed")
  /\ Settles(FALSE)
  /\ UNCHANGED <<storage, worker, late>>

-----------------------------------------------------------------------------
Tick ==
  /\ age < Missing \/ cooldown > 0
  /\ age' = IF age < Missing THEN age + 1 ELSE age
  /\ cooldown' = IF cooldown > 0 THEN cooldown - 1 ELSE 0
  /\ UNCHANGED <<provider, cacheEpoch, vectors, model, worker, stage, wanted, refresh, late, deaths>>

OffscreenDies ==
  /\ deaths < MaxDeaths
  /\ deaths' = deaths + 1
  /\ refresh' = NoRefresh
  /\ late' = 0
  /\ cooldown' = 0
  /\ stage' = [c \in Call |-> "idle"]
  /\ UNCHANGED <<storage, worker, wanted>>

RefreshStep ==
  \/ CaptureEpoch
  \/ \E ms \in SUBSET MarketId \ {{}} : BlobArrives(ms) \/ MarketsArrive(ms)
  \/ BlobUnavailable
  \/ CheckEpoch \/ WriteBlob
  \/ ReadKey \/ Wipe \/ SetKey
  \/ \E changed \in SUBSET MarketId : ReadExisting(changed)
  \/ \E m \in MarketId : Embed(m)
  \/ Write \/ RefreshFails

CallStep(c) ==
  \/ \E what \in {"match", "refresh"} : ReadSettings(c, what)
  \/ RefreshCache(c) \/ RunMatch(c) \/ MaybeRefreshStale(c) \/ CheckTtl(c)

CacheNext ==
  \/ \E to \in Provider : SaveSettings(to)
  \/ Save \/ bumpCacheEpoch \/ Clear
  \/ \E c \in Call : CallStep(c)
  \/ RefreshStep
  \/ Tick
  \/ OffscreenDies

CacheSpec == CacheInit /\ [][CacheNext]_vars

(* The event loops run what is due, the user keeps checking pages, and the  *)
(* network does not fail forever.                                           *)
CacheFairness ==
  /\ WF_vars(Save) /\ WF_vars(bumpCacheEpoch) /\ WF_vars(Clear)
  /\ \A c \in Call : /\ WF_vars(ReadSettings(c, "match"))
                     /\ WF_vars(RefreshCache(c) \/ RunMatch(c) \/ MaybeRefreshStale(c) \/ CheckTtl(c))
  /\ WF_vars(RefreshStep)
  /\ SF_vars(\E ms \in SUBSET MarketId \ {{}} : MarketsArrive(ms))
  /\ SF_vars(\E m \in MarketId : Embed(m))
  /\ WF_vars(Tick)

FairCacheSpec == CacheSpec /\ CacheFairness

-----------------------------------------------------------------------------
(* The model named in storage is the model of every stored embedding, so a  *)
(* refresh never reuses an embedding of another model (refreshByEmbedding). *)
KeyNamesVectors == \A m \in Stored(vectors) : vectors[m] = model

(* A refresh that did not see a switch gets at most one more write in: the  *)
(* one whose look at the epoch came before it (writeIfCurrentEpoch).        *)
OneStragglerAtMost == late <= 1

(* Why both hold: what a refresh is about to store is of one model, the one *)
(* it has named or will name with it, and an epoch once missed stays missed.*)
EpochsCounted ==
  cacheEpoch + (IF saver.at \in {"save", "bump"} THEN 1 ELSE 0) <= switches
BlobIsLocal ==
  In("blobCheck") \/ In("blobWrite") => \A m \in Stored(refresh.merged) : refresh.merged[m] = "local"
WipedBeforeNaming == In("setKey") => vectors = Empty
RefreshNamed ==
  refresh.phase \in {"list", "existing", "embed", "check", "write"} => model = refresh.provider
MergedNamed ==
  refresh.phase \in {"embed", "check", "write"} =>
    \A m \in Stored(refresh.merged) : refresh.merged[m] = refresh.provider
EpochNotAhead == refresh.phase \notin {"none", "epoch"} => refresh.epoch <= cacheEpoch
LateForGood ==
  late > 0 /\ refresh # NoRefresh =>
    refresh.phase \in {"embed", "check"} /\ refresh.epoch < cacheEpoch

CacheIInv ==
  /\ CacheTypeOK
  /\ KeyNamesVectors /\ OneStragglerAtMost
  /\ EpochsCounted
  /\ BlobIsLocal /\ WipedBeforeNaming /\ RefreshNamed /\ MergedNamed
  /\ EpochNotAhead /\ LateForGood

(* "A refresh started under the OLD provider can never silently write its   *)
(* data back in after a switch" (cacheEpoch in shared/constants.ts): none   *)
(* that began before the last completed switch stores another provider's.   *)
OldProviderNeverLands ==
  [][(WriteBlob \/ Write) /\ saver.at = "idle" /\ refresh.epoch < cacheEpoch
     => refresh.provider = provider]_vars

(* Once the user leaves the settings alone, the cache ends up holding what  *)
(* the chosen provider computed.                                            *)
CacheCatchesUp ==
  <>[](/\ Stored(vectors) # {}
       /\ \A m \in Stored(vectors) : vectors[m] = provider)

=============================================================================
