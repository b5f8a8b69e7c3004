--------------------------- MODULE CheckTabProofs ---------------------------
(***************************************************************************)
(* What the Check tab shows and what it is matched against: MarketCache,   *)
(* for every number of calls, markets, switches and deaths of the          *)
(* offscreen document, and PageCheck, for every set of articles, markets,  *)
(* scores, thresholds, caches, searches and overlapping checks, however    *)
(* the contexts interleave.                                                *)
(***************************************************************************)
EXTENDS MarketCache, PageCheck, SumTheorems, SequenceTheorems

-----------------------------------------------------------------------------
(* The market cache.                                                       *)

LEMMA InitInv == ASSUME CacheAssumption, CacheInit PROVE CacheIInv
<1>1. CacheTypeOK
  BY DEF CacheAssumption, CacheInit, CacheTypeOK, Idle, Empty, Missing, Vectors, Provider,
         NoRefresh
<1>2. Stored(vectors) = {}
  BY DEF CacheInit, Stored, Empty
<1> QED
  BY <1>1, <1>2 DEF CacheInit, CacheIInv, KeyNamesVectors, OneStragglerAtMost, EpochsCounted,
     BlobIsLocal, WipedBeforeNaming, RefreshNamed, MergedNamed, EpochNotAhead, LateForGood,
     NoRefresh, In, Idle

(* A step that leaves the refresh and the cache alone keeps what is said of *)
(* them.                                                                    *)
LEMMA Untouched ==
  ASSUME CacheIInv, UNCHANGED <<refresh, vectors, model, late, cacheEpoch>>,
         CacheTypeOK', EpochsCounted'
  PROVE CacheIInv'
BY DEF CacheIInv, KeyNamesVectors, OneStragglerAtMost, BlobIsLocal, WipedBeforeNaming,
   RefreshNamed, MergedNamed, EpochNotAhead, LateForGood, NoRefresh, In, Stored

(* A refresh that has settled leaves nothing more to keep. *)
LEMMA Settled ==
  ASSUME CacheIInv, refresh' = NoRefresh, CacheTypeOK', EpochsCounted',
         KeyNamesVectors', OneStragglerAtMost'
  PROVE CacheIInv'
BY DEF CacheIInv, BlobIsLocal, WipedBeforeNaming, RefreshNamed, MergedNamed, EpochNotAhead,
   LateForGood, NoRefresh, In

LEMMA RunningRefresh ==
  ASSUME CacheTypeOK, refresh.phase # "none"
  PROVE refresh \in Refreshes
BY DEF CacheTypeOK, NoRefresh

LEMMA WorkerSteps ==
  ASSUME CacheAssumption, CacheIInv,
         (\E to \in Provider : SaveSettings(to)) \/ Save \/ bumpCacheEpoch \/ Clear
  PROVE CacheIInv'
<1>1. CASE \E to \in Provider : SaveSettings(to)
  <2>1. CacheTypeOK' /\ EpochsCounted'
    BY <1>1 DEF CacheAssumption, CacheIInv, CacheTypeOK, EpochsCounted, SaveSettings, storage,
       document
  <2> QED
    BY <1>1, <2>1, Untouched DEF SaveSettings, storage, document
<1>2. CASE Save
  <2>1. CacheTypeOK' /\ EpochsCounted'
    BY <1>2 DEF CacheAssumption, CacheIInv, CacheTypeOK, EpochsCounted, Save, Idle, document
  <2> QED
    BY <1>2, <2>1, Untouched DEF Save, document
<1>3. CASE bumpCacheEpoch
  <2>1. CacheTypeOK' /\ EpochsCounted'
    BY <1>3 DEF CacheAssumption, CacheIInv, CacheTypeOK, EpochsCounted, bumpCacheEpoch, document
  <2>2. EpochNotAhead' /\ LateForGood'
    <3>1. CASE refresh = NoRefresh
      BY <1>3, <3>1 DEF EpochNotAhead, LateForGood, bumpCacheEpoch, document, NoRefresh
    <3>2. CASE refresh # NoRefresh
      <4>1. refresh.epoch \in Int /\ cacheEpoch \in Int
        BY <3>2 DEF CacheIInv, CacheTypeOK, Refreshes, CacheAssumption
      <4> QED
        BY <1>3, <3>2, <4>1 DEF CacheIInv, EpochNotAhead, LateForGood, bumpCacheEpoch, document,
           NoRefresh
    <3> QED
      BY <3>1, <3>2
  <2> QED
    BY <1>3, <2>1, <2>2 DEF CacheIInv, KeyNamesVectors, OneStragglerAtMost, BlobIsLocal,
       WipedBeforeNaming, RefreshNamed, MergedNamed, bumpCacheEpoch, document, In, Stored
<1>4. CASE Clear
  <2>1. CacheTypeOK' /\ EpochsCounted'
    BY <1>4 DEF CacheAssumption, CacheIInv, CacheTypeOK, EpochsCounted, Clear, Idle, document,
       Empty, Vectors, Missing
  <2>2. KeyNamesVectors' /\ WipedBeforeNaming'
    BY <1>4 DEF Clear, KeyNamesVectors, WipedBeforeNaming, Stored, Empty
  <2> QED
    BY <1>4, <2>1, <2>2 DEF CacheIInv, OneStragglerAtMost, BlobIsLocal, RefreshNamed,
       MergedNamed, EpochNotAhead, LateForGood, Clear, document, In, Stored
<1> QED
  BY <1>1, <1>2, <1>3, <1>4

-----------------------------------------------------------------------------
(* Calls start a refresh, or join the one in flight. *)
LEMMA Coordinated ==
  ASSUME CacheAssumption, CacheIInv, NEW c \in Call, NEW ttl \in BOOLEAN,
         coordinatedRefresh(c, ttl), UNCHANGED <<storage, worker, wanted, cooldown, deaths>>,
         stage' \in [Call -> {"idle", "match", "refresh", "waiting", "waitingMatch", "matched", "ttl"}]
  PROVE CacheIInv'
<1>1. EpochsCounted'
  BY DEF CacheIInv, EpochsCounted, storage, worker
<1>2. CASE refresh = NoRefresh
  <2>1. refresh' = Begun(wanted[c], ttl) /\ late' = 0
    BY <1>2 DEF coordinatedRefresh
  <2>2. Begun(wanted[c], ttl) \in Refreshes
    BY DEF CacheAssumption, CacheIInv, CacheTypeOK, Begun, Refreshes, Phases, Empty, Vectors,
       Provider
  <2>3. CacheTypeOK'
    BY <2>1, <2>2 DEF CacheIInv, CacheTypeOK, storage, worker
  <2> QED
    BY <1>1, <2>1, <2>3 DEF CacheIInv, KeyNamesVectors, OneStragglerAtMost, BlobIsLocal,
       WipedBeforeNaming, RefreshNamed, MergedNamed, EpochNotAhead, LateForGood, Begun,
       storage, In, Stored
<1>3. CASE refresh # NoRefresh
  <2>1. refresh \in Refreshes
    BY <1>3 DEF CacheIInv, CacheTypeOK
  <2>2. refresh' = [refresh EXCEPT !.byTtl = @ \/ ttl] /\ late' = late
    BY <1>3 DEF coordinatedRefresh
  <2>3. /\ refresh' \in Refreshes
        /\ refresh'.phase = refresh.phase
        /\ refresh'.provider = refresh.provider
        /\ refresh'.epoch = refresh.epoch
        /\ refresh'.merged = refresh.merged
    BY <2>1, <2>2 DEF Refreshes
  <2>4. CacheTypeOK'
    BY <2>2, <2>3 DEF CacheIInv, CacheTypeOK, storage, worker
  <2> QED
    BY <1>1, <1>3, <2>2, <2>3, <2>4 DEF CacheIInv, KeyNamesVectors, OneStragglerAtMost,
       BlobIsLocal, WipedBeforeNaming, RefreshNamed, MergedNamed, EpochNotAhead, LateForGood,
       storage, In, Stored
<1> QED
  BY <1>2, <1>3

LEMMA CallSteps ==
  ASSUME CacheAssumption, CacheIInv, NEW c \in Call, CallStep(c)
  PROVE CacheIInv'
<1> DEFINE Untouching ==
      /\ UNCHANGED <<storage, worker, refresh, cooldown, late, deaths>>
      /\ stage' \in [Call -> {"idle", "match", "refresh", "waiting", "waitingMatch", "matched", "ttl"}]
      /\ wanted' \in [Call -> Provider]
<1>1. Untouching => CacheIInv'
  <2> HAVE Untouching
  <2>1. CacheTypeOK' /\ EpochsCounted'
    BY DEF CacheIInv, CacheTypeOK, EpochsCounted, storage, worker
  <2> QED
    BY <2>1, Untouched DEF storage
<1>2. CASE \E what \in {"match", "refresh"} : ReadSettings(c, what)
  <2>1. Untouching
    BY <1>2 DEF ReadSettings, CacheIInv, CacheTypeOK
  <2> QED
    BY <1>1, <2>1
<1>3. CASE RefreshCache(c)
  BY <1>3, Coordinated DEF RefreshCache, CacheIInv, CacheTypeOK
<1>4. CASE RunMatch(c)
  <2>1. CASE Stored(vectors) = {}
    BY <1>4, <2>1, Coordinated DEF RunMatch, CacheIInv, CacheTypeOK
  <2>2. CASE Stored(vectors) # {}
    <3>1. Untouching
      BY <1>4, <2>2 DEF RunMatch, CacheIInv, CacheTypeOK
    <3> QED
      BY <1>1, <3>1
  <2> QED
    BY <2>1, <2>2
<1>5. CASE MaybeRefreshStale(c)
  <2>1. Untouching
    BY <1>5 DEF MaybeRefreshStale, CacheIInv, CacheTypeOK
  <2> QED
    BY <1>1, <2>1
<1>6. CASE CheckTtl(c)
  <2>1. CASE age > Ttl
    BY <1>6, <2>1, Coordinated DEF CheckTtl, CacheIInv, CacheTypeOK
  <2>2. CASE ~(age > Ttl)
    <3>1. Untouching
      BY <1>6, <2>2 DEF CheckTtl, CacheIInv, CacheTypeOK
    <3> QED
      BY <1>1, <3>1
  <2> QED
    BY <2>1, <2>2
<1> QED
  BY <1>2, <1>3, <1>4, <1>5, <1>6 DEF CallStep

-----------------------------------------------------------------------------
(* The refresh goes on without touching storage: what is left to show is    *)
(* what its new phase promises.                                             *)
LEMMA RefreshGoesOn ==
  ASSUME CacheAssumption, CacheIInv, KeepsCalls, UNCHANGED <<storage, worker, late>>,
         refresh' \in Refreshes,
         BlobIsLocal', WipedBeforeNaming', RefreshNamed', MergedNamed', EpochNotAhead', LateForGood'
  PROVE CacheIInv'
<1>1. CacheTypeOK' /\ EpochsCounted'
  BY DEF CacheIInv, CacheTypeOK, EpochsCounted, KeepsCalls, storage, worker
<1> QED
  BY <1>1 DEF CacheIInv, KeyNamesVectors, OneStragglerAtMost, storage, Stored

LEMMA SettlesTypes ==
  ASSUME CacheAssumption, CacheTypeOK, NEW ok \in BOOLEAN, Settles(ok)
  PROVE /\ refresh' = NoRefresh
        /\ stage' \in [Call -> {"idle", "match", "refresh", "waiting", "waitingMatch", "matched", "ttl"}]
        /\ cooldown' \in 0..Cooldown
        /\ wanted' = wanted /\ deaths' = deaths
BY DEF CacheAssumption, CacheTypeOK, Settles

(* A refresh that settles without a write. *)
LEMMA EndsQuietly ==
  ASSUME CacheAssumption, CacheIInv, NEW ok \in BOOLEAN, Settles(ok),
         UNCHANGED <<storage, worker, late>>
  PROVE CacheIInv'
<1>1. CacheTypeOK
  BY DEF CacheIInv
<1>2. CacheTypeOK' /\ EpochsCounted'
  BY <1>1, SettlesTypes DEF CacheIInv, CacheTypeOK, EpochsCounted, storage, worker
<1> QED
  BY <1>1, <1>2, Settled, SettlesTypes DEF CacheIInv, KeyNamesVectors, OneStragglerAtMost,
     storage, Stored

-----------------------------------------------------------------------------
(* The steps of a refresh that only look and compute. *)
LEMMA LookingSteps ==
  ASSUME CacheAssumption, CacheIInv,
         \/ CaptureEpoch \/ BlobUnavailable \/ ReadKey
         \/ \E ms \in SUBSET MarketId : BlobArrives(ms) \/ MarketsArrive(ms)
         \/ \E changed \in SUBSET MarketId : ReadExisting(changed)
         \/ \E m \in MarketId : Embed(m)
  PROVE CacheIInv'
<1>1. refresh \in Refreshes
  <2>1. refresh.phase # "none"
    BY DEF CaptureEpoch, BlobUnavailable, ReadKey, BlobArrives, MarketsArrive, ReadExisting,
       Embed, In
  <2> QED
    BY <2>1, RunningRefresh DEF CacheIInv
<1>2. /\ cacheEpoch \in 0..MaxSwitches /\ refresh.epoch \in 0..MaxSwitches
      /\ vectors \in Vectors /\ refresh.merged \in Vectors /\ refresh.provider \in Provider
      /\ refresh.todo \in SUBSET MarketId /\ late \in Nat /\ MaxSwitches \in Nat
  BY <1>1 DEF CacheIInv, CacheTypeOK, Refreshes, CacheAssumption
<1>0. /\ KeyNamesVectors /\ BlobIsLocal /\ WipedBeforeNaming /\ RefreshNamed /\ MergedNamed
      /\ EpochNotAhead /\ LateForGood
  BY DEF CacheIInv
<1>3. refresh # NoRefresh
  BY <1>1 DEF Refreshes, Phases, NoRefresh
<1>4. KeepsCalls /\ UNCHANGED <<storage, worker, late>>
  BY DEF CaptureEpoch, BlobUnavailable, ReadKey, BlobArrives, MarketsArrive, ReadExisting, Embed
<1>5. CASE CaptureEpoch
  <2>1. /\ refresh' \in Refreshes
        /\ refresh'.phase \in {"blob", "key"} /\ refresh'.epoch = cacheEpoch
    BY <1>1, <1>2, <1>5 DEF CaptureEpoch, Refreshes, Phases
  <2>2. late = 0
    BY <1>2, <1>3, <1>5 DEF CaptureEpoch, CacheIInv, LateForGood, In
  <2>3. late' = 0 /\ cacheEpoch' = cacheEpoch
    BY <1>4, <2>2 DEF storage
  <2>4. EpochNotAhead' /\ LateForGood'
    BY <1>2, <2>1, <2>3 DEF EpochNotAhead, LateForGood
  <2> QED
    BY <1>4, <2>1, <2>4, RefreshGoesOn DEF BlobIsLocal, WipedBeforeNaming, RefreshNamed,
       MergedNamed, In
<1>6. CASE BlobUnavailable
  <2>0. refresh.phase = "blob"
    BY <1>6 DEF BlobUnavailable, In
  <2>1. /\ refresh' \in Refreshes
        /\ refresh'.phase = "key" /\ refresh'.epoch = refresh.epoch
    BY <1>1, <1>6 DEF BlobUnavailable, Goto, Refreshes, Phases
  <2>2. late = 0
    BY <1>0, <1>2, <1>3, <2>0 DEF LateForGood
  <2> QED
    BY <1>0, <1>2, <1>4, <2>0, <2>1, <2>2, RefreshGoesOn DEF storage, In,
       BlobIsLocal, WipedBeforeNaming, RefreshNamed, MergedNamed, EpochNotAhead, LateForGood
<1>7. CASE ReadKey
  <2>0. refresh.phase = "key"
    BY <1>7 DEF ReadKey, In
  <2>1. /\ refresh' \in Refreshes
        /\ refresh'.phase = IF model = refresh.provider THEN "list" ELSE "wipe"
        /\ refresh'.epoch = refresh.epoch /\ refresh'.provider = refresh.provider
    BY <1>1, <1>7 DEF ReadKey, Goto, Refreshes, Phases
  <2>2. late = 0
    BY <1>0, <1>2, <1>3, <2>0 DEF LateForGood
  <2> QED
    BY <1>0, <1>2, <1>4, <2>0, <2>1, <2>2, RefreshGoesOn DEF storage, In,
       BlobIsLocal, WipedBeforeNaming, RefreshNamed, MergedNamed, EpochNotAhead, LateForGood
<1>8. CASE \E ms \in SUBSET MarketId : BlobArrives(ms)
  <2>1. PICK ms \in SUBSET MarketId : BlobArrives(ms)
    BY <1>8
  <2>0. refresh.phase = "blob"
    BY <2>1 DEF BlobArrives, In
  <2>2. /\ refresh' \in Refreshes
        /\ refresh'.phase = "blobCheck" /\ refresh'.epoch = refresh.epoch
        /\ refresh'.merged = [m \in MarketId |-> IF m \in ms THEN "local" ELSE "none"]
    BY <1>1, <2>1 DEF BlobArrives, Refreshes, Phases, Vectors, Provider
  <2>3. late = 0
    BY <1>0, <1>2, <1>3, <2>0 DEF LateForGood
  <2>4. BlobIsLocal'
    BY <2>2 DEF BlobIsLocal, Stored
  <2> QED
    BY <1>0, <1>2, <1>4, <2>0, <2>2, <2>3, <2>4, RefreshGoesOn DEF storage, In,
       WipedBeforeNaming, RefreshNamed, MergedNamed, EpochNotAhead, LateForGood
<1>9. CASE \E ms \in SUBSET MarketId : MarketsArrive(ms)
  <2>1. PICK ms \in SUBSET MarketId : MarketsArrive(ms)
    BY <1>9
  <2>0. refresh.phase = "list"
    BY <2>1 DEF MarketsArrive, In
  <2>2. /\ refresh' \in Refreshes
        /\ refresh'.phase = "existing" /\ refresh'.epoch = refresh.epoch
        /\ refresh'.provider = refresh.provider
    BY <1>1, <2>1 DEF MarketsArrive, Refreshes, Phases
  <2>3. late = 0 /\ model = refresh.provider
    BY <1>0, <1>2, <1>3, <2>0 DEF LateForGood, RefreshNamed
  <2> QED
    BY <1>0, <1>2, <1>4, <2>0, <2>2, <2>3, RefreshGoesOn DEF storage, In,
       BlobIsLocal, WipedBeforeNaming, RefreshNamed, MergedNamed, EpochNotAhead, LateForGood
<1>10. CASE \E changed \in SUBSET MarketId : ReadExisting(changed)
  <2>1. PICK changed \in SUBSET MarketId : ReadExisting(changed)
    BY <1>10
  <2>0. refresh.phase = "existing"
    BY <2>1 DEF ReadExisting, In
  <2> DEFINE reused == (refresh.todo \cap Stored(vectors)) \ changed
             todo == refresh.todo \ reused
             merged == [m \in MarketId |-> IF m \in reused THEN vectors[m] ELSE "none"]
             next == [refresh EXCEPT !.merged = merged, !.todo = todo,
                        !.phase = IF todo = {} THEN "check" ELSE "embed"]
  <2>2. refresh' = next
    BY <2>1 DEF ReadExisting
  <2>3. merged \in Vectors /\ todo \in SUBSET MarketId
    BY <1>2 DEF Vectors
  <2> HIDE DEF todo, merged
  <2>4. /\ refresh' \in Refreshes
        /\ refresh'.phase \in {"check", "embed"} /\ refresh'.epoch = refresh.epoch
        /\ refresh'.provider = refresh.provider /\ refresh'.merged = merged
    BY <1>1, <2>2, <2>3 DEF Refreshes, Phases
  <2>5. late = 0 /\ model = refresh.provider
    BY <1>0, <1>2, <1>3, <2>0 DEF LateForGood, RefreshNamed
  <2>6. \A m \in Stored(merged) : merged[m] = model
    BY <1>0 DEF merged, Stored, KeyNamesVectors
  <2>7. MergedNamed'
    BY <2>4, <2>5, <2>6 DEF MergedNamed, Stored
  <2> QED
    BY <1>0, <1>2, <1>4, <2>0, <2>4, <2>5, <2>7, RefreshGoesOn DEF storage, In,
       BlobIsLocal, WipedBeforeNaming, RefreshNamed, EpochNotAhead, LateForGood
<1>11. CASE \E m \in MarketId : Embed(m)
  <2>1. PICK m \in MarketId : Embed(m)
    BY <1>11
  <2>0. refresh.phase = "embed"
    BY <2>1 DEF Embed, In
  <2>2. refresh' = [refresh EXCEPT !.merged = [refresh.merged EXCEPT ![m] = refresh.provider],
                      !.todo = refresh.todo \ {m}, !.phase = "check"]
    BY <1>1, <2>1 DEF Embed, Refreshes
  <2>3. [refresh.merged EXCEPT ![m] = refresh.provider] \in Vectors
    BY <1>2 DEF Vectors
  <2>4. /\ refresh' \in Refreshes
        /\ refresh'.phase = "check" /\ refresh'.epoch = refresh.epoch
        /\ refresh'.provider = refresh.provider
        /\ refresh'.merged = [refresh.merged EXCEPT ![m] = refresh.provider]
    BY <1>1, <1>2, <2>2, <2>3 DEF Refreshes, Phases
  <2>5. MergedNamed'
    BY <1>0, <1>2, <2>0, <2>4 DEF MergedNamed, Stored, Vectors
  <2> QED
    BY <1>0, <1>2, <1>3, <1>4, <2>0, <2>4, <2>5, RefreshGoesOn DEF storage, In,
       BlobIsLocal, WipedBeforeNaming, RefreshNamed, EpochNotAhead, LateForGood
<1> QED
  BY <1>5, <1>6, <1>7, <1>8, <1>9, <1>10, <1>11

-----------------------------------------------------------------------------
(* The steps that write storage, and those that end a refresh. *)
LEMMA CheckEpochInv ==
  ASSUME CacheAssumption, CacheIInv, CheckEpoch
  PROVE CacheIInv'
<1>1. refresh \in Refreshes
  BY RunningRefresh DEF CacheIInv, CheckEpoch, In
<1>2. BlobIsLocal /\ RefreshNamed /\ MergedNamed /\ EpochNotAhead /\ LateForGood
  BY DEF CacheIInv
<1>3. CASE cacheEpoch = refresh.epoch
  <2>1. refresh.phase \in {"blobCheck", "check"}
    BY DEF CheckEpoch, In
  <2>2. /\ Goto(IF In("check") THEN "write" ELSE "blobWrite")
        /\ KeepsCalls /\ UNCHANGED <<storage, worker, late>>
    BY <1>3 DEF CheckEpoch
  <2>3. /\ refresh' \in Refreshes
        /\ refresh'.phase = IF refresh.phase = "check" THEN "write" ELSE "blobWrite"
        /\ refresh'.epoch = refresh.epoch /\ refresh'.provider = refresh.provider
        /\ refresh'.merged = refresh.merged
    BY <1>1, <2>2 DEF Goto, In, Refreshes, Phases
  <2>4. cacheEpoch \in Int /\ refresh.epoch \in Int /\ late \in Nat /\ refresh # NoRefresh
    BY <1>1 DEF CacheIInv, CacheTypeOK, CacheAssumption, Refreshes, Phases, NoRefresh
  <2>5. late = 0
    BY <1>2, <1>3, <2>4 DEF LateForGood
  <2>6. model' = model /\ late' = late /\ cacheEpoch' = cacheEpoch
    BY <2>2 DEF storage
  <2>7. EpochNotAhead' /\ LateForGood'
    BY <1>2, <1>3, <2>1, <2>3, <2>4, <2>5, <2>6 DEF EpochNotAhead, LateForGood
  <2>8. BlobIsLocal' /\ WipedBeforeNaming' /\ RefreshNamed' /\ MergedNamed'
    BY <1>2, <2>1, <2>3, <2>6 DEF BlobIsLocal, WipedBeforeNaming, RefreshNamed, MergedNamed, In,
       Stored
  <2> QED
    BY <2>2, <2>3, <2>7, <2>8, RefreshGoesOn
<1>4. CASE cacheEpoch # refresh.epoch
  BY <1>4, EndsQuietly DEF CheckEpoch
<1> QED
  BY <1>3, <1>4

LEMMA WriteBlobInv ==
  ASSUME CacheAssumption, CacheIInv, WriteBlob
  PROVE CacheIInv'
<1>1. refresh \in Refreshes /\ refresh.phase = "blobWrite"
  BY RunningRefresh DEF CacheIInv, WriteBlob, In
<1>2. BlobIsLocal /\ LateForGood /\ CacheTypeOK /\ EpochsCounted
  BY DEF CacheIInv
<1>3. late = 0
  BY <1>1, <1>2 DEF LateForGood, CacheTypeOK, Refreshes, Phases, NoRefresh
<1>4. /\ vectors' = refresh.merged /\ model' = "local" /\ age' = 0 /\ late' = Lateness
      /\ UNCHANGED <<provider, cacheEpoch, worker>>
  BY DEF WriteBlob
<1>5. CacheTypeOK' /\ EpochsCounted'
  <2>1. /\ refresh' = NoRefresh
        /\ stage' \in [Call -> {"idle", "match", "refresh", "waiting", "waitingMatch", "matched", "ttl"}]
        /\ cooldown' \in 0..Cooldown
        /\ wanted' = wanted /\ deaths' = deaths
    BY <1>2, SettlesTypes DEF WriteBlob
  <2>2. vectors' \in Vectors /\ age' \in 0..Missing /\ late' \in Nat
    BY <1>1, <1>3, <1>4 DEF Refreshes, Missing, CacheAssumption, Lateness
  <2> QED
    BY <1>2, <1>4, <2>1, <2>2 DEF CacheTypeOK, EpochsCounted, worker, Provider
<1>6. KeyNamesVectors' /\ OneStragglerAtMost'
  BY <1>1, <1>2, <1>3, <1>4 DEF KeyNamesVectors, OneStragglerAtMost, BlobIsLocal, In, Stored,
     Lateness
<1>7. refresh' = NoRefresh
  BY DEF WriteBlob, Settles
<1> QED
  BY <1>5, <1>6, <1>7, Settled

LEMMA WipeAndNameInv ==
  ASSUME CacheAssumption, CacheIInv, Wipe \/ SetKey
  PROVE CacheIInv'
<1>1. refresh \in Refreshes /\ refresh.phase \in {"wipe", "setKey"}
  BY RunningRefresh DEF CacheIInv, Wipe, SetKey, In
<1>2. WipedBeforeNaming /\ EpochNotAhead /\ LateForGood /\ CacheTypeOK /\ EpochsCounted
      /\ OneStragglerAtMost
  BY DEF CacheIInv
<1>3. late = 0
  BY <1>1, <1>2 DEF LateForGood, CacheTypeOK, Refreshes, Phases, NoRefresh
<1>4. /\ refresh' \in Refreshes
      /\ refresh'.phase = IF refresh.phase = "wipe" THEN "setKey" ELSE "list"
      /\ refresh'.epoch = refresh.epoch /\ refresh'.provider = refresh.provider
  BY <1>1 DEF Wipe, SetKey, In, Goto, Refreshes, Phases
<1>5. /\ late' = late /\ cacheEpoch' = cacheEpoch /\ KeepsCalls
      /\ UNCHANGED <<provider, worker>>
  BY DEF Wipe, SetKey
<1>6. \/ refresh.phase = "wipe" /\ vectors' = Empty /\ age' = Missing /\ model' = model
      \/ refresh.phase = "setKey" /\ vectors' = vectors /\ age' = age /\ model' = refresh.provider
  BY DEF Wipe, SetKey, In
<1>7. vectors' = Empty
  BY <1>2, <1>6 DEF WipedBeforeNaming, In
<1>8. CacheTypeOK' /\ EpochsCounted'
  BY <1>1, <1>2, <1>4, <1>5, <1>6, <1>7 DEF CacheTypeOK, EpochsCounted, KeepsCalls, worker,
     Refreshes, Empty, Vectors, Missing, CacheAssumption
<1>9. KeyNamesVectors' /\ WipedBeforeNaming'
  BY <1>7 DEF KeyNamesVectors, WipedBeforeNaming, Stored, Empty
<1>10. EpochNotAhead' /\ LateForGood' /\ OneStragglerAtMost'
  BY <1>1, <1>2, <1>3, <1>4, <1>5 DEF EpochNotAhead, LateForGood, OneStragglerAtMost
<1>11. BlobIsLocal' /\ RefreshNamed' /\ MergedNamed'
  BY <1>1, <1>4, <1>6 DEF BlobIsLocal, RefreshNamed, MergedNamed, In
<1> QED
  BY <1>8, <1>9, <1>10, <1>11 DEF CacheIInv

LEMMA WriteInv ==
  ASSUME CacheAssumption, CacheIInv, Write
  PROVE CacheIInv'
<1>1. refresh \in Refreshes /\ refresh.phase = "write"
  BY RunningRefresh DEF CacheIInv, Write, In
<1>2. RefreshNamed /\ MergedNamed /\ EpochNotAhead /\ LateForGood /\ CacheTypeOK /\ EpochsCounted
  BY DEF CacheIInv
<1>3. late = 0
  BY <1>1, <1>2 DEF LateForGood, CacheTypeOK, Refreshes, Phases, NoRefresh
<1>4. /\ vectors' = refresh.merged /\ model' = model /\ age' = 0 /\ late' \in {0, 1}
      /\ cacheEpoch' = cacheEpoch /\ UNCHANGED <<provider, worker>>
      /\ late' = 1 => cacheEpoch # refresh.epoch
  BY <1>3 DEF Write, Lateness
<1>5. KeyNamesVectors' /\ OneStragglerAtMost'
  BY <1>1, <1>2, <1>4 DEF KeyNamesVectors, OneStragglerAtMost, RefreshNamed, MergedNamed, Stored
<1>6. vectors' \in Vectors /\ age' \in 0..Missing /\ EpochsCounted'
  BY <1>1, <1>2, <1>4 DEF Refreshes, Missing, CacheAssumption, EpochsCounted, worker
<1>7. CASE refresh.todo = {}
  <2>1. Settles(TRUE)
    BY <1>7 DEF Write
  <2>2. /\ refresh' = NoRefresh
        /\ stage' \in [Call -> {"idle", "match", "refresh", "waiting", "waitingMatch", "matched", "ttl"}]
        /\ cooldown' \in 0..Cooldown
        /\ wanted' = wanted /\ deaths' = deaths
    BY <1>2, <2>1, SettlesTypes
  <2>3. CacheTypeOK'
    BY <1>2, <1>4, <1>6, <2>2 DEF CacheTypeOK, worker
  <2> QED
    BY <1>5, <1>6, <2>2, <2>3, Settled
<1>8. CASE refresh.todo # {}
  <2>1. Goto("embed") /\ KeepsCalls
    BY <1>8 DEF Write
  <2>2. /\ refresh' \in Refreshes /\ refresh'.phase = "embed"
        /\ refresh'.epoch = refresh.epoch /\ refresh'.provider = refresh.provider
        /\ refresh'.merged = refresh.merged
    BY <1>1, <2>1 DEF Goto, Refreshes, Phases
  <2>3. CacheTypeOK'
    BY <1>2, <1>4, <1>6, <2>1, <2>2 DEF CacheTypeOK, KeepsCalls, worker
  <2>4. cacheEpoch \in Int /\ refresh.epoch \in Int
    BY <1>1, <1>2 DEF CacheTypeOK, CacheAssumption, Refreshes
  <2>5. EpochNotAhead' /\ LateForGood'
    BY <1>1, <1>2, <1>4, <2>2, <2>4 DEF EpochNotAhead, LateForGood
  <2>6. BlobIsLocal' /\ WipedBeforeNaming' /\ RefreshNamed' /\ MergedNamed'
    BY <1>1, <1>2, <1>4, <2>2 DEF BlobIsLocal, WipedBeforeNaming, RefreshNamed, MergedNamed, In,
       Stored
  <2> QED
    BY <1>5, <1>6, <2>3, <2>5, <2>6 DEF CacheIInv
<1> QED
  BY <1>7, <1>8

LEMMA OtherSteps ==
  ASSUME CacheAssumption, CacheIInv, RefreshFails \/ Tick \/ OffscreenDies \/ UNCHANGED vars
  PROVE CacheIInv'
<1>1. CASE RefreshFails
  BY <1>1, EndsQuietly DEF RefreshFails
<1>2. CASE Tick
  <2>1. CacheTypeOK' /\ EpochsCounted'
    BY <1>2 DEF CacheIInv, CacheTypeOK, EpochsCounted, Tick, worker, Missing, CacheAssumption
  <2> QED
    BY <1>2, <2>1, Untouched DEF Tick
<1>3. CASE OffscreenDies
  <2>1. CacheTypeOK' /\ EpochsCounted'
    BY <1>3 DEF CacheIInv, CacheTypeOK, EpochsCounted, OffscreenDies, storage, worker,
       CacheAssumption
  <2>2. KeyNamesVectors' /\ OneStragglerAtMost'
    BY <1>3 DEF CacheIInv, KeyNamesVectors, OneStragglerAtMost, OffscreenDies, storage, Stored
  <2> QED
    BY <1>3, <2>1, <2>2, Settled DEF OffscreenDies
<1>4. CASE UNCHANGED vars
  <2>1. CacheTypeOK' /\ EpochsCounted'
    BY <1>4 DEF CacheIInv, CacheTypeOK, EpochsCounted, vars, storage, worker, document
  <2> QED
    BY <1>4, <2>1, Untouched DEF vars, storage, document
<1> QED
  BY <1>1, <1>2, <1>3, <1>4

LEMMA NextInv == ASSUME CacheAssumption, CacheIInv, [CacheNext]_vars PROVE CacheIInv'
<1>1. CASE (\E to \in Provider : SaveSettings(to)) \/ Save \/ bumpCacheEpoch \/ Clear
  BY <1>1, WorkerSteps
<1>2. CASE \E c \in Call : CallStep(c)
  BY <1>2, CallSteps
<1>3. CASE RefreshStep
  BY <1>3, LookingSteps, CheckEpochInv, WriteBlobInv, WipeAndNameInv, WriteInv, OtherSteps
     DEF RefreshStep
<1>4. CASE Tick \/ OffscreenDies \/ UNCHANGED vars
  BY <1>4, OtherSteps
<1> QED
  BY <1>1, <1>2, <1>3, <1>4 DEF CacheNext

-----------------------------------------------------------------------------
(* The inductive invariant of the market cache. *)
THEOREM CacheInvariance == CacheAssumption => (CacheSpec => []CacheIInv)
<1> SUFFICES ASSUME CacheAssumption PROVE CacheSpec => []CacheIInv
  OBVIOUS
<1>1. CacheInit => CacheIInv
  BY InitInv
<1>2. CacheIInv /\ [CacheNext]_vars => CacheIInv'
  BY NextInv
<1> QED
  BY <1>1, <1>2, PTL DEF CacheSpec

(* However refreshes and switches interleave, every stored embedding is of  *)
(* the model named beside it, so refreshByEmbedding never mixes two.        *)
THEOREM OneModelOnly == CacheAssumption => (CacheSpec => []KeyNamesVectors)
<1> SUFFICES ASSUME CacheAssumption PROVE CacheSpec => []KeyNamesVectors
  OBVIOUS
<1>1. CacheIInv => KeyNamesVectors
  BY DEF CacheIInv
<1> QED
  BY <1>1, CacheInvariance, PTL

(* What the epoch buys: a refresh that missed a switch writes at most once  *)
(* more.                                                                    *)
THEOREM OneStraggler == CacheAssumption => (CacheSpec => []OneStragglerAtMost)
<1> SUFFICES ASSUME CacheAssumption PROVE CacheSpec => []OneStragglerAtMost
  OBVIOUS
<1>1. CacheIInv => OneStragglerAtMost
  BY DEF CacheIInv
<1> QED
  BY <1>1, CacheInvariance, PTL

-----------------------------------------------------------------------------
(* The matcher: scores, the ranking, the match.                            *)

(* What the constants are. *)
LEMMA CheckBounds ==
  ASSUME PageCheckAssumption
  PROVE  /\ Raw \in [Page -> [Market -> Int]] /\ NoMarket \notin Market
         /\ \A p \in Page : IsFiniteSet(Article[p].words) /\ IsFiniteSet(Article[p].numbers)
         /\ \A m \in Market : Question[m].magnitude \in Int /\ Question[m].magnitude >= -6
         /\ \A markets \in Shelves : IsFiniteSet(markets) /\ markets \in SUBSET Market
         /\ Finds \in [Page -> Seq(Market)]
         /\ MaxCandidates \in Nat /\ MaxRelated \in Nat /\ MaxHistory \in Nat /\ MaxMoves \in Nat
         /\ Floor \in Int /\ Confident \in Int
BY DEF PageCheckAssumption

(* A bonus is capped. *)
LEMMA BonusIsCapped == ASSUME NEW bonus \in Nat PROVE Capped(bonus) \in 0..150
<1>1. 150 \in Nat
  OBVIOUS
<1>2. Min({150, bonus}) \in Nat /\ Min({150, bonus}) <= 150
  BY <1>1, MinOfTwo
<1> QED BY <1>2 DEF Capped

(* How far a market may be ranked from what it means. *)
LEMMA RankNearRaw ==
  ASSUME PageCheckAssumption, NEW p \in Page, NEW m \in Market
  PROVE  /\ Raw[p][m] \in Int /\ Rank[p][m] \in Int
         /\ Raw[p][m] - 212 <= Rank[p][m] /\ Rank[p][m] <= Raw[p][m] + 315
<1> DEFINE a == Article[p]
           q == Question[m]
<1>1. /\ Raw[p][m] \in Int /\ IsFiniteSet(a.words) /\ IsFiniteSet(a.numbers)
      /\ q.magnitude \in Int /\ q.magnitude >= -6
  BY CheckBounds
<1> HIDE DEF a, q
<1>2. KeywordBonus(a, q) \in 0..150
  <2> DEFINE shared == {w \in a.words : StemOf[w] \in q.stems}
             plain == {w \in shared : StemOf[w] \in LowValue}
             bonus == 40 * Cardinality(shared \ plain) + 10 * Cardinality(plain)
  <2>1. shared \ plain \in SUBSET a.words /\ plain \in SUBSET a.words
    OBVIOUS
  <2>2. Cardinality(shared \ plain) \in Nat /\ Cardinality(plain) \in Nat
    BY <1>1, <2>1, FS_Subset, FS_CardinalityType
  <2>3. bonus \in Nat
    <3> HIDE DEF shared, plain
    <3> QED BY <2>2
  <2>4. KeywordBonus(a, q) = Capped(bonus)
    BY DEF KeywordBonus
  <2> HIDE DEF bonus
  <2>5. Capped(bonus) \in 0..150
    BY <2>3, BonusIsCapped
  <2> QED BY <2>4, <2>5
<1>3. NumberScore(a, q) \in -50..150
  <2> DEFINE shared == a.numbers \cap q.numbers
             strong == Strong(shared)
             bonus == 80 * Cardinality(strong) + 10 * Cardinality(shared \ strong)
  <2>1. strong \in SUBSET a.numbers /\ shared \ strong \in SUBSET a.numbers
    BY DEF Strong
  <2>2. Cardinality(strong) \in Nat /\ Cardinality(shared \ strong) \in Nat
    BY <1>1, <2>1, FS_Subset, FS_CardinalityType
  <2>3. bonus \in Nat
    <3> HIDE DEF shared, strong
    <3> QED BY <2>2
  <2>4. NumberScore(a, q) \in {Capped(bonus), -50, 0}
    BY DEF NumberScore
  <2> HIDE DEF bonus
  <2>5. Capped(bonus) \in 0..150
    BY <2>3, BonusIsCapped
  <2> QED BY <2>4, <2>5
<1>4. BracketScore(a, q) \in {-50, 0}
  BY DEF BracketScore
<1>5. FarFutureYearScore(a, q) \in {-50, 0}
  BY DEF FarFutureYearScore
<1>6. PriceSubjectScore(a, q) \in {-50, 0}
  BY DEF PriceSubjectScore
<1>7. VolumeBonus(q) \in -12..15
  <2> DEFINE power == q.magnitude
  <2>1. VolumeBonus(q) \in {15, 2 * power} /\ VolumeBonus(q) <= 15
    <3>1. power \in Int /\ \E x \in {15, 2 * power} : \A y \in {15, 2 * power} : x <= y
      <4>1. power \in Int
        BY <1>1
      <4> HIDE DEF power
      <4> QED BY <4>1
    <3> QED BY <3>1 DEF VolumeBonus, Min
  <2>2. power \in Int /\ power >= -6
    BY <1>1
  <2> DEFINE v == VolumeBonus(q)
  <2> HIDE DEF v, power
  <2>3. v \in {15, 2 * power} /\ v <= 15
    BY <2>1 DEF v
  <2>4. v \in -12..15
    BY ONLY <2>2, <2>3
  <2> QED BY <2>4 DEF v
<1>8. Rank[p][m] = Raw[p][m] + KeywordBonus(a, q) + NumberScore(a, q) + BracketScore(a, q)
                     + FarFutureYearScore(a, q) + PriceSubjectScore(a, q) + VolumeBonus(q)
  BY DEF Rank, a, q
<1> DEFINE keyword == KeywordBonus(a, q)
           number == NumberScore(a, q)
           bracket == BracketScore(a, q)
           year == FarFutureYearScore(a, q)
           subject == PriceSubjectScore(a, q)
           volume == VolumeBonus(q)
           meaning == Raw[p][m]
<1>9. /\ keyword \in 0..150 /\ number \in -50..150 /\ bracket \in {-50, 0} /\ year \in {-50, 0}
      /\ subject \in {-50, 0} /\ volume \in -12..15 /\ meaning \in Int
  BY <1>1, <1>2, <1>3, <1>4, <1>5, <1>6, <1>7
<1>10. Rank[p][m] = meaning + keyword + number + bracket + year + subject + volume
  BY <1>8
<1> HIDE DEF keyword, number, bracket, year, subject, volume, meaning
<1> DEFINE bonuses == keyword + number + volume
           penalties == bracket + year + subject
<1>11. bonuses \in Int /\ -62 <= bonuses /\ bonuses <= 315
  BY ONLY <1>9
<1>12. penalties \in Int /\ -150 <= penalties /\ penalties <= 0
  BY ONLY <1>9
<1> DEFINE rank == Rank[p][m]
<1>13. /\ {keyword, number, bracket, year, subject, volume, meaning} \subseteq Int
       /\ rank = meaning + keyword + number + bracket + year + subject + volume
  BY <1>9, <1>10
<1> HIDE DEF rank
<1>14. rank = meaning + bonuses + penalties /\ meaning \in Int
  BY ONLY <1>13
<1> HIDE DEF bonuses, penalties
<1>15. rank \in Int /\ meaning - 212 <= rank /\ rank <= meaning + 315
  BY ONLY <1>11, <1>12, <1>14
<1> QED BY <1>9, <1>15 DEF meaning, rank

(* The members of a finite set can be listed by any score, the highest first. *)
LEMMA BestFirst ==
  ASSUME NEW S, IsFiniteSet(S), NEW score, \A x \in S : score[x] \in Int
  PROVE  \E best \in [1..Cardinality(S) -> S] :
           /\ IsInjective(best)
           /\ \A i, j \in 1..Cardinality(S) : i < j => score[best[i]] >= score[best[j]]
<1> DEFINE n == Cardinality(S)
<1>1. n \in Nat /\ ExistsBijection(1..n, S)
  BY FS_CardinalityType
<1>2. PICK b \in Bijection(1..n, S) : TRUE
  BY <1>1 DEF ExistsBijection
<1> HIDE DEF n
<1>3. b \in [1..n -> S] /\ \A i, j \in 1..n : b[i] = b[j] => i = j
  BY <1>2 DEF Bijection, Injection, IsInjective
<1> DEFINE f == [i \in 1..n |-> 0 - score[b[i]]]
<1>4. \A i \in 1..n : f[i] \in Int /\ f[i] = 0 - score[b[i]] /\ score[b[i]] \in Int
  BY <1>3
<1> HIDE DEF f
<1>5. PICK p : Orders(p, f, n)
  BY <1>1, <1>4, OrderExists
<1>6. /\ p \in [1..n -> 1..n] /\ \A i, j \in 1..n : p[i] = p[j] => i = j
      /\ \A i, j \in 1..n : i < j => f[p[i]] <= f[p[j]]
  BY <1>5 DEF Orders
<1> DEFINE best == [i \in 1..n |-> b[p[i]]]
<1>7. best \in [1..n -> S]
  BY <1>3, <1>6
<1>8. IsInjective(best)
  <2>1. \A i, j \in 1..n : best[i] = best[j] => i = j
    BY <1>3, <1>6
  <2> QED BY <2>1 DEF IsInjective
<1>9. \A i, j \in 1..n : i < j => score[best[i]] >= score[best[j]]
  <2> TAKE i, j \in 1..n
  <2> HAVE i < j
  <2>1. p[i] \in 1..n /\ p[j] \in 1..n /\ f[p[i]] <= f[p[j]]
    BY <1>6
  <2>2. f[p[i]] = 0 - score[b[p[i]]] /\ f[p[j]] = 0 - score[b[p[j]]]
        /\ score[b[p[i]]] \in Int /\ score[b[p[j]]] \in Int
    BY <1>4, <2>1
  <2>3. best[i] = b[p[i]] /\ best[j] = b[p[j]]
    OBVIOUS
  <2> DEFINE si == score[b[p[i]]]
             sj == score[b[p[j]]]
  <2>4. 0 - si <= 0 - sj /\ si \in Int /\ sj \in Int
    BY <2>1, <2>2
  <2> HIDE DEF si, sj
  <2>5. si >= sj
    BY <2>4
  <2> QED BY <2>3, <2>5 DEF si, sj
<1> QED BY <1>7, <1>8, <1>9 DEF n

(* The ranking lists every eligible market once, the best first. *)
LEMMA RankedBest ==
  ASSUME PageCheckAssumption, NEW p \in Page, NEW eligible \in SUBSET Market, IsFiniteSet(eligible)
  PROVE  LET best == Ranked(p, eligible)
             n == Cardinality(eligible)
         IN /\ n \in Nat /\ best \in [1..n -> eligible]
            /\ \A i, j \in 1..n : best[i] = best[j] => i = j
            /\ \A i, j \in 1..n : i < j => Rank[p][best[i]] >= Rank[p][best[j]]
            /\ \A m \in eligible : \E i \in 1..n : best[i] = m
<1> DEFINE n == Cardinality(eligible)
           best == Ranked(p, eligible)
           score == Rank[p]
<1>1. n \in Nat
  BY FS_CardinalityType
<1>2. \A m \in eligible : score[m] \in Int
  BY RankNearRaw
<1>3. \E b \in [1..n -> eligible] : IsInjective(b) /\ \A i, j \in 1..n : i < j => score[b[i]] >= score[b[j]]
  <2> HIDE DEF score
  <2> QED BY <1>2, BestFirst
<1>4. /\ best \in [1..n -> eligible] /\ IsInjective(best)
      /\ \A i, j \in DOMAIN best : i < j => score[best[i]] >= score[best[j]]
  <2>1. \E b \in [1..n -> eligible] :
          IsInjective(b) /\ \A i, j \in DOMAIN b : i < j => score[b[i]] >= score[b[j]]
    BY <1>3
  <2> QED BY <2>1 DEF Ranked
<1>5. DOMAIN best = 1..n
  BY <1>4
<1>6. \A i, j \in 1..n : best[i] = best[j] => i = j
  BY <1>4, <1>5 DEF IsInjective
<1>7. best \in Surjection(1..n, eligible)
  <2>1. best \in Injection(1..n, eligible)
    BY <1>4, <1>5, <1>6 DEF Injection, IsInjective
  <2>2. Cardinality(1..n) = Cardinality(eligible)
    BY <1>1, FS_Interval
  <2> QED BY <2>1, <2>2, FS_Injection
<1>8. \A m \in eligible : \E i \in 1..n : best[i] = m
  BY <1>7 DEF Surjection
<1> QED BY <1>1, <1>4, <1>5, <1>6, <1>8

(* The closest of what was scored is as close as any. *)
LEMMA NearestIsClosest ==
  ASSUME PageCheckAssumption, NEW p \in Page, NEW markets \in SUBSET Market, IsFiniteSet(markets)
  PROVE  /\ Nearest(p, markets) \in AnyMarket
         /\ markets # {} => Raw[p][Nearest(p, markets)] = Max({Raw[p][m] : m \in markets})
<1>1. CASE markets = {}
  BY <1>1 DEF Nearest, AnyMarket
<1>2. CASE markets # {}
  <2> DEFINE n == Cardinality(markets)
             score == Raw[p]
             near == Nearest(p, markets)
  <2>1. \A m \in markets : score[m] \in Int
    BY CheckBounds
  <2> HIDE DEF score
  <2>3. n \in Nat /\ n # 0
    BY <1>2, FS_CardinalityType, FS_EmptySet
  <2>5. \E m \in markets : \A k \in markets : score[k] <= score[m]
    <3>1. PICK b \in [1..n -> markets] : IsInjective(b) /\ \A i, j \in 1..n : i < j => score[b[i]] >= score[b[j]]
      BY <2>1, BestFirst
    <3>2. b \in Surjection(1..n, markets)
      <4>1. b \in Injection(1..n, markets)
        BY <3>1 DEF Injection, IsInjective
      <4>2. Cardinality(1..n) = Cardinality(markets)
        BY <2>3, FS_Interval
      <4> QED BY <4>1, <4>2, FS_Injection
    <3>3. 1 \in 1..n /\ b[1] \in markets
      BY <2>3
    <3>4. ASSUME NEW k \in markets PROVE score[k] <= score[b[1]]
      <4>1. PICK i \in 1..n : b[i] = k
        BY <3>2 DEF Surjection
      <4>2. CASE i = 1
        BY <2>1, <3>3, <4>1, <4>2
      <4>3. CASE i # 1
        <5>1. 1 < i
          BY <2>3, <4>3
        <5>2. score[b[1]] >= score[b[i]]
          BY <3>1, <3>3, <5>1
        <5> QED BY <2>1, <3>3, <4>1, <5>2
      <4> QED BY <4>2, <4>3
    <3> QED BY <3>3, <3>4
  <2>6. near \in markets /\ \A k \in markets : score[k] <= score[near]
    <3>1. near = CHOOSE m \in markets : \A k \in markets : score[k] <= score[m]
      BY <1>2 DEF Nearest, score
    <3> HIDE DEF near
    <3> QED BY <2>5, <3>1
  <2> DEFINE all == {score[m] : m \in markets}
  <2> HIDE DEF near
  <2>7. score[near] \in all /\ \A x \in all : x \in Int /\ score[near] >= x
    BY <2>1, <2>6
  <2>8. Max(all) \in all /\ \A x \in all : Max(all) >= x
    <3> HIDE DEF all
    <3> QED BY <2>7 DEF Max
  <2>9. Max(all) = score[near]
    <3> HIDE DEF all
    <3> QED BY <2>7, <2>8
  <2> QED BY <2>6, <2>9 DEF near, score, AnyMarket
<1> QED BY <1>1, <1>2

(* A search brings markets, and finitely many. *)
LEMMA CandidatesFinite ==
  ASSUME PageCheckAssumption, NEW p \in Page
  PROVE  Candidates[p] \in SUBSET Market /\ IsFiniteSet(Candidates[p])
<1> DEFINE finds == Finds[p]
           binary == {i \in searchMarkets[p] : finds[i] \notin Categorical}
           taken == {i \in binary : Cardinality({j \in binary : j < i}) < MaxCandidates}
           brought == {finds[i] : i \in taken}
<1>1. finds \in Seq(Market) /\ Len(finds) \in Nat /\ DOMAIN finds = 1..Len(finds)
  BY CheckBounds
<1>2. searchMarkets[p] \in SUBSET (DOMAIN finds)
  BY DEF searchMarkets
<1>3. taken \in SUBSET (1..Len(finds))
  BY <1>1, <1>2
<1>4. Candidates[p] = IF Article[p].words = {} THEN {} ELSE brought
  BY DEF Candidates
<1> HIDE DEF taken
<1>5. IsFiniteSet(taken)
  <2>1. IsFiniteSet(1..Len(finds))
    BY <1>1, FS_Interval
  <2> QED BY <1>3, <2>1, FS_Subset
<1>6. \A i \in taken : finds[i] \in Market
  BY <1>1, <1>3
<1> HIDE DEF finds
<1>7. IsFiniteSet(brought)
  <2> DEFINE f == [i \in taken |-> finds[i]]
  <2>1. f \in Surjection(taken, brought)
    BY DEF Surjection
  <2> QED BY <1>5, <2>1, FS_Surjection
<1> QED BY <1>4, <1>6, <1>7, FS_EmptySet

(* The bonuses and penalties of attemptMatch cannot make up for a gap in     *)
(* meaning of 516 thousandths (keywordOverlapBonus, numberOverlapScore and   *)
(* the rest, matcher.ts).                                                    *)
THEOREM WideGapsSurvive ==
  ASSUME NEW p \in Page, NEW m \in Market, NEW n \in Market, Raw[p][m] >= Raw[p][n] + 528
  PROVE  Rank[p][m] > Rank[p][n]
<1> DEFINE a == Raw[p][m]
           b == Raw[p][n]
<1>1. a \in Int /\ Rank[p][m] \in Int /\ a - 212 <= Rank[p][m]
  BY PageCheckAssumption, RankNearRaw
<1>2. b \in Int /\ Rank[p][n] \in Int /\ Rank[p][n] <= b + 315
  BY PageCheckAssumption, RankNearRaw
<1>3. a >= b + 528
  OBVIOUS
<1> HIDE DEF a, b
<1> QED BY <1>1, <1>2, <1>3

(* The match of an article is the best ranked of the eligible markets, with *)
(* the next as alternatives, each with its own score.                       *)
LEMMA MatchOfSound ==
  ASSUME PageCheckAssumption, NEW p \in Page, NEW eligible \in SUBSET Market, IsFiniteSet(eligible),
         eligible # {}
  PROVE  LET match == MatchOf(p, eligible)
         IN /\ match \in Matches /\ MatchSound(match) /\ match # NoMatch
            /\ match.market \in eligible
            /\ \A m \in eligible : Rank[p][m] <= Rank[p][match.market]
<1> DEFINE best == Ranked(p, eligible)
           n == Cardinality(eligible)
           match == MatchOf(p, eligible)
<1>1. /\ n \in Nat /\ best \in [1..n -> eligible]
      /\ \A i, j \in 1..n : best[i] = best[j] => i = j
      /\ \A i, j \in 1..n : i < j => Rank[p][best[i]] >= Rank[p][best[j]]
      /\ \A m \in eligible : \E i \in 1..n : best[i] = m
  BY RankedBest
<1>2. n # 0
  BY FS_EmptySet
<1> HIDE DEF n
<1> DEFINE m1 == best[1]
           last == Min({MaxRelated + 1, Len(best)})
           rest == SubSeq(best, 2, last)
           raw == [i \in DOMAIN rest |-> RawScore(p, rest[i])]
<1>3. match = [market |-> m1, of |-> p, scored |-> TRUE, confidence |-> Raw[p][m1],
               low |-> Raw[p][m1] < Confident, rest |-> rest, restRaw |-> raw, fresh |-> NoMarket]
  BY DEF MatchOf
<1> HIDE DEF best, match
<1>4. 1 \in 1..n /\ m1 \in eligible /\ m1 \in Market
  <2>1. 1 \in 1..n
    BY <1>1, <1>2
  <2>2. best[1] \in eligible
    BY <1>1, <2>1
  <2> QED BY <2>1, <2>2
<1>5. Len(best) = n /\ best \in Seq(Market)
  BY <1>1
<1>6. last \in Nat /\ last <= n
  <2>1. MaxRelated + 1 \in Nat
    BY CheckBounds
  <2> QED BY <1>1, <1>5, <2>1, MinOfTwo
<1> HIDE DEF last
<1>7. /\ rest \in Seq(Market) /\ DOMAIN rest = 1..Len(rest) /\ Len(rest) \in Nat
      /\ \A k \in 1..Len(rest) : k + 1 \in 2..n /\ rest[k] = best[k + 1]
  <2>1. \A i \in 2..last : best[i] \in Market
    BY <1>1, <1>6
  <2>2. /\ rest \in Seq(Market)
        /\ Len(rest) = IF 2 <= last THEN last - 2 + 1 ELSE 0
        /\ \A k \in 1..last - 2 + 1 : rest[k] = best[2 + k - 1]
    BY <1>6, <2>1, SubSeqProperties
  <2>3. Len(rest) \in Nat /\ DOMAIN rest = 1..Len(rest)
    BY <2>2
  <2> HIDE DEF rest
  <2>4. ASSUME NEW k \in 1..Len(rest) PROVE k + 1 \in 2..n /\ rest[k] = best[k + 1]
    <3>1. k \in 1..last - 2 + 1 /\ k + 1 \in 2..n /\ 2 + k - 1 = k + 1
      BY <1>1, <1>6, <2>2, <2>3
    <3> QED BY <2>2, <3>1
  <2> QED BY <2>2, <2>3, <2>4
<1> HIDE DEF rest
<1>8. raw \in Seq(Int) /\ Len(raw) = Len(rest) /\ \A k \in 1..Len(rest) : raw[k] = Raw[p][rest[k]]
  <2>1. \A k \in 1..Len(rest) : RawScore(p, rest[k]) = Raw[p][rest[k]] /\ Raw[p][rest[k]] \in Int
    BY <1>7, CheckBounds DEF RawScore
  <2>2. raw = [k \in 1..Len(rest) |-> RawScore(p, rest[k])]
    BY <1>7
  <2> QED BY <1>7, <2>1, <2>2
<1> HIDE DEF raw
<1>9. Raw[p][m1] \in Int /\ (Raw[p][m1] < Confident) \in BOOLEAN
  BY <1>4, CheckBounds
<1> HIDE DEF m1
<1>10. match \in Matches
  <2> DEFINE low == Raw[p][m1] < Confident
  <2>1. low \in BOOLEAN
    BY <1>9
  <2>2. match = [market |-> m1, of |-> p, scored |-> TRUE, confidence |-> Raw[p][m1],
                 low |-> low, rest |-> rest, restRaw |-> raw, fresh |-> NoMarket]
    BY <1>3
  <2> HIDE DEF low
  <2> QED BY <1>4, <1>7, <1>8, <1>9, <2>1, <2>2 DEF Matches, AnyMarket, AnyPage
<1>11. /\ match.market = m1 /\ match.of = p /\ match.scored = TRUE /\ match.confidence = Raw[p][m1]
       /\ match.low = (Raw[p][m1] < Confident) /\ match.rest = rest /\ match.restRaw = raw
       /\ match.fresh = NoMarket
  BY <1>3
<1>12. \A i, j \in 1..Len(rest) : rest[i] # m1 /\ (rest[i] = rest[j] => i = j)
  <2> TAKE i, j \in 1..Len(rest)
  <2>1. rest[i] = best[i + 1] /\ rest[j] = best[j + 1] /\ i + 1 \in 1..n /\ j + 1 \in 1..n /\ i + 1 # 1
        /\ i \in Nat /\ j \in Nat
    BY <1>1, <1>7
  <2>2. rest[i] # m1
    BY <1>1, <1>4, <2>1 DEF m1
  <2>3. rest[i] = rest[j] => i + 1 = j + 1
    BY <1>1, <2>1
  <2> QED BY <2>1, <2>2, <2>3
<1>13. MatchSound(match)
  <2>1. OwnScores(match)
    <3>1. match.confidence = Raw[match.of][match.market]
      BY <1>11
    <3>2. match.low = (match.confidence < Confident)
      BY <1>11
    <3>3. match.fresh \in {match.market, NoMarket}
      BY <1>11
    <3>4. \A i \in DOMAIN match.rest : match.restRaw[i] = Raw[match.of][match.rest[i]]
      BY <1>7, <1>8, <1>11
    <3>5. \A i, j \in DOMAIN match.rest :
            match.rest[i] # match.market /\ (match.rest[i] = match.rest[j] => i = j)
      BY <1>7, <1>11, <1>12
    <3> QED BY <3>1, <3>2, <3>3, <3>4, <3>5 DEF OwnScores
  <2>2. match.scored /\ match.of \in Page /\ match.market \in Market
        /\ Len(match.restRaw) = Len(match.rest)
    BY <1>4, <1>8, <1>11
  <2> QED BY <2>1, <2>2 DEF MatchSound
<1>14. match # NoMatch
  <2>1. NoMatch.market = NoMarket /\ NoMarket \notin Market
    BY CheckBounds DEF NoMatch
  <2> QED BY <1>4, <1>11, <2>1
<1>15. \A m \in eligible : Rank[p][m] <= Rank[p][m1]
  <2> TAKE m \in eligible
  <2>1. PICK i \in 1..n : best[i] = m
    BY <1>1
  <2>2. Rank[p][m] \in Int /\ Rank[p][m1] \in Int
    BY <1>4, RankNearRaw
  <2>3. CASE i = 1
    BY <2>1, <2>2, <2>3 DEF m1
  <2>4. CASE i # 1
    <3>1. 1 < i
      BY <1>1, <2>4
    <3>2. Rank[p][best[1]] >= Rank[p][best[i]]
      BY <1>1, <1>4, <3>1
    <3> QED BY <2>1, <2>2, <3>2 DEF m1
  <2> QED BY <2>3, <2>4
<1>16. match.market \in eligible /\ \A m \in eligible : Rank[p][m] <= Rank[p][match.market]
  <2>1. match.market = m1
    BY <1>11
  <2> QED BY <1>4, <1>15, <2>1
<1> QED BY <1>10, <1>13, <1>14, <1>16 DEF match

(* What comes to the front of a sequence when its i-th goes. *)
LEMMA InFront ==
  ASSUME NEW S, NEW s \in Seq(S), NEW i \in 1..Len(s), NEW x \in S
  PROVE  LET t == <<x>> \o RemoveAt(s, i)
         IN /\ t \in Seq(S) /\ Len(t) = Len(s) /\ DOMAIN t = 1..Len(s) /\ t[1] = x
            /\ \A k \in 2..Len(s) : t[k] = s[IF k <= i THEN k - 1 ELSE k]
<1> DEFINE front == SubSeq(s, 1, i - 1)
           back == SubSeq(s, i + 1, Len(s))
           n == Len(s)
<1>1. n \in Nat /\ i \in Int /\ 1 <= i /\ i <= n /\ \A k \in 1..n : s[k] \in S
  OBVIOUS
<1>2. /\ front \in Seq(S) /\ Len(front) = i - 1
      /\ \A k \in 1..i - 1 : front[k] = s[k]
  <2>1. \A k \in 1..i - 1 : s[k] \in S
    BY <1>1
  <2>2. /\ front \in Seq(S) /\ Len(front) = IF 1 <= i - 1 THEN i - 1 - 1 + 1 ELSE 0
        /\ \A k \in 1..i - 1 - 1 + 1 : front[k] = s[1 + k - 1]
    <3>1. 1 \in Int /\ i - 1 \in Int
      BY <1>1
    <3> HIDE DEF n
    <3> QED BY ONLY <2>1, <3>1, SubSeqProperties
  <2>3. i - 1 - 1 + 1 = i - 1 /\ \A k \in 1..i - 1 : 1 + k - 1 = k
    BY <1>1
  <2>4. Len(front) = i - 1
    BY <1>1, <2>2
  <2>5. \A k \in 1..i - 1 : front[k] = s[k]
    BY <2>2, <2>3
  <2> QED BY <2>2, <2>4, <2>5
<1>3. /\ back \in Seq(S) /\ Len(back) = n - i
      /\ \A k \in 1..n - i : back[k] = s[i + k]
  <2>1. \A k \in i + 1..n : s[k] \in S
    BY <1>1
  <2>2. /\ back \in Seq(S) /\ Len(back) = IF i + 1 <= n THEN n - (i + 1) + 1 ELSE 0
        /\ \A k \in 1..n - (i + 1) + 1 : back[k] = s[i + 1 + k - 1]
    <3>1. i + 1 \in Int /\ n \in Int
      BY <1>1
    <3> QED BY ONLY <2>1, <3>1, SubSeqProperties
  <2>3. n - (i + 1) + 1 = n - i /\ \A k \in 1..n - i : i + 1 + k - 1 = i + k
    BY <1>1
  <2>4. Len(back) = n - i
    BY <1>1, <2>2
  <2>5. \A k \in 1..n - i : back[k] = s[i + k]
    BY <2>2, <2>3
  <2> QED BY <2>2, <2>4, <2>5
<1> DEFINE others == front \o back
           t == <<x>> \o others
<1>4. <<x>> \o RemoveAt(s, i) = t
  BY DEF RemoveAt
<1> HIDE DEF front, back
<1>5. /\ others \in Seq(S) /\ Len(others) = n - 1
      /\ \A k \in 1..i - 1 : others[k] = s[k]
      /\ \A k \in 1..n - i : others[i - 1 + k] = s[i + k]
  <2>1. /\ others \in Seq(S) /\ Len(others) = Len(front) + Len(back)
        /\ \A k \in 1..Len(front) : others[k] = front[k]
        /\ \A k \in 1..Len(back) : others[Len(front) + k] = back[k]
    <3>1. front \in Seq(S) /\ back \in Seq(S)
      BY <1>2, <1>3
    <3> QED BY ONLY <3>1, Joined, SMTT(30)
  <2> HIDE DEF others
  <2>2. others \in Seq(S) /\ Len(others) = i - 1 + (n - i)
        /\ (\A k \in 1..i - 1 : others[k] = front[k])
        /\ \A k \in 1..n - i : others[i - 1 + k] = back[k]
    BY <1>2, <1>3, <2>1
  <2>3. i - 1 + (n - i) = n - 1
    BY <1>1
  <2> QED BY <1>2, <1>3, <2>2, <2>3
<1> HIDE DEF others
<1>6. /\ t \in Seq(S) /\ Len(t) = n /\ t[1] = x
      /\ \A k \in 1..n - 1 : t[1 + k] = others[k]
  <2>1. <<x>> \in Seq(S) /\ Len(<<x>>) = 1 /\ <<x>>[1] = x
    OBVIOUS
  <2> DEFINE one == <<x>>
  <2> HIDE DEF one, n
  <2>2. one \o others \in Seq(S) /\ Len(one \o others) = 1 + (n - 1) /\ (one \o others)[1] = x
        /\ \A k \in 1..n - 1 : (one \o others)[1 + k] = others[k]
    <3>1. one \in Seq(S) /\ Len(one) = 1 /\ one[1] = x
      BY <2>1 DEF one
    <3>2. /\ one \o others \in Seq(S) /\ Len(one \o others) = Len(one) + Len(others)
          /\ \A k \in 1..Len(one) : (one \o others)[k] = one[k]
          /\ \A k \in 1..Len(others) : (one \o others)[Len(one) + k] = others[k]
      <4>1. one \in Seq(S) /\ others \in Seq(S)
        BY <1>5, <3>1
      <4> QED BY ONLY <4>1, Joined, SMTT(30)
    <3>3. 1 \in 1..1
      OBVIOUS
    <3> QED BY <1>5, <3>1, <3>2, <3>3
  <2>3. 1 + (n - 1) = n
    BY <1>1
  <2> QED BY <2>2, <2>3 DEF one
<1> HIDE DEF t
<1>7. ASSUME NEW k \in 2..n PROVE t[k] = s[IF k <= i THEN k - 1 ELSE k]
  <2>1. k - 1 \in 1..n - 1 /\ 1 + (k - 1) = k
    BY <1>1
  <2>2. t[k] = others[k - 1]
    BY <1>6, <2>1
  <2>3. CASE k <= i
    <3>1. k - 1 \in 1..i - 1
      BY <1>1, <2>3
    <3> QED BY <1>5, <2>2, <2>3, <3>1
  <2>4. CASE ~(k <= i)
    <3>1. k - i \in 1..n - i /\ i - 1 + (k - i) = k - 1 /\ i + (k - i) = k
      BY <1>1, <2>4
    <3>2. others[k - 1] = s[k]
      BY <1>5, <3>1
    <3> QED BY <2>2, <2>4, <3>2
  <2> QED BY <2>3, <2>4
<1>8. DOMAIN t = 1..n
  BY <1>6
<1> QED BY <1>4, <1>6, <1>7, <1>8

(* The match and an alternative change places. *)
Swapped(m, i) ==
  [m EXCEPT !.market = m.rest[i], !.confidence = m.restRaw[i],
            !.low = m.restRaw[i] < Confident,
            !.rest = <<m.market>> \o RemoveAt(m.rest, i),
            !.restRaw = <<m.confidence>> \o RemoveAt(m.restRaw, i),
            !.fresh = NoMarket]

(* Both keep their scores, however often they do. *)
LEMMA SwapSound ==
  ASSUME PageCheckAssumption, NEW m \in Matches, MatchSound(m), NEW i \in DOMAIN m.rest
  PROVE  Swapped(m, i) \in Matches /\ MatchSound(Swapped(m, i))
<1> DEFINE w == Swapped(m, i)
           rest == m.rest
           raw == m.restRaw
           rest2 == <<m.market>> \o RemoveAt(rest, i)
           raw2 == <<m.confidence>> \o RemoveAt(raw, i)
           n == Len(rest)
<1>1. rest \in Seq(Market) /\ raw \in Seq(Int) /\ n \in Nat /\ DOMAIN rest = 1..n /\ i \in 1..n
      /\ m.confidence \in Int
  BY DEF Matches
<1>2. m.scored
  BY <1>1 DEF MatchSound
<1>3. m.of \in Page /\ m.market \in Market /\ Len(raw) = n /\ OwnScores(m)
  BY <1>2 DEF MatchSound
<1>4. /\ m.confidence = Raw[m.of][m.market]
      /\ \A k \in 1..n : raw[k] = Raw[m.of][rest[k]] /\ rest[k] # m.market
      /\ \A k, l \in 1..n : rest[k] = rest[l] => k = l
  BY <1>1, <1>3 DEF OwnScores
<1>5. rest[i] \in Market /\ raw[i] \in Int
  BY <1>1, <1>3
<1> HIDE DEF rest, raw, n
<1>6. /\ rest2 \in Seq(Market) /\ Len(rest2) = n /\ DOMAIN rest2 = 1..n /\ rest2[1] = m.market
      /\ \A k \in 2..n : rest2[k] = rest[IF k <= i THEN k - 1 ELSE k]
  <2>1. rest \in Seq(Market) /\ i \in 1..Len(rest) /\ m.market \in Market
    BY <1>1, <1>3 DEF n
  <2> DEFINE x == m.market
             t == <<x>> \o RemoveAt(rest, i)
  <2>2. x \in Market
    BY <2>1
  <2> HIDE DEF x
  <2>3. /\ t \in Seq(Market) /\ Len(t) = Len(rest) /\ DOMAIN t = 1..Len(rest)
        /\ t[1] = x
        /\ \A k \in 2..Len(rest) : t[k] = rest[IF k <= i THEN k - 1 ELSE k]
    BY ONLY <2>1, <2>2, InFront, SMTT(30)
  <2> QED BY <2>3 DEF n, x
<1>7. /\ raw2 \in Seq(Int) /\ Len(raw2) = n /\ raw2[1] = m.confidence
      /\ \A k \in 2..n : raw2[k] = raw[IF k <= i THEN k - 1 ELSE k]
  <2>1. raw \in Seq(Int) /\ i \in 1..Len(raw) /\ m.confidence \in Int /\ Len(raw) = n
    BY <1>1, <1>3
  <2> DEFINE x == m.confidence
             t == <<x>> \o RemoveAt(raw, i)
             Numbers == Int
  <2>2. x \in Numbers /\ raw \in Seq(Numbers) /\ i \in 1..Len(raw)
    BY <2>1
  <2> HIDE DEF x, Numbers
  <2>3. /\ t \in Seq(Numbers) /\ Len(t) = Len(raw) /\ t[1] = x
        /\ \A k \in 2..Len(raw) : t[k] = raw[IF k <= i THEN k - 1 ELSE k]
    BY ONLY <2>2, InFront, SMTT(30)
  <2> QED BY <2>1, <2>3 DEF x, Numbers
<1> HIDE DEF rest2, raw2
<1> DEFINE low == raw[i] < Confident
<1>8. low \in BOOLEAN
  BY <1>5, CheckBounds
<1>9. w = [m EXCEPT !.market = rest[i], !.confidence = raw[i], !.low = low, !.rest = rest2,
                    !.restRaw = raw2, !.fresh = NoMarket]
  BY DEF Swapped, rest, raw, rest2, raw2
<1> HIDE DEF w
<1>10. w \in Matches
  <2> HIDE DEF low
  <2> QED BY <1>5, <1>6, <1>7, <1>8, <1>9 DEF Matches, AnyMarket
<1>11. /\ w.market = rest[i] /\ w.confidence = raw[i] /\ w.low = low /\ w.rest = rest2
       /\ w.restRaw = raw2 /\ w.fresh = NoMarket /\ w.of = m.of /\ w.scored = m.scored
  <2> HIDE DEF low
  <2> QED BY <1>9 DEF Matches
<1>12. \A k \in 2..n : \E a \in 1..n : /\ a = (IF k <= i THEN k - 1 ELSE k) /\ a # i
                                       /\ rest2[k] = rest[a] /\ raw2[k] = raw[a]
  <2> TAKE k \in 2..n
  <2> DEFINE a == IF k <= i THEN k - 1 ELSE k
  <2>1. a \in 1..n /\ a # i
    BY <1>1
  <2>2. rest2[k] = rest[a] /\ raw2[k] = raw[a]
    BY <1>6, <1>7
  <2> QED BY <2>1, <2>2
<1>13. \A k \in 1..n : k = 1 \/ k \in 2..n
  BY <1>1
<1>14. \A k \in 1..n : raw2[k] = Raw[m.of][rest2[k]] /\ rest2[k] # rest[i]
  <2> TAKE k \in 1..n
  <2>1. CASE k = 1
    BY <1>1, <1>4, <1>6, <1>7, <2>1
  <2>2. CASE k \in 2..n
    <3>1. PICK a \in 1..n : a # i /\ rest2[k] = rest[a] /\ raw2[k] = raw[a]
      BY <1>12, <2>2
    <3> QED BY <1>1, <1>4, <3>1
  <2> QED BY <1>13, <2>1, <2>2
<1>15. \A k, l \in 1..n : rest2[k] = rest2[l] => k = l
  <2>1. \A k \in 2..n : rest2[k] # rest2[1]
    <3> TAKE k \in 2..n
    <3>1. PICK a \in 1..n : rest2[k] = rest[a]
      BY <1>12
    <3> QED BY <1>4, <1>6, <3>1
  <2>2. ASSUME NEW k \in 2..n, NEW l \in 2..n, rest2[k] = rest2[l] PROVE k = l
    <3>1. PICK a \in 1..n : a = (IF k <= i THEN k - 1 ELSE k) /\ a # i /\ rest2[k] = rest[a]
      BY <1>12
    <3>2. PICK b \in 1..n : b = (IF l <= i THEN l - 1 ELSE l) /\ b # i /\ rest2[l] = rest[b]
      BY <1>12
    <3>3. a = b
      <4>1. rest[a] = rest[b]
        BY <2>2, <3>1, <3>2
      <4>2. a \in 1..n /\ b \in 1..n
        OBVIOUS
      <4> QED BY ONLY <1>4, <4>1, <4>2
    <3>4. k \in Int /\ l \in Int /\ i \in Int
      BY <1>1
    <3> QED BY ONLY <3>1, <3>2, <3>3, <3>4
  <2> QED BY <1>13, <2>1, <2>2
<1>16. OwnScores(w)
  <2>1. w.confidence = Raw[w.of][w.market]
    BY <1>1, <1>4, <1>11
  <2>2. w.low = (w.confidence < Confident)
    BY <1>11
  <2>3. w.fresh \in {w.market, NoMarket}
    BY <1>11
  <2>4. \A k \in DOMAIN w.rest : w.restRaw[k] = Raw[w.of][w.rest[k]]
    BY <1>6, <1>11, <1>14
  <2>5. \A k, l \in DOMAIN w.rest : w.rest[k] # w.market /\ (w.rest[k] = w.rest[l] => k = l)
    BY <1>6, <1>11, <1>14, <1>15
  <2> QED BY <2>1, <2>2, <2>3, <2>4, <2>5 DEF OwnScores
<1>17. Len(w.restRaw) = Len(w.rest)
  BY <1>6, <1>7, <1>11
<1>18. w.scored /\ w.of \in Page /\ w.market \in Market
  BY <1>2, <1>3, <1>5, <1>11
<1> QED BY <1>10, <1>16, <1>17, <1>18 DEF MatchSound, w

-----------------------------------------------------------------------------
(* The checks and the popup.                                               *)

(* Another market in a match is a match. *)
LEMMA MatchChanges ==
  ASSUME NEW k \in Matches, NEW m \in AnyMarket, NEW n \in Int
  PROVE  [k EXCEPT !.market = m, !.confidence = n] \in Matches
BY DEF Matches

(* No match, a popup that is shut and a check that has not begun. *)
LEMMA NothingYet ==
  /\ NoMatch \in Matches /\ MatchSound(NoMatch) /\ NoMatch.market = NoMarket
  /\ \A m \in AnyMarket : LET picked == [NoMatch EXCEPT !.market = m, !.confidence = 1000]
                          IN picked \in Matches /\ MatchSound(picked)
  /\ Shut \in Popups /\ Shut.match = NoMatch
  /\ \A at \in {"idle", "extract", "done"}, b \in BOOLEAN :
       LET k == [NewCheck EXCEPT !.at = at, !.mayOffer = b] IN k \in Checks /\ CheckSound(k)
  /\ \A at \in {"idle", "extract", "done"} :
       LET k == [NewCheck EXCEPT !.at = at] IN k \in Checks /\ CheckSound(k)
  /\ NewCheck \in Checks /\ CheckSound(NewCheck)
<1>1. <<>> \in Seq(Market) /\ <<>> \in Seq(Int) /\ <<>> \in Seq(Items)
  OBVIOUS
<1>2. NoMatch \in Matches
  BY <1>1 DEF NoMatch, Matches, AnyMarket, AnyPage
<1>3. NoMatch.market = NoMarket /\ NoMatch.scored = FALSE /\ NoMatch.rest = <<>>
  BY DEF NoMatch
<1>4. MatchSound(NoMatch)
  BY <1>3 DEF MatchSound
<1>5. ASSUME NEW m \in AnyMarket
      PROVE  LET picked == [NoMatch EXCEPT !.market = m, !.confidence = 1000]
             IN picked \in Matches /\ MatchSound(picked)
  <2> DEFINE picked == [NoMatch EXCEPT !.market = m, !.confidence = 1000]
  <2> DEFINE k == NoMatch
             n == 1000
  <2>1. k \in Matches /\ n \in Int
    BY <1>2
  <2> HIDE DEF k, n
  <2>2. [k EXCEPT !.market = m, !.confidence = n] \in Matches
    BY ONLY <2>1, m \in AnyMarket, MatchChanges
  <2> USE DEF k, n
  <2>3. picked.scored = FALSE /\ picked.rest = <<>>
    BY <1>2, <1>3 DEF Matches
  <2> QED BY <2>2, <2>3 DEF MatchSound
<1>6. Shut \in Popups /\ Shut.match = NoMatch
  <2>1. Shut \in Popups
    BY <1>2 DEF Shut, Popups, AnyPage
  <2> QED BY <2>1 DEF Shut
<1>7. NewCheck \in Checks
  <2>1. NewCheck = [at |-> "idle", page |-> "none", live |-> TRUE, mayOffer |-> FALSE, searching |-> FALSE,
                    scored |-> {}, match |-> NoMatch, nearest |-> NoMarket, error |-> "none", past |-> <<>>]
    BY DEF NewCheck
  <2>2. {} \in SUBSET Market /\ NoMarket \in AnyMarket /\ "none" \in AnyPage
    BY DEF AnyMarket, AnyPage
  <2> HIDE DEF NewCheck
  <2> QED BY <1>1, <1>2, <2>1, <2>2 DEF Checks
<1>8. NewCheck.scored = {} /\ NewCheck.match = NoMatch /\ NewCheck.at = "idle"
  BY DEF NewCheck
<1>9. ASSUME NEW k, k.at \in {"idle", "extract", "done"}, k.scored = {}, k.match = NoMatch
      PROVE  CheckSound(k)
  BY <1>4, <1>9, FS_EmptySet DEF CheckSound
<1>10. ASSUME NEW at \in {"idle", "extract", "done"}, NEW b \in BOOLEAN
       PROVE  LET k == [NewCheck EXCEPT !.at = at, !.mayOffer = b] IN k \in Checks /\ CheckSound(k)
  <2> DEFINE k == [NewCheck EXCEPT !.at = at, !.mayOffer = b]
  <2>1. k \in Checks
    BY <1>7 DEF Checks
  <2>2. k.at = at /\ k.scored = {} /\ k.match = NoMatch
    BY <1>7, <1>8 DEF Checks
  <2> HIDE DEF k
  <2>3. CheckSound(k)
    BY <1>9, <2>2
  <2> QED BY <2>1, <2>3 DEF k
<1>11. ASSUME NEW at \in {"idle", "extract", "done"}
       PROVE  LET k == [NewCheck EXCEPT !.at = at] IN k \in Checks /\ CheckSound(k)
  <2> DEFINE k == [NewCheck EXCEPT !.at = at]
  <2>1. k \in Checks
    BY <1>7 DEF Checks
  <2>2. k.at = at /\ k.scored = {} /\ k.match = NoMatch
    BY <1>7, <1>8 DEF Checks
  <2> HIDE DEF k
  <2>3. CheckSound(k)
    BY <1>9, <2>2
  <2> QED BY <2>1, <2>3 DEF k
<1>12. CheckSound(NewCheck)
  BY <1>8, <1>9
<1> QED BY <1>2, <1>3, <1>4, <1>5, <1>6, <1>7, <1>10, <1>11, <1>12

(* What a check becomes is a check. *)
LEMMA CheckChanges ==
  ASSUME NEW k \in Checks, NEW at \in {"idle", "extract", "detect", "translate", "sent", "refresh", "score",
                                       "search", "price", "past", "write", "reply", "done"},
         NEW p \in Page, NEW b \in BOOLEAN, NEW s \in SUBSET Market, NEW m \in Matches,
         NEW e \in {"none", "failed"}, NEW n \in AnyMarket, NEW items \in Seq(Items)
  PROVE  /\ [k EXCEPT !.at = at] \in Checks
         /\ [k EXCEPT !.at = at, !.page = p] \in Checks
         /\ [k EXCEPT !.at = at, !.searching = b] \in Checks
         /\ [k EXCEPT !.at = at, !.scored = s] \in Checks
         /\ [k EXCEPT !.at = at, !.scored = s, !.match = m, !.error = e, !.nearest = n] \in Checks
         /\ [k EXCEPT !.at = at, !.match = m] \in Checks
         /\ [k EXCEPT !.at = at, !.past = items] \in Checks
         /\ [k EXCEPT !.live = b] \in Checks
<1>1. p \in AnyPage
  BY DEF AnyPage
<1>2. [k EXCEPT !.at = at] \in Checks
  BY DEF Checks
<1>3. [k EXCEPT !.at = at, !.page = p] \in Checks
  BY <1>1 DEF Checks
<1>4. [k EXCEPT !.at = at, !.searching = b] \in Checks
  BY DEF Checks
<1>5. [k EXCEPT !.at = at, !.scored = s] \in Checks
  BY DEF Checks
<1>6. [k EXCEPT !.at = at, !.scored = s, !.match = m, !.error = e, !.nearest = n] \in Checks
  BY DEF Checks
<1>7. [k EXCEPT !.at = at, !.match = m] \in Checks
  BY DEF Checks
<1>8. [k EXCEPT !.at = at, !.past = items] \in Checks
  BY DEF Checks
<1>9. [k EXCEPT !.live = b] \in Checks
  BY DEF Checks
<1> QED BY <1>2, <1>3, <1>4, <1>5, <1>6, <1>7, <1>8, <1>9

(* A check that goes on with what it has is as sound as it was. *)
LEMMA CheckMoves ==
  ASSUME NEW k, NEW t, CheckSound(k), t.page = k.page, t.scored = k.scored, t.match = k.match,
         t.nearest = k.nearest, t.error = k.error,
         t.at \notin {"idle", "extract", "done"} => k.at \notin {"idle", "extract", "done"},
         t.at = "search" => k.at = "search",
         t.at \in {"price", "past", "write", "reply"} => k.at \in {"price", "past", "write", "reply"}
  PROVE  CheckSound(t)
<1>1. t.at \notin {"idle", "extract", "done"} => t.page \in Page
  BY DEF CheckSound
<1>2. IsFiniteSet(t.scored) /\ MatchSound(t.match)
  BY DEF CheckSound
<1>3. t.at = "search" => {m \in t.scored : Raw[t.page][m] >= Floor} = {}
  BY DEF CheckSound
<1>4. Verdict(k) => Verdict(t)
  BY DEF Verdict
<1>5. t.at \in {"price", "past", "write", "reply"} /\ t.error = "none" => Verdict(t)
  BY <1>4 DEF CheckSound
<1> QED BY <1>1, <1>2, <1>3, <1>5 DEF CheckSound

(* A check that comes to an outcome says what it may. *)
LEMMA OutcomeSound ==
  ASSUME PageCheckAssumption, NEW k \in Checks, k.page \in Page, NEW scored \in SUBSET Market,
         IsFiniteSet(scored), NEW match \in Matches, MatchSound(match), NEW error \in {"none", "failed"},
         error = "none" =>
           LET clear == {m \in scored : Raw[k.page][m] >= Floor}
           IN \/ match = NoMatch /\ clear = {}
              \/ /\ match # NoMatch /\ match.market \in clear
                 /\ \A m \in clear : Rank[k.page][m] <= Rank[k.page][match.market]
  PROVE  LET t == [k EXCEPT !.at = IF match = NoMatch THEN "reply" ELSE "price",
                            !.scored = scored, !.match = match, !.error = error,
                            !.nearest = IF match = NoMatch THEN Nearest(k.page, scored) ELSE NoMarket]
         IN t \in Checks /\ CheckSound(t)
<1> DEFINE at == IF match = NoMatch THEN "reply" ELSE "price"
           near == IF match = NoMatch THEN Nearest(k.page, scored) ELSE NoMarket
           t == [k EXCEPT !.at = at, !.scored = scored, !.match = match, !.error = error, !.nearest = near]
           clear == {m \in scored : Raw[k.page][m] >= Floor}
<1>1. at \in {"reply", "price"}
  OBVIOUS
<1>2. near \in AnyMarket
  BY NearestIsClosest DEF AnyMarket
<1>3. match = NoMatch => near = Nearest(k.page, scored)
  OBVIOUS
<1> HIDE DEF at, near
<1>4. t \in Checks
  <2>1. at \in {"idle", "extract", "detect", "translate", "sent", "refresh", "score", "search",
                "price", "past", "write", "reply", "done"}
    BY <1>1
  <2> QED BY <1>2, <2>1 DEF Checks
<1>5. t.at = at /\ t.scored = scored /\ t.match = match /\ t.error = error /\ t.nearest = near
      /\ t.page = k.page
  BY DEF Checks
<1> HIDE DEF t
<1>6. error = "none" => Verdict(t)
  <2> SUFFICES ASSUME error = "none" PROVE Verdict(t)
    OBVIOUS
  <2>1. CASE match = NoMatch /\ clear = {}
    <3>1. t.match.market = NoMarket
      BY <1>5, <2>1, NothingYet
    <3>2. scored # {} => Raw[k.page][near] = Max({Raw[k.page][m] : m \in scored})
      BY <1>3, <2>1, NearestIsClosest
    <3> QED BY <1>5, <2>1, <3>1, <3>2 DEF Verdict
  <2>2. CASE match # NoMatch /\ match.market \in clear
             /\ \A m \in clear : Rank[k.page][m] <= Rank[k.page][match.market]
    <3>1. t.match.market \in clear /\ t.match.market # NoMarket
      BY <1>5, <2>2, CheckBounds
    <3> QED BY <1>5, <2>2, <3>1 DEF Verdict
  <2> QED BY <2>1, <2>2
<1>7. CheckSound(t)
  <2>1. t.at # "search"
    BY <1>1, <1>5
  <2>2. t.page \in Page /\ IsFiniteSet(t.scored) /\ MatchSound(t.match)
    BY <1>5
  <2> QED BY <1>5, <1>6, <2>1, <2>2 DEF CheckSound
<1> QED BY <1>4, <1>7 DEF t, at, near

(* One check goes on. *)
LEMMA OneCheck ==
  ASSUME PageIInv, NEW c \in Check, NEW t \in Checks, CheckSound(t), check' = [check EXCEPT ![c] = t]
  PROVE  check' \in [Check -> Checks] /\ \A d \in Check : CheckSound(check'[d])
<1>1. check \in [Check -> Checks] /\ \A d \in Check : CheckSound(check[d])
  BY DEF PageIInv, PageTypeOK
<1>2. \A d \in Check : check'[d] = IF d = c THEN t ELSE check[d]
  BY <1>1
<1>3. check' \in [Check -> Checks]
  BY <1>1
<1>4. \A d \in Check : CheckSound(check'[d])
  BY <1>1, <1>2
<1> QED BY <1>3, <1>4

(* Before any check. *)
LEMMA PageInitInv == ASSUME PageCheckAssumption, PageCheckInit PROVE PageIInv
<1>1. check = [c \in Check |-> NewCheck] /\ popup = Shut
  BY DEF PageCheckInit
<1>2. check \in [Check -> Checks] /\ \A c \in Check : CheckSound(check[c])
  BY <1>1, NothingYet, ZenonT(40)
<1>3. popup \in Popups /\ MatchSound(popup.match)
  BY <1>1, NothingYet
<1>4. page \in Page /\ shelf \in Shelves /\ ended \in SUBSET Market /\ picking \in AnyMarket
      /\ history \in Seq(Items) /\ moves \in Nat
  BY DEF PageCheckInit, AnyMarket
<1>5. search \in BOOLEAN /\ offer \in BOOLEAN
  BY DEF PageCheckInit
<1> QED BY <1>2, <1>3, <1>4, <1>5 DEF PageIInv, PageTypeOK

(* Nothing but the popup and what is around it moves. *)
LEMMA ChecksStay ==
  ASSUME PageIInv, UNCHANGED check, page' \in Page, search' \in BOOLEAN, offer' \in BOOLEAN,
         shelf' \in Shelves, ended' \in SUBSET Market, picking' \in AnyMarket,
         popup' \in Popups, MatchSound(popup'.match), history' \in Seq(Items), moves' \in Nat
  PROVE  PageIInv'
BY DEF PageIInv, PageTypeOK

(* A check, and nothing around it but the popup and the history. *)
LEMMA CheckGoesOn ==
  ASSUME PageIInv, NEW c \in Check, NEW t \in Checks, CheckSound(t), check' = [check EXCEPT ![c] = t],
         UNCHANGED <<page, ended, picking>>, search' \in BOOLEAN, offer' \in BOOLEAN, shelf' \in Shelves,
         popup' \in Popups, MatchSound(popup'.match), history' \in Seq(Items), moves' \in Nat
  PROVE  PageIInv'
<1>1. check' \in [Check -> Checks] /\ \A d \in Check : CheckSound(check'[d])
  BY OneCheck
<1> QED BY <1>1 DEF PageIInv, PageTypeOK

(* What the environment does is counted. *)
LEMMA MoveCounts == ASSUME moves \in Nat, Move PROVE moves' \in Nat
BY DEF Move

(* The parts of the invariant by name. *)
LEMMA PageFacts ==
  ASSUME PageIInv
  PROVE  /\ page \in Page /\ search \in BOOLEAN /\ offer \in BOOLEAN
         /\ shelf \in Shelves /\ ended \in SUBSET Market /\ picking \in AnyMarket
         /\ popup \in Popups /\ popup.match \in Matches /\ MatchSound(popup.match)
         /\ history \in Seq(Items) /\ moves \in Nat /\ check \in [Check -> Checks]
         /\ \A c \in Check : check[c] \in Checks /\ CheckSound(check[c])
<1>1. popup \in Popups => popup.match \in Matches
  BY DEF Popups
<1> QED BY <1>1 DEF PageIInv, PageTypeOK

(* The button, the offer to search and the way back. *)
LEMMA PopupInv ==
  ASSUME PageCheckAssumption, PageIInv,
         OpenPopup \/ DismissOffer \/ Back \/ PickRelated \/ PickHistory \/ Picked \/ ClearHistory
  PROVE  PageIInv'
<1>1. CASE OpenPopup
  <2>1. popup' = [popup EXCEPT !.open = TRUE] /\ UNCHANGED <<world, settings, picking, check, history>>
    BY <1>1 DEF OpenPopup
  <2>2. [popup EXCEPT !.open = TRUE] \in Popups /\ [popup EXCEPT !.open = TRUE].match = popup.match
    BY PageFacts DEF Popups
  <2> QED BY <2>1, <2>2, PageFacts, ChecksStay DEF world, settings
<1>2. CASE DismissOffer
  <2>1. /\ popup' = [popup EXCEPT !.offering = FALSE] /\ offer' = FALSE
        /\ UNCHANGED <<world, search, picking, check, history>>
    BY <1>2 DEF DismissOffer
  <2>2. [popup EXCEPT !.offering = FALSE] \in Popups
        /\ [popup EXCEPT !.offering = FALSE].match = popup.match
    BY PageFacts DEF Popups
  <2>3. offer' \in BOOLEAN
    BY <2>1, Zenon
  <2> QED BY <2>1, <2>2, <2>3, PageFacts, ChecksStay DEF world
<1>3. CASE Back
  <2>1. /\ popup' = [popup EXCEPT !.screen = "idle", !.offering = FALSE]
        /\ UNCHANGED <<world, settings, picking, check, history>>
    BY <1>3 DEF Back
  <2>2. /\ [popup EXCEPT !.screen = "idle", !.offering = FALSE] \in Popups
        /\ [popup EXCEPT !.screen = "idle", !.offering = FALSE].match = popup.match
    BY PageFacts DEF Popups
  <2> QED BY <2>1, <2>2, PageFacts, ChecksStay DEF world, settings
<1>4. CASE PickRelated
  <2>1. PICK i \in DOMAIN popup.match.rest :
          /\ popup' = [popup EXCEPT !.match = Swapped(popup.match, i)]
          /\ UNCHANGED <<world, settings, picking, check, history>>
    BY <1>4 DEF PickRelated, Swapped
  <2> DEFINE m == Swapped(popup.match, i)
  <2>2. m \in Matches /\ MatchSound(m)
    BY PageFacts, SwapSound
  <2> HIDE DEF m
  <2>3. [popup EXCEPT !.match = m] \in Popups /\ [popup EXCEPT !.match = m].match = m
    BY <2>2, PageFacts DEF Popups
  <2>4. popup' = [popup EXCEPT !.match = m]
    BY <2>1 DEF m
  <2> QED BY <2>1, <2>2, <2>3, <2>4, PageFacts, ChecksStay DEF world, settings
<1>5. CASE PickHistory
  <2>1. PICK i \in DOMAIN history : picking' = history[i].market
    BY <1>5 DEF PickHistory
  <2>2. Move /\ UNCHANGED <<page, shelf, ended, settings, popup, check, history>>
    BY <1>5 DEF PickHistory
  <2>3. history[i] \in Items
    BY PageFacts
  <2>4. picking' \in AnyMarket
    BY <2>1, <2>3 DEF Items
  <2>5. moves' \in Nat
    BY <2>2, PageFacts, MoveCounts
  <2> QED BY <2>2, <2>4, <2>5, PageFacts, ChecksStay DEF settings
<1>6. CASE Picked
  <2>1. picking' = NoMarket /\ UNCHANGED <<world, settings, check, history>>
        /\ \/ popup' = [popup EXCEPT !.match = [NoMatch EXCEPT !.market = picking, !.confidence = 1000],
                                     !.headline = "none", !.source = "history"]
           \/ popup' = popup
    BY <1>6 DEF Picked
  <2>2. picking' \in AnyMarket
    BY <2>1 DEF AnyMarket
  <2> DEFINE m == [NoMatch EXCEPT !.market = picking, !.confidence = 1000]
  <2>3. m \in Matches /\ MatchSound(m)
    BY PageFacts, NothingYet, ZenonT(40)
  <2>4. popup' \in {[popup EXCEPT !.match = m, !.headline = "none", !.source = "history"], popup}
    BY <2>1
  <2> HIDE DEF m
  <2>5. "none" \in AnyPage
    BY DEF AnyPage
  <2>6. /\ [popup EXCEPT !.match = m, !.headline = "none", !.source = "history"] \in Popups
        /\ [popup EXCEPT !.match = m, !.headline = "none", !.source = "history"].match = m
    BY <2>3, <2>5, PageFacts DEF Popups
  <2>7. popup' \in Popups /\ MatchSound(popup'.match)
    BY <2>3, <2>4, <2>6, PageFacts
  <2> QED BY <2>1, <2>2, <2>7, PageFacts, ChecksStay DEF world, settings
<1>7. CASE ClearHistory
  <2>1. history' = <<>> /\ Move /\ UNCHANGED <<page, shelf, ended, settings, popup, picking, check>>
    BY <1>7 DEF ClearHistory
  <2>2. history' \in Seq(Items)
    BY <2>1
  <2>3. moves' \in Nat
    BY <2>1, PageFacts, MoveCounts
  <2> QED BY <2>1, <2>2, <2>3, PageFacts, ChecksStay DEF settings
<1> QED BY <1>1, <1>2, <1>3, <1>4, <1>5, <1>6, <1>7

(* The tab, the markets and the cache move by themselves, or the popup closes. *)
LEMMA WorldInv ==
  ASSUME PageCheckAssumption, PageIInv, ClosePopup \/ Navigate \/ MarketEnds \/ Restock
  PROVE  PageIInv'
<1>1. CASE ClosePopup
  <2>1. /\ popup' = Shut /\ picking' = NoMarket /\ Move
        /\ check' = [c \in Check |->
             IF check[c].at \in {"extract", "detect", "translate"} THEN [NewCheck EXCEPT !.at = "done"]
             ELSE [check[c] EXCEPT !.live = check[c].at = "idle"]]
        /\ UNCHANGED <<page, shelf, ended, settings, history>>
    BY <1>1 DEF ClosePopup
  <2>2. ASSUME NEW c \in Check PROVE check'[c] \in Checks /\ CheckSound(check'[c])
    <3>1. CASE check[c].at \in {"extract", "detect", "translate"}
      <4>1. check'[c] = [NewCheck EXCEPT !.at = "done"]
        BY <2>1, <3>1
      <4> QED BY <4>1, NothingYet, ZenonT(40)
    <3>2. CASE check[c].at \notin {"extract", "detect", "translate"}
      <4> DEFINE k == check[c]
                 live == k.at = "idle"
                 t == [k EXCEPT !.live = live]
      <4>1. k \in Checks /\ CheckSound(k)
        BY PageFacts
      <4>2. live \in BOOLEAN
        OBVIOUS
      <4>3. check'[c] = t
        BY <2>1, <3>2
      <4> HIDE DEF k, live
      <4>4. t \in Checks /\ t.at = k.at /\ t.page = k.page /\ t.scored = k.scored
            /\ t.match = k.match /\ t.nearest = k.nearest /\ t.error = k.error
        BY <4>1, <4>2 DEF Checks
      <4> HIDE DEF t
      <4>5. CheckSound(t)
        BY <4>1, <4>4, CheckMoves
      <4> QED BY <4>3, <4>4, <4>5
    <3> QED BY <3>1, <3>2
  <2>3. check' \in [Check -> Checks]
    <3>1. check' = [c \in Check |-> check'[c]]
      BY <2>1
    <3> QED BY <2>2, <3>1
  <2>4. popup' \in Popups /\ MatchSound(popup'.match) /\ picking' \in AnyMarket
    BY <2>1, NothingYet DEF AnyMarket
  <2>5. moves' \in Nat
    BY <2>1, PageFacts, MoveCounts
  <2> QED BY <2>1, <2>2, <2>3, <2>4, <2>5, PageFacts DEF settings, PageIInv, PageTypeOK
<1>2. CASE Navigate
  <2>1. Move /\ page' \in Page /\ UNCHANGED <<shelf, ended, settings, popup, picking, check, history>>
    BY <1>2 DEF Navigate
  <2>2. moves' \in Nat
    BY <2>1, PageFacts, MoveCounts
  <2> QED BY <2>1, <2>2, PageFacts, ChecksStay DEF settings
<1>3. CASE MarketEnds
  <2>1. Move /\ UNCHANGED <<page, shelf, settings, popup, picking, check, history>>
    BY <1>3 DEF MarketEnds
  <2>2. ended' \in SUBSET Market
    BY <1>3, PageFacts DEF MarketEnds
  <2>3. moves' \in Nat
    BY <2>1, PageFacts, MoveCounts
  <2> QED BY <2>1, <2>2, <2>3, PageFacts, ChecksStay DEF settings
<1>4. CASE Restock
  <2>1. Move /\ shelf' \in Shelves /\ UNCHANGED <<page, ended, settings, popup, picking, check, history>>
    BY <1>4 DEF Restock
  <2>2. moves' \in Nat
    BY <2>1, PageFacts, MoveCounts
  <2> QED BY <2>1, <2>2, PageFacts, ChecksStay DEF settings
<1> QED BY <1>1, <1>2, <1>3, <1>4

(* A check begins, reads the page, is translated and sent, or throws. *)
LEMMA BeginInv ==
  ASSUME PageCheckAssumption, PageIInv, NEW c \in Check,
         \/ Start(c) \/ EnableSearch(c) \/ Extract(c) \/ Detect(c) \/ Translate(c)
         \/ CheckThrows(c)
  PROVE  PageIInv'
<1> DEFINE k == check[c]
<1>1. k \in Checks /\ CheckSound(k)
  BY PageFacts
<1>2. CASE Start(c) \/ EnableSearch(c)
  <2> DEFINE may == ~search /\ offer
             t == [NewCheck EXCEPT !.at = "extract", !.mayOffer = may]
             p == [popup EXCEPT !.screen = "loading", !.offering = FALSE]
  <2>1. check' = [check EXCEPT ![c] = t] /\ popup' = p /\ UNCHANGED <<world, offer, picking, history>>
    BY <1>2 DEF Start, EnableSearch, Begin, settings
  <2>2. search' = search \/ search' = TRUE
    BY <1>2 DEF Start, EnableSearch, settings
  <2>3. search' \in BOOLEAN
    <3>1. search \in BOOLEAN
      BY PageFacts
    <3> QED BY <2>2, <3>1, Zenon
  <2>4. may \in BOOLEAN
    OBVIOUS
  <2> HIDE DEF may
  <2>5. t \in Checks /\ CheckSound(t)
    BY <2>4, NothingYet, ZenonT(40)
  <2>6. p \in Popups /\ p.match = popup.match
    BY PageFacts DEF Popups
  <2> HIDE DEF t, p
  <2> QED BY <2>1, <2>3, <2>5, <2>6, PageFacts, CheckGoesOn DEF world
<1>3. CASE Extract(c)
  <2>1. PICK next \in {"detect", "translate"} : check' = [check EXCEPT ![c].at = next, ![c].page = page]
    BY <1>3 DEF Extract
  <2> DEFINE t == [k EXCEPT !.at = next, !.page = page]
             p == [popup EXCEPT !.headline = page, !.source = "page"]
  <2>2. check' = [check EXCEPT ![c] = t] /\ popup' = p /\ UNCHANGED <<world, settings, picking, history>>
    BY <1>3, <2>1, PageFacts DEF Extract
  <2>3. page \in Page /\ page \in AnyPage
    BY PageFacts DEF AnyPage
  <2>4. p \in Popups /\ p.match = popup.match
    BY <2>3, PageFacts DEF Popups
  <2>5. t \in Checks /\ t.at = next /\ t.page = page /\ t.scored = k.scored /\ t.match = k.match
    BY <1>1, <2>3 DEF Checks
  <2> HIDE DEF t, p, k
  <2>6. CheckSound(t)
    BY <1>1, <2>3, <2>5 DEF CheckSound
  <2> QED BY <2>2, <2>4, <2>5, <2>6, PageFacts, CheckGoesOn DEF world, settings
<1>4. CASE Detect(c)
  <2> DEFINE t == [k EXCEPT !.at = "translate"]
  <2>1. k.at = "detect" /\ check' = [check EXCEPT ![c] = t] /\ UNCHANGED <<world, settings, popup, picking, history>>
    BY <1>4, PageFacts DEF Detect
  <2>2. t \in Checks /\ t.at = "translate" /\ t.page = k.page /\ t.scored = k.scored /\ t.match = k.match
        /\ t.nearest = k.nearest /\ t.error = k.error
    BY <1>1 DEF Checks
  <2> HIDE DEF t, k
  <2>3. CheckSound(t)
    BY <1>1, <2>1, <2>2, CheckMoves
  <2> QED BY <2>1, <2>2, <2>3, PageFacts, CheckGoesOn DEF world, settings
<1>5. CASE Translate(c)
  <2> DEFINE t == [k EXCEPT !.at = "sent"]
             p == [popup EXCEPT !.screen = "loading", !.offering = FALSE]
  <2>1. k.at = "translate" /\ check' = [check EXCEPT ![c] = t] /\ popup' = p
        /\ UNCHANGED <<world, settings, picking, history>>
    BY <1>5, PageFacts DEF Translate
  <2>2. p \in Popups /\ p.match = popup.match
    BY PageFacts DEF Popups
  <2>3. t \in Checks /\ t.at = "sent" /\ t.page = k.page /\ t.scored = k.scored /\ t.match = k.match
        /\ t.nearest = k.nearest /\ t.error = k.error
    BY <1>1 DEF Checks
  <2> HIDE DEF t, p, k
  <2>4. CheckSound(t)
    BY <1>1, <2>1, <2>3, CheckMoves
  <2> QED BY <2>1, <2>2, <2>3, <2>4, PageFacts, CheckGoesOn DEF world, settings
<1>6. CASE CheckThrows(c)
  <2> DEFINE t == [k EXCEPT !.at = "done"]
             p == [popup EXCEPT !.screen = "error", !.offering = FALSE]
  <2>1. check' = [check EXCEPT ![c] = t] /\ popup' = p /\ Move
        /\ UNCHANGED <<page, shelf, ended, settings, picking, history>>
    BY <1>6, PageFacts DEF CheckThrows
  <2>2. p \in Popups /\ p.match = popup.match
    BY PageFacts DEF Popups
  <2>3. t \in Checks /\ t.at = "done" /\ t.page = k.page /\ t.scored = k.scored /\ t.match = k.match
        /\ t.nearest = k.nearest /\ t.error = k.error
    BY <1>1 DEF Checks
  <2> HIDE DEF t, p, k
  <2>4. CheckSound(t)
    BY <1>1, <2>3, CheckMoves
  <2>5. moves' \in Nat
    BY <2>1, PageFacts, MoveCounts
  <2> QED BY <2>1, <2>2, <2>3, <2>4, <2>5, PageFacts, CheckGoesOn DEF settings
<1> QED BY <1>2, <1>3, <1>4, <1>5, <1>6

(* A check reads the cache, fills it, fetches a price, reads and writes the *)
(* history, and replies.                                                    *)
LEMMA RunInv ==
  ASSUME PageCheckAssumption, PageIInv, NEW c \in Check,
         \/ ReadCache(c) \/ RefreshArrives(c) \/ PriceArrives(c) \/ HistoryRead(c)
         \/ HistoryWrite(c) \/ Reply(c)
  PROVE  PageIInv'
<1> DEFINE k == check[c]
<1>1. k \in Checks /\ CheckSound(k) /\ k.match \in Matches /\ MatchSound(k.match)
  BY PageFacts DEF CheckSound, Checks
<1>2. CASE ReadCache(c)
  <2> DEFINE at == IF shelf = {} THEN "refresh" ELSE "score"
             t == [k EXCEPT !.at = at, !.searching = search]
  <2>1. k.at = "sent" /\ check' = [check EXCEPT ![c] = t]
        /\ UNCHANGED <<world, settings, popup, picking, history>>
    BY <1>2, PageFacts DEF ReadCache
  <2>2. at \in {"refresh", "score"} /\ search \in BOOLEAN
    BY PageFacts
  <2> HIDE DEF at
  <2>3. t \in Checks /\ t.at = at /\ t.page = k.page /\ t.scored = k.scored /\ t.match = k.match
        /\ t.nearest = k.nearest /\ t.error = k.error
    BY <1>1, <2>2 DEF Checks
  <2> HIDE DEF t, k
  <2>4. CheckSound(t)
    BY <1>1, <2>1, <2>2, <2>3, CheckMoves
  <2> QED BY <2>1, <2>3, <2>4, PageFacts, CheckGoesOn DEF world, settings
<1>3. CASE RefreshArrives(c)
  <2> DEFINE t == [k EXCEPT !.at = "score"]
  <2>1. k.at = "refresh" /\ check' = [check EXCEPT ![c] = t] /\ shelf' \in Shelves
        /\ UNCHANGED <<page, ended, moves, settings, popup, picking, history>>
    BY <1>3, PageFacts DEF RefreshArrives
  <2>2. t \in Checks /\ t.at = "score" /\ t.page = k.page /\ t.scored = k.scored /\ t.match = k.match
        /\ t.nearest = k.nearest /\ t.error = k.error
    BY <1>1 DEF Checks
  <2> HIDE DEF t, k
  <2>3. CheckSound(t)
    BY <1>1, <2>1, <2>2, CheckMoves
  <2> QED BY <2>1, <2>2, <2>3, PageFacts, CheckGoesOn DEF settings
<1>4. CASE PriceArrives(c)
  <2>1. PICK n \in {k.match.market, NoMarket} :
          check' = [check EXCEPT ![c].at = "past", ![c].match.fresh = n]
    BY <1>4 DEF PriceArrives
  <2>2. k.at = "price" /\ UNCHANGED <<world, settings, popup, picking, history>>
    BY <1>4 DEF PriceArrives
  <2> DEFINE m == [k.match EXCEPT !.fresh = n]
             t == [k EXCEPT !.at = "past", !.match = m]
  <2>3. check' = [check EXCEPT ![c] = t]
    BY <1>1, <2>1, PageFacts DEF Checks
  <2>4. n \in AnyMarket
    BY <1>1 DEF Matches, AnyMarket
  <2>5. m \in Matches /\ m.market = k.match.market /\ m.of = k.match.of /\ m.scored = k.match.scored
        /\ m.confidence = k.match.confidence /\ m.low = k.match.low /\ m.rest = k.match.rest
        /\ m.restRaw = k.match.restRaw /\ m.fresh = n
    BY <1>1, <2>4 DEF Matches
  <2> HIDE DEF m
  <2>6. MatchSound(m)
    <3>1. OwnScores(k.match) => OwnScores(m)
      BY <2>5 DEF OwnScores
    <3> QED BY <1>1, <2>5, <3>1 DEF MatchSound
  <2>7. t \in Checks /\ t.at = "past" /\ t.page = k.page /\ t.scored = k.scored /\ t.match = m
        /\ t.nearest = k.nearest /\ t.error = k.error
    BY <1>1, <2>5 DEF Checks
  <2> HIDE DEF t, k
  <2>8. Verdict(k) => Verdict(t)
    BY <2>5, <2>7 DEF Verdict
  <2>9. CheckSound(t)
    BY <1>1, <2>2, <2>6, <2>7, <2>8 DEF CheckSound
  <2> QED BY <2>2, <2>3, <2>7, <2>9, PageFacts, CheckGoesOn DEF world, settings
<1>5. CASE HistoryRead(c)
  <2> DEFINE t == [k EXCEPT !.at = "write", !.past = history]
  <2>1. k.at = "past" /\ check' = [check EXCEPT ![c] = t]
        /\ UNCHANGED <<world, settings, popup, picking, history>>
    BY <1>5, PageFacts DEF HistoryRead
  <2>2. t \in Checks /\ t.at = "write" /\ t.page = k.page /\ t.scored = k.scored /\ t.match = k.match
        /\ t.nearest = k.nearest /\ t.error = k.error
    BY <1>1, PageFacts DEF Checks
  <2> HIDE DEF t, k
  <2>3. CheckSound(t)
    BY <1>1, <2>1, <2>2, CheckMoves
  <2> QED BY <2>1, <2>2, <2>3, PageFacts, CheckGoesOn DEF world, settings
<1>6. CASE HistoryWrite(c)
  <2> DEFINE item == [page |-> k.page, market |-> k.match.market]
             list == <<item>> \o k.past
             n == Min({MaxHistory, Len(k.past) + 1})
             t == [k EXCEPT !.at = "reply", !.past = <<>>]
  <2>1. k.at = "write" /\ check' = [check EXCEPT ![c] = t]
        /\ UNCHANGED <<world, settings, popup, picking>>
        /\ history' \in {SubSeq(list, 1, n), history}
    BY <1>6, PageFacts DEF HistoryWrite
  <2>2. item \in Items /\ k.past \in Seq(Items)
    <3>1. k.page \in Page /\ k.match.market \in AnyMarket
      BY <1>1, <2>1 DEF CheckSound, Matches
    <3>2. k.past \in Seq(Items)
      BY <1>1 DEF Checks
    <3> QED BY <3>1, <3>2 DEF Items
  <2>3. SubSeq(list, 1, n) \in Seq(Items)
    <3> DEFINE past == k.past
    <3>1. past \in Seq(Items) /\ Len(past) \in Nat /\ list = <<item>> \o past
      BY <2>2
    <3> HIDE DEF past, item
    <3>2. list \in Seq(Items) /\ Len(list) = Len(past) + 1
      BY <2>2, <3>1
    <3>3. n \in Nat /\ n <= Len(list)
      <4>1. MaxHistory \in Nat /\ Len(past) + 1 \in Nat /\ past = k.past
        BY <3>1, CheckBounds DEF past
      <4> QED BY <3>2, <4>1, MinOfTwo
    <3> HIDE DEF list, n
    <3>4. \A i \in 1..n : list[i] \in Items
      BY <3>2, <3>3
    <3> QED BY <3>2, <3>3, <3>4, SubSeqProperties
  <2>4. <<>> \in Seq(Items)
    OBVIOUS
  <2>5. t \in Checks /\ t.at = "reply" /\ t.page = k.page /\ t.scored = k.scored /\ t.match = k.match
        /\ t.nearest = k.nearest /\ t.error = k.error
    BY <1>1, <2>4 DEF Checks
  <2> HIDE DEF t, k, list, n
  <2>6. CheckSound(t)
    BY <1>1, <2>1, <2>5, CheckMoves
  <2>7. history' \in Seq(Items)
    BY <2>1, <2>3, PageFacts
  <2> QED BY <2>1, <2>5, <2>6, <2>7, PageFacts, CheckGoesOn DEF world, settings
<1>7. CASE Reply(c)
  <2> DEFINE t == [NewCheck EXCEPT !.at = "done"]
             m == k.match
             screen == IF m = NoMatch THEN "error" ELSE "success"
             offering == /\ m = NoMatch /\ k.error = "none" /\ k.scored # {} /\ k.mayOffer
             p == [popup EXCEPT !.match = m, !.screen = screen, !.offering = offering]
  <2>1. check' = [check EXCEPT ![c] = t] /\ popup' \in {popup, p}
        /\ UNCHANGED <<world, settings, picking, history>>
    BY <1>7 DEF Reply
  <2>2. t \in Checks /\ CheckSound(t)
    BY NothingYet
  <2>3. offering \in BOOLEAN /\ screen \in {"idle", "loading", "error", "success"}
    <3>1. k.mayOffer \in BOOLEAN
      BY <1>1 DEF Checks
    <3>2. offering \in BOOLEAN
      BY <3>1, Zenon
    <3> QED BY <3>2
  <2>4. m \in Matches /\ MatchSound(m)
    BY <1>1
  <2> HIDE DEF offering, screen, m
  <2>5. p \in Popups /\ p.match = m
    BY <2>3, <2>4, PageFacts DEF Popups
  <2> HIDE DEF p, t
  <2>6. popup' \in Popups /\ MatchSound(popup'.match)
    BY <2>1, <2>4, <2>5, PageFacts
  <2> QED BY <2>1, <2>2, <2>6, PageFacts, CheckGoesOn DEF world, settings
<1> QED BY <1>2, <1>3, <1>4, <1>5, <1>6, <1>7

(* What a check scores can be scored: markets, and finitely many. *)
LEMMA ScoredFinite ==
  ASSUME PageCheckAssumption, PageIInv, NEW p \in Page
  PROVE  /\ Scorable(shelf) \in SUBSET Market /\ IsFiniteSet(Scorable(shelf))
         /\ Scorable(Candidates[p]) \in SUBSET Market /\ IsFiniteSet(Scorable(Candidates[p]))
<1>1. shelf \in SUBSET Market /\ IsFiniteSet(shelf)
  BY PageFacts, CheckBounds
<1>2. Candidates[p] \in SUBSET Market /\ IsFiniteSet(Candidates[p])
  BY CandidatesFinite
<1> QED BY <1>1, <1>2, FS_Subset DEF Scorable

(* A check comes to its outcome. *)
LEMMA ScoreInv ==
  ASSUME PageCheckAssumption, PageIInv, NEW c \in Check,
         Score(c) \/ SearchArrives(c) \/ SearchFails(c) \/ HandlerFails(c)
  PROVE  PageIInv'
<1> DEFINE k == check[c]
           p == k.page
<1>1. k \in Checks /\ CheckSound(k) /\ k.scored \in SUBSET Market /\ IsFiniteSet(k.scored)
  BY PageFacts DEF CheckSound, Checks
<1>2. k.at \notin {"idle", "extract", "done"} /\ p \in Page
  BY <1>1 DEF Score, SearchArrives, SearchFails, HandlerFails, CheckSound
<1>3. UNCHANGED <<page, shelf, ended, settings, popup, picking, history>> /\ moves' \in Nat
  <2>1. UNCHANGED <<page, shelf, ended, settings, popup, picking, history>> /\ (UNCHANGED moves \/ Move)
    BY DEF Score, SearchArrives, SearchFails, HandlerFails, world
  <2> QED BY <2>1, PageFacts, MoveCounts
<1>4. ASSUME NEW t \in Checks, CheckSound(t), check' = [check EXCEPT ![c] = t]
      PROVE  PageIInv'
  BY <1>3, <1>4, PageFacts, CheckGoesOn DEF settings
<1>5. ASSUME NEW scored \in SUBSET Market, IsFiniteSet(scored), NEW match \in Matches, MatchSound(match),
             NEW error \in {"none", "failed"}, Outcome(c, scored, match, error),
             error = "none" =>
               LET clear == {m \in scored : Raw[p][m] >= Floor}
               IN \/ match = NoMatch /\ clear = {}
                  \/ /\ match # NoMatch /\ match.market \in clear
                     /\ \A m \in clear : Rank[p][m] <= Rank[p][match.market]
      PROVE  PageIInv'
  <2> DEFINE t == [k EXCEPT !.at = IF match = NoMatch THEN "reply" ELSE "price",
                            !.scored = scored, !.match = match, !.error = error,
                            !.nearest = IF match = NoMatch THEN Nearest(p, scored) ELSE NoMarket]
  <2>1. check' = [check EXCEPT ![c] = t]
    BY <1>5, PageFacts DEF Outcome
  <2>2. t \in Checks /\ CheckSound(t)
    <3> HIDE DEF k
    <3> QED BY <1>1, <1>2, <1>5, OutcomeSound
  <2> HIDE DEF t
  <2> QED BY <1>4, <2>1, <2>2
<1>6. NoMatch \in Matches /\ MatchSound(NoMatch) /\ {} \in SUBSET Market /\ IsFiniteSet({})
  BY NothingYet, FS_EmptySet
<1> HIDE DEF p
<1>7. CASE Score(c)
  <2> DEFINE scored == Scorable(shelf)
             eligible == Eligible(p, scored)
             match == MatchOf(p, eligible)
  <2>1. scored \in SUBSET Market /\ IsFiniteSet(scored)
    BY <1>2, ScoredFinite
  <2> HIDE DEF scored
  <2>2. eligible = {m \in scored : Raw[p][m] >= Floor} /\ eligible \in SUBSET Market
        /\ IsFiniteSet(eligible)
    <3>1. eligible = {m \in scored : Raw[p][m] >= Floor}
      BY DEF Eligible
    <3> QED BY <2>1, <3>1, FS_Subset
  <2> HIDE DEF eligible
  <2>3. CASE eligible # {} /\ Outcome(c, scored, match, "none")
    <3>1. match \in Matches /\ MatchSound(match) /\ match # NoMatch /\ match.market \in eligible
          /\ \A m \in eligible : Rank[p][m] <= Rank[p][match.market]
      BY <1>2, <2>2, <2>3, MatchOfSound
    <3> HIDE DEF match
    <3> QED BY <1>5, <2>1, <2>2, <2>3, <3>1
  <2>4. CASE eligible = {} /\ check' = [check EXCEPT ![c].at = "search", ![c].scored = scored]
    <3> DEFINE t == [k EXCEPT !.at = "search", !.scored = scored]
    <3>1. check' = [check EXCEPT ![c] = t]
      BY <2>4, PageFacts
    <3>2. t \in Checks /\ t.at = "search" /\ t.page = p /\ t.scored = scored /\ t.match = k.match
      BY <1>1, <2>1 DEF Checks, p
    <3>3. CheckSound(t)
      <4> HIDE DEF t, k
      <4> QED BY <1>1, <1>2, <2>1, <2>2, <2>4, <3>2 DEF CheckSound
    <3> HIDE DEF t
    <3> QED BY <1>4, <3>1, <3>2, <3>3
  <2>5. CASE eligible = {} /\ Outcome(c, scored, NoMatch, "none")
    BY <1>5, <1>6, <2>1, <2>2, <2>5
  <2> QED BY <1>7, <2>3, <2>4, <2>5 DEF Score, scored, eligible, p
<1>8. CASE SearchArrives(c)
  <2> DEFINE found == Scorable(Candidates[p])
             eligible == Eligible(p, found)
             all == k.scored \cup found
             clear == {m \in all : Raw[p][m] >= Floor}
             match == MatchOf(p, eligible)
  <2>1. found \in SUBSET Market /\ IsFiniteSet(found)
    BY <1>2, ScoredFinite
  <2>2. k.at = "search" /\ Outcome(c, all, IF eligible = {} THEN NoMatch ELSE match, "none")
    BY <1>8 DEF SearchArrives, p
  <2> HIDE DEF found
  <2>3. all \in SUBSET Market /\ IsFiniteSet(all)
    BY <1>1, <2>1, FS_Union
  <2>4. eligible \in SUBSET Market /\ IsFiniteSet(eligible)
    <3>1. eligible \in SUBSET found
      BY DEF Eligible
    <3> QED BY <2>1, <3>1, FS_Subset
  <2>5. clear = eligible
    <3>1. {m \in k.scored : Raw[p][m] >= Floor} = {}
      BY <1>1, <2>2 DEF CheckSound, p
    <3> QED BY <3>1 DEF Eligible
  <2> HIDE DEF eligible, all, clear
  <2>6. CASE eligible = {}
    <3>1. Outcome(c, all, NoMatch, "none")
      BY <2>2, <2>6
    <3> QED BY <1>5, <1>6, <2>3, <2>5, <2>6, <3>1 DEF clear
  <2>7. CASE eligible # {}
    <3>1. match \in Matches /\ MatchSound(match) /\ match # NoMatch /\ match.market \in eligible
          /\ \A m \in eligible : Rank[p][m] <= Rank[p][match.market]
      BY <1>2, <2>4, <2>7, MatchOfSound
    <3>2. Outcome(c, all, match, "none")
      BY <2>2, <2>7
    <3> HIDE DEF match
    <3> QED BY <1>5, <2>3, <2>5, <3>1, <3>2 DEF clear
  <2> QED BY <2>6, <2>7
<1>9. CASE SearchFails(c)
  <2>1. k.at = "search" /\ Outcome(c, k.scored, NoMatch, "none")
    BY <1>9 DEF SearchFails
  <2>2. {m \in k.scored : Raw[p][m] >= Floor} = {}
    BY <1>1, <2>1 DEF CheckSound, p
  <2> HIDE DEF k
  <2> QED BY <1>1, <1>5, <1>6, <2>1, <2>2
<1>10. CASE HandlerFails(c)
  <2>1. Outcome(c, {}, NoMatch, "failed")
    BY <1>10 DEF HandlerFails
  <2> QED BY <1>5, <1>6, <2>1
<1> QED BY <1>7, <1>8, <1>9, <1>10

(* Every step keeps the invariant. *)
LEMMA PageNextInv == ASSUME PageCheckAssumption, PageIInv, [PageCheckNext]_checkVars PROVE PageIInv'
<1>1. CASE OpenPopup \/ DismissOffer \/ Back \/ PickRelated \/ PickHistory \/ Picked \/ ClearHistory
  BY <1>1, PopupInv
<1>2. CASE ClosePopup \/ Navigate \/ MarketEnds \/ Restock
  BY <1>2, WorldInv
<1>3. ASSUME NEW c \in Check,
             \/ Start(c) \/ EnableSearch(c) \/ Extract(c) \/ Detect(c) \/ Translate(c)
             \/ CheckThrows(c)
      PROVE  PageIInv'
  BY <1>3, BeginInv
<1>4. ASSUME NEW c \in Check,
             \/ ReadCache(c) \/ RefreshArrives(c) \/ PriceArrives(c) \/ HistoryRead(c)
             \/ HistoryWrite(c) \/ Reply(c)
      PROVE  PageIInv'
  BY <1>4, RunInv
<1>5. ASSUME NEW c \in Check, Score(c) \/ SearchArrives(c) \/ SearchFails(c) \/ HandlerFails(c)
      PROVE  PageIInv'
  BY <1>5, ScoreInv
<1>6. CASE UNCHANGED checkVars
  BY <1>6, PageFacts, ChecksStay DEF checkVars, world, settings
<1> QED BY <1>1, <1>2, <1>3, <1>4, <1>5, <1>6 DEF PageCheckNext, Awaits, Runs

(* Whatever checks overlap, settings change and markets end, a check that    *)
(* searches found nothing on the shelf, one that ends says what it scored,   *)
(* and every match carries the scores of its own markets (startCheck,        *)
(* OS_RUN_MATCH, pickRelated).                                               *)
THEOREM CheckInvariant == PageCheckSpec => []PageIInv
<1>1. PageCheckInit => PageIInv
  BY PageCheckAssumption, PageInitInv
<1>2. PageIInv /\ [PageCheckNext]_checkVars => PageIInv'
  BY PageCheckAssumption, PageNextInv
<1> QED BY <1>1, <1>2, PTL DEF PageCheckSpec

(* A market is offered only if it clears the floor on meaning alone and is   *)
(* the best ranked of those that do; "no market" only if none does, and then *)
(* the closest is named (attemptMatch, searchAndScore).                      *)
THEOREM FloorIsFirst == PageCheckSpec => []FloorBeforeRank
<1>1. PageIInv => FloorBeforeRank
  BY DEF PageIInv, CheckSound, FloorBeforeRank
<1> QED BY <1>1, CheckInvariant, PTL

(* However often the match and an alternative change places, each keeps its  *)
(* own raw score and no market is listed twice (buildMatchFromAlternative).  *)
THEOREM ScoresStay == PageCheckSpec => []ScoresAreTheirOwn
<1>1. PageIInv => ScoresAreTheirOwn
  BY DEF PageIInv, MatchSound, ScoresAreTheirOwn
<1> QED BY <1>1, CheckInvariant, PTL
=============================================================================
