------------------------------- MODULE Worker -------------------------------
(***************************************************************************)
(* The Cloudflare Worker (extension/worker/index.ts): the one server of    *)
(* the system.  Every request takes the path of `fetch`: the global limit  *)
(* of its address, the three public documents, checkAuth, the limit of the *)
(* route, the body, the daily quotas of the two routes that cost the       *)
(* operator, and what stands behind the route.  One action is the code     *)
(* between two awaits, so the requests interleave at the awaits.           *)
(*                                                                         *)
(* A counter is a Durable Object (RateLimiterDO), which runs one increment *)
(* at a time; its answer may be lost after the increment was stored.  A    *)
(* request is one call of the workload: the route, the address it comes     *)
(* from, the credentials, what its body is worth and how many characters   *)
(* it carries.  One tick of `now` is a minute, a day has DayTicks of them.     *)
(***************************************************************************)
EXTENDS Integers, FiniteSets, FiniteSetsExt

CONSTANTS
  Request,       \* the requests of a run
  Workloads,     \* a set of [Request -> call]: what they ask, in one run or another
  Envs,          \* the deployments a run considers
  RateKey,       \* [address -> key]: ipRateKey, one key for an IPv6 subscriber
  PerMinute,     \* [route -> Nat]: the literal limits of the routes
  GlobalLimit,   \* 300 a minute in the code
  OpenAiCap,     \* OPENAI_DAILY_CHAR_LIMIT
  PerIpSigns,    \* BUILDER_SIGN_DAILY_PER_IP
  DailySigns,    \* BUILDER_SIGN_DAILY_LIMIT
  MaxCacheAge,   \* MAX_CACHE_AGE_MS, in ticks
  DayTicks,      \* length of a day in ticks
  MaxNow,        \* bound: last tick
  Unreliable     \* the counters whose answers a run may lose

ASSUME WorkerAssumption ==
  /\ IsFiniteSet(Request)
  /\ DayTicks \in Nat \ {0} /\ MaxNow \in Nat /\ DayTicks <= MaxNow + 1
  /\ {GlobalLimit, OpenAiCap, PerIpSigns, DailySigns} \subseteq Nat

\* The routes that do no more than ask an upstream, and those that ask nobody.
Proxied == {"markets", "search", "price", "orderbook", "history", "proxy", "positions"}
Local == {"geo", "builder_status"}
Limited == Proxied \cup Local \cup {"embed", "builder_sign", "telem",
                                   "market_cache_read", "market_cache_write"}

ASSUME WorkloadAssumption ==
  /\ DOMAIN PerMinute \subseteq Limited /\ \A route \in DOMAIN PerMinute : PerMinute[route] \in Nat
  /\ \A w \in Workloads, r \in Request : w[r].ip \in DOMAIN RateKey /\ w[r].size \in Nat

VARIABLES
  env,      \* the bindings and secrets of the deployment, fixed
  now,      \* the clock
  bucket,   \* counter -> [start, count]: what its Durable Object has stored
  blob,     \* builtAt of the market cache in KV, or NoBlob
  call,     \* request -> what it asks, fixed
  at,       \* request -> the await it stands at, or its status once answered
  charged,  \* history: request -> the daily counters that charged it, with their window
  reached   \* history: the requests that reached what is behind their route

vars == <<env, now, bucket, blob, call, at, charged, reached>>

NoBlob == -1

Awaits == {"global", "ready", "route", "body", "charCap", "ipShare", "sharedCap",
           "sign", "upstream", "secondTry", "kvGet", "kvPut"}
Answered(r) == at[r] \notin Awaits \cup {"idle"}

-----------------------------------------------------------------------------
(* The counters.                                                           *)

Ips == {RateKey[address] : address \in DOMAIN RateKey}
Ip(r) == RateKey[call[r].ip]
Routes == DOMAIN PerMinute
OpenAiDaily == <<"openai-daily-cap", "all">>
SignsOf(ip) == <<"builder-sign-daily-ip", ip>>
SignsDaily == <<"builder-sign-daily", "all">>
DailyCounters == {OpenAiDaily, SignsDaily} \cup {SignsOf(ip) : ip \in Ips}
Counters == DailyCounters \cup ({"global"} \cup Routes) \X Ips

WindowStart(k) == IF k \in DailyCounters THEN (now \div DayTicks) * DayTicks ELSE now

\* Mutant: the record is kept when its window has passed.
CountForever(k) == bucket[k].count

\* A record of an earlier window counts as none.
Count(k) == IF bucket[k].start = WindowStart(k) THEN bucket[k].count ELSE 0

Increment(r, k, amount) ==
  /\ bucket' = [bucket EXCEPT ![k] = [start |-> WindowStart(k), count |-> Count(k) + amount]]
  /\ charged' = [charged EXCEPT ![r] =
                   @ \cup {[counter |-> d, start |-> WindowStart(d)] : d \in {k} \cap DailyCounters}]

Goto(r, place) == at' = [at EXCEPT ![r] = place]

\* Thrown outside the try of fetch, an error is the platform's to answer.
Thrown(r) == Goto(r, IF at[r] \in {"global", "ready"} THEN "uncaught" ELSE "500")

AnswerLost(r, k) == k \in Unreliable /\ Thrown(r)

\* checkRateLimit with the Durable Object's handler: without the binding every
\* call is allowed; the answer may be lost before or after the increment.
CheckRateLimit(r, k, limit, amount, allowed, refused) ==
  LET fits == Count(k) + amount <= limit IN
  \/ ~env.limiter /\ Goto(r, allowed) /\ UNCHANGED <<bucket, charged>>
  \/ env.limiter /\ fits /\ Increment(r, k, amount) /\ (Goto(r, allowed) \/ AnswerLost(r, k))
  \/ env.limiter /\ ~fits /\ Goto(r, refused) /\ UNCHANGED <<bucket, charged>>
  \/ env.limiter /\ AnswerLost(r, k) /\ UNCHANGED <<bucket, charged>>

-----------------------------------------------------------------------------
(* What a request meets, in the order of fetch.                            *)

\* Mutant: a production Worker without its limiter serves.
MisconfiguredWithoutLimiter == ~env.dev /\ ~(env.secret /\ env.extId)

\* checkAuth: outside dev mode every binding must be there; a dev deployment
\* without a secret lets everyone in; an Origin counts only when it is sent.
Misconfigured == ~env.dev /\ ~(env.secret /\ env.extId /\ env.limiter)
Authorised(c) ==
  \/ ~env.secret
  \/ c.key = "good" /\ ~(env.extId /\ c.origin = "foreign")

AuthAnswer(c) == IF Misconfigured THEN "503" ELSE IF Authorised(c) THEN "ok" ELSE "401"

AfterGlobal(c) ==
  CASE c.route \in {"privacy", "health"} -> "200"
    [] c.route = "ready" -> IF env.kv THEN "ready" ELSE "503"
    [] AuthAnswer(c) # "ok" -> AuthAnswer(c)
    [] c.route \notin Routes -> "404"
    [] OTHER -> "route"

\* A route whose key, credential or namespace the deployment lacks.
Configured(c) ==
  /\ c.route = "embed" => env.openai
  /\ c.route = "builder_sign" => env.relayerAuth # "none"
  /\ c.route \in {"market_cache_read", "market_cache_write"} => env.kv

AfterRouteLimit(c) ==
  CASE ~Configured(c) -> "503"
    [] c.route = "market_cache_write" /\ ~c.writer -> "401"
    [] c.route \in {"search", "proxy", "positions"} /\ c.body = "refused" -> "400"
    [] c.route \in Proxied -> "upstream"
    [] c.route \in Local -> "200"
    [] c.route = "market_cache_read" -> "kvGet"
    [] OTHER -> "body"

\* readBodyWithLimit gives nothing for a body over its cap or cut short.
TooBig(c) == c.body = "big"

\* validateEmbeddingsInput, validateMarketCacheInput and validateRelayerSubmit.
BadEmbeddings(c) == c.body \in {"null", "refused"}
BadMarketCache(c) == c.body \in {"null", "refused"}
BadSubmit(c) == c.body = "refused"

AfterEmbedBody(c) ==
  CASE TooBig(c) -> "413"
    [] c.body = "garbled" \/ BadEmbeddings(c) -> "400"
    [] OTHER -> "charCap"

\* The .method of a body that is `null` throws; only one path and method, and
\* of its bodies only a redemption, are signed.
AfterSignBody(c) ==
  CASE TooBig(c) -> "413"
    [] c.body = "garbled" -> "400"
    [] c.body = "null" -> "500"
    [] BadSubmit(c) -> "403"
    [] OTHER -> "ipShare"

AfterCacheBody(c) ==
  CASE TooBig(c) -> "413"
    [] c.body = "garbled" \/ BadMarketCache(c) -> "400"
    [] OTHER -> "kvPut"

\* What is dropped is answered like what is kept, but .events of `null` throws.
AfterTelemetryBody(c) == IF c.body = "null" THEN "500" ELSE "200"

AfterBody(c) ==
  CASE c.route = "embed" -> AfterEmbedBody(c)
    [] c.route = "builder_sign" -> AfterSignBody(c)
    [] c.route = "market_cache_write" -> AfterCacheBody(c)
    [] c.route = "telem" -> AfterTelemetryBody(c)

-----------------------------------------------------------------------------
(* The actions.                                                            *)

\* The first minute of a run is the last one of a day.
Init ==
  /\ env \in Envs
  /\ now = DayTicks - 1
  /\ bucket = [k \in Counters |-> [start |-> -1, count |-> 0]]
  /\ blob = NoBlob
  /\ call \in Workloads
  /\ at = [r \in Request |-> "idle"]
  /\ charged = [r \in Request |-> {}]
  /\ reached = {}

Arrive(r) ==
  /\ at[r] = "idle"
  /\ Goto(r, IF call[r].route = "options" THEN "200" ELSE "global")
  /\ UNCHANGED <<env, now, bucket, blob, call, charged, reached>>

GlobalCheck(r) ==
  /\ at[r] = "global"
  /\ CheckRateLimit(r, <<"global", Ip(r)>>, GlobalLimit, 1, AfterGlobal(call[r]), "429")
  /\ UNCHANGED <<env, now, blob, call, reached>>

\* /ready: the blob must be there and its age within bounds; KV may throw.
Ready(r) ==
  /\ at[r] = "ready"
  /\ \/ Goto(r, IF blob # NoBlob /\ now - blob \in 0..MaxCacheAge THEN "200" ELSE "503")
     \/ Thrown(r)
  /\ UNCHANGED <<env, now, bucket, blob, call, charged, reached>>

\* Mutant: the route's limit of a signature is the day's share of the address.
RouteCheckByTheDay(r) ==
  LET c == call[r]
      k == IF c.route = "builder_sign" THEN SignsOf(Ip(r)) ELSE <<c.route, Ip(r)>> IN
  /\ at[r] = "route"
  /\ CheckRateLimit(r, k, PerMinute[c.route], 1, AfterRouteLimit(c), "429")
  /\ UNCHANGED <<env, now, blob, call, reached>>

\* The limit of the route; a telemetry batch over it is dropped with a 200.
RouteCheck(r) ==
  LET c == call[r] IN
  /\ at[r] = "route"
  /\ CheckRateLimit(r, <<c.route, Ip(r)>>, PerMinute[c.route], 1, AfterRouteLimit(c),
                    IF c.route = "telem" THEN "200" ELSE "429")
  /\ UNCHANGED <<env, now, blob, call, reached>>

ReadBody(r) ==
  /\ at[r] = "body"
  /\ Goto(r, AfterBody(call[r]))
  /\ reached' = IF call[r].route = "telem" /\ call[r].body = "ok" THEN reached \cup {r} ELSE reached
  /\ UNCHANGED <<env, now, bucket, blob, call, charged>>

\* openAiCharCap: the characters are charged before the request goes out and
\* are never given back.
CharCap(r) ==
  /\ at[r] = "charCap"
  /\ CheckRateLimit(r, OpenAiDaily, OpenAiCap, call[r].size, "upstream", "capped")
  /\ UNCHANGED <<env, now, blob, call, reached>>

\* The caller's own share of the day's signatures, then the day's.
IpShare(r) ==
  /\ at[r] = "ipShare"
  /\ CheckRateLimit(r, SignsOf(Ip(r)), PerIpSigns, 1, "sharedCap", "capped")
  /\ UNCHANGED <<env, now, blob, call, reached>>

SharedCap(r) ==
  /\ at[r] = "sharedCap"
  /\ CheckRateLimit(r, SignsDaily, DailySigns, 1, "sign", "capped")
  /\ UNCHANGED <<env, now, blob, call, reached>>

Answer(r, statuses) ==
  /\ \E status \in statuses : Goto(r, status)
  /\ reached' = reached \cup {r}
  /\ UNCHANGED <<env, now, bucket, blob, call, charged>>

\* A deployment with a relayer key hands the key out.
HandOutKey(r) ==
  /\ at[r] = "sign" /\ env.relayerAuth = "relayer"
  /\ Answer(r, {"200"})

\* The builder's secret signs; one that does not decode is an error, after
\* both quotas were charged.
Sign(r) ==
  /\ at[r] = "sign" /\ env.relayerAuth = "builder"
  /\ \/ env.decodes /\ Answer(r, {"200"})
     \/ ~env.decodes /\ Goto(r, "500") /\ UNCHANGED <<env, now, bucket, blob, call, charged, reached>>

\* An upstream fetch throws when it fails or is aborted (UPSTREAM_TIMEOUT_MS).
Fetching(r, routes) == at[r] = "upstream" /\ call[r].route \in routes

\* The answer of the upstream is passed on with its status.
PassOn(r) ==
  /\ Fetching(r, {"markets", "price", "orderbook", "history"})
  /\ Answer(r, {"200", "status", "500"})

Search(r) == Fetching(r, {"search"}) /\ Answer(r, {"200", "502", "500"})

\* Mutant: an OpenAI that stays silent is waited for without end.
PatientEmbeddings(r) == Fetching(r, {"embed"}) /\ Answer(r, {})

Embeddings(r) == Fetching(r, {"embed"}) /\ Answer(r, {"200", "502", "500"})

Positions(r) == Fetching(r, {"positions"}) /\ Answer(r, {"200", "502", "500"})

\* The Safe of an account is asked for under two addresses; errors are caught,
\* and the status of the last answer, if any came, is told.
SafeLookup(r) ==
  \/ /\ Fetching(r, {"proxy"}) /\ Goto(r, "secondTry")
     /\ UNCHANGED <<env, now, bucket, blob, call, charged, reached>>
  \/ Fetching(r, {"proxy"}) /\ Answer(r, {"200"})
  \/ at[r] = "secondTry" /\ Answer(r, {"200", "404", "502"})

KvGet(r) ==
  /\ at[r] = "kvGet"
  /\ \/ Goto(r, IF blob = NoBlob THEN "404" ELSE "200") /\ reached' = reached \cup {r}
     \/ Thrown(r) /\ UNCHANGED reached
  /\ UNCHANGED <<env, now, bucket, blob, call, charged>>

KvPut(r) ==
  /\ at[r] = "kvPut"
  /\ \/ Goto(r, "200") /\ blob' = call[r].builtAt /\ reached' = reached \cup {r}
     \/ Thrown(r) /\ UNCHANGED <<blob, reached>>
  /\ UNCHANGED <<env, now, bucket, call, charged>>

Tick ==
  /\ now < MaxNow
  /\ now' = now + 1
  /\ UNCHANGED <<env, bucket, blob, call, at, charged, reached>>

Step(r) ==
  \/ GlobalCheck(r) \/ Ready(r) \/ RouteCheck(r) \/ ReadBody(r) \/ CharCap(r)
  \/ IpShare(r) \/ SharedCap(r) \/ HandOutKey(r) \/ Sign(r) \/ PassOn(r)
  \/ Search(r) \/ Embeddings(r) \/ Positions(r) \/ SafeLookup(r) \/ KvGet(r) \/ KvPut(r)

Next ==
  \/ Tick
  \/ \E r \in Request : Arrive(r) \/ Step(r)

\* The platform resumes a handler at every await; an upstream answers or is
\* aborted, and a client sends its body or goes away.
Spec == Init /\ [][Next]_vars /\ \A r \in Request : WF_vars(Step(r))

-----------------------------------------------------------------------------
(* What the Worker promises.                                               *)

Windows == {(t \div DayTicks) * DayTicks : t \in 0..MaxNow}

\* The daily counters a served request must have been charged by.
QuotasOf(r) ==
  CASE call[r].route = "embed" -> {OpenAiDaily}
    [] call[r].route = "builder_sign" -> {SignsOf(Ip(r)), SignsDaily}
    [] OTHER -> {}

\* The daily counter a request is about to ask.
QuotaAt(r) ==
  CASE at[r] = "charCap" -> OpenAiDaily
    [] at[r] = "ipShare" -> SignsOf(Ip(r))
    [] at[r] = "sharedCap" -> SignsDaily
    [] OTHER -> <<>>

ChargedTo(r, k, w) == [counter |-> k, start |-> w] \in charged[r]
OnTheBillOf(k, w) == {r \in Request : ChargedTo(r, k, w)}
chargeOf == [r \in Request |-> IF call[r].route = "embed" THEN call[r].size ELSE 1]
Charged(S) == MapThenSumSet(LAMBDA r : chargeOf[r], S)
LimitOf(k) == IF k = OpenAiDaily THEN OpenAiCap
              ELSE IF k = SignsDaily THEN DailySigns ELSE PerIpSigns

\* Limits are off only where a dev deployment has no limiter.
LimitsOff == env.dev /\ ~env.limiter

\* What is served was charged by every quota of its route.
ServedIsCharged == \A r \in reached : \A k \in QuotasOf(r) : \E w \in Windows : ChargedTo(r, k, w)

\* "Protects the operator from a single bad actor draining the key": whatever
\* interleaves, fails between charge and use, or crosses midnight, nothing that
\* costs the operator is done without every grant of its quotas, and what one
\* day's window of a counter paid for is within its limit.
BilledWithinDailyCap ==
  ~LimitsOff =>
    /\ ServedIsCharged
    /\ \A k \in DailyCounters, w \in Windows : Charged(reached \cap OnTheBillOf(k, w)) <= LimitOf(k)

\* "Junk costs nobody anything": a request turned away for its credentials, its
\* body or its shape has been charged to no daily counter.
JunkCostsNobody ==
  \A r \in Request : at[r] \in {"400", "401", "403", "413"} => charged[r] = {}

\* A caller is refused a daily quota only on a day whose window, by the charges
\* its counter took that day, has no room left for it: no refusal outlives
\* midnight, and none is for what somebody else's counter took.
RefusedOnlyWhenSpent ==
  [][\A r \in Request, k \in DailyCounters :
       k = QuotaAt(r) /\ at'[r] = "capped" =>
         Charged(OnTheBillOf(k, WindowStart(k))) + chargeOf[r] > LimitOf(k)]_vars

\* Every request is answered.
EveryRequestAnswered == \A r \in Request : (at[r] # "idle") ~> Answered(r)
=============================================================================
