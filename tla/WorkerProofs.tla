---------------------------- MODULE WorkerProofs ----------------------------
(***************************************************************************)
(* What the Worker promises of its daily quotas, for any number of         *)
(* requests, any workload and any limits: junk is charged to nobody, what  *)
(* is served was charged by every quota of its route, and no counter ever  *)
(* stands above its limit.                                                 *)
(***************************************************************************)
EXTENDS Worker, SumTheorems

-----------------------------------------------------------------------------
(* The inductive invariant.                                                *)

Typing ==
  /\ env \in Envs
  /\ call \in Workloads
  /\ now \in 0..MaxNow
  /\ DOMAIN at = Request
  /\ DOMAIN charged = Request
  /\ DOMAIN bucket = Counters
  /\ reached \subseteq Request

\* The places a request reaches before any daily counter is asked, and the
\* answers that turn it away there: nothing has been charged.
Uncharged == {"idle", "global", "ready", "route", "body", "charCap", "ipShare"}
Junk == {"400", "401", "403", "413"}
FreeSoFar(r) == at[r] \in Uncharged \cup Junk => charged[r] = {}

\* Where a request stands says which route it took.
OnItsRoute(r) ==
  /\ at[r] \in {"route", "body"} => call[r].route \in Routes
  /\ at[r] = "body" => call[r].route \notin Proxied \cup Local \cup {"market_cache_read"}
  /\ at[r] = "charCap" => call[r].route = "embed"
  /\ at[r] \in {"ipShare", "sharedCap", "sign"} => call[r].route = "builder_sign"
  /\ at[r] = "kvGet" => call[r].route = "market_cache_read"
  /\ at[r] = "kvPut" => call[r].route = "market_cache_write"
  /\ at[r] = "secondTry" => call[r].route = "proxy"

\* Past checkAuth the deployment has its limiter, or is one without limits.
AuthHeld(r) ==
  at[r] \in {"route", "body", "charCap", "ipShare", "sharedCap"} => ~Misconfigured

PaidFor(r, k) == \E w \in Windows : ChargedTo(r, k, w)

\* What a request that stands before its route's work has been charged by.
PaidSoFar(r) ==
  /\ at[r] = "sharedCap" => PaidFor(r, SignsOf(Ip(r)))
  /\ at[r] = "sign" => PaidFor(r, SignsOf(Ip(r))) /\ PaidFor(r, SignsDaily)
  /\ at[r] = "upstream" /\ call[r].route = "embed" => PaidFor(r, OpenAiDaily)
  /\ r \in reached => \A k \in QuotasOf(r) : PaidFor(r, k)

Sound(r) ==
  /\ FreeSoFar(r)
  /\ OnItsRoute(r)
  /\ AuthHeld(r)
  /\ ~LimitsOff => PaidSoFar(r)

\* What a counter has stored, its window's charges, is within its limit.
StoredWithinLimits == \A k \in DailyCounters : bucket[k].count \in 0..LimitOf(k)

WorkerIInv ==
  /\ Typing
  /\ \A r \in Request : Sound(r)
  /\ StoredWithinLimits

-----------------------------------------------------------------------------
(* The counters.                                                           *)

LEMMA WindowsAreReached ==
  ASSUME Typing, NEW k \in DailyCounters
  PROVE  WindowStart(k) \in Windows
BY DEF Typing, WindowStart, Windows

LEMMA IpIsKnown ==
  ASSUME Typing, NEW r \in Request
  PROVE  /\ Ip(r) \in Ips
         /\ SignsOf(Ip(r)) \in DailyCounters
         /\ OpenAiDaily \in DailyCounters
         /\ SignsDaily \in DailyCounters
         /\ call[r].size \in Nat
BY WorkloadAssumption DEF Typing, Ip, Ips, DailyCounters

LEMMA MinuteCounters ==
  ASSUME NEW ip
  PROVE  /\ <<"global", ip>> \notin DailyCounters
         /\ \A route \in Routes : <<route, ip>> \notin DailyCounters
BY WorkloadAssumption DEF DailyCounters, OpenAiDaily, SignsDaily, SignsOf, Routes, Limited,
   Proxied, Local

LEMMA CounterSets ==
  ASSUME Typing, NEW r \in Request
  PROVE  /\ DailyCounters \subseteq Counters
         /\ <<"global", Ip(r)>> \in Counters
         /\ \A route \in Routes : <<route, Ip(r)>> \in Counters
BY IpIsKnown DEF Counters

\* What asking a counter can do: the request goes where it was allowed, where
\* it was refused or where an exception takes it; its charges grow by the
\* counter at most, and by that at least when it is allowed.
LEMMA CheckEffect ==
  ASSUME Typing, StoredWithinLimits, NEW r \in Request, NEW k \in Counters, NEW limit \in Nat,
         NEW amount \in Nat, NEW allowed, NEW refused,
         k \in DailyCounters => limit = LimitOf(k),
         CheckRateLimit(r, k, limit, amount, allowed, refused)
  PROVE  /\ DOMAIN at' = Request /\ DOMAIN charged' = Request /\ DOMAIN bucket' = Counters
         /\ \A q \in Request \ {r} : at'[q] = at[q] /\ charged'[q] = charged[q]
         /\ at'[r] \in {allowed, refused, "500", "uncaught"}
         /\ charged[r] \subseteq charged'[r]
         /\ k \notin DailyCounters => charged'[r] = charged[r]
         /\ \/ ~env.limiter
            \/ at'[r] \in {refused, "500", "uncaught"}
            \/ k \in DailyCounters =>
                 [counter |-> k, start |-> WindowStart(k)] \in charged'[r]
         /\ \A d \in DailyCounters : bucket'[d].count \in 0..LimitOf(d)
<1> DEFINE New == {[counter |-> d, start |-> WindowStart(d)] : d \in {k} \cap DailyCounters}
           fits == Count(k) + amount <= limit
           Kept == UNCHANGED <<bucket, charged>>
           ToldTo(place) == at' = [at EXCEPT ![r] = place]
           Error == IF at[r] \in {"global", "ready"} THEN "uncaught" ELSE "500"
<1>1. \/ Kept /\ (ToldTo(refused) \/ ToldTo(Error))
      \/ Kept /\ ToldTo(allowed) /\ ~env.limiter
      \/ fits /\ Increment(r, k, amount) /\ (ToldTo(allowed) \/ ToldTo(Error))
  BY Zenon DEF CheckRateLimit, Goto, Thrown, AnswerLost
<1>2. /\ DOMAIN at' = Request
      /\ \A q \in Request \ {r} : at'[q] = at[q]
      /\ at'[r] \in {allowed, refused, Error}
  BY <1>1 DEF Typing
<1>3. CASE Kept /\ (~env.limiter \/ ToldTo(refused) \/ ToldTo(Error))
  <2>1. ~env.limiter \/ at'[r] \in {refused, "500", "uncaught"}
    BY <1>3 DEF Typing
  <2>2. \A d \in DailyCounters : bucket'[d].count \in 0..LimitOf(d)
    BY <1>3 DEF StoredWithinLimits
  <2> QED BY <1>2, <1>3, <2>1, <2>2 DEF Typing
<1>4. CASE fits /\ Increment(r, k, amount)
  <2>1. /\ DOMAIN charged' = Request /\ DOMAIN bucket' = Counters
        /\ \A q \in Request \ {r} : charged'[q] = charged[q]
        /\ charged'[r] = charged[r] \cup New
    BY <1>4 DEF Increment, Typing
  <2>2. k \notin DailyCounters => charged'[r] = charged[r]
    BY <2>1
  <2>3. \A d \in DailyCounters : bucket'[d].count \in 0..LimitOf(d)
    <3> SUFFICES ASSUME NEW d \in DailyCounters PROVE bucket'[d].count \in 0..LimitOf(d)
      OBVIOUS
    <3>1. d \in Counters
      BY DEF Counters
    <3>2. CASE d # k
      BY <1>4, <3>1, <3>2 DEF Increment, Typing, StoredWithinLimits
    <3>3. CASE d = k
      <4>1. bucket'[d].count = Count(k) + amount
        BY <1>4, <3>1, <3>3 DEF Increment, Typing
      <4>2. Count(k) \in Nat
        BY <3>3 DEF Count, StoredWithinLimits
      <4> QED BY <1>4, <3>3, <4>1, <4>2
    <3> QED BY <3>2, <3>3
  <2>4. k \in DailyCounters => [counter |-> k, start |-> WindowStart(k)] \in charged'[r]
    BY <2>1
  <2> QED BY <1>2, <2>1, <2>2, <2>3, <2>4
<1> QED BY <1>1, <1>3, <1>4

-----------------------------------------------------------------------------
(* The steps.                                                              *)

\* A step of one request leaves the others as they are.
LEMMA OthersStaySound ==
  ASSUME WorkerIInv, NEW r \in Request, UNCHANGED <<env, call>>,
         \A q \in Request \ {r} : at'[q] = at[q] /\ charged'[q] = charged[q],
         reached' \subseteq reached \cup {r}
  PROVE  \A q \in Request \ {r} : Sound(q)'
<1> SUFFICES ASSUME NEW q \in Request \ {r} PROVE Sound(q)'
  OBVIOUS
<1>1. Sound(q) /\ at'[q] = at[q] /\ charged'[q] = charged[q] /\ (q \in reached' => q \in reached)
  BY DEF WorkerIInv
<1>2. FreeSoFar(q)' /\ OnItsRoute(q)' /\ AuthHeld(q)'
  BY <1>1 DEF Sound, FreeSoFar, OnItsRoute, AuthHeld, Misconfigured
<1>3. (~LimitsOff => PaidSoFar(q))'
  BY <1>1 DEF Sound, PaidSoFar, PaidFor, ChargedTo, QuotasOf, Ip, SignsOf, LimitsOff
<1> QED BY <1>2, <1>3 DEF Sound

\* A step that asks no counter.
LEMMA QuietStep ==
  ASSUME WorkerIInv, NEW r \in Request, NEW place, at' = [at EXCEPT ![r] = place],
         UNCHANGED <<env, now, call, bucket, charged>>,
         reached' \in {reached, reached \cup {r}},
         Sound(r)'
  PROVE  WorkerIInv'
<1>1. Typing' /\ \A q \in Request \ {r} : at'[q] = at[q] /\ charged'[q] = charged[q]
  BY DEF WorkerIInv, Typing
<1>2. \A q \in Request : Sound(q)'
  BY <1>1, OthersStaySound
<1>3. StoredWithinLimits'
  BY DEF WorkerIInv, StoredWithinLimits
<1> QED BY <1>1, <1>2, <1>3 DEF WorkerIInv

\* A step that asks one.
LEMMA CheckStep ==
  ASSUME WorkerIInv, NEW r \in Request, NEW k \in Counters, NEW limit \in Nat,
         NEW amount \in Nat, NEW allowed, NEW refused,
         k \in DailyCounters => limit = LimitOf(k),
         CheckRateLimit(r, k, limit, amount, allowed, refused),
         UNCHANGED <<env, now, call, reached>>,
         Sound(r)'
  PROVE  WorkerIInv'
<1>1. Typing /\ StoredWithinLimits
  BY DEF WorkerIInv
<1>2. Typing' /\ \A q \in Request \ {r} : at'[q] = at[q] /\ charged'[q] = charged[q]
  BY <1>1, CheckEffect DEF Typing
<1>3. \A q \in Request : Sound(q)'
  BY <1>2, OthersStaySound
<1>4. StoredWithinLimits'
  <2>1. \A d \in DailyCounters : bucket'[d].count \in 0..LimitOf(d)
    BY <1>1, CheckEffect
  <2> QED BY <2>1 DEF StoredWithinLimits
<1> QED BY <1>2, <1>3, <1>4 DEF WorkerIInv

\* What Sound says of a request that has been charged nothing, served
\* nothing and stands at a place that asks for neither.
LEMMA GlobalCheckKeeps ==
  ASSUME WorkerIInv, NEW r \in Request, GlobalCheck(r)
  PROVE  WorkerIInv'
<1> DEFINE k == <<"global", Ip(r)>>
           c == call[r]
<1>1. Typing /\ StoredWithinLimits /\ Sound(r)
  BY DEF WorkerIInv
<1>2. k \in Counters /\ k \notin DailyCounters
  BY <1>1, CounterSets, MinuteCounters
<1>3. /\ CheckRateLimit(r, k, GlobalLimit, 1, AfterGlobal(c), "429")
      /\ UNCHANGED <<env, now, call, reached>>
      /\ at[r] = "global"
  BY DEF GlobalCheck
<1>4. /\ at'[r] \in {AfterGlobal(c), "429", "500", "uncaught"}
      /\ charged'[r] = charged[r]
  BY <1>1, <1>2, <1>3, CheckEffect, WorkerAssumption
<1>5. /\ AfterGlobal(c) \in {"200", "ready", "503", "401", "404", "route"}
      /\ AfterGlobal(c) = "route" => c.route \in Routes /\ ~Misconfigured
  BY DEF AfterGlobal, AuthAnswer
<1>6. Sound(r)'
  BY <1>1, <1>3, <1>4, <1>5
     DEF Sound, FreeSoFar, OnItsRoute, AuthHeld, PaidSoFar, PaidFor, ChargedTo, QuotasOf, Ip,
         SignsOf, LimitsOff, Misconfigured, Uncharged, Junk
<1> QED BY <1>2, <1>3, <1>6, CheckStep, WorkerAssumption

LEMMA RouteCheckKeeps ==
  ASSUME WorkerIInv, NEW r \in Request, RouteCheck(r)
  PROVE  WorkerIInv'
<1> DEFINE c == call[r]
           k == <<c.route, Ip(r)>>
           refused == IF c.route = "telem" THEN "200" ELSE "429"
<1>1. Typing /\ StoredWithinLimits /\ Sound(r) /\ at[r] = "route"
  BY DEF WorkerIInv, RouteCheck
<1>2. c.route \in Routes /\ ~Misconfigured
  BY <1>1 DEF Sound, OnItsRoute, AuthHeld
<1>3. k \in Counters /\ k \notin DailyCounters
  BY <1>1, <1>2, CounterSets, MinuteCounters
<1>4. /\ CheckRateLimit(r, k, PerMinute[c.route], 1, AfterRouteLimit(c), refused)
      /\ UNCHANGED <<env, now, call, reached>>
  BY DEF RouteCheck
<1>8. refused \in {"200", "429"} /\ PerMinute[c.route] \in Nat
  BY <1>2, WorkloadAssumption DEF Routes
<1> HIDE DEF k, refused
<1>5. /\ at'[r] \in {AfterRouteLimit(c), "200", "429", "500", "uncaught"}
      /\ charged'[r] = charged[r]
  <2>1. k \in DailyCounters => PerMinute[c.route] = LimitOf(k)
    BY <1>3
  <2>2. /\ at'[r] \in {AfterRouteLimit(c), refused, "500", "uncaught"}
        /\ charged'[r] = charged[r]
    BY <1>1, <1>3, <1>4, <1>8, <2>1, CheckEffect, 1 \in Nat
  <2> QED BY <1>8, <2>2
<1>6. /\ AfterRouteLimit(c) \in {"503", "401", "400", "upstream", "200", "kvGet", "body"}
      /\ AfterRouteLimit(c) = "upstream" => c.route # "embed"
      /\ AfterRouteLimit(c) = "kvGet" => c.route = "market_cache_read"
      /\ AfterRouteLimit(c) = "body" => c.route \notin Proxied \cup Local \cup {"market_cache_read"}
  BY DEF AfterRouteLimit, Proxied
<1>7. Sound(r)'
  BY <1>1, <1>2, <1>4, <1>5, <1>6
     DEF Sound, FreeSoFar, OnItsRoute, AuthHeld, PaidSoFar, PaidFor, ChargedTo, QuotasOf, Ip,
         SignsOf, LimitsOff, Misconfigured, Uncharged, Junk
<1> QED BY <1>3, <1>4, <1>8, <1>7, CheckStep

\* A daily counter: with limits on, a request it lets through has been charged.
LEMMA DailyCheck ==
  ASSUME WorkerIInv, NEW r \in Request, NEW k \in DailyCounters, NEW limit \in Nat,
         NEW amount \in Nat, NEW allowed, limit = LimitOf(k),
         CheckRateLimit(r, k, limit, amount, allowed, "capped"),
         UNCHANGED <<env, now, call, reached>>, ~Misconfigured
  PROVE  /\ at'[r] \in {allowed, "capped", "500", "uncaught"}
         /\ charged[r] \subseteq charged'[r]
         /\ at'[r] = allowed /\ allowed \notin {"capped", "500", "uncaught"} /\ ~LimitsOff =>
              PaidFor(r, k)'
<1>1. Typing /\ StoredWithinLimits /\ k \in Counters
  BY DEF WorkerIInv, Counters
<1>2. /\ at'[r] \in {allowed, "capped", "500", "uncaught"}
      /\ charged[r] \subseteq charged'[r]
      /\ \/ ~env.limiter
         \/ at'[r] \in {"capped", "500", "uncaught"}
         \/ [counter |-> k, start |-> WindowStart(k)] \in charged'[r]
  BY <1>1, CheckEffect
<1>3. ~LimitsOff => env.limiter
  BY DEF LimitsOff, Misconfigured
<1>4. WindowStart(k) \in Windows
  BY <1>1, WindowsAreReached
<1> QED BY <1>2, <1>3, <1>4 DEF PaidFor, ChargedTo

LEMMA LimitsOfCounters ==
  ASSUME NEW r \in Request, Typing
  PROVE  /\ LimitOf(OpenAiDaily) = OpenAiCap
         /\ LimitOf(SignsDaily) = DailySigns
         /\ LimitOf(SignsOf(Ip(r))) = PerIpSigns
BY DEF LimitOf, OpenAiDaily, SignsDaily, SignsOf

LEMMA CharCapKeeps ==
  ASSUME WorkerIInv, NEW r \in Request, CharCap(r)
  PROVE  WorkerIInv'
<1>1. Typing /\ Sound(r) /\ at[r] = "charCap"
  BY DEF WorkerIInv, CharCap
<1>2. call[r].route = "embed" /\ ~Misconfigured
  BY <1>1 DEF Sound, OnItsRoute, AuthHeld
<1>3. /\ OpenAiDaily \in DailyCounters /\ OpenAiDaily \in Counters
      /\ call[r].size \in Nat /\ OpenAiCap \in Nat /\ OpenAiCap = LimitOf(OpenAiDaily)
  BY <1>1, IpIsKnown, CounterSets, LimitsOfCounters, WorkerAssumption
<1>4. /\ CheckRateLimit(r, OpenAiDaily, OpenAiCap, call[r].size, "upstream", "capped")
      /\ UNCHANGED <<env, now, call, reached>>
  BY DEF CharCap
<1>5. /\ at'[r] \in {"upstream", "capped", "500", "uncaught"}
      /\ charged[r] \subseteq charged'[r]
      /\ at'[r] = "upstream" /\ ~LimitsOff => PaidFor(r, OpenAiDaily)'
  BY <1>2, <1>3, <1>4, DailyCheck
<1>6. Sound(r)'
  BY <1>1, <1>2, <1>4, <1>5
     DEF Sound, FreeSoFar, OnItsRoute, AuthHeld, PaidSoFar, PaidFor, ChargedTo, QuotasOf, Ip,
         SignsOf, LimitsOff, Uncharged, Junk
<1> QED BY <1>3, <1>4, <1>6, CheckStep

LEMMA IpShareKeeps ==
  ASSUME WorkerIInv, NEW r \in Request, IpShare(r)
  PROVE  WorkerIInv'
<1>1. Typing /\ Sound(r) /\ at[r] = "ipShare"
  BY DEF WorkerIInv, IpShare
<1>2. call[r].route = "builder_sign" /\ ~Misconfigured
  BY <1>1 DEF Sound, OnItsRoute, AuthHeld
<1>3. PICK k \in DailyCounters : k = SignsOf(Ip(r))
  BY <1>1, IpIsKnown
<1>4. k \in Counters /\ PerIpSigns \in Nat /\ PerIpSigns = LimitOf(k)
  BY <1>1, <1>3, CounterSets, LimitsOfCounters, WorkerAssumption
<1>5. /\ CheckRateLimit(r, k, PerIpSigns, 1, "sharedCap", "capped")
      /\ UNCHANGED <<env, now, call, reached>>
  BY <1>3 DEF IpShare
<1>6. /\ at'[r] \in {"sharedCap", "capped", "500", "uncaught"}
      /\ charged[r] \subseteq charged'[r]
      /\ at'[r] = "sharedCap" /\ ~LimitsOff => PaidFor(r, k)'
  BY <1>2, <1>4, <1>5, DailyCheck
<1>7. k = SignsOf(Ip(r))'
  BY <1>3, <1>5 DEF SignsOf, Ip
<1>8. Sound(r)'
  <2>1. FreeSoFar(r)' /\ OnItsRoute(r)' /\ AuthHeld(r)'
    BY <1>1, <1>2, <1>5, <1>6
       DEF FreeSoFar, OnItsRoute, AuthHeld, Misconfigured, Uncharged, Junk
  <2>2. ASSUME ~LimitsOff', r \in reached'
        PROVE  (\A d \in QuotasOf(r) : PaidFor(r, d))'
    BY <1>1, <1>5, <1>6, <2>2
       DEF Sound, PaidSoFar, PaidFor, ChargedTo, QuotasOf, Ip, SignsOf, LimitsOff
  <2>3. ASSUME ~LimitsOff', at'[r] = "sharedCap"
        PROVE  PaidFor(r, SignsOf(Ip(r)))'
    <3>1. PaidFor(r, k)'
      BY <1>5, <1>6, <2>3 DEF LimitsOff
    <3> QED BY <1>7, <3>1 DEF PaidFor, ChargedTo
  <2>4. (~LimitsOff => PaidSoFar(r))'
    BY <1>6, <2>2, <2>3 DEF PaidSoFar
  <2> QED BY <2>1, <2>4 DEF Sound
<1> QED BY <1>4, <1>5, <1>8, CheckStep

LEMMA SharedCapKeeps ==
  ASSUME WorkerIInv, NEW r \in Request, SharedCap(r)
  PROVE  WorkerIInv'
<1>1. Typing /\ Sound(r) /\ at[r] = "sharedCap"
  BY DEF WorkerIInv, SharedCap
<1>2. call[r].route = "builder_sign" /\ ~Misconfigured
  BY <1>1 DEF Sound, OnItsRoute, AuthHeld
<1>3. /\ SignsDaily \in DailyCounters /\ SignsDaily \in Counters
      /\ DailySigns \in Nat /\ DailySigns = LimitOf(SignsDaily)
  BY <1>1, IpIsKnown, CounterSets, LimitsOfCounters, WorkerAssumption
<1>4. /\ CheckRateLimit(r, SignsDaily, DailySigns, 1, "sign", "capped")
      /\ UNCHANGED <<env, now, call, reached>>
  BY DEF SharedCap
<1>5. /\ at'[r] \in {"sign", "capped", "500", "uncaught"}
      /\ charged[r] \subseteq charged'[r]
      /\ at'[r] = "sign" /\ ~LimitsOff => PaidFor(r, SignsDaily)'
  BY <1>2, <1>3, <1>4, DailyCheck
<1>6. Sound(r)'
  BY <1>1, <1>2, <1>4, <1>5
     DEF Sound, FreeSoFar, OnItsRoute, AuthHeld, PaidSoFar, PaidFor, ChargedTo, QuotasOf, Ip,
         SignsOf, LimitsOff, Uncharged, Junk
<1> QED BY <1>3, <1>4, <1>6, CheckStep

\* A step that asks no counter, for the request that takes it: it stays sound
\* when its new place asks for no charge it does not have.
LEMMA QuietSound ==
  ASSUME Typing, NEW r \in Request, Sound(r), NEW place,
         at' = [at EXCEPT ![r] = place], UNCHANGED <<env, now, call, bucket, charged>>,
         reached' \in {reached, reached \cup {r}},
         FreeSoFar(r)', OnItsRoute(r)', AuthHeld(r)',
         ~LimitsOff /\ r \in reached' => \A k \in QuotasOf(r) : PaidFor(r, k),
         place \notin {"sharedCap", "sign"},
         place = "upstream" => call[r].route # "embed"
  PROVE  Sound(r)'
<1>1. at'[r] = place
  BY DEF Typing
<1>2. ASSUME ~LimitsOff', r \in reached'
      PROVE  (\A k \in QuotasOf(r) : PaidFor(r, k))'
  BY <1>2 DEF LimitsOff, QuotasOf, PaidFor, ChargedTo, Ip, SignsOf
<1>3. (~LimitsOff => PaidSoFar(r))'
  BY <1>1, <1>2 DEF PaidSoFar
<1> QED BY <1>3 DEF Sound

\* An answer, whether or not the request is counted as served by it.
LEMMA AnswerKeeps ==
  ASSUME WorkerIInv, NEW r \in Request,
         NEW status \in {"200", "404", "413", "429", "500", "502", "503", "status", "uncaught"},
         at' = [at EXCEPT ![r] = status], UNCHANGED <<env, now, call, bucket, charged>>,
         reached' \in {reached, reached \cup {r}},
         status = "413" => charged[r] = {},
         ~LimitsOff /\ r \in reached' => \A k \in QuotasOf(r) : PaidFor(r, k)
  PROVE  WorkerIInv'
<1>1. Typing /\ Sound(r) /\ at'[r] = status
  BY DEF WorkerIInv, Typing
<1>2. FreeSoFar(r)' /\ OnItsRoute(r)' /\ AuthHeld(r)'
  BY <1>1 DEF FreeSoFar, OnItsRoute, AuthHeld, Uncharged, Junk
<1>3. Sound(r)'
  BY <1>1, <1>2, QuietSound
<1> QED BY <1>3, QuietStep

\* A request that has not been served is owed nothing.
LEMMA ServedSoFar ==
  ASSUME WorkerIInv, NEW r \in Request, ~LimitsOff, r \in reached
  PROVE  \A k \in QuotasOf(r) : PaidFor(r, k)
BY DEF WorkerIInv, Sound, PaidSoFar

LEMMA ArriveKeeps ==
  ASSUME WorkerIInv, NEW r \in Request, Arrive(r)
  PROVE  WorkerIInv'
<1> DEFINE place == IF call[r].route = "options" THEN "200" ELSE "global"
<1>1. /\ Typing /\ Sound(r) /\ charged[r] = {}
      /\ at' = [at EXCEPT ![r] = place]
      /\ UNCHANGED <<env, now, call, bucket, charged, reached>>
  BY DEF Arrive, Goto, WorkerIInv, Sound, FreeSoFar, Uncharged
<1>2. place \in {"200", "global"} /\ at'[r] = place
  BY <1>1 DEF Typing
<1> HIDE DEF place
<1>3. FreeSoFar(r)' /\ OnItsRoute(r)' /\ AuthHeld(r)'
  BY <1>1, <1>2 DEF FreeSoFar, OnItsRoute, AuthHeld
<1>4. Sound(r)'
  BY <1>1, <1>2, <1>3, QuietSound, ServedSoFar
<1> QED BY <1>1, <1>4, QuietStep

LEMMA ReadyKeeps ==
  ASSUME WorkerIInv, NEW r \in Request, Ready(r)
  PROVE  WorkerIInv'
<1>1. PICK status \in {"200", "503", "uncaught", "500"} : at' = [at EXCEPT ![r] = status]
  BY DEF Ready, Goto, Thrown
<1>2. UNCHANGED <<env, now, call, bucket, charged, reached>>
  BY DEF Ready
<1> QED BY <1>1, <1>2, AnswerKeeps, ServedSoFar

\* Where the body takes a request: its answer, or the counter of its route.
LEMMA BodyPlaces ==
  ASSUME NEW c, c.route \in Routes, c.route \notin Proxied \cup Local \cup {"market_cache_read"}
  PROVE  /\ AfterBody(c) \in {"200", "400", "403", "413", "500", "charCap", "ipShare", "kvPut"}
         /\ AfterBody(c) = "charCap" => c.route = "embed"
         /\ AfterBody(c) = "ipShare" => c.route = "builder_sign"
         /\ AfterBody(c) = "kvPut" => c.route = "market_cache_write"
<1>1. c.route \in {"embed", "builder_sign", "telem", "market_cache_write"}
  BY WorkloadAssumption DEF Routes, Limited
<1> QED BY <1>1 DEF AfterBody, AfterEmbedBody, AfterSignBody, AfterCacheBody, AfterTelemetryBody

LEMMA ReadBodyKeeps ==
  ASSUME WorkerIInv, NEW r \in Request, ReadBody(r)
  PROVE  WorkerIInv'
<1> DEFINE c == call[r]
           place == AfterBody(c)
<1>1. /\ Typing /\ Sound(r) /\ charged[r] = {} /\ ~Misconfigured
      /\ c.route \in Routes /\ c.route \notin Proxied \cup Local \cup {"market_cache_read"}
  BY DEF ReadBody, WorkerIInv, Sound, FreeSoFar, OnItsRoute, AuthHeld, Uncharged
<1>2. /\ at' = [at EXCEPT ![r] = place] /\ UNCHANGED <<env, now, call, bucket, charged>>
      /\ reached' \in {reached, reached \cup {r}}
      /\ c.route # "telem" => reached' = reached
  BY DEF ReadBody, Goto
<1>3. /\ place \in {"200", "400", "403", "413", "500", "charCap", "ipShare", "kvPut"}
      /\ place = "charCap" => c.route = "embed"
      /\ place = "ipShare" => c.route = "builder_sign"
      /\ place = "kvPut" => c.route = "market_cache_write"
  BY <1>1, BodyPlaces
<1> HIDE DEF place
<1>4. at'[r] = place
  BY <1>1, <1>2 DEF Typing
<1>5. FreeSoFar(r)' /\ OnItsRoute(r)' /\ AuthHeld(r)'
  BY <1>1, <1>2, <1>3, <1>4 DEF FreeSoFar, OnItsRoute, AuthHeld, Misconfigured
<1>6. ~LimitsOff /\ r \in reached' => \A k \in QuotasOf(r) : PaidFor(r, k)
  <2>1. CASE c.route = "telem"
    BY <2>1 DEF QuotasOf
  <2>2. CASE c.route # "telem"
    BY <1>2, <2>2, ServedSoFar
  <2> QED BY <2>1, <2>2
<1>7. Sound(r)'
  BY <1>1, <1>2, <1>3, <1>5, <1>6, QuietSound
<1> QED BY <1>2, <1>7, QuietStep

\* Both quotas of a signature were charged on the way to it.
LEMMA SigningKeeps ==
  ASSUME WorkerIInv, NEW r \in Request, HandOutKey(r) \/ Sign(r)
  PROVE  WorkerIInv'
<1>1. PICK status \in {"200", "500"} : at' = [at EXCEPT ![r] = status]
  BY DEF HandOutKey, Sign, Answer, Goto
<1>2. /\ UNCHANGED <<env, now, call, bucket, charged>>
      /\ reached' \in {reached, reached \cup {r}}
      /\ at[r] = "sign"
  BY DEF HandOutKey, Sign, Answer
<1>3. ~LimitsOff => \A k \in QuotasOf(r) : PaidFor(r, k)
  BY <1>2 DEF WorkerIInv, Sound, PaidSoFar, OnItsRoute, QuotasOf
<1> QED BY <1>1, <1>2, <1>3, AnswerKeeps

\* The characters of an embedding were charged before OpenAI is asked.
LEMMA EmbeddingsKeeps ==
  ASSUME WorkerIInv, NEW r \in Request, Embeddings(r)
  PROVE  WorkerIInv'
<1>1. PICK status \in {"200", "502", "500"} : at' = [at EXCEPT ![r] = status]
  BY DEF Embeddings, Answer, Goto
<1>2. /\ UNCHANGED <<env, now, call, bucket, charged>>
      /\ reached' = reached \cup {r}
      /\ at[r] = "upstream" /\ call[r].route = "embed"
  BY DEF Embeddings, Answer, Fetching
<1>3. ~LimitsOff => \A k \in QuotasOf(r) : PaidFor(r, k)
  BY <1>2 DEF WorkerIInv, Sound, PaidSoFar, QuotasOf
<1> QED BY <1>1, <1>2, <1>3, AnswerKeeps

\* The other routes have no daily quota.
LEMMA FreeRoutesKeep ==
  ASSUME WorkerIInv, NEW r \in Request,
         \/ PassOn(r) \/ Search(r) \/ Positions(r) \/ KvGet(r) \/ KvPut(r)
         \/ at[r] = "secondTry" /\ SafeLookup(r)
         \/ SafeLookup(r) /\ Answer(r, {"200"})
  PROVE  WorkerIInv'
<1>1. PICK status \in {"200", "status", "500", "502", "404", "uncaught"} :
        at' = [at EXCEPT ![r] = status]
  BY DEF PassOn, Search, Positions, KvGet, KvPut, SafeLookup, Answer, Goto, Thrown, Fetching
<1>2. /\ UNCHANGED <<env, now, call, bucket, charged>>
      /\ reached' \in {reached, reached \cup {r}}
  BY DEF PassOn, Search, Positions, KvGet, KvPut, SafeLookup, Answer, Fetching
<1>3. call[r].route \notin {"embed", "builder_sign"}
  BY DEF PassOn, Search, Positions, KvGet, KvPut, SafeLookup, Fetching, WorkerIInv, Sound,
         OnItsRoute
<1>4. QuotasOf(r) = {}
  BY <1>3 DEF QuotasOf
<1> QED BY <1>1, <1>2, <1>4, AnswerKeeps

LEMMA SecondTryKeeps ==
  ASSUME WorkerIInv, NEW r \in Request, at[r] = "upstream", call[r].route = "proxy",
         at' = [at EXCEPT ![r] = "secondTry"],
         UNCHANGED <<env, now, call, bucket, charged, reached>>
  PROVE  WorkerIInv'
<1>1. Typing /\ Sound(r) /\ at'[r] = "secondTry"
  BY DEF WorkerIInv, Typing
<1>2. FreeSoFar(r)' /\ OnItsRoute(r)' /\ AuthHeld(r)'
  BY <1>1 DEF FreeSoFar, OnItsRoute, AuthHeld, Uncharged, Junk
<1>3. Sound(r)'
  BY <1>1, <1>2, QuietSound, ServedSoFar
<1> QED BY <1>3, QuietStep

-----------------------------------------------------------------------------
(* The theorems.                                                           *)

LEMMA InitSound == Init => WorkerIInv
<1> SUFFICES ASSUME Init PROVE WorkerIInv
  OBVIOUS
<1>1. Typing
  BY WorkerAssumption DEF Init, Typing
<1>2. ASSUME NEW r \in Request PROVE Sound(r)
  BY DEF Init, Sound, FreeSoFar, OnItsRoute, AuthHeld, PaidSoFar
<1>3. StoredWithinLimits
  BY WorkerAssumption DEF Init, StoredWithinLimits, LimitOf, Counters
<1> QED BY <1>1, <1>2, <1>3 DEF WorkerIInv

LEMMA TickKeeps ==
  ASSUME WorkerIInv, Tick \/ UNCHANGED vars
  PROVE  WorkerIInv'
<1>1. UNCHANGED <<env, bucket, call, at, charged, reached>>
  BY DEF Tick, vars
<1>2. Typing'
  BY <1>1, WorkerAssumption DEF WorkerIInv, Typing, Tick, vars
<1>3. \A r \in Request : Sound(r)'
  BY <1>1 DEF WorkerIInv, Sound, FreeSoFar, OnItsRoute, AuthHeld, Misconfigured, PaidSoFar,
     PaidFor, ChargedTo, QuotasOf, Ip, SignsOf, LimitsOff
<1>4. StoredWithinLimits'
  BY <1>1 DEF WorkerIInv, StoredWithinLimits
<1> QED BY <1>2, <1>3, <1>4 DEF WorkerIInv

\* The inductive invariant holds of every deployment and workload: what a
\* request was charged by fits the place it stands at.
THEOREM WorkerInvariant == Spec => []WorkerIInv
<1>1. WorkerIInv /\ [Next]_vars => WorkerIInv'
  <2> SUFFICES ASSUME WorkerIInv, [Next]_vars PROVE WorkerIInv'
    OBVIOUS
  <2>1. CASE Tick \/ UNCHANGED vars
    BY <2>1, TickKeeps
  <2>2. ASSUME NEW r \in Request, Arrive(r) PROVE WorkerIInv'
    BY <2>2, ArriveKeeps
  <2>3. ASSUME NEW r \in Request, Step(r) PROVE WorkerIInv'
    <3>1. CASE GlobalCheck(r)
      BY <3>1, GlobalCheckKeeps
    <3>2. CASE Ready(r)
      BY <3>2, ReadyKeeps
    <3>3. CASE RouteCheck(r)
      BY <3>3, RouteCheckKeeps
    <3>4. CASE ReadBody(r)
      BY <3>4, ReadBodyKeeps
    <3>5. CASE CharCap(r)
      BY <3>5, CharCapKeeps
    <3>6. CASE IpShare(r)
      BY <3>6, IpShareKeeps
    <3>7. CASE SharedCap(r)
      BY <3>7, SharedCapKeeps
    <3>8. CASE HandOutKey(r) \/ Sign(r)
      BY <3>8, SigningKeeps
    <3>9. CASE Embeddings(r)
      BY <3>9, EmbeddingsKeeps
    <3>10. CASE PassOn(r) \/ Search(r) \/ Positions(r) \/ KvGet(r) \/ KvPut(r)
      BY <3>10, FreeRoutesKeep
    <3>11. CASE SafeLookup(r)
      <4>1. CASE at[r] = "secondTry"
        BY <3>11, <4>1, FreeRoutesKeep
      <4>2. CASE Answer(r, {"200"})
        BY <3>11, <4>2, FreeRoutesKeep
      <4>3. CASE /\ Fetching(r, {"proxy"}) /\ Goto(r, "secondTry")
                 /\ UNCHANGED <<env, now, bucket, blob, call, charged, reached>>
        BY <4>3, SecondTryKeeps DEF Fetching, Goto
      <4> QED BY <3>11, <4>1, <4>2, <4>3 DEF SafeLookup
    <3> QED BY <2>3, <3>1, <3>2, <3>3, <3>4, <3>5, <3>6, <3>7, <3>8, <3>9, <3>10, <3>11 DEF Step
  <2> QED BY <2>1, <2>2, <2>3 DEF Next
<1> QED BY InitSound, <1>1, PTL DEF Spec

\* Junk costs nobody anything: a request turned away for its credentials, its
\* body or its shape was charged to no daily counter.
THEOREM JunkIsFree == Spec => []JunkCostsNobody
<1>1. WorkerIInv => JunkCostsNobody
  BY DEF WorkerIInv, Sound, FreeSoFar, Junk, JunkCostsNobody
<1> QED BY WorkerInvariant, <1>1, PTL

\* Where limits are on, nothing is served that was not charged by every daily
\* counter of its route, whatever answers of the counters were lost.
THEOREM NothingServedUncharged == Spec => [](~LimitsOff => ServedIsCharged)
<1>1. WorkerIInv => (~LimitsOff => ServedIsCharged)
  BY DEF WorkerIInv, Typing, Sound, PaidSoFar, PaidFor, ServedIsCharged
<1> QED BY WorkerInvariant, <1>1, PTL

\* No daily counter ever stands above its limit.
THEOREM CountersStayWithinLimits == Spec => []StoredWithinLimits
<1>1. WorkerIInv => StoredWithinLimits
  BY DEF WorkerIInv
<1> QED BY WorkerInvariant, <1>1, PTL

-----------------------------------------------------------------------------
(* The bill of a counter: a second invariant, on top of the first.         *)

\* What a counter has stored is the bill of its window; nobody is on the bill
\* of a later one, and no window's bill was ever above the limit.
BillSoundOf(k) ==
  /\ bucket[k].start \in Int
  /\ bucket[k].start <= WindowStart(k)
  /\ bucket[k].count = Charged(OnTheBillOf(k, bucket[k].start))
  /\ \A w \in Int : w > bucket[k].start => OnTheBillOf(k, w) = {}
  /\ \A w \in Int : Charged(OnTheBillOf(k, w)) <= LimitOf(k)
BillSound == \A k \in DailyCounters : BillSoundOf(k)

\* The day's signatures are asked for once by a request, after the share of
\* its address.
AskedOnce == \A r \in Request : at[r] = "sharedCap" => \A w \in Int : ~ChargedTo(r, SignsDaily, w)

BillIInv == BillSound /\ AskedOnce

LEMMA BillFacts ==
  ASSUME Typing, NEW k, NEW w
  PROVE  /\ IsFiniteSet(OnTheBillOf(k, w))
         /\ \A r \in OnTheBillOf(k, w) : chargeOf[r] \in Nat
         /\ Charged(OnTheBillOf(k, w)) = Sum(chargeOf, OnTheBillOf(k, w))
         /\ Charged(OnTheBillOf(k, w)) \in Nat
<1>1. IsFiniteSet(OnTheBillOf(k, w))
  BY WorkerAssumption, FS_Subset DEF OnTheBillOf
<1>2. \A r \in OnTheBillOf(k, w) : chargeOf[r] \in Nat
  BY IpIsKnown DEF OnTheBillOf, chargeOf
<1>3. Charged(OnTheBillOf(k, w)) = Sum(chargeOf, OnTheBillOf(k, w))
  BY DEF Charged, Sum
<1> QED BY <1>1, <1>2, <1>3, SumNat

\* The bill of the next state, with the same calls.
LEMMA BillNext ==
  ASSUME UNCHANGED call, NEW k, NEW w
  PROVE  /\ Charged(OnTheBillOf(k, w))' = Sum(chargeOf, OnTheBillOf(k, w)')
         /\ OnTheBillOf(k, w)' = {r \in Request : [counter |-> k, start |-> w] \in charged'[r]}
<1>1. chargeOf' = chargeOf
  BY DEF chargeOf
<1>2. Charged(OnTheBillOf(k, w))' = Sum(chargeOf', OnTheBillOf(k, w)')
  BY DEF Charged, Sum, MapThenSumSet, MapThenFoldSet
<1> QED BY <1>1, <1>2 DEF OnTheBillOf, ChargedTo

LEMMA Division ==
  ASSUME NEW n \in Nat, NEW d \in Nat \ {0}
  PROVE  n \div d \in Nat /\ (n \div d) * d <= n /\ n < (n \div d) * d + d
<1>1. n \div d \in Int /\ n % d \in 0..(d - 1)
  OBVIOUS
<1>2. n = d * (n \div d) + (n % d)
  OBVIOUS
<1> QED BY <1>1, <1>2

\* The start of a day's window is a number, and never goes back.
LEMMA WindowsGrow ==
  ASSUME Typing, NEW k \in DailyCounters, now' \in {now, now + 1}
  PROVE  /\ WindowStart(k) \in Nat /\ WindowStart(k)' \in Nat
         /\ WindowStart(k) <= WindowStart(k)'
         /\ now' = now => WindowStart(k)' = WindowStart(k)
<1> DEFINE D == DayTicks
           p == now \div D
           q == now' \div D
<1>1. D \in Nat \ {0} /\ now \in Nat /\ now' \in Nat
  BY WorkerAssumption DEF Typing
<1>2. p \in Nat /\ q \in Nat /\ p * D <= now /\ now < p * D + D /\ q * D <= now' /\ now' < q * D + D
  BY <1>1, Division
<1>3. WindowStart(k) = p * D /\ WindowStart(k)' = q * D
  BY DEF WindowStart
<1>4. now' = now => q = p
  OBVIOUS
<1> HIDE DEF p, q, D
<1>5. p * D \in Nat /\ q * D \in Nat
  BY <1>1, <1>2
<1>6. p * D <= q * D
  <2> SUFFICES ASSUME ~(p <= q) PROVE FALSE
    BY <1>1, <1>2
  <2>1. q + 1 <= p
    BY <1>2
  <2>2. (q + 1) * D <= p * D
    BY <1>1, <1>2, <2>1
  <2>3. (q + 1) * D = q * D + D
    BY <1>1, <1>2
  <2> QED BY <1>1, <1>2, <1>5, <2>2, <2>3
<1> QED BY <1>3, <1>4, <1>5, <1>6

\* A step that asks no daily counter, and Tick.
LEMMA BillsStay ==
  ASSUME Typing, NEW k \in DailyCounters, BillSoundOf(k), now' \in {now, now + 1},
         UNCHANGED call, bucket'[k] = bucket[k],
         \A r \in Request, w \in Int : ChargedTo(r, k, w)' <=> ChargedTo(r, k, w)
  PROVE  BillSoundOf(k)'
<1>1. \A w \in Int : OnTheBillOf(k, w)' = OnTheBillOf(k, w)
  BY BillNext DEF OnTheBillOf, ChargedTo
<1>2. \A w \in Int : Charged(OnTheBillOf(k, w))' = Charged(OnTheBillOf(k, w))
  BY <1>1, BillNext, BillFacts
<1>3. bucket'[k].start \in Int /\ bucket'[k].start <= WindowStart(k)'
  BY WindowsGrow DEF BillSoundOf
<1>4. bucket'[k].count = Charged(OnTheBillOf(k, bucket[k].start))'
  BY <1>2 DEF BillSoundOf
<1> QED BY <1>1, <1>2, <1>3, <1>4 DEF BillSoundOf

\* What a counter counts of today is what its bill of today says.
LEMMA CountIsTheBill ==
  ASSUME Typing, NEW k \in DailyCounters, BillSoundOf(k)
  PROVE  Count(k) = Charged(OnTheBillOf(k, WindowStart(k)))
<1> PICK W \in Nat : W = WindowStart(k)
  <2>1. WindowStart(k) \in Windows
    BY WindowsAreReached
  <2> QED BY <2>1, Division, WorkerAssumption DEF Windows
<1>1. CASE bucket[k].start = W
  BY <1>1 DEF Count, BillSoundOf
<1>2. CASE bucket[k].start # W
  <2>1. OnTheBillOf(k, W) = {}
    BY <1>2 DEF BillSoundOf
  <2>2. Charged(OnTheBillOf(k, W)) = Sum(chargeOf, OnTheBillOf(k, W))
    BY BillFacts
  <2> QED BY <1>2, <2>1, <2>2, SumEmpty DEF Count
<1> QED BY <1>1, <1>2

LEMMA CountIsNat ==
  ASSUME StoredWithinLimits, NEW k \in DailyCounters
  PROVE  Count(k) \in Nat
BY DEF StoredWithinLimits, Count

\* An increment: the request joins the bill of today's window.
LEMMA BillGrows ==
  ASSUME Typing, NEW k \in DailyCounters, BillSoundOf(k), NEW r \in Request,
         UNCHANGED <<call, now>>,
         Increment(r, k, chargeOf[r]), Count(k) + chargeOf[r] <= LimitOf(k),
         \A w \in Int : ~ChargedTo(r, k, w)
  PROVE  BillSoundOf(k)'
<1>0. WindowStart(k) \in Nat /\ WindowStart(k)' = WindowStart(k)
  BY WindowsGrow
<1> PICK W \in Nat : W = WindowStart(k)
  BY <1>0
<1> DEFINE old == OnTheBillOf(k, W)
<1>1. W = WindowStart(k) /\ WindowStart(k)' = W
  BY <1>0
<1>2. bucket'[k] = [start |-> W, count |-> Count(k) + chargeOf[r]]
  BY DEF Increment, Typing, Counters
<1>3. /\ charged'[r] = charged[r] \cup {[counter |-> k, start |-> W]}
      /\ \A q \in Request \ {r} : charged'[q] = charged[q]
  BY DEF Increment, Typing
<1>4. OnTheBillOf(k, W)' = old \cup {r} /\ r \notin old
  BY <1>1, <1>3, BillNext DEF OnTheBillOf, ChargedTo
<1>5. ASSUME NEW w \in Int, w # W PROVE OnTheBillOf(k, w)' = OnTheBillOf(k, w)
  BY <1>3, <1>5, BillNext DEF OnTheBillOf, ChargedTo
<1>6. Count(k) = Charged(old)
  BY CountIsTheBill
<1>7. Charged(OnTheBillOf(k, W))' = Count(k) + chargeOf[r]
  <2>1. /\ IsFiniteSet(old) /\ (\A q \in old : chargeOf[q] \in Nat)
        /\ Charged(old) = Sum(chargeOf, old) /\ Charged(old) \in Nat
    BY BillFacts
  <2>2. chargeOf[r] \in Nat
    BY IpIsKnown DEF chargeOf
  <2>3. IsFiniteSet(old \cup {r}) /\ (old \cup {r}) \ {r} = old
    BY <1>4, <2>1, FS_AddElement
  <2>5. Charged(OnTheBillOf(k, W))' = Sum(chargeOf, OnTheBillOf(k, W)')
    BY BillNext
  <2> HIDE DEF old
  <2>4. Sum(chargeOf, old \cup {r}) = chargeOf[r] + Sum(chargeOf, (old \cup {r}) \ {r})
    BY <2>1, <2>2, <2>3, SumStep
  <2>6. Sum(chargeOf, old \cup {r}) = chargeOf[r] + Charged(old)
    BY <2>1, <2>3, <2>4
  <2> QED BY <1>4, <1>6, <2>1, <2>2, <2>5, <2>6
<1>8. ASSUME NEW w \in Int PROVE Charged(OnTheBillOf(k, w))' <= LimitOf(k)
  <2>1. CASE w = W
    BY <1>7, <2>1
  <2>2. CASE w # W
    <3>1. OnTheBillOf(k, w)' = OnTheBillOf(k, w)
      BY <1>5, <2>2
    <3>2. Charged(OnTheBillOf(k, w))' = Sum(chargeOf, OnTheBillOf(k, w)')
      BY BillNext
    <3>3. Charged(OnTheBillOf(k, w)) = Sum(chargeOf, OnTheBillOf(k, w))
      BY BillFacts
    <3> QED BY <3>1, <3>2, <3>3 DEF BillSoundOf
  <2> QED BY <2>1, <2>2
<1>9. ASSUME NEW w \in Int, w > W PROVE OnTheBillOf(k, w)' = {}
  BY <1>1, <1>5, <1>9 DEF BillSoundOf
<1> QED BY <1>1, <1>2, <1>7, <1>8, <1>9 DEF BillSoundOf, LimitOf

\* Asking any counter.
LEMMA CheckBills ==
  ASSUME Typing, BillSound, NEW r \in Request, NEW k \in Counters, NEW limit, NEW amount,
         NEW allowed, NEW refused,
         k \in DailyCounters =>
           /\ limit = LimitOf(k) /\ amount = chargeOf[r]
           /\ \A w \in Int : ~ChargedTo(r, k, w),
         CheckRateLimit(r, k, limit, amount, allowed, refused),
         UNCHANGED <<call, now>>
  PROVE  BillSound'
<1>1. CASE UNCHANGED <<bucket, charged>>
  <2> SUFFICES ASSUME NEW d \in DailyCounters PROVE BillSoundOf(d)'
    BY DEF BillSound
  <2> QED BY <1>1, BillsStay DEF BillSound, ChargedTo
<1>2. CASE Increment(r, k, amount) /\ Count(k) + amount <= limit
  <2> SUFFICES ASSUME NEW d \in DailyCounters PROVE BillSoundOf(d)'
    BY DEF BillSound
  <2>1. BillSoundOf(d) /\ d \in Counters
    BY DEF BillSound, Counters
  <2>2. CASE d = k
    BY <1>2, <2>1, <2>2, BillGrows
  <2>3. CASE d # k
    <3>1. bucket'[d] = bucket[d]
      BY <1>2, <2>1, <2>3 DEF Increment, Typing
    <3>2. \A q \in Request, w \in Int : ChargedTo(q, d, w)' <=> ChargedTo(q, d, w)
      BY <1>2, <2>3 DEF Increment, Typing, ChargedTo
    <3> QED BY <2>1, <3>1, <3>2, BillsStay
  <2> QED BY <2>2, <2>3
<1> QED BY <1>1, <1>2 DEF CheckRateLimit

\* The five steps that ask a counter, each with what it asks.
LEMMA AskingBills ==
  ASSUME WorkerIInv, BillIInv, NEW r \in Request,
         GlobalCheck(r) \/ RouteCheck(r) \/ CharCap(r) \/ IpShare(r) \/ SharedCap(r)
  PROVE  BillSound'
<1>1. Typing /\ Sound(r) /\ BillSound
  BY DEF WorkerIInv, BillIInv
<1>2. CASE GlobalCheck(r)
  BY <1>1, <1>2, CounterSets, MinuteCounters, CheckBills DEF GlobalCheck
<1>3. CASE RouteCheck(r)
  <2>1. <<call[r].route, Ip(r)>> \in Counters \ DailyCounters
    BY <1>1, <1>3, CounterSets, MinuteCounters DEF RouteCheck, Sound, OnItsRoute
  <2> QED BY <1>1, <1>3, <2>1, CheckBills DEF RouteCheck
<1>4. CASE CharCap(r)
  <2>1. charged[r] = {} /\ call[r].route = "embed"
    BY <1>1, <1>4 DEF CharCap, Sound, FreeSoFar, OnItsRoute, Uncharged
  <2>2. chargeOf[r] = call[r].size /\ \A w \in Int : ~ChargedTo(r, OpenAiDaily, w)
    BY <2>1 DEF chargeOf, ChargedTo
  <2>3. OpenAiDaily \in DailyCounters /\ OpenAiDaily \in Counters /\ OpenAiCap = LimitOf(OpenAiDaily)
    BY <1>1, IpIsKnown, CounterSets, LimitsOfCounters
  <2> QED BY <1>1, <1>4, <2>2, <2>3, CheckBills DEF CharCap
<1>5. CASE IpShare(r)
  <2>1. charged[r] = {} /\ call[r].route = "builder_sign"
    BY <1>1, <1>5 DEF IpShare, Sound, FreeSoFar, OnItsRoute, Uncharged
  <2>2. chargeOf[r] = 1 /\ \A w \in Int : ~ChargedTo(r, SignsOf(Ip(r)), w)
    BY <2>1 DEF chargeOf, ChargedTo
  <2>3. SignsOf(Ip(r)) \in DailyCounters /\ SignsOf(Ip(r)) \in Counters
        /\ PerIpSigns = LimitOf(SignsOf(Ip(r)))
    BY <1>1, IpIsKnown, CounterSets, LimitsOfCounters
  <2> QED BY <1>1, <1>5, <2>2, <2>3, CheckBills DEF IpShare
<1>6. CASE SharedCap(r)
  <2>1. at[r] = "sharedCap" /\ call[r].route = "builder_sign"
    BY <1>1, <1>6 DEF SharedCap, Sound, OnItsRoute
  <2>2. chargeOf[r] = 1 /\ \A w \in Int : ~ChargedTo(r, SignsDaily, w)
    BY <2>1 DEF chargeOf, BillIInv, AskedOnce
  <2>3. SignsDaily \in DailyCounters /\ SignsDaily \in Counters
        /\ DailySigns = LimitOf(SignsDaily)
    BY <1>1, IpIsKnown, CounterSets, LimitsOfCounters
  <2> QED BY <1>1, <1>6, <2>2, <2>3, CheckBills DEF SharedCap
<1> QED BY <1>2, <1>3, <1>4, <1>5, <1>6

\* No other step charges anybody or sends a request to the shared counter of
\* signatures or away for a quota.
LEMMA QuietBills ==
  ASSUME WorkerIInv, [Next]_vars
  PROVE  \/ \E r \in Request :
              GlobalCheck(r) \/ RouteCheck(r) \/ CharCap(r) \/ IpShare(r) \/ SharedCap(r)
         \/ /\ UNCHANGED <<call, bucket, charged>>
            /\ now' \in {now, now + 1}
            /\ \A q \in Request : at'[q] \in {"sharedCap", "capped"} => at'[q] = at[q]
<1> DEFINE Quiet == /\ UNCHANGED <<call, bucket, charged>>
                    /\ now' \in {now, now + 1}
                    /\ \A q \in Request : at'[q] \in {"sharedCap", "capped"} => at'[q] = at[q]
           Asking(r) == GlobalCheck(r) \/ RouteCheck(r) \/ CharCap(r) \/ IpShare(r) \/ SharedCap(r)
<1>1. Typing
  BY DEF WorkerIInv
<1>2. ASSUME Tick \/ UNCHANGED vars PROVE Quiet
  BY <1>2 DEF Tick, vars
<1>3. ASSUME NEW r \in Request, NEW place, at' = [at EXCEPT ![r] = place],
             place \notin {"sharedCap", "capped"}, UNCHANGED <<call, bucket, charged, now>>
      PROVE  Quiet
  BY <1>1, <1>3 DEF Typing
<1> HIDE DEF Quiet
<1>4. ASSUME NEW r \in Request, Arrive(r) PROVE Quiet
  <2>1. PICK place \in {"200", "global"} : at' = [at EXCEPT ![r] = place]
    BY <1>4 DEF Arrive, Goto
  <2>2. UNCHANGED <<call, bucket, charged, now>>
    BY <1>4 DEF Arrive
  <2> QED BY <1>3, <2>1, <2>2
<1>5. ASSUME NEW r \in Request, Ready(r) PROVE Quiet
  <2>1. PICK place \in {"200", "503", "500", "uncaught"} : at' = [at EXCEPT ![r] = place]
    BY <1>5 DEF Ready, Goto, Thrown
  <2>2. UNCHANGED <<call, bucket, charged, now>>
    BY <1>5 DEF Ready
  <2> QED BY <1>3, <2>1, <2>2
<1>6. ASSUME NEW r \in Request, ReadBody(r) PROVE Quiet
  <2>1. AfterBody(call[r]) \notin {"sharedCap", "capped"}
    BY <1>6, BodyPlaces DEF ReadBody, WorkerIInv, Sound, OnItsRoute
  <2>2. at' = [at EXCEPT ![r] = AfterBody(call[r])] /\ UNCHANGED <<call, bucket, charged, now>>
    BY <1>6 DEF ReadBody, Goto
  <2> QED BY <1>3, <2>1, <2>2
<1>7. ASSUME NEW r \in Request,
             \/ HandOutKey(r) \/ Sign(r) \/ PassOn(r) \/ Search(r) \/ Embeddings(r)
             \/ Positions(r) \/ SafeLookup(r) \/ KvGet(r) \/ KvPut(r)
      PROVE  Quiet
  <2>1. PICK place \in {"200", "404", "500", "502", "status", "uncaught", "secondTry"} :
               at' = [at EXCEPT ![r] = place]
    BY <1>7 DEF HandOutKey, Sign, PassOn, Search, Embeddings, Positions, SafeLookup, KvGet, KvPut,
                Answer, Goto, Thrown
  <2>2. UNCHANGED <<call, bucket, charged, now>>
    BY <1>7 DEF HandOutKey, Sign, PassOn, Search, Embeddings, Positions, SafeLookup, KvGet, KvPut,
                Answer
  <2> QED BY <1>3, <2>1, <2>2
<1> HIDE DEF Asking
<1>8. Quiet \/ \E r \in Request : Asking(r)
  BY <1>2, <1>4, <1>5, <1>6, <1>7 DEF Next, Step, Asking
<1> QED BY <1>8 DEF Quiet, Asking

\* The share of the address is charged on the way to the shared counter, and
\* nothing else is.
LEMMA AskedOnceStays ==
  ASSUME WorkerIInv, BillIInv, [Next]_vars
  PROVE  AskedOnce'
<1> SUFFICES ASSUME NEW q \in Request, at'[q] = "sharedCap", NEW w \in Int
             PROVE  [counter |-> SignsDaily, start |-> w] \notin charged'[q]
  BY DEF AskedOnce, ChargedTo
<1>1. Typing /\ StoredWithinLimits /\ Sound(q)
  BY DEF WorkerIInv
<1>2. at[q] = "sharedCap" => [counter |-> SignsDaily, start |-> w] \notin charged[q]
  BY DEF BillIInv, AskedOnce, ChargedTo
<1>3. CASE at[q] = "sharedCap" /\ charged'[q] = charged[q]
  BY <1>2, <1>3
<1>4. CASE IpShare(q)
  <2>1. charged[q] = {}
    BY <1>1, <1>4 DEF IpShare, Sound, FreeSoFar, Uncharged
  <2>2. \/ charged'[q] = charged[q]
        \/ charged'[q] = charged[q] \cup
             {[counter |-> d, start |-> WindowStart(d)] : d \in {SignsOf(Ip(q))} \cap DailyCounters}
    BY <1>1, <1>4 DEF IpShare, CheckRateLimit, Increment, Typing
  <2>3. SignsOf(Ip(q)) # SignsDaily
    BY DEF SignsOf, SignsDaily
  <2> QED BY <2>1, <2>2, <2>3
<1>5. ASSUME NEW r \in Request, r # q,
             GlobalCheck(r) \/ RouteCheck(r) \/ CharCap(r) \/ IpShare(r) \/ SharedCap(r)
      PROVE  at'[q] = at[q] /\ charged'[q] = charged[q]
  BY <1>1, <1>5 DEF GlobalCheck, RouteCheck, CharCap, IpShare, SharedCap, CheckRateLimit,
                    Increment, Goto, Thrown, AnswerLost, Typing
<1>6. ASSUME GlobalCheck(q) \/ RouteCheck(q) \/ CharCap(q) \/ SharedCap(q)
      PROVE  at'[q] # "sharedCap"
  BY <1>1, <1>6 DEF GlobalCheck, RouteCheck, CharCap, SharedCap, CheckRateLimit, Goto, Thrown,
                    AnswerLost, Typing, AfterGlobal, AuthAnswer, AfterRouteLimit
<1> QED BY <1>3, <1>4, <1>5, <1>6, QuietBills

LEMMA BillInvariant == Spec => []BillIInv
<1>1. Init => BillIInv
  <2> SUFFICES ASSUME Init PROVE BillIInv
    OBVIOUS
  <2>1. ASSUME NEW k \in DailyCounters PROVE BillSoundOf(k)
    <3>1. Typing
      BY InitSound DEF WorkerIInv
    <3>2. bucket[k] = [start |-> -1, count |-> 0]
      BY DEF Init, Counters
    <3>3. \A w \in Int : OnTheBillOf(k, w) = {}
      BY DEF Init, OnTheBillOf, ChargedTo
    <3>4. \A w \in Int : Charged(OnTheBillOf(k, w)) = 0
      BY <3>1, <3>3, BillFacts, SumEmpty
    <3>5. WindowStart(k) \in Nat
      <4>1. WindowStart(k) \in Windows
        BY <3>1, WindowsAreReached
      <4> QED BY <4>1, Division, WorkerAssumption DEF Windows
    <3>6. 0 <= LimitOf(k)
      BY WorkerAssumption DEF LimitOf
    <3> QED BY <3>2, <3>3, <3>4, <3>5, <3>6 DEF BillSoundOf
  <2>2. AskedOnce
    BY DEF Init, AskedOnce
  <2> QED BY <2>1, <2>2 DEF BillIInv, BillSound
<1>2. WorkerIInv /\ BillIInv /\ [Next]_vars => BillIInv'
  <2> SUFFICES ASSUME WorkerIInv, BillIInv, [Next]_vars PROVE BillSound'
    BY AskedOnceStays DEF BillIInv
  <2>1. CASE \E r \in Request :
               GlobalCheck(r) \/ RouteCheck(r) \/ CharCap(r) \/ IpShare(r) \/ SharedCap(r)
    BY <2>1, AskingBills
  <2>2. CASE UNCHANGED <<call, bucket, charged>> /\ now' \in {now, now + 1}
    <3> SUFFICES ASSUME NEW k \in DailyCounters PROVE BillSoundOf(k)'
      BY DEF BillSound
    <3> QED BY <2>2, BillsStay DEF WorkerIInv, BillIInv, BillSound, ChargedTo
  <2> QED BY <2>1, <2>2, QuietBills
<1> QED BY <1>1, <1>2, WorkerInvariant, PTL DEF Spec

\* What the operator pays: nothing that costs is done without every grant of
\* its quotas, and what a day's window of a counter paid for is within its
\* limit, whatever interleaves, fails between charge and use or crosses midnight.
THEOREM OperatorIsProtected == Spec => []BilledWithinDailyCap
<1>1. WorkerIInv /\ BillIInv => BilledWithinDailyCap
  <2> SUFFICES ASSUME WorkerIInv, BillIInv, ~LimitsOff PROVE
                 /\ ServedIsCharged
                 /\ \A k \in DailyCounters, w \in Windows :
                      Charged(reached \cap OnTheBillOf(k, w)) <= LimitOf(k)
    BY DEF BilledWithinDailyCap
  <2>1. ServedIsCharged
    BY DEF WorkerIInv, Typing, Sound, PaidSoFar, PaidFor, ServedIsCharged
  <2>2. ASSUME NEW k \in DailyCounters, NEW w \in Windows
        PROVE  Charged(reached \cap OnTheBillOf(k, w)) <= LimitOf(k)
    <3> DEFINE bill == OnTheBillOf(k, w)
               served == reached \cap bill
    <3>1. /\ IsFiniteSet(bill) /\ (\A r \in bill : chargeOf[r] \in Nat)
          /\ Charged(bill) = Sum(chargeOf, bill) /\ Charged(bill) \in Nat
      BY BillFacts DEF WorkerIInv
    <3>2. w \in Int
      BY Division, WorkerAssumption DEF Windows
    <3>3. Charged(bill) <= LimitOf(k)
      BY <3>2 DEF BillIInv, BillSound, BillSoundOf
    <3>4. Charged(served) = Sum(chargeOf, served)
      BY DEF Charged, Sum
    <3>5. served \in SUBSET bill /\ LimitOf(k) \in Nat
      BY WorkerAssumption DEF LimitOf
    <3> HIDE DEF bill, served
    <3>6. Sum(chargeOf, served) <= Sum(chargeOf, bill)
      BY <3>1, <3>5, SumMonotonic
    <3>7. Sum(chargeOf, served) \in Nat
      BY <3>1, <3>5, FS_Subset, SumNat
    <3>8. Charged(served) <= LimitOf(k)
      BY <3>1, <3>3, <3>4, <3>5, <3>6, <3>7
    <3> QED BY <3>8 DEF served, bill
  <2> QED BY <2>1, <2>2
<1> QED BY <1>1, WorkerInvariant, BillInvariant, PTL

\* A refusal is never unfair: what is refused for a daily quota does not fit
\* what its own counter has charged to the day's window.
THEOREM RefusalsAreFair == Spec => RefusedOnlyWhenSpent
<1> DEFINE fair == \A r \in Request, k \in DailyCounters :
                     k = QuotaAt(r) /\ at'[r] = "capped" =>
                       Charged(OnTheBillOf(k, WindowStart(k))) + chargeOf[r] > LimitOf(k)
<1>1. WorkerIInv /\ BillIInv /\ [Next]_vars => fair
  <2> SUFFICES ASSUME WorkerIInv, BillIInv, [Next]_vars, NEW r \in Request,
                      QuotaAt(r) \in DailyCounters, at'[r] = "capped"
               PROVE  Charged(OnTheBillOf(QuotaAt(r), WindowStart(QuotaAt(r)))) + chargeOf[r]
                        > LimitOf(QuotaAt(r))
    OBVIOUS
  <2>1. Typing /\ Sound(r)
    BY DEF WorkerIInv
  <2>2. at[r] \in {"charCap", "ipShare", "sharedCap"}
    BY DEF QuotaAt, DailyCounters, OpenAiDaily, SignsDaily, SignsOf
  <2>3. CharCap(r) \/ IpShare(r) \/ SharedCap(r)
    <3>1. ASSUME NEW q \in Request, q # r,
                 GlobalCheck(q) \/ RouteCheck(q) \/ CharCap(q) \/ IpShare(q) \/ SharedCap(q)
          PROVE  at'[r] = at[r]
      BY <2>1, <3>1 DEF GlobalCheck, RouteCheck, CharCap, IpShare, SharedCap, CheckRateLimit,
                        Goto, Thrown, AnswerLost, Typing
    <3>2. ~GlobalCheck(r) /\ ~RouteCheck(r)
      BY <2>2 DEF GlobalCheck, RouteCheck
    <3> QED BY <2>2, <3>1, <3>2, QuietBills
  <2>4. PICK k \in DailyCounters : k = QuotaAt(r)
    OBVIOUS
  <2>5. Count(k) + chargeOf[r] > LimitOf(k)
    <3>1. CASE CharCap(r)
      <4>1. k = OpenAiDaily /\ chargeOf[r] = call[r].size /\ LimitOf(k) = OpenAiCap
        BY <2>1, <2>4, <3>1, LimitsOfCounters DEF CharCap, QuotaAt, chargeOf, Sound, OnItsRoute
      <4>2. ~(Count(OpenAiDaily) + call[r].size <= OpenAiCap)
        BY <2>1, <3>1 DEF CharCap, CheckRateLimit, Goto, Thrown, AnswerLost, Typing
      <4> QED BY <2>1, <4>1, <4>2, CountIsNat, IpIsKnown, WorkerAssumption DEF WorkerIInv
    <3>2. CASE IpShare(r)
      <4>1. k = SignsOf(Ip(r)) /\ chargeOf[r] = 1 /\ LimitOf(k) = PerIpSigns
        BY <2>1, <2>4, <3>2, LimitsOfCounters DEF IpShare, QuotaAt, chargeOf, Sound, OnItsRoute
      <4>2. ~(Count(SignsOf(Ip(r))) + 1 <= PerIpSigns)
        BY <2>1, <3>2 DEF IpShare, CheckRateLimit, Goto, Thrown, AnswerLost, Typing
      <4> QED BY <2>1, <4>1, <4>2, CountIsNat, WorkerAssumption DEF WorkerIInv
    <3>3. CASE SharedCap(r)
      <4>1. k = SignsDaily /\ chargeOf[r] = 1 /\ LimitOf(k) = DailySigns
        BY <2>1, <2>4, <3>3, LimitsOfCounters DEF SharedCap, QuotaAt, chargeOf, Sound, OnItsRoute
      <4>2. ~(Count(SignsDaily) + 1 <= DailySigns)
        BY <2>1, <3>3 DEF SharedCap, CheckRateLimit, Goto, Thrown, AnswerLost, Typing
      <4> QED BY <2>1, <4>1, <4>2, CountIsNat, WorkerAssumption DEF WorkerIInv
    <3> QED BY <2>3, <3>1, <3>2, <3>3
  <2>6. Count(k) = Charged(OnTheBillOf(k, WindowStart(k)))
    BY <2>1, CountIsTheBill DEF BillIInv, BillSound
  <2> QED BY <2>4, <2>5, <2>6
<1> QED BY <1>1, WorkerInvariant, BillInvariant, PTL DEF Spec, RefusedOnlyWhenSpent
=============================================================================
