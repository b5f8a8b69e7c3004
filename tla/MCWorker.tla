------------------------------ MODULE MCWorker ------------------------------
(* A small instance of Worker: three addresses, a day of two minutes, two days. *)
EXTENDS Worker, TLC

CONSTANTS r1, r2, r3

Get(route, ip) ==
  [route |-> route, ip |-> ip, key |-> "good", origin |-> "none", body |-> "ok",
   size |-> 0, builtAt |-> 0, writer |-> FALSE]
Embed(ip, size) == [Get("embed", ip) EXCEPT !.size = size]
SignFor(ip) == Get("builder_sign", ip)
Put(builtAt) == [Get("market_cache_write", "b") EXCEPT !.writer = TRUE, !.builtAt = builtAt]

Load(a, b, c) == (r1 :> a) @@ (r2 :> b) @@ (r3 :> c)
MCWorkloads ==
  {Load(SignFor("a"), SignFor("a6"), SignFor("b")),
   Load(SignFor("a"), SignFor("b"), SignFor("c")),
   Load(Embed("a", 2), Embed("a", 1), Embed("b", 2)),
   Load(Embed("a", 2), Get("search", "a"), Get("positions", "a")),
   Load(Get("elsewhere", "a"), SignFor("a"), Get("health", "a")),
   Load(Put(1), Get("ready", "b"), Get("market_cache_read", "b")),
   Load(Get("proxy", "b"), Get("markets", "b"), Get("telem", "b")),
   Load([SignFor("b") EXCEPT !.body = "null"], [SignFor("b") EXCEPT !.body = "refused"], Get("geo", "a")),
   Load([SignFor("b") EXCEPT !.origin = "foreign"], [Embed("b", 2) EXCEPT !.body = "big"], Get("options", "b"))}

Production ==
  [dev |-> FALSE, secret |-> TRUE, extId |-> TRUE, limiter |-> TRUE, openai |-> TRUE, kv |-> TRUE,
   relayerAuth |-> "builder", decodes |-> TRUE]
MCEnvs ==
  {Production,
   [Production EXCEPT !.limiter = FALSE],
   [Production EXCEPT !.relayerAuth = "none", !.openai = FALSE, !.kv = FALSE],
   [Production EXCEPT !.decodes = FALSE],
   [Production EXCEPT !.dev = TRUE, !.secret = FALSE, !.limiter = FALSE, !.relayerAuth = "relayer"]}

\* Two addresses of one IPv6 subscriber share a key.
MCRateKey == ("a" :> "a") @@ ("a6" :> "a") @@ ("b" :> "b") @@ ("c" :> "c")

MCPerMinute ==
  [route \in {"embed", "builder_sign", "telem", "proxy", "markets", "geo", "search",
              "positions",
              "market_cache_read", "market_cache_write"} |-> 2]

MCUnreliable == {OpenAiDaily, SignsDaily, SignsOf("b"), <<"global", "b">>, <<"telem", "b">>}
=============================================================================
