---------------------------- MODULE RateLimiter ----------------------------
(***************************************************************************)
(* The per-client rate limiter in front of each group of endpoints:        *)
(* internal/api/middleware/ratelimit.go over the token bucket of           *)
(* golang.org/x/time/rate (external).                                      *)
(*                                                                         *)
(* Tokens are counted in time: a bucket gains one unit per unit of time,   *)
(* a request costs limit.interval of them, and a full bucket holds         *)
(* limit.burst times that.  This is exact, there are no fractions.         *)
(***************************************************************************)
EXTENDS Integers, Sequences

CONSTANTS
  Keys,         \* client addresses, the keys of the visitors map
  Requests,     \* what a request shows of where it comes from
  Specs,        \* the configured limits
  Second, Minute, Hour,
  RetryAfter,   \* the Retry-After a refused client is told
  CleanEvery,   \* the period of cleanup's ticker
  IdleAfter,    \* idle visitors older than this are removed
  MaxGrants,    \* bound: requests of one client that are let through
  Horizon       \* bound: the clock stops here

ASSUME RateAssumption ==
  /\ Requests \subseteq [peer : Keys \cup {""}, addr : Keys, private : BOOLEAN,
                         forwarded : Keys \cup {""}, real : Keys \cup {""}]
  /\ Specs \subseteq [valid : BOOLEAN, n : Int, unit : {"second", "minute", "hour", "other"}]
  /\ {Second, Minute, Hour, RetryAfter, CleanEvery, IdleAfter, MaxGrants, Horizon} \subseteq Nat

VARIABLES
  now,       \* the clock
  limit,     \* RateLimiter.limit and .burst
  live,      \* the keys that are in the visitors map
  bucket,    \* key -> its visitorState
  nextClean, \* when the cleanup ticker fires
  granted    \* history: key -> the times of its requests that were let through

vars == <<now, limit, live, bucket, nextClean, granted>>

Limit == [interval : Nat, burst : Nat \ {0}]

Capacity == limit.burst * limit.interval

Visitor == [credit : 0 .. Capacity, last : 0 .. now, seen : 0 .. now]

TypeOK ==
  /\ now \in Nat /\ nextClean \in Nat
  /\ limit \in Limit
  /\ live \subseteq Keys
  /\ bucket \in [Keys -> Visitor]
  /\ granted \in [Keys -> Seq(Nat)]

\* parseRateLimitSpec: "N/unit", where a bad N is ten and a bad unit a minute; a
\* text of another form is 10/minute.  The division drops the remainder.
ParseSpec(spec) ==
  LET n == IF ~spec.valid \/ spec.n <= 0 THEN 10 ELSE spec.n
      period == IF spec.valid /\ spec.unit = "second" THEN Second
                ELSE IF spec.valid /\ spec.unit = "hour" THEN Hour ELSE Minute
  IN  [interval |-> period \div n, burst |-> n]

\* realIP: behind a private peer, a proxy, the forwarded address counts.
Client(req) ==
  IF req.private /\ req.peer # "" /\ req.forwarded # "" THEN req.forwarded
  ELSE IF req.private /\ req.peer # "" /\ req.real # "" THEN req.real
  ELSE IF req.peer # "" THEN req.peer ELSE req.addr

Init ==
  /\ now = 0 /\ nextClean = CleanEvery
  /\ limit \in {ParseSpec(spec) : spec \in Specs}
  /\ live = {}
  /\ bucket = [k \in Keys |-> [credit |-> 0, last |-> 0, seen |-> 0]]
  /\ granted = [k \in Keys |-> <<>>]

\* The bucket a request finds, brought up to date: a new one is full.
Filled(k) ==
  IF k \notin live \/ bucket[k].credit + (now - bucket[k].last) > Capacity
  THEN Capacity
  ELSE bucket[k].credit + (now - bucket[k].last)

\* Mutant of Refuse: a refused request reserves the next token.
RefuseReserving(req) ==
  LET k == Client(req) IN
    /\ Filled(k) < limit.interval
    /\ live' = live \cup {k}
    /\ bucket' = [bucket EXCEPT ![k] =
                    [credit |-> Filled(k) - limit.interval, last |-> now, seen |-> now]]
    /\ UNCHANGED <<now, limit, nextClean, granted>>

\* allow: the request is let through and takes a token ...
Grant(req) ==
  LET k == Client(req) IN
    /\ Len(granted[k]) < MaxGrants
    /\ Filled(k) >= limit.interval
    /\ live' = live \cup {k}
    /\ bucket' = [bucket EXCEPT ![k] =
                    [credit |-> Filled(k) - limit.interval, last |-> now, seen |-> now]]
    /\ granted' = [granted EXCEPT ![k] = Append(@, now)]
    /\ UNCHANGED <<now, limit, nextClean>>

\* ... or refused: the visitor was seen, its bucket is as it was.
Refuse(req) ==
  LET k == Client(req) IN
    /\ Filled(k) < limit.interval
    /\ live' = live \cup {k}
    /\ bucket' = [bucket EXCEPT ![k] = [credit |-> Filled(k), last |-> now, seen |-> now]]
    /\ UNCHANGED <<now, limit, nextClean, granted>>

\* Mutant of Cleanup: every visitor is forgotten.
CleanupAll ==
  /\ now >= nextClean
  /\ live' = {}
  /\ nextClean' = now + CleanEvery
  /\ UNCHANGED <<now, limit, bucket, granted>>

\* cleanup: visitors idle for long are forgotten, whatever their bucket holds.
Cleanup ==
  /\ now >= nextClean
  /\ live' = {k \in live : now - bucket[k].seen <= IdleAfter}
  /\ nextClean' = now + CleanEvery
  /\ UNCHANGED <<now, limit, bucket, granted>>

Tick ==
  /\ now < Horizon
  /\ now' = now + 1
  /\ UNCHANGED <<limit, live, bucket, nextClean, granted>>

Next ==
  \/ \E req \in Requests : Grant(req) \/ Refuse(req)
  \/ Cleanup
  \/ Tick

Spec == Init /\ [][Next]_vars

-----------------------------------------------------------------------------
(* Properties.                                                             *)

\* No cleanup forgets a bucket that is not full yet: true of limits per second
\* and per minute, since a visitor is kept ten minutes; not of limits per hour.
KeptLongEnough == Capacity <= IdleAfter

\* Over any stretch of time a client gets at most the burst and what refills in
\* that time: neither cleanup nor the refill of a returning visitor gives more.
RateBound ==
  KeptLongEnough =>
    \A k \in Keys : \A i, j \in 1 .. Len(granted[k]) :
      i <= j => (j - i + 1) * limit.interval
                  <= Capacity + (granted[k][j] - granted[k][i])

\* A client that comes back after the Retry-After it was told is let through,
\* however often it had been refused before: refusals do not push the next
\* grant away.  (As long as a token takes no longer than that to refill.)
ReturningClientServed ==
  limit.interval <= RetryAfter =>
    \A k \in live : now - bucket[k].seen >= RetryAfter => Filled(k) >= limit.interval
=============================================================================
