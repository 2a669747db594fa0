------------------------- MODULE RateLimiterProofs -------------------------
(***************************************************************************)
(* Theorems about RateLimiter, for every set of clients and requests, all  *)
(* limits that can be configured and any periods.                          *)
(***************************************************************************)
EXTENDS RateLimiter, SequenceTheorems, TLAPS

LEMMA ConstantTypes ==
  {Second, Minute, Hour, RetryAfter, CleanEvery, IdleAfter, MaxGrants, Horizon} \subseteq Nat
  BY RateAssumption DEF RateAssumption

-----------------------------------------------------------------------------
(* Type correctness.                                                       *)

\* The client a request is counted under has a bucket: an empty header or an
\* unreadable peer never becomes one.
LEMMA ClientType == \A req \in Requests : Client(req) \in Keys
  BY RateAssumption DEF RateAssumption, Client

LEMMA Quotient ==
  ASSUME NEW p \in Nat, NEW n \in Nat \ {0}
  PROVE  p \div n \in Nat
  OBVIOUS

\* Whatever the configuration says, a limit comes of it.
LEMMA ParseType == \A spec \in Specs : ParseSpec(spec) \in Limit
  <1> SUFFICES ASSUME NEW spec \in Specs PROVE ParseSpec(spec) \in Limit
    OBVIOUS
  <1> DEFINE n == IF ~spec.valid \/ spec.n <= 0 THEN 10 ELSE spec.n
             period == IF spec.valid /\ spec.unit = "second" THEN Second
                       ELSE IF spec.valid /\ spec.unit = "hour" THEN Hour ELSE Minute
  <1>1. n \in Nat \ {0}
    <2>1. spec.n \in Int
      BY RateAssumption DEF RateAssumption
    <2>2. CASE ~spec.valid \/ spec.n <= 0
      BY <2>2
    <2>3. CASE ~(~spec.valid \/ spec.n <= 0)
      BY <2>1, <2>3
    <2> QED
      BY <2>2, <2>3
  <1>2. period \in Nat
    BY ConstantTypes
  <1>3. period \div n \in Nat
    BY <1>1, <1>2, Quotient
  <1>4. ParseSpec(spec) = [interval |-> period \div n, burst |-> n]
    BY DEF ParseSpec
  <1> QED
    BY <1>1, <1>3, <1>4 DEF Limit

LEMMA Product ==
  ASSUME NEW a \in Nat \ {0}, NEW b \in Nat
  PROVE  a * b \in Nat /\ b <= a * b
  OBVIOUS

\* A full bucket holds one request at least.
LEMMA CapacityType == TypeOK => Capacity \in Nat /\ limit.interval \in Nat
                                /\ limit.interval <= Capacity
  BY Product DEF TypeOK, Limit, Capacity

LEMMA FilledType ==
  ASSUME TypeOK, NEW k \in Keys
  PROVE  /\ Filled(k) \in 0 .. Capacity
         /\ bucket[k].credit \in 0 .. Capacity
         /\ bucket[k].last \in 0 .. now /\ bucket[k].seen \in 0 .. now
         /\ now \in Nat
  <1>1. bucket[k] \in Visitor /\ now \in Nat
    BY DEF TypeOK
  <1>2. bucket[k].credit \in 0 .. Capacity /\ bucket[k].last \in 0 .. now
        /\ bucket[k].seen \in 0 .. now
    BY <1>1 DEF Visitor
  <1> QED
    BY <1>1, <1>2, CapacityType DEF Filled

\* A visitor remembered now is still of its type when the clock has moved.
LEMMA VisitorLater ==
  ASSUME TypeOK, NEW later \in Nat, now <= later
  PROVE  Visitor \subseteq [credit : 0 .. Capacity, last : 0 .. later, seen : 0 .. later]
  BY DEF Visitor, TypeOK

\* One request, let through or not.
LEMMA ServedType ==
  ASSUME TypeOK, NEW k \in Keys, NEW c \in 0 .. Capacity
  PROVE  [bucket EXCEPT ![k] = [credit |-> c, last |-> now, seen |-> now]] \in [Keys -> Visitor]
  BY DEF TypeOK, Visitor

LEMMA TypeInit == Init => TypeOK
  <1> SUFFICES ASSUME Init PROVE TypeOK
    OBVIOUS
  <1>1. limit \in Limit
    BY ParseType DEF Init
  <1>2. Capacity \in Nat
    BY <1>1, Product DEF Limit, Capacity
  <1>3. bucket \in [Keys -> Visitor]
    BY <1>2 DEF Init, Visitor
  <1>4. granted \in [Keys -> Seq(Nat)]
    BY DEF Init
  <1> QED
    BY <1>1, <1>3, <1>4, ConstantTypes DEF Init, TypeOK

LEMMA TypeNext == TypeOK /\ [Next]_vars => TypeOK'
  <1> SUFFICES ASSUME TypeOK, [Next]_vars PROVE TypeOK'
    OBVIOUS
  <1> USE ConstantTypes
  <1>1. ASSUME NEW req \in Requests, Grant(req) PROVE TypeOK'
    <2> DEFINE k == Client(req)
    <2>1. k \in Keys
      BY ClientType
    <2>2. Filled(k) - limit.interval \in 0 .. Capacity
      BY <1>1, <2>1, FilledType, CapacityType DEF Grant
    <2>3. bucket' \in [Keys -> Visitor]
      BY <1>1, <2>1, <2>2, ServedType DEF Grant
    <2>4. UNCHANGED <<now, limit, nextClean>> /\ live' \subseteq Keys
      BY <1>1, <2>1 DEF Grant, TypeOK
    <2>5. Visitor' = Visitor
      BY <2>4 DEF Visitor, Capacity
    <2>6. granted[k] \in Seq(Nat) /\ now \in Nat
      BY <2>1 DEF TypeOK
    <2>7. Append(granted[k], now) \in Seq(Nat)
      BY <2>6
    <2>8. granted' \in [Keys -> Seq(Nat)]
      BY <1>1, <2>1, <2>7 DEF Grant, TypeOK
    <2> QED
      BY <2>3, <2>4, <2>5, <2>8 DEF TypeOK
  <1>2. ASSUME NEW req \in Requests, Refuse(req) PROVE TypeOK'
    <2>1. Client(req) \in Keys
      BY ClientType
    <2>2. bucket' \in [Keys -> Visitor]
      BY <1>2, <2>1, FilledType, ServedType DEF Refuse
    <2>3. UNCHANGED <<now, limit, nextClean, granted>> /\ live' \subseteq Keys
      BY <1>2, <2>1 DEF Refuse, TypeOK
    <2>4. Visitor' = Visitor
      BY <2>3 DEF Visitor, Capacity
    <2> QED
      BY <2>2, <2>3, <2>4 DEF TypeOK
  <1>3. CASE Cleanup
    <2>1. UNCHANGED <<now, limit, bucket, granted>> /\ live' \subseteq Keys
      BY <1>3 DEF Cleanup, TypeOK
    <2>2. nextClean' \in Nat
      BY <1>3 DEF Cleanup, TypeOK
    <2>3. Visitor' = Visitor
      BY <2>1 DEF Visitor, Capacity
    <2> QED
      BY <2>1, <2>2, <2>3 DEF TypeOK
  <1>4. CASE Tick
    <2>1. now' = now + 1 /\ UNCHANGED <<limit, live, bucket, nextClean, granted>>
      BY <1>4 DEF Tick
    <2>2. now' \in Nat /\ now <= now'
      BY <2>1 DEF TypeOK
    <2>3. Visitor' = [credit : 0 .. Capacity, last : 0 .. now', seen : 0 .. now']
      BY <2>1 DEF Visitor, Capacity
    <2>4. Visitor \subseteq Visitor'
      BY <2>2, <2>3, VisitorLater
    <2> QED
      BY <2>1, <2>2, <2>4 DEF TypeOK
  <1>5. CASE UNCHANGED vars
    BY <1>5 DEF vars, TypeOK, Visitor, Capacity
  <1> QED
    BY <1>1, <1>2, <1>3, <1>4, <1>5 DEF Next

\* Every variable of the limiter keeps its type; no bucket holds more than its
\* capacity, and none less than nothing.
THEOREM LimiterTypeCorrect == Spec => []TypeOK
  BY TypeInit, TypeNext, PTL DEF Spec

-----------------------------------------------------------------------------
(* No client gets more than its rate.                                      *)

\* A visitor is as old as its bucket, and no grant lies ahead.
SeenInv ==
  /\ \A k \in Keys : bucket[k].last = bucket[k].seen
  /\ \A k \in Keys : \A i \in 1 .. Len(granted[k]) : granted[k][i] <= now

\* RateBound says nothing of the tokens a client still has.  With them: what was
\* let through since any grant and what would be let through now are covered by
\* a full bucket and the refill since then.
CoverInv ==
  KeptLongEnough =>
    \A k \in Keys : \A i \in 1 .. Len(granted[k]) :
      (Len(granted[k]) - i + 1) * limit.interval + Filled(k)
        <= Capacity + (now - granted[k][i])

RateInv == SeenInv /\ CoverInv /\ RateBound

LEMMA RateInit == Init => RateInv
  BY DEF Init, RateInv, SeenInv, CoverInv, RateBound

\* The grants of a client are a sequence of times.
LEMMA GrantedType ==
  ASSUME TypeOK, NEW k \in Keys
  PROVE  /\ granted[k] \in Seq(Nat) /\ Len(granted[k]) \in Nat
         /\ \A i \in 1 .. Len(granted[k]) : granted[k][i] \in Nat
  BY DEF TypeOK

LEMMA OneMore ==
  ASSUME NEW n \in Int, NEW a \in Nat
  PROVE  (n + 1) * a = n * a + a /\ n * a \in Int /\ 1 * a = a
  OBVIOUS

\* The bucket of a client after its request: filled up, less what it paid.
LEMMA FilledServed ==
  ASSUME TypeOK, NEW k \in Keys, NEW c \in 0 .. Capacity,
         live' = live \cup {k}, UNCHANGED <<now, limit>>,
         bucket' = [bucket EXCEPT ![k] = [credit |-> c, last |-> now, seen |-> now]]
  PROVE  /\ Filled(k)' = c
         /\ \A x \in Keys \ {k} : Filled(x)' = Filled(x)
         /\ (\A x \in Keys : bucket[x].last = bucket[x].seen)
              => (\A x \in Keys : bucket'[x].last = bucket'[x].seen)
  <1>1. /\ bucket'[k] = [credit |-> c, last |-> now, seen |-> now]
        /\ \A x \in Keys \ {k} : bucket'[x] = bucket[x] /\ (x \in live' <=> x \in live)
    BY DEF TypeOK
  <1>2. Capacity' = Capacity /\ Capacity \in Nat /\ now \in Nat
    BY CapacityType DEF Capacity, TypeOK
  <1>3. Filled(k)' = c
    BY <1>1, <1>2 DEF Filled
  <1>4. \A x \in Keys \ {k} : Filled(x)' = Filled(x)
    BY <1>1, <1>2 DEF Filled
  <1> QED
    BY <1>1, <1>3, <1>4

LEMMA RateGrant ==
  ASSUME TypeOK, RateInv, NEW req \in Requests, Grant(req)
  PROVE  RateInv'
  <1> DEFINE k == Client(req)
             n == Len(granted[k])
             I == limit.interval
  <1>1. k \in Keys /\ I \in Nat /\ Capacity \in Nat /\ now \in Nat /\ n \in Nat
    BY ClientType, CapacityType, GrantedType DEF TypeOK
  <1>2. Filled(k) >= I /\ Filled(k) \in 0 .. Capacity /\ Filled(k) - I \in 0 .. Capacity
    BY <1>1, FilledType DEF Grant
  <1>3. /\ UNCHANGED <<now, limit>> /\ Capacity' = Capacity
        /\ KeptLongEnough' = KeptLongEnough
    BY DEF Grant, Capacity, KeptLongEnough
  <1>4. /\ Filled(k)' = Filled(k) - I
        /\ \A x \in Keys \ {k} : Filled(x)' = Filled(x)
        /\ \A x \in Keys : bucket'[x].last = bucket'[x].seen
    BY <1>1, <1>2, FilledServed DEF Grant, RateInv, SeenInv
  <1>5. /\ granted'[k] = Append(granted[k], now)
        /\ \A x \in Keys \ {k} : granted'[x] = granted[x]
    BY <1>1 DEF Grant, TypeOK
  <1>6. /\ Len(granted'[k]) = n + 1 /\ granted'[k][n + 1] = now
        /\ \A i \in 1 .. n : granted'[k][i] = granted[k][i]
    BY <1>1, <1>5, GrantedType
  <1>7. SeenInv'
    <2>1. \A x \in Keys : \A i \in 1 .. Len(granted[x]) : granted[x][i] <= now
      BY DEF RateInv, SeenInv
    <2>2. ASSUME NEW x \in Keys \ {k}, NEW i \in 1 .. Len(granted'[x])
          PROVE  granted'[x][i] <= now
      BY <1>5, <2>1, <2>2
    <2>3. ASSUME NEW i \in 1 .. Len(granted'[k]) PROVE granted'[k][i] <= now
      <3> HIDE DEF n, k
      <3>1. CASE i = n + 1
        BY <1>1, <1>6, <3>1
      <3>2. CASE i \in 1 .. n
        <4>1. granted'[k][i] = granted[k][i]
          BY <1>6, <3>2
        <4>2. granted[k][i] <= now
          BY <1>1, <2>1, <3>2 DEF n
        <4> QED
          BY <4>1, <4>2
      <3> QED
        BY <1>1, <1>6, <3>1, <3>2
    <2>4. now' = now
      BY <1>3
    <2> QED
      BY <1>4, <2>2, <2>3, <2>4 DEF SeenInv
  <1>8. ASSUME KeptLongEnough, NEW i \in 1 .. n
        PROVE  /\ granted[k][i] \in Nat
               /\ (n - i + 1) * I + Filled(k) <= Capacity + (now - granted[k][i])
               /\ (n + 1 - i + 1) * I = (n - i + 1) * I + I
               /\ (n - i + 1) * I \in Int
    <2>1. granted[k][i] \in Nat
      BY <1>1, GrantedType
    <2>2. n - i + 1 \in Int /\ n + 1 - i + 1 = (n - i + 1) + 1
      BY <1>1
    <2>3. (n - i + 1) * I + Filled(k) <= Capacity + (now - granted[k][i])
      BY <1>1, <1>8 DEF RateInv, CoverInv
    <2> HIDE DEF n, I
    <2> QED
      BY <1>1, <2>1, <2>2, <2>3, OneMore
  <1>9. CoverInv'
    <2> SUFFICES ASSUME KeptLongEnough, NEW x \in Keys, NEW i \in 1 .. Len(granted'[x])
                 PROVE  (Len(granted'[x]) - i + 1) * I + Filled(x)'
                          <= Capacity + (now - granted'[x][i])
      BY <1>3 DEF CoverInv
    <2>1. CASE x # k
      BY <1>4, <1>5, <2>1 DEF RateInv, CoverInv
    <2>2. CASE x = k /\ i = n + 1
      <3>1. n + 1 - i + 1 = 1
        BY <1>1, <2>2
      <3>2. 1 * I = I
        BY <1>1, OneMore
      <3> HIDE DEF n, I
      <3> QED
        BY <1>1, <1>2, <1>4, <1>6, <2>2, <3>1, <3>2
    <2>3. CASE x = k /\ i \in 1 .. n
      <3>1. granted'[x][i] = granted[k][i] /\ Len(granted'[x]) = n + 1
        BY <1>6, <2>3
      <3> DEFINE paid == (n - i + 1) * I
      <3>2. (Len(granted'[x]) - i + 1) * I = paid + I
        BY <1>8, <2>3, <3>1
      <3>3. /\ granted[k][i] \in Nat /\ paid \in Int
            /\ paid + Filled(k) <= Capacity + (now - granted[k][i])
        BY <1>8, <2>3
      <3> HIDE DEF n, I, paid
      <3> QED
        BY <1>1, <1>2, <1>4, <2>3, <3>1, <3>2, <3>3
    <2> QED
      BY <1>1, <1>6, <2>1, <2>2, <2>3
  <1>10. RateBound'
    <2> SUFFICES ASSUME KeptLongEnough, NEW x \in Keys,
                        NEW i \in 1 .. Len(granted'[x]), NEW j \in 1 .. Len(granted'[x]),
                        i <= j
                 PROVE  (j - i + 1) * I <= Capacity + (granted'[x][j] - granted'[x][i])
      BY <1>3 DEF RateBound
    <2>1. CASE x # k
      BY <1>5, <2>1 DEF RateInv, RateBound
    <2>2. CASE x = k /\ j \in 1 .. n
      <3>1. i \in 1 .. n
        BY <1>1, <2>2
      <3> QED
        BY <1>6, <2>2, <3>1 DEF RateInv, RateBound
    <2>3. CASE x = k /\ j = n + 1 /\ i = n + 1
      <3>1. j - i + 1 = 1 /\ 1 * I = I
        BY <1>1, <2>3, OneMore
      <3> HIDE DEF n, I
      <3> QED
        BY <1>1, <1>2, <1>6, <2>3, <3>1
    <2>4. CASE x = k /\ j = n + 1 /\ i \in 1 .. n
      <3> DEFINE paid == (n - i + 1) * I
      <3>1. granted'[x][i] = granted[k][i] /\ granted'[x][j] = now
        BY <1>6, <2>4
      <3>2. (j - i + 1) * I = paid + I
        BY <1>8, <2>4
      <3>3. /\ granted[k][i] \in Nat /\ paid \in Int
            /\ paid + Filled(k) <= Capacity + (now - granted[k][i])
        BY <1>8, <2>4
      <3> HIDE DEF n, I, paid
      <3>4. paid + I <= Capacity + (now - granted[k][i])
        BY <1>1, <1>2, <3>3
      <3> QED
        BY <3>1, <3>2, <3>4
    <2> QED
      BY <1>1, <1>6, <2>1, <2>2, <2>3, <2>4
  <1> QED
    BY <1>7, <1>9, <1>10 DEF RateInv

\* Where no grant is added the bound stands, and the cover does when no bucket
\* gains more than the time that passed.
LEMMA RateQuiet ==
  ASSUME TypeOK, RateInv, UNCHANGED <<limit, granted>>, now' \in Nat, now <= now',
         \A k \in Keys : bucket'[k].last = bucket'[k].seen,
         KeptLongEnough => \A k \in Keys :
           Filled(k)' \in Nat /\ Filled(k)' <= Filled(k) + (now' - now)
  PROVE  RateInv'
  <1>1. Capacity' = Capacity /\ KeptLongEnough' = KeptLongEnough
    BY DEF Capacity, KeptLongEnough
  <1>2. RateBound'
    BY <1>1 DEF RateInv, RateBound
  <1>3. SeenInv'
    BY GrantedType DEF RateInv, SeenInv, TypeOK
  <1>4. CoverInv'
    <2> SUFFICES ASSUME KeptLongEnough, NEW k \in Keys, NEW i \in 1 .. Len(granted[k])
                 PROVE  (Len(granted[k]) - i + 1) * limit.interval + Filled(k)'
                          <= Capacity + (now' - granted[k][i])
      BY <1>1 DEF CoverInv
    <2> DEFINE paid == (Len(granted[k]) - i + 1) * limit.interval
    <2>1. paid \in Int
      BY GrantedType, CapacityType, OneMore
    <2>2. paid + Filled(k) <= Capacity + (now - granted[k][i])
      BY DEF RateInv, CoverInv
    <2>3. /\ Filled(k) \in Nat /\ Capacity \in Nat /\ now \in Nat /\ granted[k][i] \in Nat
          /\ Filled(k)' \in Nat /\ Filled(k)' <= Filled(k) + (now' - now)
      BY FilledType, CapacityType, GrantedType
    <2> HIDE DEF paid
    <2>4. paid + Filled(k)' <= Capacity + (now' - granted[k][i])
      BY <2>1, <2>2, <2>3, SMTT(30)
    <2> QED
      BY <2>4 DEF paid
  <1> QED
    BY <1>2, <1>3, <1>4 DEF RateInv

LEMMA RateNext == TypeOK /\ RateInv /\ [Next]_vars => RateInv'
  <1> SUFFICES ASSUME TypeOK, RateInv, [Next]_vars PROVE RateInv'
    OBVIOUS
  <1>1. now \in Nat /\ \A k \in Keys : Filled(k) \in Nat
    BY FilledType, CapacityType DEF TypeOK
  <1>2. ASSUME NEW req \in Requests, Grant(req) PROVE RateInv'
    BY <1>2, RateGrant
  <1>3. ASSUME NEW req \in Requests, Refuse(req) PROVE RateInv'
    <2>1. Client(req) \in Keys /\ Filled(Client(req)) \in 0 .. Capacity
      BY ClientType, FilledType
    <2>2. UNCHANGED <<now, limit, granted>>
      BY <1>3 DEF Refuse
    <2>3. /\ \A x \in Keys : Filled(x)' = Filled(x)
          /\ \A x \in Keys : bucket'[x].last = bucket'[x].seen
      BY <1>3, <2>1, <2>2, FilledServed DEF Refuse, RateInv, SeenInv
    <2> QED
      BY <1>1, <2>2, <2>3, RateQuiet
  <1>4. CASE Cleanup
    <2>1. UNCHANGED <<now, limit, bucket, granted>> /\ Capacity' = Capacity
      BY <1>4 DEF Cleanup, Capacity
    <2>2. ASSUME KeptLongEnough, NEW k \in Keys PROVE Filled(k)' = Filled(k)
      <3>1. CASE k \in live' <=> k \in live
        BY <2>1, <3>1 DEF Filled
      <3>2. CASE k \in live /\ k \notin live'
        <4>1. now - bucket[k].seen > IdleAfter
          BY <1>4, <3>2, FilledType, ConstantTypes DEF Cleanup
        <4>2. bucket[k].credit + (now - bucket[k].last) > Capacity
          <5>1. bucket[k].credit \in Nat /\ now - bucket[k].last \in Int
            BY FilledType, CapacityType
          <5>2. bucket[k].last = bucket[k].seen
            BY DEF RateInv, SeenInv
          <5>3. Capacity <= IdleAfter
            BY <2>2 DEF KeptLongEnough
          <5> QED
            BY <4>1, <5>1, <5>2, <5>3, CapacityType, ConstantTypes, SMTT(30)
        <4> QED
          BY <2>1, <3>2, <4>2 DEF Filled
      <3>3. k \in live' => k \in live
        BY <1>4 DEF Cleanup
      <3> QED
        BY <3>1, <3>2, <3>3
    <2> QED
      BY <1>1, <2>1, <2>2, RateQuiet DEF RateInv, SeenInv
  <1>5. CASE Tick
    <2>1. now' = now + 1 /\ UNCHANGED <<limit, live, bucket, granted>> /\ Capacity' = Capacity
      BY <1>5 DEF Tick, Capacity
    <2>2. \A k \in Keys : Filled(k)' \in Nat /\ Filled(k)' <= Filled(k) + 1
      BY <2>1, FilledType, CapacityType DEF Filled
    <2> QED
      BY <1>1, <2>1, <2>2, RateQuiet DEF RateInv, SeenInv
  <1>6. CASE UNCHANGED vars
    <2>1. UNCHANGED <<now, limit, live, bucket, granted>> /\ Capacity' = Capacity
      BY <1>6 DEF vars, Capacity
    <2>2. \A k \in Keys : Filled(k)' = Filled(k)
      BY <2>1 DEF Filled
    <2> QED
      BY <1>1, <2>1, <2>2, RateQuiet DEF RateInv, SeenInv
  <1> QED
    BY <1>2, <1>3, <1>4, <1>5, <1>6 DEF Next

LEMMA RateInvariant == Spec => [](TypeOK /\ RateInv)
  <1>1. Init => TypeOK /\ RateInv
    BY TypeInit, RateInit
  <1>2. TypeOK /\ RateInv /\ [Next]_vars => TypeOK' /\ RateInv'
    BY TypeNext, RateNext
  <1> QED
    BY <1>1, <1>2, PTL DEF Spec

\* Over any stretch of time a client gets at most the burst and the refill, in
\* spite of clean-up, as long as a bucket fills within the idle time.
THEOREM RateBoundCorrect == Spec => []RateBound
  <1>1. RateInv => RateBound
    BY DEF RateInv
  <1> QED
    BY <1>1, RateInvariant, PTL

\* A client that waits for as long as it was told is let through.
THEOREM ReturningClientServedCorrect == Spec => []ReturningClientServed
  <1>1. TypeOK /\ RateInv => ReturningClientServed
    <2> SUFFICES ASSUME TypeOK, RateInv, limit.interval <= RetryAfter, NEW k \in live,
                        now - bucket[k].seen >= RetryAfter
                 PROVE  Filled(k) >= limit.interval
      BY DEF ReturningClientServed
    <2>1. k \in Keys
      BY DEF TypeOK
    <2>2. bucket[k].last = bucket[k].seen
      BY <2>1 DEF RateInv, SeenInv
    <2>3. /\ bucket[k].credit \in Nat /\ now - bucket[k].last \in Nat
          /\ now - bucket[k].last >= limit.interval
          /\ Capacity \in Nat /\ limit.interval \in Nat /\ limit.interval <= Capacity
      BY <2>1, <2>2, FilledType, CapacityType, ConstantTypes
    <2> QED
      BY <2>3 DEF Filled
  <1> QED
    BY <1>1, RateInvariant, PTL
=============================================================================
