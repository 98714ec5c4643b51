---------------------------- MODULE ProxyProofs -----------------------------
(***************************************************************************)
(* Theorems about the calls of the proxies: of RateLimits, for any number  *)
(* of limiters and requests, the order and the number of the effects; of   *)
(* HookWatch, whose task calls one of the proxies, for any number of       *)
(* interferences, that a run which comes to its end has reported and       *)
(* changes nothing but the state of the hook it knows.                     *)
(***************************************************************************)
EXTENDS RateLimits, HookWatch, FiniteSetTheorems, TLAPS

-----------------------------------------------------------------------------
(* The inductive invariant.                                                *)

Same(i, j) == requests[i].limiter = requests[j].limiter

\* What is queued is not sent.
SentIsStarted == \A i \in Id : state[i] = "queued" <=> server[i] = "no"

\* The service has a write in its order when it is done with it, and only then.
EffectIsDone ==
    \A i \in Id : requests[i].kind \in Write => (i \in Range(effects) <=> server[i] = "done")

\* A promise that is kept tells the truth; one that is broken may lie: the write
\* can have happened or happen yet.
OkIsDone == \A i \in Id : state[i] = "ok" => server[i] = "done"

\* With one place, a request is started when those before it have ended.
FirstComeFirstServed ==
    MaxConcurrent = 1 =>
        \A i, j \in Id :
            i < j /\ Same(i, j) /\ state[j] # "queued" => state[i] \in {"ok", "failed"}

IInv ==
    /\ TypeOK /\ SentIsStarted /\ EffectIsDone /\ OkIsDone
    /\ FirstComeFirstServed /\ InOrder

-----------------------------------------------------------------------------
(* Facts.                                                                  *)

LEMMA AppendFacts ==
  ASSUME NEW S, NEW q \in Seq(S), NEW x \in S
  PROVE  /\ Append(q, x) \in Seq(S) /\ DOMAIN q = 1 .. Len(q) /\ Len(q) \in Nat
         /\ DOMAIN Append(q, x) = 1 .. Len(q) + 1
         /\ \A i \in DOMAIN q : Append(q, x)[i] = q[i]
         /\ Append(q, x)[Len(q) + 1] = x
         /\ Range(Append(q, x)) = Range(q) \cup {x}
<1>1. /\ Append(q, x) \in Seq(S) /\ DOMAIN q = 1 .. Len(q) /\ Len(q) \in Nat
      /\ DOMAIN Append(q, x) = 1 .. Len(q) + 1
      /\ \A i \in DOMAIN q : Append(q, x)[i] = q[i]
      /\ Append(q, x)[Len(q) + 1] = x
  OBVIOUS
<1>2. Range(Append(q, x)) = Range(q) \cup {x}
  <2>1. \A y : y \in Range(Append(q, x)) <=> \E i \in 1 .. Len(q) + 1 : Append(q, x)[i] = y
    BY <1>1 DEF Range
  <2>2. \A y : y \in Range(q) <=> \E i \in 1 .. Len(q) : q[i] = y
    BY <1>1 DEF Range
  <2> QED
    BY <1>1, <2>1, <2>2
<1> QED
  BY <1>1, <1>2

\* A name the provers can match where they would look into the functions.
Rows(n, S) == [1 .. n -> S]

LEMMA AppendTo ==
  ASSUME NEW S, NEW n \in Nat, NEW f \in Rows(n, S), NEW x \in S
  PROVE  /\ Append(f, x) \in Rows(n + 1, S)
         /\ Append(f, x)[n + 1] = x
<1> USE DEF Rows
<1>1. f \in Seq(S) /\ Len(f) = n
  OBVIOUS
<1> DEFINE g == Append(f, x)
<1>2. g \in Seq(S) /\ Len(g) = n + 1 /\ (\A i \in 1 .. n : g[i] = f[i]) /\ g[n + 1] = x
  BY <1>1
<1>3. \A q \in Seq(S) : q \in [1 .. Len(q) -> S]
  OBVIOUS
<1> HIDE DEF g
<1>4. g \in [1 .. n + 1 -> S]
  BY <1>2, <1>3
<1> QED
  BY <1>2, <1>4 DEF g

LEMMA AppendKeeps ==
  ASSUME NEW S, NEW n \in Nat, NEW f \in Rows(n, S), NEW x \in S, NEW i \in 1 .. n
  PROVE  Append(f, x)[i] = f[i]
<1>1. f \in Seq(S) /\ Len(f) = n
  BY DEF Rows
<1> QED
  BY <1>1

LEMMA MinFacts ==
  ASSUME NEW a \in Nat, NEW b \in Nat
  PROVE  /\ Min({a, b}) \in Nat /\ Min({a, b}) <= b
         /\ Max({a, b}) \in Nat
<1>1. \E x \in {a, b} : \A y \in {a, b} : x <= y
  BY a <= b \/ b <= a
<1>2. \E x \in {a, b} : \A y \in {a, b} : x >= y
  BY a <= b \/ b <= a
<1>3. Min({a, b}) \in {a, b} /\ \A y \in {a, b} : Min({a, b}) <= y
  BY <1>1 DEF Min
<1>4. Max({a, b}) \in {a, b}
  BY <1>2 DEF Max
<1> QED
  BY <1>3, <1>4

LEMMA MaxBound ==
  ASSUME NEW a \in Nat, NEW b \in Nat
  PROVE  Max({a, b}) >= a
<1>1. \E x \in {a, b} : \A y \in {a, b} : x >= y
  BY a <= b \/ b <= a
<1> QED
  BY <1>1 DEF Max

LEMMA MinIsOne ==
  ASSUME NEW a \in Nat, NEW b \in Nat
  PROVE  Min({a, b}) = a \/ Min({a, b}) = b
<1>1. \E x \in {a, b} : \A y \in {a, b} : x <= y
  BY a <= b \/ b <= a
<1> QED
  BY <1>1 DEF Min

LEMMA ConstantTypes ==
  /\ Called \subseteq Kind /\ Reservoir \in Nat \ {0} /\ Interval \in Nat \ {0}
  /\ MaxAge \in Nat
  BY RateLimitsAssumption, MinFacts DEF MaxAge

\* A limiter with one place that has room has nothing under way.
LEMMA FreeIsEmpty ==
  ASSUME TypeOK, MaxConcurrent = 1, NEW l \in Limiter, Free(l)
  PROVE  Running(l) = {}
<1>1. Id = 1 .. Len(requests) /\ Len(requests) \in Nat
  BY DEF TypeOK, Id
<1>2. IsFiniteSet(Running(l))
  <2>1. IsFiniteSet(1 .. Len(requests))
    BY <1>1, FS_Interval
  <2>2. Running(l) \in SUBSET (1 .. Len(requests))
    BY <1>1 DEF Running
  <2> QED
    BY <2>1, <2>2, FS_Subset
<1>3. Cardinality(Running(l)) \in Nat /\ Cardinality(Running(l)) < 1
  BY <1>2, FS_CardinalityType DEF Free
<1> QED
  BY <1>2, <1>3, FS_EmptySet

-----------------------------------------------------------------------------

LEMMA InitIInv == Init => IInv
<1> SUFFICES ASSUME Init PROVE IInv
  OBVIOUS
<1>1. Id = {} /\ Range(effects) = {} /\ requests = <<>> /\ effects = <<>>
  BY DEF Init, Id, Range
<1>2. TypeOK
  <2>1. requests \in Seq([limiter : Limiter, kind : Kind]) /\ effects \in Seq(Id) /\ IsInjective(effects)
    BY <1>1 DEF IsInjective
  <2>2. /\ state \in [Id -> {"queued", "running", "ok", "failed"}]
        /\ age \in [Id -> 0 .. MaxAge]
        /\ server \in [Id -> {"no", "flying", "done", "refused", "lost"}]
        /\ seen \in [Id -> SUBSET Range(effects)]
    BY <1>1 DEF Init
  <2> QED
    BY <1>1, <2>1, <2>2, ConstantTypes DEF Init, TypeOK
<1> QED
  BY <1>1, <1>2 DEF IInv, SentIsStarted, EffectIsDone, OkIsDone, FirstComeFirstServed, InOrder

\* A new request is the last, and nothing has happened to it.
LEMMA ScheduleStep ==
  ASSUME IInv, NEW l \in Limiter, NEW k \in Kind, Schedule(l, k)
  PROVE  IInv'
<1> USE DEF IInv
<1> DEFINE new == [limiter |-> l, kind |-> k]
<1>0. PICK n \in Nat : n = Len(requests)
  BY DEF TypeOK
<1>1. /\ requests \in Seq([limiter : Limiter, kind : Kind]) /\ n \in Nat /\ Id = 1 .. n
      /\ new \in [limiter : Limiter, kind : Kind]
  BY <1>0 DEF TypeOK, Id
<1>2. /\ requests' \in Seq([limiter : Limiter, kind : Kind]) /\ Id' = 1 .. n + 1
      /\ (\A i \in Id : requests'[i] = requests[i]) /\ requests'[n + 1] = new
  BY <1>0, <1>1, AppendFacts DEF Schedule, Id
<1>4. /\ state' \in [Id' -> {"queued", "running", "ok", "failed"}]
      /\ (\A i \in Id : state'[i] = state[i]) /\ state'[n + 1] = "queued"
  <2> DEFINE S == {"queued", "running", "ok", "failed"}
  <2>1. state \in Rows(n, S) /\ "queued" \in S
    BY <1>1, ConstantTypes DEF TypeOK, Rows
  <2>2. state' = Append(state, "queued") /\ n \in Nat
    BY <1>1 DEF Schedule
  <2> HIDE DEF S
  <2>3. state' \in Rows(n + 1, S) /\ state'[n + 1] = "queued"
    BY <2>1, <2>2, AppendTo
  <2>4. \A i \in 1 .. n : state'[i] = state[i]
    <3> TAKE i \in 1 .. n
    <3> QED
      BY <2>1, <2>2, AppendKeeps
  <2> QED
    BY <2>3, <2>4, <1>1, <1>2 DEF S, Rows
<1>5. age' \in [Id' -> 0 .. MaxAge]
  <2> DEFINE S == 0 .. MaxAge
  <2>1. age \in Rows(n, S) /\ 0 \in S
    BY <1>1, ConstantTypes DEF TypeOK, Rows
  <2>2. age' = Append(age, 0) /\ n \in Nat
    BY <1>1 DEF Schedule
  <2> HIDE DEF S
  <2>3. age' \in Rows(n + 1, S) /\ age'[n + 1] = 0
    BY <2>1, <2>2, AppendTo
  <2> QED
    BY <2>3, <1>1, <1>2 DEF S, Rows
<1>6. /\ server' \in [Id' -> {"no", "flying", "done", "refused", "lost"}]
      /\ (\A i \in Id : server'[i] = server[i]) /\ server'[n + 1] = "no"
  <2> DEFINE S == {"no", "flying", "done", "refused", "lost"}
  <2>1. server \in Rows(n, S) /\ "no" \in S
    BY <1>1, ConstantTypes DEF TypeOK, Rows
  <2>2. server' = Append(server, "no") /\ n \in Nat
    BY <1>1 DEF Schedule
  <2> HIDE DEF S
  <2>3. server' \in Rows(n + 1, S) /\ server'[n + 1] = "no"
    BY <2>1, <2>2, AppendTo
  <2>4. \A i \in 1 .. n : server'[i] = server[i]
    <3> TAKE i \in 1 .. n
    <3> QED
      BY <2>1, <2>2, AppendKeeps
  <2> QED
    BY <2>3, <2>4, <1>1, <1>2 DEF S, Rows
<1>7. /\ seen' \in [Id' -> SUBSET Range(effects)]
      /\ (\A i \in Id : seen'[i] = seen[i])
  <2> DEFINE S == SUBSET Range(effects)
  <2> DEFINE none == {}
  <2>1. seen \in Rows(n, S) /\ none \in S
    BY <1>1, ConstantTypes DEF TypeOK, Rows
  <2>2. seen' = Append(seen, none) /\ n \in Nat
    BY <1>1 DEF Schedule
  <2> HIDE DEF S, none
  <2>3. seen' \in Rows(n + 1, S) /\ seen'[n + 1] = none
    BY <2>1, <2>2, AppendTo
  <2>4. \A i \in 1 .. n : seen'[i] = seen[i]
    <3> TAKE i \in 1 .. n
    <3> QED
      BY <2>1, <2>2, AppendKeeps
  <2> QED
    BY <2>3, <2>4, <1>1, <1>2 DEF S, none, Rows
<1>8. effects' = effects /\ Range(effects) \subseteq Id /\ UNCHANGED <<reservoir, refresh>>
  BY DEF Schedule, TypeOK, Range
<1> HIDE DEF new
<1>9. TypeOK'
  <2>1. effects \in Seq(Id')
    <3>1. Id \subseteq Id' /\ effects \in Seq(Id)
      BY <1>1, <1>2 DEF TypeOK
    <3> QED
      BY <3>1
  <2> QED
    BY <1>1, <1>2, <1>4, <1>5, <1>6, <1>7, <1>8, <2>1 DEF TypeOK
<1>10. \A i \in Id' : i \in Id \/ i = n + 1
  BY <1>1, <1>2
<1>11. n + 1 \notin Range(effects) /\ \A i \in Id : i < n + 1
  BY <1>1, <1>8
<1>12. SentIsStarted' /\ EffectIsDone' /\ OkIsDone'
  <2>1. SentIsStarted'
    BY <1>4, <1>6, <1>10 DEF SentIsStarted
  <2>2. EffectIsDone'
    BY <1>2, <1>6, <1>8, <1>10, <1>11 DEF EffectIsDone
  <2>3. OkIsDone'
    BY <1>4, <1>6, <1>10 DEF OkIsDone
  <2> QED
    BY <2>1, <2>2, <2>3
<1>13. FirstComeFirstServed'
  <2> SUFFICES ASSUME MaxConcurrent = 1, NEW i \in Id', NEW j \in Id', i < j,
                      Same(i, j)', state'[j] # "queued"
               PROVE  state'[i] \in {"ok", "failed"}
    BY DEF FirstComeFirstServed
  <2>1. j \in Id
    BY <1>4, <1>10
  <2>2. i \in Id
    BY <2>1, <1>1, <1>2
  <2>3. Same(i, j) /\ state[j] # "queued"
    BY <2>1, <2>2, <1>2, <1>4 DEF Same
  <2>4. state[i] \in {"ok", "failed"}
    BY <2>1, <2>2, <2>3 DEF FirstComeFirstServed
  <2> QED
    BY <2>2, <2>4, <1>4
<1>14. InOrder'
  <2> SUFFICES ASSUME MaxConcurrent = 1, NEW i \in Id', NEW j \in Id', i < j,
                      requests'[i].limiter = requests'[j].limiter,
                      server'[i] = "done", server'[j] = "done", ~GivenUp(i)'
               PROVE  IF requests'[i].kind \notin Write THEN j \notin seen'[i]
                      ELSE IF requests'[j].kind \in Write
                      THEN \E m, p \in DOMAIN effects : m < p /\ effects[m] = i /\ effects[p] = j
                      ELSE i \in seen'[j]
    BY <1>8 DEF InOrder
  <2>1. i \in Id /\ j \in Id
    BY <1>6, <1>10
  <2>2. ~GivenUp(i)
    BY <2>1, <1>4, <1>6 DEF GivenUp
  <2> QED
    BY <2>1, <2>2, <1>2, <1>6, <1>7 DEF InOrder
<1> QED
  BY <1>9, <1>12, <1>13, <1>14

\* The first of the queue: all before it have ended, and only then is there room.
LEMMA StartStep ==
  ASSUME IInv, NEW l \in Limiter, Start(l)
  PROVE  IInv'
<1> USE DEF IInv
<1>1. PICK i \in Queue(l) :
        /\ \A j \in Queue(l) : i <= j
        /\ state' = [state EXCEPT ![i] = "running"]
        /\ server' = [server EXCEPT ![i] = "flying"]
  BY DEF Start
<1>2. i \in Id /\ requests[i].limiter = l /\ state[i] = "queued"
  BY DEF Queue
<1>3. /\ UNCHANGED <<requests, age, effects, seen, refresh>> /\ Id' = Id
      /\ reservoir[l] > 0 /\ reservoir' = [reservoir EXCEPT ![l] = @ - 1]
  BY DEF Start, Id
<1>4. /\ state' \in [Id -> {"queued", "running", "ok", "failed"}]
      /\ server' \in [Id -> {"no", "flying", "done", "refused", "lost"}]
      /\ state'[i] = "running" /\ server'[i] = "flying"
      /\ \A j \in Id : j # i => state'[j] = state[j] /\ server'[j] = server[j]
  BY <1>1, <1>2 DEF TypeOK
<1>5. TypeOK'
  <2>1. reservoir' \in [Limiter -> 0 .. Reservoir]
    BY <1>3, ConstantTypes DEF TypeOK
  <2> QED
    BY <1>3, <1>4, <2>1 DEF TypeOK
<1>6. SentIsStarted' /\ EffectIsDone' /\ OkIsDone'
  <2>1. server[i] = "no"
    BY <1>2 DEF SentIsStarted
  <2>2. SentIsStarted' /\ OkIsDone'
    BY <1>3, <1>4 DEF SentIsStarted, OkIsDone
  <2>3. EffectIsDone'
    BY <1>3, <1>4, <2>1 DEF EffectIsDone
  <2> QED
    BY <2>2, <2>3
<1>7. FirstComeFirstServed'
  <2> SUFFICES ASSUME MaxConcurrent = 1, NEW a \in Id, NEW b \in Id, a < b, Same(a, b),
                      state'[b] # "queued"
               PROVE  state'[a] \in {"ok", "failed"}
    BY <1>3 DEF FirstComeFirstServed, Same
  <2>1. CASE b # i
    <3>1. state[a] \in {"ok", "failed"}
      BY <2>1, <1>4 DEF FirstComeFirstServed
    <3> QED
      BY <3>1, <1>2, <1>4
  <2>2. CASE b = i
    <3>1. a \notin Queue(l)
      <4>1. ~(i <= a)
        BY <2>2, <1>2 DEF TypeOK, Id
      <4> QED
        BY <4>1, <1>1
    <3>2. a \notin Running(l)
      BY FreeIsEmpty DEF Start
    <3>3. state[a] \in {"ok", "failed"}
      BY <2>2, <3>1, <3>2, <1>2 DEF Same, Queue, Running, TypeOK
    <3> QED
      BY <3>3, <1>2, <1>4
  <2> QED
    BY <2>1, <2>2
<1>8. InOrder'
  <2>1. \A a \in Id : server'[a] = "done" => server[a] = "done" /\ (GivenUp(a)' <=> GivenUp(a))
    BY <1>4 DEF GivenUp
  <2> QED
    BY <2>1, <1>3 DEF InOrder
<1> QED
  BY <1>5, <1>6, <1>7, <1>8

\* The service is done with i: whatever was scheduled later and was carried out
\* already could only start because i had been given up.
LEMMA CarryOutStep ==
  ASSUME IInv, NEW i \in Id, CarryOut(i)
  PROVE  IInv'
<1> USE DEF IInv
<1>1. /\ server[i] = "flying" /\ server' = [server EXCEPT ![i] = "done"]
      /\ UNCHANGED <<requests, state, age, reservoir, refresh>> /\ Id' = Id
  BY DEF CarryOut, Id
<1>2. /\ server' \in [Id -> {"no", "flying", "done", "refused", "lost"}] /\ server'[i] = "done"
      /\ \A j \in Id : j # i => server'[j] = server[j]
  BY <1>1 DEF TypeOK
<1>3. state[i] # "queued" /\ state[i] # "ok"
  BY <1>1 DEF SentIsStarted, OkIsDone
<1>4. i \notin Range(effects)
  <2>1. CASE requests[i].kind \in Write
    BY <2>1, <1>1 DEF EffectIsDone
  <2>2. CASE requests[i].kind \notin Write
    BY <2>2 DEF TypeOK
  <2> QED
    BY <2>1, <2>2
<1>5. ASSUME requests[i].kind \in Write
      PROVE  /\ effects' = Append(effects, i) /\ effects' \in Seq(Id) /\ seen' = seen
             /\ DOMAIN effects = 1 .. Len(effects) /\ Len(effects) \in Nat
             /\ DOMAIN effects' = 1 .. Len(effects) + 1
             /\ (\A m \in DOMAIN effects : effects'[m] = effects[m])
             /\ effects'[Len(effects) + 1] = i
             /\ Range(effects') = Range(effects) \cup {i}
  <2>1. effects' = Append(effects, i) /\ seen' = seen
    BY <1>5 DEF CarryOut
  <2>2. effects \in Seq(Id)
    BY DEF TypeOK
  <2> QED
    BY <2>1, <2>2, AppendFacts
<1>6. ASSUME requests[i].kind \notin Write
      PROVE  /\ effects' = effects /\ seen' \in [Id -> SUBSET Range(effects)]
             /\ seen'[i] = Range(effects) /\ \A j \in Id : j # i => seen'[j] = seen[j]
  BY <1>6 DEF CarryOut, TypeOK
<1>7. TypeOK'
  <2>1. CASE requests[i].kind \in Write
    <3>1. IsInjective(effects')
      <4> SUFFICES ASSUME NEW m \in DOMAIN effects', NEW p \in DOMAIN effects', effects'[m] = effects'[p]
                   PROVE  m = p
        BY DEF IsInjective
      <4>1. \A q \in DOMAIN effects : effects'[q] # i
        BY <2>1, <1>5, <1>4 DEF Range
      <4>2. \A q \in DOMAIN effects' : q \in DOMAIN effects \/ q = Len(effects) + 1
        BY <2>1, <1>5
      <4>3. IsInjective(effects)
        BY DEF TypeOK
      <4> QED
        BY <2>1, <1>5, <4>1, <4>2, <4>3 DEF IsInjective
    <3>2. /\ seen' \in [Id -> SUBSET Range(effects')]
          /\ \A j \in Range(effects') : requests'[j].kind \in Write
      BY <2>1, <1>1, <1>5 DEF TypeOK
    <3> QED
      BY <2>1, <1>1, <1>2, <1>5, <3>1, <3>2 DEF TypeOK
  <2>2. CASE requests[i].kind \notin Write
    BY <2>2, <1>1, <1>2, <1>6 DEF TypeOK
  <2> QED
    BY <2>1, <2>2
<1>8. SentIsStarted' /\ OkIsDone' /\ FirstComeFirstServed'
  BY <1>1, <1>2, <1>3 DEF SentIsStarted, OkIsDone, FirstComeFirstServed, Same
<1>9. EffectIsDone'
  <2>1. CASE requests[i].kind \in Write
    BY <2>1, <1>1, <1>2, <1>5 DEF EffectIsDone
  <2>2. CASE requests[i].kind \notin Write
    BY <2>2, <1>1, <1>2, <1>6 DEF EffectIsDone
  <2> QED
    BY <2>1, <2>2
<1>10. InOrder'
  <2> DEFINE Fine(a, b) == IF requests[a].kind \notin Write THEN b \notin seen'[a]
                           ELSE IF requests[b].kind \in Write
                           THEN \E m, p \in DOMAIN effects' : m < p /\ effects'[m] = a /\ effects'[p] = b
                           ELSE a \in seen'[b]
  <2> SUFFICES ASSUME MaxConcurrent = 1, NEW a \in Id, NEW b \in Id, a < b, Same(a, b),
                      server'[a] = "done", server'[b] = "done", ~GivenUp(a)'
               PROVE  Fine(a, b)
    BY <1>1 DEF InOrder, Same
  <2>0. a # b
    BY DEF TypeOK, Id
  <2>1. CASE a = i
    <3>1. state[b] # "queued"
      BY <2>0, <2>1, <1>2 DEF SentIsStarted
    <3>2. state[a] = "failed"
      BY <2>1, <3>1, <1>3 DEF FirstComeFirstServed
    <3> QED
      BY <2>1, <3>2, <1>1, <1>2 DEF GivenUp
  <2>2. CASE b = i
    <3>1. server[a] = "done"
      BY <2>0, <2>2, <1>2
    <3>2. CASE requests[a].kind \notin Write
      <4>1. i \notin seen[a]
        BY <1>4 DEF TypeOK
      <4>2. seen'[a] = seen[a]
        BY <2>0, <2>2, <1>5, <1>6
      <4> QED
        BY <2>2, <3>2, <4>1, <4>2
    <3>3. CASE requests[a].kind \in Write
      <4>1. a \in Range(effects)
        BY <3>1, <3>3 DEF EffectIsDone
      <4>2. CASE requests[i].kind \in Write
        <5>1. PICK m \in DOMAIN effects : effects[m] = a
          BY <4>1 DEF Range
        <5>2. m < Len(effects) + 1 /\ m \in DOMAIN effects' /\ Len(effects) + 1 \in DOMAIN effects'
          BY <4>2, <1>5
        <5>3. effects'[m] = a /\ effects'[Len(effects) + 1] = b
          BY <2>2, <4>2, <5>1, <1>5
        <5> QED
          BY <2>2, <3>3, <4>2, <5>2, <5>3
      <4>3. CASE requests[i].kind \notin Write
        BY <2>2, <3>3, <4>1, <4>3, <1>6
      <4> QED
        BY <4>2, <4>3
    <3> QED
      BY <3>2, <3>3
  <2>3. CASE a # i /\ b # i
    <3>1. server[a] = "done" /\ server[b] = "done" /\ ~GivenUp(a)
      BY <2>3, <1>1, <1>2 DEF GivenUp
    <3>2. IF requests[a].kind \notin Write THEN b \notin seen[a]
          ELSE IF requests[b].kind \in Write
          THEN \E m, p \in DOMAIN effects : m < p /\ effects[m] = a /\ effects[p] = b
          ELSE a \in seen[b]
      BY <3>1 DEF InOrder, Same
    <3>3. seen'[a] = seen[a] /\ seen'[b] = seen[b]
      BY <2>3, <1>5, <1>6
    <3>4. \A m \in DOMAIN effects : m \in DOMAIN effects' /\ effects'[m] = effects[m]
      <4>1. CASE requests[i].kind \in Write
        BY <4>1, <1>5
      <4>2. CASE requests[i].kind \notin Write
        BY <4>2, <1>6
      <4> QED
        BY <4>1, <4>2
    <3> QED
      BY <3>2, <3>3, <3>4
  <2> QED
    BY <2>1, <2>2, <2>3
<1> QED
  BY <1>7, <1>8, <1>9, <1>10

LEMMA RefuseStep ==
  ASSUME IInv, NEW i \in Id, Refuse(i)
  PROVE  IInv'
<1> USE DEF IInv
<1>1. /\ server[i] = "flying" /\ Id' = Id
      /\ UNCHANGED <<requests, state, age, effects, seen, reservoir, refresh>>
  BY DEF Refuse, Id
<1>2. PICK s \in {"refused", "lost"} : server' = [server EXCEPT ![i] = s]
  BY DEF Refuse
<1>3. /\ server' \in [Id -> {"no", "flying", "done", "refused", "lost"}] /\ server'[i] = s
      /\ \A j \in Id : j # i => server'[j] = server[j]
  BY <1>2 DEF TypeOK
<1>4. TypeOK'
  BY <1>1, <1>3 DEF TypeOK
<1>5. SentIsStarted' /\ OkIsDone'
  BY <1>1, <1>3 DEF SentIsStarted, OkIsDone
<1>6. EffectIsDone'
  BY <1>1, <1>3 DEF EffectIsDone
<1>7. FirstComeFirstServed'
  BY <1>1 DEF FirstComeFirstServed, Same
<1>8. InOrder'
  <2>1. \A a \in Id : server'[a] = "done" => server[a] = "done" /\ (GivenUp(a)' <=> GivenUp(a))
    BY <1>1, <1>3 DEF GivenUp
  <2> QED
    BY <2>1, <1>1 DEF InOrder
<1> QED
  BY <1>4, <1>5, <1>6, <1>7, <1>8

\* An answer or its absence: the request has ended.
LEMMA EndStep ==
  ASSUME IInv, NEW i \in Id, Answer(i) \/ TimeOut(i)
  PROVE  IInv'
<1> USE DEF IInv
<1>1. /\ state[i] = "running" /\ Id' = Id
      /\ UNCHANGED <<requests, age, server, effects, seen, reservoir, refresh>>
  BY DEF Answer, TimeOut, IsOverdue, Id
<1>2. PICK s \in {"ok", "failed"} :
        state' = [state EXCEPT ![i] = s] /\ (s = "ok" => server[i] = "done")
  BY DEF Answer, TimeOut, Answered
<1>3. /\ state' \in [Id -> {"queued", "running", "ok", "failed"}] /\ state'[i] = s
      /\ \A j \in Id : j # i => state'[j] = state[j]
  BY <1>2 DEF TypeOK
<1>4. TypeOK'
  BY <1>1, <1>3 DEF TypeOK
<1>5. SentIsStarted' /\ OkIsDone'
  BY <1>1, <1>2, <1>3 DEF SentIsStarted, OkIsDone
<1>6. EffectIsDone'
  BY <1>1 DEF EffectIsDone
<1>7. FirstComeFirstServed'
  BY <1>1, <1>3 DEF FirstComeFirstServed, Same
<1>8. InOrder'
  <2>1. \A a \in Id : ~GivenUp(a)' => ~GivenUp(a)
    BY <1>1, <1>3 DEF GivenUp
  <2> QED
    BY <2>1, <1>1 DEF InOrder
<1> QED
  BY <1>4, <1>5, <1>6, <1>7, <1>8

LEMMA TickStep ==
  ASSUME IInv, Tick
  PROVE  IInv'
<1> USE DEF IInv
<1>1. Id' = Id /\ UNCHANGED <<requests, state, server, effects, seen>>
  BY DEF Tick, Id
<1>2. TypeOK'
  <2>1. age' \in [Id -> 0 .. MaxAge]
    <3>1. \A i \in Id : age[i] + 1 \in Nat
      BY DEF TypeOK
    <3>2. \A i \in Id : Min({age[i] + 1, MaxAge}) \in 0 .. MaxAge
      BY <3>1, ConstantTypes, MinFacts
    <3> QED
      BY <3>2, ConstantTypes DEF Tick
  <2>2. refresh' \in [Limiter -> 1 .. Interval]
    BY ConstantTypes DEF Tick, TypeOK
  <2>3. reservoir' \in [Limiter -> 0 .. Reservoir]
    BY ConstantTypes DEF Tick, TypeOK, Refill
  <2> QED
    BY <1>1, <2>1, <2>2, <2>3 DEF TypeOK
<1>3. SentIsStarted' /\ EffectIsDone' /\ OkIsDone' /\ FirstComeFirstServed'
  BY <1>1 DEF SentIsStarted, EffectIsDone, OkIsDone, FirstComeFirstServed, Same
<1>4. InOrder'
  BY <1>1 DEF InOrder, GivenUp
<1> QED
  BY <1>2, <1>3, <1>4

LEMMA NextIInv == IInv /\ [Next]_vars => IInv'
<1> SUFFICES ASSUME IInv, [Next]_vars PROVE IInv'
  OBVIOUS
<1>1. ASSUME NEW l \in Limiter, CreateOrUpdateOrder(l) \/ DeleteOrder(l) \/ GetListOrders(l)
      PROVE  IInv'
  BY <1>1, ScheduleStep DEF CreateOrUpdateOrder, DeleteOrder, GetListOrders, Kind
<1>2. ASSUME NEW l \in Limiter, Start(l) PROVE IInv'
  BY <1>2, StartStep
<1>3. ASSUME NEW i \in Id, CarryOut(i) PROVE IInv'
  BY <1>3, CarryOutStep
<1>4. ASSUME NEW i \in Id, Refuse(i) PROVE IInv'
  BY <1>4, RefuseStep
<1>5. ASSUME NEW i \in Id, Answer(i) \/ TimeOut(i) PROVE IInv'
  BY <1>5, EndStep
<1>6. CASE Tick
  BY <1>6, TickStep
<1>7. CASE UNCHANGED vars
  <2>1. Id' = Id
    BY <1>7 DEF vars, Id
  <2> QED
    BY <1>7, <2>1 DEF vars, IInv, TypeOK, SentIsStarted, EffectIsDone, OkIsDone,
       FirstComeFirstServed, InOrder, Same, GivenUp
<1> QED
  BY <1>1, <1>2, <1>3, <1>4, <1>5, <1>6, <1>7 DEF Next

LEMMA Invariance == Spec => []IInv
  BY InitIInv, NextIInv, PTL DEF Spec

-----------------------------------------------------------------------------
(* The load: what a limiter has started since the last refresh came out of *)
(* its reservoir, and what it started before and is still young came out   *)
(* of the one before.                                                      *)

Started(l) == {i \in Id : requests[i].limiter = l /\ state[i] # "queued"}

\* The ticks since the last refresh.
Since(l) == Interval - refresh[l]

Fresh(l) == {i \in Started(l) : age[i] <= Since(l)}
Older(l) == {i \in Started(l) : Since(l) < age[i] /\ age[i] < Interval}

\* What is queued has no age yet.
QueuedIsNew == \A i \in Id : state[i] = "queued" => age[i] = 0

OutOfReservoirs ==
    \A l \in Limiter :
        /\ Cardinality(Fresh(l)) <= Reservoir - reservoir[l]
        /\ Cardinality(Older(l)) <= Reservoir

LoadInv == QueuedIsNew /\ OutOfReservoirs

LEMMA LoadSets ==
  ASSUME TypeOK, NEW l \in Limiter
  PROVE  /\ IsFiniteSet(Fresh(l)) /\ Cardinality(Fresh(l)) \in Nat
         /\ IsFiniteSet(Older(l)) /\ Cardinality(Older(l)) \in Nat
         /\ Recent(l) = Fresh(l) \cup Older(l)
         /\ Since(l) \in 0 .. Interval - 1 /\ reservoir[l] \in 0 .. Reservoir
<1>1. Id = 1 .. Len(requests) /\ Len(requests) \in Nat
  BY DEF TypeOK, Id
<1>2. IsFiniteSet(Id)
  BY <1>1, FS_Interval
<1>3. Fresh(l) \subseteq Id /\ Older(l) \subseteq Id
  BY DEF Fresh, Older, Started
<1>4. Since(l) \in 0 .. Interval - 1 /\ reservoir[l] \in 0 .. Reservoir
  BY ConstantTypes DEF TypeOK, Since
<1>5. \A i \in Id : age[i] \in Nat
  BY DEF TypeOK
<1>6. Recent(l) = Fresh(l) \cup Older(l)
  BY <1>4, <1>5, ConstantTypes DEF Recent, Fresh, Older, Started
<1> QED
  BY <1>2, <1>3, <1>4, <1>6, FS_Subset, FS_CardinalityType

\* Where the sets only shrink and the reservoir stays, the bounds stay.
LEMMA LoadKept ==
  ASSUME TypeOK, OutOfReservoirs, NEW l \in Limiter,
         reservoir'[l] = reservoir[l], Fresh(l)' \subseteq Fresh(l), Older(l)' \subseteq Older(l)
  PROVE  /\ Cardinality(Fresh(l)') <= Reservoir - reservoir'[l]
         /\ Cardinality(Older(l)') <= Reservoir
<1>1. /\ Cardinality(Fresh(l)') <= Cardinality(Fresh(l)) /\ Cardinality(Fresh(l)') \in Nat
      /\ Cardinality(Older(l)') <= Cardinality(Older(l)) /\ Cardinality(Older(l)') \in Nat
  BY LoadSets, FS_Subset, FS_CardinalityType
<1>2. /\ Cardinality(Fresh(l)) <= Reservoir - reservoir[l] /\ Cardinality(Older(l)) <= Reservoir
      /\ reservoir[l] \in Nat /\ Reservoir \in Nat
      /\ Cardinality(Fresh(l)) \in Nat /\ Cardinality(Older(l)) \in Nat
  BY LoadSets, ConstantTypes DEF OutOfReservoirs
<1> QED
  BY <1>1, <1>2

LEMMA InitLoad == Init => LoadInv
<1> SUFFICES ASSUME Init PROVE LoadInv
  OBVIOUS
<1>1. Id = {}
  BY DEF Init, Id
<1>2. \A l \in Limiter : Fresh(l) = {} /\ Older(l) = {} /\ reservoir[l] = Reservoir
  BY <1>1 DEF Init, Fresh, Older, Started
<1> QED
  BY <1>1, <1>2, FS_EmptySet, ConstantTypes DEF LoadInv, QueuedIsNew, OutOfReservoirs

LEMMA ScheduleLoad ==
  ASSUME TypeOK, LoadInv, NEW l \in Limiter, NEW k \in Kind, Schedule(l, k)
  PROVE  LoadInv'
<1>1. /\ Id = 1 .. Len(requests) /\ Len(requests) \in Nat
      /\ requests \in Seq([limiter : Limiter, kind : Kind])
      /\ requests' = Append(requests, [limiter |-> l, kind |-> k])
  BY DEF TypeOK, Id, Schedule
<1> DEFINE n == Len(requests)
<1>2. /\ Id' = 1 .. n + 1 /\ (\A i \in Id : requests'[i] = requests[i])
  BY <1>1 DEF Id
<1>3. /\ state'[n + 1] = "queued" /\ (\A i \in Id : state'[i] = state[i])
      /\ age'[n + 1] = 0 /\ (\A i \in Id : age'[i] = age[i])
  <2> DEFINE S == {"queued", "running", "ok", "failed"}
             A == 0 .. MaxAge
  <2>1. state \in Rows(n, S) /\ "queued" \in S /\ age \in Rows(n, A) /\ 0 \in A
    BY <1>1, ConstantTypes DEF TypeOK, Rows
  <2>2. state' = Append(state, "queued") /\ age' = Append(age, 0) /\ n \in Nat /\ Id = 1 .. n
    BY <1>1 DEF Schedule
  <2> HIDE DEF n, S, A
  <2>3. state'[n + 1] = "queued" /\ age'[n + 1] = 0
    <3>1. Append(state, "queued")[n + 1] = "queued"
      BY ONLY <2>1, <2>2, AppendTo
    <3>2. Append(age, 0)[n + 1] = 0
      BY ONLY <2>1, <2>2, AppendTo
    <3> QED
      BY <3>1, <3>2, <2>2
  <2>4. \A i \in 1 .. n : state'[i] = state[i] /\ age'[i] = age[i]
    <3> TAKE i \in 1 .. n
    <3>1. Append(state, "queued")[i] = state[i]
      BY <2>1, <2>2, AppendKeeps
    <3>2. Append(age, 0)[i] = age[i]
      BY <2>1, <2>2, AppendKeeps
    <3> QED
      BY <3>1, <3>2, <2>2
  <2> QED
    BY <2>2, <2>3, <2>4
<1>4. \A i \in Id' : i \in Id \/ i = n + 1
  BY <1>1, <1>2
<1>5. QueuedIsNew'
  BY <1>3, <1>4 DEF LoadInv, QueuedIsNew
<1>6. \A m \in Limiter : Fresh(m)' \subseteq Fresh(m) /\ Older(m)' \subseteq Older(m)
  <2> TAKE m \in Limiter
  <2>1. \A i \in Started(m)' : i \in Started(m) /\ age'[i] = age[i]
    BY <1>2, <1>3, <1>4 DEF Started
  <2>2. Since(m)' = Since(m)
    BY DEF Schedule, Since
  <2> QED
    BY <2>1, <2>2 DEF Fresh, Older
<1>7. \A m \in Limiter : reservoir'[m] = reservoir[m]
  BY DEF Schedule
<1> QED
  BY <1>5, <1>6, <1>7, LoadKept DEF LoadInv, OutOfReservoirs

\* One more is fresh and one less is left.
LEMMA StartLoad ==
  ASSUME TypeOK, LoadInv, NEW l \in Limiter, Start(l)
  PROVE  LoadInv'
<1>1. PICK i \in Queue(l) : state' = [state EXCEPT ![i] = "running"]
  BY DEF Start
<1>2. /\ UNCHANGED <<requests, age, refresh>> /\ Id' = Id
      /\ reservoir' = [reservoir EXCEPT ![l] = @ - 1]
      /\ i \in Id /\ requests[i].limiter = l /\ state[i] = "queued"
  BY DEF Start, Queue, Id
<1>3. state'[i] = "running" /\ \A j \in Id : j # i => state'[j] = state[j]
  BY <1>1, <1>2 DEF TypeOK
<1>4. QueuedIsNew'
  BY <1>2, <1>3 DEF LoadInv, QueuedIsNew
<1>5. \A m \in Limiter : Started(m)' = Started(m) \cup (IF m = l THEN {i} ELSE {})
  BY <1>2, <1>3 DEF Started
<1>6. \A m \in Limiter : Since(m)' = Since(m) /\ Since(m) \in Nat
  BY <1>2, LoadSets DEF Since
<1>7. age[i] = 0
  BY <1>2 DEF LoadInv, QueuedIsNew
<1>8. ASSUME NEW m \in Limiter
      PROVE  /\ Cardinality(Fresh(m)') <= Reservoir - reservoir'[m]
             /\ Cardinality(Older(m)') <= Reservoir
  <2>1. CASE m # l
    <3>1. Fresh(m)' = Fresh(m) /\ Older(m)' = Older(m) /\ reservoir'[m] = reservoir[m]
      BY <2>1, <1>2, <1>5, <1>6 DEF Fresh, Older, TypeOK
    <3> QED
      BY <3>1, LoadKept DEF LoadInv
  <2>2. CASE m = l
    <3>1. Older(m)' = Older(m)
      BY <2>2, <1>2, <1>5, <1>6, <1>7 DEF Older
    <3>2. Fresh(m)' = Fresh(m) \cup {i}
      BY <2>2, <1>2, <1>5, <1>6, <1>7 DEF Fresh
    <3>3. i \notin Fresh(m)
      BY <1>2 DEF Fresh, Started
    <3>4. Cardinality(Fresh(m)') = Cardinality(Fresh(m)) + 1
      BY <3>2, <3>3, LoadSets, FS_AddElement
    <3>5. reservoir'[m] = reservoir[m] - 1
      BY <2>2, <1>2 DEF TypeOK
    <3>6. /\ Cardinality(Fresh(m)) <= Reservoir - reservoir[m] /\ Cardinality(Older(m)) <= Reservoir
          /\ Cardinality(Fresh(m)) \in Nat /\ reservoir[m] \in Nat /\ Reservoir \in Nat
      BY LoadSets, ConstantTypes DEF LoadInv, OutOfReservoirs
    <3> QED
      BY <3>1, <3>4, <3>5, <3>6
  <2> QED
    BY <2>1, <2>2
<1> QED
  BY <1>4, <1>8 DEF LoadInv, OutOfReservoirs

\* The service and the end of a request do not count.
LEMMA OtherLoad ==
  ASSUME TypeOK, LoadInv, NEW i \in Id, CarryOut(i) \/ Refuse(i) \/ Answer(i) \/ TimeOut(i)
  PROVE  LoadInv'
<1>1. UNCHANGED <<requests, age, reservoir, refresh>> /\ Id' = Id
  BY DEF CarryOut, Refuse, Answer, TimeOut, Id
<1>2. \A j \in Id : state'[j] = "queued" <=> state[j] = "queued"
  <2>1. CASE UNCHANGED state
    BY <2>1
  <2>2. ASSUME NEW s \in {"ok", "failed"}, state[i] = "running", state' = [state EXCEPT ![i] = s]
        PROVE  \A j \in Id : state'[j] = "queued" <=> state[j] = "queued"
    BY <2>2 DEF TypeOK
  <2> QED
    BY <2>1, <2>2 DEF CarryOut, Refuse, Answer, TimeOut, IsOverdue, Answered
<1>3. QueuedIsNew'
  BY <1>1, <1>2 DEF LoadInv, QueuedIsNew
<1>4. \A m \in Limiter : Started(m)' = Started(m) /\ Since(m)' = Since(m)
  BY <1>1, <1>2 DEF Started, Since
<1>5. \A m \in Limiter : Fresh(m)' = Fresh(m) /\ Older(m)' = Older(m)
  BY <1>1, <1>4 DEF Fresh, Older
<1> QED
  BY <1>1, <1>3, <1>5, LoadKept DEF LoadInv, OutOfReservoirs

\* A refresh makes the fresh ones the older ones, and the reservoir pays for them.
LEMMA TickLoad ==
  ASSUME TypeOK, LoadInv, Tick
  PROVE  LoadInv'
<1>1. Id' = Id /\ UNCHANGED <<requests, state>>
  BY DEF Tick, Id
<1>2. \A i \in Id : age'[i] = IF state[i] = "queued" THEN 0 ELSE Min({age[i] + 1, MaxAge})
  BY DEF Tick
<1>3. QueuedIsNew'
  BY <1>1, <1>2 DEF QueuedIsNew
<1>4. \A m \in Limiter : Started(m)' = Started(m)
  BY <1>1 DEF Started
<1>5. \A i \in Id : age[i] \in Nat
  BY DEF TypeOK
<1>6. ASSUME NEW m \in Limiter, NEW i \in Started(m)
      PROVE  /\ age'[i] \in Nat /\ age'[i] >= 1
             /\ age'[i] < Interval => age'[i] = age[i] + 1
  <2>1. age'[i] = Min({age[i] + 1, MaxAge}) /\ age[i] \in Nat /\ age[i] + 1 \in Nat
    <3>1. i \in Id /\ state[i] # "queued"
      BY DEF Started
    <3>2. age[i] \in Nat
      BY <1>5, <3>1
    <3>3. age'[i] = Min({age[i] + 1, MaxAge})
      BY <1>2, <3>1
    <3> QED
      BY <3>2, <3>3
  <2>2. MaxAge \in Nat /\ MaxAge >= Interval /\ Interval >= 1 /\ Interval \in Nat
    BY ConstantTypes, RateLimitsAssumption, MaxBound DEF MaxAge
  <2>3. age'[i] = age[i] + 1 \/ age'[i] = MaxAge
    BY <2>1, <2>2, MinIsOne
  <2>4. age[i] + 1 >= 1
    BY <2>1
  <2> QED
    BY <2>1, <2>2, <2>3, <2>4
<1>7. ASSUME NEW m \in Limiter
      PROVE  /\ Cardinality(Fresh(m)') <= Reservoir - reservoir'[m]
             /\ Cardinality(Older(m)') <= Reservoir
  <2>1. CASE refresh[m] = 1
    <3>1. Since(m)' = 0 /\ Since(m) = Interval - 1 /\ reservoir'[m] = Reservoir
      BY <2>1, ConstantTypes DEF Tick, Since, Refill
    <3>2. Fresh(m)' = {}
      BY <3>1, <1>4, <1>6 DEF Fresh
    <3>3. Older(m)' \subseteq Fresh(m)
      BY <3>1, <1>1, <1>4, <1>5, <1>6, ConstantTypes DEF Older, Fresh, Started
    <3>4. Cardinality(Older(m)') <= Cardinality(Fresh(m)) /\ Cardinality(Older(m)') \in Nat
      BY <3>3, LoadSets, FS_Subset, FS_CardinalityType
    <3>5. /\ Cardinality(Fresh(m)) <= Reservoir - reservoir[m] /\ Cardinality(Fresh(m)) \in Nat
          /\ reservoir[m] \in Nat /\ Reservoir \in Nat
      BY LoadSets, ConstantTypes DEF LoadInv, OutOfReservoirs
    <3> QED
      BY <3>1, <3>2, <3>4, <3>5, FS_EmptySet
  <2>2. CASE refresh[m] # 1
    <3>1. Since(m)' = Since(m) + 1 /\ reservoir'[m] = reservoir[m]
          /\ Since(m) \in Nat /\ Since(m) + 1 < Interval
      BY <2>2, ConstantTypes DEF Tick, Since, TypeOK
    <3>2. Fresh(m)' \subseteq Fresh(m)
      BY <3>1, <1>1, <1>4, <1>5, <1>6, ConstantTypes DEF Fresh, Started
    <3>3. Older(m)' \subseteq Older(m)
      BY <3>1, <1>1, <1>4, <1>5, <1>6, ConstantTypes DEF Older, Started
    <3> QED
      BY <3>1, <3>2, <3>3, LoadKept DEF LoadInv
  <2> QED
    BY <2>1, <2>2
<1> QED
  BY <1>3, <1>7 DEF LoadInv, OutOfReservoirs

LEMMA NextLoad == IInv /\ LoadInv /\ [Next]_vars => LoadInv'
<1> SUFFICES ASSUME IInv, LoadInv, [Next]_vars PROVE LoadInv'
  OBVIOUS
<1>0. TypeOK
  BY DEF IInv
<1>1. ASSUME NEW l \in Limiter, CreateOrUpdateOrder(l) \/ DeleteOrder(l) \/ GetListOrders(l)
      PROVE  LoadInv'
  BY <1>0, <1>1, ScheduleLoad DEF CreateOrUpdateOrder, DeleteOrder, GetListOrders, Kind
<1>2. ASSUME NEW l \in Limiter, Start(l) PROVE LoadInv'
  BY <1>0, <1>2, StartLoad
<1>3. ASSUME NEW i \in Id, CarryOut(i) \/ Refuse(i) \/ Answer(i) \/ TimeOut(i)
      PROVE  LoadInv'
  BY <1>0, <1>3, OtherLoad
<1>4. CASE Tick
  BY <1>0, <1>4, TickLoad
<1>5. CASE UNCHANGED vars
  BY <1>5 DEF vars, LoadInv, QueuedIsNew, OutOfReservoirs, Fresh, Older, Started, Since, Id
<1> QED
  BY <1>1, <1>2, <1>3, <1>4, <1>5 DEF Next

-----------------------------------------------------------------------------
(* Theorems.                                                               *)

\* Every variable keeps its type: a reservoir is never overdrawn and no write
\* happens twice (LIMITER_OPTIONS, makeRawRequest).
THEOREM TypeCorrect == Spec => []TypeOK
  BY Invariance, PTL DEF IInv

\* The writes and lists that went through a limiter with one place come in the order
\* in which they were scheduled, unless the earlier one was given up (maxConcurrent,
\* NET_TIMEOUT).
THEOREM LimiterInOrder == Spec => []InOrder
  BY Invariance, PTL DEF IInv

\* In any interval a limiter starts at most what two reservoirs hold, however the
\* refreshes fall (reservoirRefreshAmount, reservoirRefreshInterval).
THEOREM LoadIsBounded == Spec => []AccountLoad
<1>1. IInv /\ LoadInv => AccountLoad
  <2> SUFFICES ASSUME IInv, LoadInv, NEW l \in Limiter
               PROVE  Cardinality(Recent(l)) <= 2 * Reservoir
    BY DEF AccountLoad
  <2>0. TypeOK
    BY DEF IInv
  <2>1. /\ IsFiniteSet(Fresh(l)) /\ Cardinality(Fresh(l)) \in Nat
        /\ IsFiniteSet(Older(l)) /\ Cardinality(Older(l)) \in Nat
        /\ Recent(l) = Fresh(l) \cup Older(l)
        /\ reservoir[l] \in Nat /\ Reservoir \in Nat
    BY <2>0, LoadSets, ConstantTypes
  <2>2. Fresh(l) \cap Older(l) = {}
    <3>1. \A i \in Id : age[i] \in Nat
      BY <2>0 DEF TypeOK
    <3>2. Since(l) \in 0 .. Interval - 1 /\ Interval \in Nat
      BY <2>0, LoadSets, ConstantTypes
    <3> QED
      BY <3>1, <3>2 DEF Fresh, Older, Started
  <2>3. Cardinality(Fresh(l) \cup Older(l)) = Cardinality(Fresh(l)) + Cardinality(Older(l))
    <3>1. Cardinality(Fresh(l) \cap Older(l)) = 0
      BY <2>2, FS_EmptySet
    <3> QED
      BY <2>1, <3>1, FS_Union
  <2>4. Cardinality(Fresh(l)) <= Reservoir - reservoir[l] /\ Cardinality(Older(l)) <= Reservoir
    BY DEF LoadInv, OutOfReservoirs
  <2> QED
    BY <2>1, <2>3, <2>4
<1> QED
  BY <1>1, Invariance, InitLoad, NextLoad, PTL DEF Spec

-----------------------------------------------------------------------------
(* HookWatch.                                                              *)

\* Only a hook that was found is sent back; without that the payload would be no
\* hook at all.
FoundIsPut == task.pc = "put" => task.read["known"] # NoHook

\* The three are inductive together.
WatchInv == WatchTypeOK /\ EachRunReports /\ FoundIsPut

USE DEF Hooks, Event, Go, HandlerGo, Put, IsEmpty, IsDisabled, Enabled

\* Of a hook that is there each field may be changed.
LEMMA ChangedHook ==
  ASSUME NEW hook \in Hook, hook # NoHook
  PROVE  /\ [hook EXCEPT !.is_active = FALSE] \in Hook
         /\ [hook EXCEPT !.is_active = TRUE] \in Hook
         /\ [hook EXCEPT !.scope = "other"] \in Hook
         /\ [hook EXCEPT !.is_active = TRUE].is_active
         /\ [hook EXCEPT !.is_active = TRUE].scope = hook.scope
  BY DEF Hook

LEMMA HookFacts ==
  /\ NoHook \in Hook /\ ~NoHook.is_active
  /\ [is_active |-> TRUE, scope |-> "store/order/*"] \in Hook
  BY DEF Hook, NoHook

LEMMA Interferes ==
  ASSUME trouble \in 0 .. MaxTrouble, Interfere PROVE trouble' \in 0 .. MaxTrouble
  BY HookWatchAssumption DEF Interfere

LEMMA InitWatchInv == WatchInit => WatchInv
  BY HookWatchAssumption, HookFacts DEF WatchInit, WatchInv, WatchTypeOK, EachRunReports, FoundIsPut

-----------------------------------------------------------------------------

\* The shop leaves the runs alone.
LEMMA ShopStep == ASSUME WatchInv, Disable \/ Edit PROVE WatchInv'
<1>1. CASE Disable
  <2>1. PICK id \in DOMAIN hooks : hooks' = [hooks EXCEPT ![id].is_active = FALSE] /\ hooks[id].is_active
    BY <1>1 DEF Disable
  <2>2. hooks' \in Hooks
    BY <2>1, ChangedHook, HookFacts DEF WatchInv, WatchTypeOK
  <2>3. trouble' \in 0 .. MaxTrouble
    BY <1>1, Interferes DEF Disable, WatchInv, WatchTypeOK
  <2> QED
    BY <1>1, <2>2, <2>3 DEF Disable, WatchInv, WatchTypeOK, EachRunReports, FoundIsPut
<1>2. CASE Edit
  <2>1. PICK id \in DOMAIN hooks : \E new \in {NoHook, [hooks[id] EXCEPT !.scope = "other"]} :
            hooks[id] # NoHook /\ hooks' = [hooks EXCEPT ![id] = new]
    BY <1>2 DEF Edit
  <2>2. hooks' \in Hooks
    <3>1. hooks[id] \in Hook /\ hooks \in Hooks
      BY DEF WatchInv, WatchTypeOK
    <3>2. NoHook \in Hook /\ [hooks[id] EXCEPT !.scope = "other"] \in Hook
      BY <2>1, <3>1, ChangedHook, HookFacts
    <3> QED
      BY <2>1, <3>1, <3>2
  <2>3. trouble' \in 0 .. MaxTrouble
    BY <1>2, Interferes DEF Edit, WatchInv, WatchTypeOK
  <2> QED
    BY <1>2, <2>2, <2>3 DEF Edit, WatchInv, WatchTypeOK, EachRunReports, FoundIsPut
<1> QED
  BY <1>1, <1>2

\* A save that works leaves an event, one that fails leads to the catch block.
LEMMA LogStep ==
  ASSUME WatchInv, NEW event \in Event, NEW pc \in {"done", "put"}, Log(event, pc),
         pc = "put" => task.read["known"] # NoHook
  PROVE  WatchInv'
<1>1. CASE events' = events \cup {event} /\ Go(pc) /\ UNCHANGED trouble
  BY <1>1 DEF WatchInv, WatchTypeOK, EachRunReports, FoundIsPut
<1>2. CASE Interfere /\ Go("catch") /\ UNCHANGED events
  BY <1>2, Interferes DEF WatchInv, WatchTypeOK, EachRunReports, FoundIsPut
<1> QED
  BY <1>1, <1>2 DEF Log

LEMMA TaskStep == ASSUME WatchInv, TaskNext PROVE WatchInv'
<1>1. CASE TaskStart
  BY <1>1 DEF TaskStart, WatchInv, WatchTypeOK, EachRunReports, FoundIsPut
<1>2. CASE TaskGetAllHooks
  <2>1. CASE task' = [pc |-> "check", read |-> hooks] /\ UNCHANGED <<hooks, handler, trouble>>
    BY <1>2, <2>1 DEF TaskGetAllHooks, WatchInv, WatchTypeOK, EachRunReports, FoundIsPut
  <2>2. CASE Interfere /\ Go("catch")
    BY <1>2, <2>2, Interferes DEF TaskGetAllHooks, WatchInv, WatchTypeOK, EachRunReports, FoundIsPut
  <2> QED
    BY <1>2, <2>1, <2>2 DEF TaskGetAllHooks
<1>3. CASE NoHooks
  BY <1>3 DEF NoHooks, WatchInv, WatchTypeOK, EachRunReports, FoundIsPut
<1>4. CASE NotFound
  BY <1>4, LogStep DEF NotFound
<1>5. CASE Disabled
  BY <1>5, LogStep DEF Disabled
<1>6. CASE StateIsOk
  BY <1>6, LogStep DEF StateIsOk
<1>7. CASE TaskUpdateHook
  <2>1. \/ task' = [task EXCEPT !.pc = "enabled"]
        \/ task' = [task EXCEPT !.pc = "catch"]
    BY <1>7 DEF TaskUpdateHook
  <2>2. hooks' \in Hooks
    <3>1. /\ task.read["known"] \in Hook /\ task.read["known"] # NoHook
          /\ hooks \in Hooks
      BY <1>7 DEF TaskUpdateHook, WatchInv, WatchTypeOK, FoundIsPut
    <3>2. [task.read["known"] EXCEPT !.is_active = TRUE] \in Hook
      BY <3>1, ChangedHook
    <3>3. \/ UNCHANGED hooks
          \/ hooks' = [hooks EXCEPT !["known"] = [task.read["known"] EXCEPT !.is_active = TRUE]]
      BY <1>7 DEF TaskUpdateHook
    <3> QED
      BY <3>1, <3>2, <3>3
  <2>3. trouble' \in 0 .. MaxTrouble /\ UNCHANGED <<handler, events>>
    BY <1>7, Interferes DEF TaskUpdateHook, WatchInv, WatchTypeOK
  <2> QED
    BY <2>1, <2>2, <2>3 DEF WatchInv, WatchTypeOK, EachRunReports, FoundIsPut
<1>8. CASE ReportEnabled
  BY <1>8, LogStep DEF ReportEnabled
<1>9. CASE Catch
  BY <1>9, Interferes DEF Catch, WatchInv, WatchTypeOK, EachRunReports, FoundIsPut
<1> QED
  BY <1>1, <1>2, <1>3, <1>4, <1>5, <1>6, <1>7, <1>8, <1>9 DEF TaskNext, TaskGoesOn

\* The script leaves the run of the task alone.
LEMMA HandlerStep == ASSUME WatchInv, HandlerNext PROVE WatchInv'
<1>1. UNCHANGED <<task, events>> /\ trouble' \in 0 .. MaxTrouble
  BY Interferes
  DEF HandlerNext, HandlerStart, HandlerFails, HandlerGetAllHooks, HandlerCheck,
      HandlerCreateHook, HandlerUpdateHook, WatchInv, WatchTypeOK
<1>2. hooks' \in Hooks
  BY HookFacts DEF HandlerNext, HandlerStart, HandlerFails, HandlerGetAllHooks, HandlerCheck,
         HandlerCreateHook, HandlerUpdateHook, WatchInv, WatchTypeOK
<1>3. handler' \in [pc : {"idle", "get", "check", "put", "post"}, read : Hooks]
  <2>1. CASE HandlerStart \/ HandlerFails \/ HandlerCreateHook \/ HandlerUpdateHook
    BY <2>1 DEF HandlerStart, HandlerFails, HandlerCreateHook, HandlerUpdateHook, WatchInv, WatchTypeOK
  <2>2. CASE HandlerGetAllHooks
    BY <2>2 DEF HandlerGetAllHooks, WatchInv, WatchTypeOK
  <2>3. CASE HandlerCheck
    BY <2>3 DEF HandlerCheck, WatchInv, WatchTypeOK
  <2> QED
    BY <2>1, <2>2, <2>3 DEF HandlerNext
<1> QED
  BY <1>1, <1>2, <1>3 DEF WatchInv, WatchTypeOK, EachRunReports, FoundIsPut

LEMMA NextWatchInv == WatchInv /\ [WatchNext]_watchVars => WatchInv'
<1> SUFFICES ASSUME WatchInv, [WatchNext]_watchVars PROVE WatchInv'
  OBVIOUS
<1>1. CASE UNCHANGED watchVars
  BY <1>1 DEF watchVars, WatchInv, WatchTypeOK, EachRunReports, FoundIsPut
<1> QED
  BY <1>1, ShopStep, TaskStep, HandlerStep DEF WatchNext

LEMMA AlwaysWatchInv == WatchSpec => []WatchInv
  BY InitWatchInv, NextWatchInv, PTL DEF WatchSpec

-----------------------------------------------------------------------------

\* The hooks, the runs of the task and of the script and the events stay what the
\* code can make of them.
THEOREM WatchTypeCorrect == WatchSpec => []WatchTypeOK
<1>1. WatchInv => WatchTypeOK
  BY DEF WatchInv
<1> QED
  BY <1>1, AlwaysWatchInv, PTL

\* Whichever request or save of a run of TaskCheckBGHook fails: when it comes to
\* its end, it has left an event, or the shop had no hook at all.
THEOREM RunsReport == WatchSpec => []EachRunReports
<1>1. WatchInv => EachRunReports
  BY DEF WatchInv
<1> QED
  BY <1>1, AlwaysWatchInv, PTL

\* All that TaskCheckBGHook changes of the shop, with a payload that is the whole
\* hook, is that the hook is on; or it undoes an edit made after it had read.
THEOREM TaskOnlyEnables == WatchSpec => OnlyEnables
<1> DEFINE A == task' # task /\ hooks' # hooks =>
                  /\ hooks'["new"] = hooks["new"] /\ hooks'["known"].is_active
                  /\ hooks'["known"].scope # hooks["known"].scope =>
                         hooks'["known"].scope = task.read["known"].scope
<1>1. WatchInv /\ [WatchNext]_watchVars => [A]_watchVars
  <2> SUFFICES ASSUME WatchInv, WatchNext, task' # task, hooks' # hooks
               PROVE  /\ hooks'["new"] = hooks["new"] /\ hooks'["known"].is_active
                      /\ hooks'["known"].scope # hooks["known"].scope =>
                             hooks'["known"].scope = task.read["known"].scope
    BY DEF watchVars
  <2>1. hooks' = [hooks EXCEPT !["known"] = [task.read["known"] EXCEPT !.is_active = TRUE]]
    BY DEF WatchNext, Disable, Edit, TaskNext, TaskStart, TaskGoesOn, TaskGetAllHooks, NoHooks, NotFound,
           Disabled, StateIsOk, TaskUpdateHook, ReportEnabled, Catch, Log, HandlerNext,
           HandlerStart, HandlerFails, HandlerGetAllHooks, HandlerCheck,
           HandlerCreateHook, HandlerUpdateHook
  <2>2. task.read["known"] \in Hook /\ task.read["known"] # NoHook
    BY DEF WatchNext, Disable, Edit, TaskNext, TaskStart, TaskGoesOn, TaskGetAllHooks, NoHooks, NotFound,
           Disabled, StateIsOk, TaskUpdateHook, ReportEnabled, Catch, Log, HandlerNext,
           HandlerStart, HandlerFails, HandlerGetAllHooks, HandlerCheck,
           HandlerCreateHook, HandlerUpdateHook, WatchInv, WatchTypeOK, FoundIsPut
  <2> QED
    BY <2>1, <2>2, ChangedHook DEF WatchInv, WatchTypeOK
<1>2. WatchSpec => [][A]_watchVars
  BY <1>1, AlwaysWatchInv, PTL DEF WatchSpec
<1> QED
  BY <1>2 DEF OnlyEnables

=============================================================================
