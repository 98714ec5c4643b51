---------------------------- MODULE RefundProofs -----------------------------
(***************************************************************************)
(* Theorems about Refunds, for any orders, events, amounts and prefixes    *)
(* and any number of deliveries and failures.                              *)
(***************************************************************************)
EXTENDS Refunds, Sums

-----------------------------------------------------------------------------
(* The inductive invariant.                                                *)

\* The handler waits for all updates in the limiter, or for none.
WaitsForAll == handler.left = IF At("wait") THEN Len(jobs) ELSE 0

\* At most one update of an order is under way,
OneEach == \A i, j \in DOMAIN jobs : jobs[i].order = jobs[j].order => i = j

\* and it was computed from what the order is now.
Current ==
    \A i \in DOMAIN jobs :
        /\ ship[jobs[i].order].state # "absent"
        /\ jobs[i].new = Refunded(ship[jobs[i].order], Settle[jobs[i].event])

Pending(o, e) == \E i \in DOMAIN jobs : jobs[i].order = o /\ jobs[i].event = e

\* The handler may still make updates for e.
Open(e) == handler.pc \in {"skip", "find", "list"} /\ handler.event = e

\* A delivery is used up by an update that was made, that is under way, or that
\* the handler may still make.
Counted ==
    \A o \in Order, e \in Event :
        /\ taken[o][e] <= delivered[e]
        /\ Pending(o, e) => taken[o][e] + 1 <= delivered[e]
        /\ Open(e) => taken[o][e] + 1 <= delivered[e]
        /\ Pending(o, e) /\ Open(e) => taken[o][e] + 2 <= delivered[e]

\* The list is by a number; what was found is listed, and what was listed is on its
\* way.
FoundIsPending ==
    LET e == handler.event
        o == OrderOf[e] IN
    /\ At("list") => /\ handler.number \in Number
                     /\ handler.found => o \in rows /\ handler.number = RowNumber(o)
    /\ At("wait") /\ handler.found /\ o \notin FromShop => taken[o][e] > 0 \/ Pending(o, e)

IInv ==
    /\ TypeOK /\ WaitsForAll /\ OneEach /\ Current /\ Counted
    /\ FoundIsPending /\ FoundIsTaken

-----------------------------------------------------------------------------
(* Facts.                                                                  *)

LEMMA RefundedType ==
  ASSUME NEW order \in OrderState, NEW settle \in (Nat \ {0}) \cup {NoAmount},
         order.state # "absent"
  PROVE  /\ Refunded(order, settle) \in OrderState
         /\ Refunded(order, settle).state # "absent"
         /\ order.state = "cancelled" => Refunded(order, settle).state = "cancelled"
  BY DEF Refunded, OrderState

\* A sequence of all elements of a set meets each of them once.
LEMMA SequenceOfSet ==
  ASSUME NEW S, IsFiniteSet(S), NEW s \in SetToSeqs(S)
  PROVE  /\ s \in Seq(S)
         /\ \A i, j \in DOMAIN s : s[i] = s[j] => i = j
         /\ \A x \in S : \E i \in DOMAIN s : s[i] = x
<1> DEFINE n == Cardinality(S)
<1>1. n \in Nat
  BY FS_CardinalityType
<1>2. s \in [1 .. n -> S] /\ \A i, j \in 1 .. n : i # j => s[i] # s[j]
  BY DEF SetToSeqs
<1>3. s \in Seq(S) /\ DOMAIN s = 1 .. n
  BY <1>1, <1>2
<1> DEFINE R == {s[i] : i \in 1 .. n}
<1>4. IsFiniteSet(1 .. n) /\ Cardinality(1 .. n) = n
  BY <1>1, FS_Interval
<1>5. s \in Bijection(1 .. n, R)
  BY <1>2 DEF Bijection, Injection, Surjection, IsInjective
<1>6. Cardinality(R) = n
  BY <1>4, <1>5, FS_Bijection DEF ExistsBijection
<1>7. R = S
  <2>1. R \subseteq S
    BY <1>2
  <2> QED
    BY <2>1, <1>6, FS_Subset
<1> QED
  BY <1>2, <1>3, <1>7

LEMMA TailFacts ==
  ASSUME NEW S, NEW q \in Seq(S), q # <<>>
  PROVE  /\ DOMAIN q = 1 .. Len(q) /\ 1 \in DOMAIN q /\ Head(q) = q[1]
         /\ Tail(q) \in Seq(S) /\ Len(Tail(q)) = Len(q) - 1
         /\ \A i \in DOMAIN Tail(q) : i + 1 \in DOMAIN q /\ i + 1 # 1 /\ Tail(q)[i] = q[i + 1]
         /\ \A i \in DOMAIN q : i # 1 => i - 1 \in DOMAIN Tail(q) /\ Tail(q)[i - 1] = q[i]
  OBVIOUS

\* The order of an event and the orders of the list are orders.
LEMMA ConstantTypes ==
  /\ OrderOf \in [Event -> Order] /\ \A o \in Order : RowNumber(o) \in Number
  /\ Invoice \in [Event -> Number] /\ Under \in [Number -> SUBSET Order]
  /\ \A o \in Order : Amount[o] \in Int
  /\ \A e \in Event : Settle[e] \in (Nat \ {0}) \cup {NoAmount}
  BY RefundAssumption DEF RowNumber

-----------------------------------------------------------------------------
(* A step of the limiter.                                                  *)

\* The first update is made or not, and it, or all, leave the limiter.
LimiterStep ==
    /\ jobs # <<>>
    /\ Apply \/ UNCHANGED <<ship, taken>>
    /\ jobs' = Tail(jobs) \/ jobs' = <<>>
    /\ UNCHANGED <<rows, delivered>>

LEMMA LimiterType ==
  ASSUME TypeOK, Current, LimiterStep
  PROVE  /\ ship' \in [Order -> OrderState]
         /\ taken' \in [Order -> [Event -> Nat]]
         /\ jobs' \in Seq(Job)
         /\ rows' \subseteq {o \in Order : ship'[o].state # "absent"}
         /\ \A o \in Order : ship[o].state = "cancelled" => ship'[o].state = "cancelled"
<1>1. jobs \in Seq(Job) /\ ship \in [Order -> OrderState] /\ taken \in [Order -> [Event -> Nat]]
  BY DEF TypeOK
<1>2. 1 \in DOMAIN jobs /\ Head(jobs) = jobs[1] /\ Head(jobs) \in Job /\ Tail(jobs) \in Seq(Job)
  BY <1>1, TailFacts DEF LimiterStep
<1> DEFINE job == Head(jobs)
<1>3. /\ job.order \in Order /\ job.event \in Event /\ job.new \in OrderState
      /\ job.new = Refunded(ship[job.order], Settle[job.event])
      /\ ship[job.order].state # "absent"
  BY <1>2 DEF Current, Job
<1>4. /\ job.new.state # "absent"
      /\ ship[job.order].state = "cancelled" => job.new.state = "cancelled"
  <2>1. ship[job.order] \in OrderState /\ Settle[job.event] \in (Nat \ {0}) \cup {NoAmount}
    BY <1>1, <1>3, ConstantTypes
  <2> QED
    BY <2>1, <1>3, RefundedType
<1>0. jobs' \in Seq(Job)
  <2>1. <<>> \in Seq(Job)
    OBVIOUS
  <2> QED
    BY <2>1, <1>2 DEF LimiterStep
<1>5. CASE Apply
  <2>1. ship' = [ship EXCEPT ![job.order] = job.new]
        /\ taken' = [taken EXCEPT ![job.order][job.event] = @ + 1]
    BY <1>5 DEF Apply
  <2> HIDE DEF job
  <2>2. rows' \subseteq {o \in Order : ship'[o].state # "absent"}
    BY <2>1, <1>1, <1>3, <1>4 DEF TypeOK, LimiterStep
  <2>3. \A o \in Order : ship[o].state = "cancelled" => ship'[o].state = "cancelled"
    BY <2>1, <1>1, <1>3, <1>4
  <2>4. ship' \in [Order -> OrderState] /\ taken' \in [Order -> [Event -> Nat]]
    BY <2>1, <1>1, <1>3
  <2> QED
    BY <2>2, <2>3, <2>4, <1>0
<1>6. CASE UNCHANGED <<ship, taken>>
  BY <1>0, <1>1, <1>6 DEF LimiterStep, TypeOK
<1> QED
  BY <1>5, <1>6 DEF LimiterStep

\* What is left in the limiter is about other orders and as current as before.
LEMMA LimiterCurrent ==
  ASSUME TypeOK, OneEach, Current, LimiterStep
  PROVE  OneEach' /\ Current'
<1>1. CASE jobs' = <<>>
  BY <1>1 DEF OneEach, Current
<1>2. CASE jobs' = Tail(jobs)
  <2>1. jobs \in Seq(Job)
    BY DEF TypeOK
  <2>2. /\ 1 \in DOMAIN jobs /\ Head(jobs) = jobs[1]
        /\ \A i \in DOMAIN jobs' : i \in Int /\ i + 1 \in DOMAIN jobs /\ i + 1 # 1 /\ jobs'[i] = jobs[i + 1]
    BY <1>2, <2>1, TailFacts DEF LimiterStep
  <2>3. OneEach'
    BY <2>2 DEF OneEach
  <2>4. ASSUME NEW i \in DOMAIN jobs' PROVE ship'[jobs'[i].order] = ship[jobs'[i].order]
    <3>1. jobs'[i].order # Head(jobs).order /\ jobs'[i].order \in Order
      <4>1. jobs[i + 1] \in Job
        BY <2>1, <2>2
      <4> QED
        BY <4>1, <2>2 DEF OneEach, Job
    <3> QED
      BY <3>1 DEF LimiterStep, Apply, TypeOK
  <2>5. Current'
    BY <2>2, <2>4 DEF Current
  <2> QED
    BY <2>3, <2>5
<1> QED
  BY <1>1, <1>2 DEF LimiterStep

\* An update that was made is no longer under way.
LEMMA LimiterCounts ==
  ASSUME TypeOK, OneEach, LimiterStep, NEW o \in Order, NEW e \in Event
  PROVE  /\ taken'[o][e] = taken[o][e] \/ (Pending(o, e) /\ taken'[o][e] = taken[o][e] + 1)
         /\ Pending(o, e)' => Pending(o, e) /\ taken'[o][e] = taken[o][e]
         /\ Apply /\ jobs' = Tail(jobs) /\ Pending(o, e) => taken'[o][e] > 0 \/ Pending(o, e)'
<1>1. jobs \in Seq(Job) /\ taken \in [Order -> [Event -> Nat]]
  BY DEF TypeOK
<1>2. /\ 1 \in DOMAIN jobs /\ Head(jobs) = jobs[1] /\ Head(jobs) \in Job
      /\ \A i \in DOMAIN Tail(jobs) : i + 1 \in DOMAIN jobs /\ i + 1 # 1 /\ Tail(jobs)[i] = jobs[i + 1]
      /\ \A i \in DOMAIN jobs : i # 1 => i - 1 \in DOMAIN Tail(jobs) /\ Tail(jobs)[i - 1] = jobs[i]
  BY <1>1, TailFacts DEF LimiterStep
<1> DEFINE job == Head(jobs)
<1>3. job.order \in Order /\ job.event \in Event
  BY <1>2 DEF Job
<1>4. Apply => taken'[o][e] = IF o = job.order /\ e = job.event THEN taken[o][e] + 1 ELSE taken[o][e]
  BY <1>1, <1>3 DEF Apply
<1>5. o = job.order /\ e = job.event => Pending(o, e)
  BY <1>2 DEF Pending
<1>6. Pending(o, e)' => Pending(o, e) /\ o # job.order
  <2>1. ASSUME NEW i \in DOMAIN jobs', jobs'[i].order = o, jobs'[i].event = e
        PROVE  Pending(o, e) /\ o # job.order
    <3>1. jobs' = Tail(jobs)
      BY <2>1 DEF LimiterStep
    <3>2. i + 1 \in DOMAIN jobs /\ i + 1 # 1 /\ jobs'[i] = jobs[i + 1]
      BY <3>1, <1>2
    <3> QED
      BY <3>2, <2>1, <1>2 DEF Pending, OneEach
  <2> QED
    BY <2>1 DEF Pending
<1>7. Apply \/ taken' = taken
  BY DEF LimiterStep
<1>8. ASSUME Apply, jobs' = Tail(jobs), Pending(o, e) PROVE taken'[o][e] > 0 \/ Pending(o, e)'
  <2>1. PICK i \in DOMAIN jobs : jobs[i].order = o /\ jobs[i].event = e
    BY <1>8 DEF Pending
  <2>2. CASE i = 1
    BY <2>1, <2>2, <1>2, <1>4, <1>8, <1>1
  <2>3. CASE i # 1
    <3>1. i - 1 \in DOMAIN jobs' /\ jobs'[i - 1] = jobs[i]
      BY <2>3, <1>2, <1>8
    <3> QED
      BY <3>1, <2>1 DEF Pending
  <2> QED
    BY <2>2, <2>3
<1> HIDE DEF job
<1> QED
  BY <1>1, <1>4, <1>5, <1>6, <1>7, <1>8

LEMMA LimiterCounted ==
  ASSUME TypeOK, OneEach, Counted, LimiterStep, \A e \in Event : Open(e)' => Open(e)
  PROVE  Counted'
<1> SUFFICES ASSUME NEW o \in Order, NEW e \in Event
             PROVE  /\ taken'[o][e] <= delivered'[e]
                    /\ Pending(o, e)' => taken'[o][e] + 1 <= delivered'[e]
                    /\ Open(e)' => taken'[o][e] + 1 <= delivered'[e]
                    /\ Pending(o, e)' /\ Open(e)' => taken'[o][e] + 2 <= delivered'[e]
  BY DEF Counted
<1>1. delivered' = delivered /\ taken[o][e] \in Nat /\ delivered[e] \in Nat
  BY DEF LimiterStep, TypeOK
<1>2. /\ taken[o][e] <= delivered[e]
      /\ Pending(o, e) => taken[o][e] + 1 <= delivered[e]
      /\ Open(e) => taken[o][e] + 1 <= delivered[e]
      /\ Pending(o, e) /\ Open(e) => taken[o][e] + 2 <= delivered[e]
  BY DEF Counted
<1>3. Open(e)' => Open(e)
  OBVIOUS
<1> QED
  BY <1>1, <1>2, <1>3, LimiterCounts

-----------------------------------------------------------------------------
(* The initial states, the cron script and the deliveries.                 *)

LEMMA IdleType == Idle \in Handler
  BY DEF Idle, Handler, Label

LEMMA InitIInv == Init => IInv
<1> SUFFICES ASSUME Init PROVE IInv
  OBVIOUS
<1>1. TypeOK
  <2>1. <<>> \in Seq(Job) /\ Len(<<>>) = 0
    OBVIOUS
  <2>2. handler \in Handler /\ handler.pc = "idle" /\ handler.left = 0
    BY IdleType DEF Init, Idle
  <2> QED
    BY <2>1, <2>2 DEF Init, TypeOK, OrderState
<1>2. WaitsForAll /\ FoundIsPending
  BY DEF Init, Idle, At, WaitsForAll, FoundIsPending
<1>3. OneEach /\ Current /\ \A o \in Order, e \in Event : ~Pending(o, e) /\ ~Open(e)
  BY DEF Init, Idle, OneEach, Current, Pending, Open
<1>4. Counted /\ FoundIsTaken
  <2>1. \A e \in Event : delivered[e] = 0 /\ ended[e] # "found" /\ \A o \in Order : taken[o][e] = 0
    BY DEF Init
  <2> QED
    BY <2>1, <1>3 DEF Counted, FoundIsTaken
<1> QED
  BY <1>1, <1>2, <1>3, <1>4 DEF IInv

\* An order that is made is in no update, which are all of orders that are there.
LEMMA MakeStep == ASSUME IInv, NEW o \in Order, Make(o) PROVE IInv'
<1> USE DEF IInv, Make
<1>1. /\ ship \in [Order -> OrderState]
      /\ ship' = [ship EXCEPT ![o] = [state |-> "open", paid |-> Amount[o]]]
      /\ [state |-> "open", paid |-> Amount[o]] \in OrderState
  BY ConstantTypes DEF TypeOK, OrderState
<1>2. TypeOK'
  <2>1. ship' \in [Order -> OrderState]
    BY <1>1
  <2>2. \A p \in Order : ship[p].state # "absent" => ship'[p].state # "absent"
    BY <1>1
  <2> QED
    BY <2>1, <2>2 DEF TypeOK
<1>3. Current'
  <2>1. \A i \in DOMAIN jobs : ship'[jobs[i].order] = ship[jobs[i].order]
    <3>1. ASSUME NEW i \in DOMAIN jobs PROVE jobs[i].order \in Order /\ jobs[i].order # o
      <4>1. jobs[i] \in Job
        BY DEF TypeOK
      <4> QED
        BY <4>1 DEF Job, Current
    <3> QED
      BY <3>1, <1>1
  <2> QED
    BY <2>1 DEF Current
<1> QED
  BY <1>2, <1>3 DEF WaitsForAll, At, OneEach, Counted, Pending, Open, FoundIsPending, FoundIsTaken

LEMMA RecordStep == ASSUME IInv, NEW o \in Order, Record(o) PROVE IInv'
<1>1. TypeOK'
  BY DEF IInv, Record, TypeOK
<1> QED
  BY <1>1 DEF IInv, Record, WaitsForAll, At, OneEach, Current, Counted, Pending, Open,
              FoundIsPending, FoundIsTaken

\* A delivery opens what it adds to the count.
LEMMA DeliverStep == ASSUME IInv, NEW e \in Event, Deliver(e) PROVE IInv'
<1> USE DEF IInv, Deliver
<1>1. handler' \in Handler /\ handler'.pc = "skip" /\ handler'.event = e
      /\ handler'.left = 0 /\ handler'.found = FALSE
  BY DEF Idle, Handler, Label
<1>2. delivered' \in [Event -> Nat]
      /\ \A d \in Event : delivered'[d] = IF d = e THEN delivered[d] + 1 ELSE delivered[d]
  BY DEF TypeOK
<1>3. TypeOK'
  BY <1>1, <1>2 DEF TypeOK
<1>4. Counted'
  <2> SUFFICES ASSUME NEW o \in Order, NEW d \in Event
               PROVE  /\ taken[o][d] <= delivered'[d]
                      /\ Pending(o, d)' => taken[o][d] + 1 <= delivered'[d]
                      /\ Open(d)' => taken[o][d] + 1 <= delivered'[d]
                      /\ Pending(o, d)' /\ Open(d)' => taken[o][d] + 2 <= delivered'[d]
    BY DEF Counted
  <2>1. Pending(o, d)' <=> Pending(o, d)
    BY DEF Pending
  <2>2. Open(d)' <=> d = e
    BY <1>1 DEF Open
  <2>3. taken[o][d] <= delivered[d] /\ (Pending(o, d) => taken[o][d] + 1 <= delivered[d])
    BY DEF Counted
  <2>4. taken[o][d] \in Nat /\ delivered[d] \in Nat
    BY DEF TypeOK
  <2> QED
    BY <2>1, <2>2, <2>3, <2>4, <1>2
<1>5. WaitsForAll' /\ OneEach' /\ Current' /\ FoundIsPending' /\ FoundIsTaken'
  BY <1>1 DEF WaitsForAll, At, OneEach, Current, FoundIsPending, FoundIsTaken
<1> QED
  BY <1>3, <1>4, <1>5

-----------------------------------------------------------------------------
(* The steps of the handler.                                               *)

\* A step of the handler that touches neither the orders nor the updates.
Quiet ==
    /\ UNCHANGED <<ship, rows, jobs, delivered, taken>>
    /\ issues' \subseteq Event /\ faults' \in Nat

LEMMA FaultType == ASSUME TypeOK, Fault PROVE faults' \in Nat
  BY DEF Fault, TypeOK

LEMMA QuietStep ==
  ASSUME IInv, Quiet, handler' \in Handler,
         handler'.pc # "idle" => handler'.event \in Event,
         ended' \in [Event -> {"-", "skipped", "found", "blind", "issue", "error"}],
         \A e \in Event : Open(e)' => Open(e),
         WaitsForAll', FoundIsPending', FoundIsTaken'
  PROVE  IInv'
<1> USE DEF IInv, Quiet
<1>1. TypeOK'
  <2>1. handler'.left <= Len(jobs')
    <3>1. Len(jobs') \in Nat
      BY DEF TypeOK
    <3> QED
      BY <3>1 DEF WaitsForAll
  <2> QED
    BY <2>1 DEF TypeOK
<1>2. OneEach' /\ Current' /\ \A o \in Order, e \in Event : Pending(o, e)' <=> Pending(o, e)
  BY DEF OneEach, Current, Pending
<1>3. Counted'
  BY <1>2 DEF Counted
<1> QED
  BY <1>1, <1>2, <1>3

\* The handler answers: nothing is open any more.
LEMMA AnswerStep ==
  ASSUME IInv, Quiet, ~At("idle"), handler.left = 0 \/ ~At("wait"),
         NEW outcome \in {"skipped", "found", "blind", "issue", "error"}, Answer(outcome),
         outcome = "found" /\ OrderOf[handler.event] \notin FromShop =>
             taken[OrderOf[handler.event]][handler.event] > 0
  PROVE  IInv'
<1>1. handler' \in Handler /\ handler'.pc = "idle" /\ handler'.left = 0 /\ handler'.found = FALSE
  BY IdleType DEF Answer, Idle
<1>2. handler.event \in Event /\ ended' = [ended EXCEPT ![handler.event] = outcome]
  BY DEF IInv, TypeOK, At, Answer
<1>3. FoundIsTaken'
  BY <1>2 DEF IInv, TypeOK, FoundIsTaken, Quiet
<1>4. ended' \in [Event -> {"-", "skipped", "found", "blind", "issue", "error"}]
  BY <1>2 DEF IInv, TypeOK
<1>5. WaitsForAll' /\ FoundIsPending' /\ \A e \in Event : ~Open(e)'
  BY <1>1 DEF WaitsForAll, At, FoundIsPending, Open
<1> QED
  BY <1>1, <1>3, <1>4, <1>5, QuietStep

\* The handler goes on with the next label.
LEMMA GotoStep ==
  ASSUME IInv, Quiet, ~At("idle"), ~At("wait"), UNCHANGED ended,
         NEW label \in {"find", "catch"}, Goto(label),
         label = "find" => At("skip")
  PROVE  IInv'
<1>1. /\ handler' \in Handler /\ handler'.pc = label /\ handler'.left = handler.left
      /\ handler'.event = handler.event
  BY DEF IInv, TypeOK, Goto, Handler, Label
<1>2. handler.event \in Event /\ handler.left = 0
  BY DEF IInv, TypeOK, At, WaitsForAll
<1>3. WaitsForAll' /\ FoundIsPending' /\ FoundIsTaken' /\ \A e \in Event : Open(e)' => Open(e)
  BY <1>1, <1>2 DEF IInv, WaitsForAll, FoundIsPending, FoundIsTaken, Open, At, Quiet
<1> QED
  BY <1>1, <1>2, <1>3, QuietStep DEF IInv, TypeOK

LEMMA QuietSteps ==
  ASSUME IInv, ShouldSkip \/ ShouldSkipFails \/ FindOrListFails \/ Done \/ CreateNewIssue
               \/ CreateNewIssueFails
  PROVE  IInv'
<1> USE DEF IInv
<1>0. handler.pc # "idle" => handler.event \in Event
  BY DEF TypeOK
<1>1. CASE ShouldSkip
  <2>1. Quiet /\ ~At("idle") /\ ~At("wait")
    BY <1>1 DEF ShouldSkip, Quiet, At, TypeOK
  <2>2. Answer("skipped") \/ (Goto("find") /\ UNCHANGED ended)
    BY <1>1 DEF ShouldSkip
  <2> QED
    BY <1>1, <2>1, <2>2, AnswerStep, GotoStep DEF ShouldSkip
<1>2. CASE ShouldSkipFails
  <2>1. Quiet /\ ~At("idle") /\ ~At("wait")
    BY <1>2, FaultType DEF ShouldSkipFails, Quiet, At, TypeOK
  <2> QED
    BY <1>2, <2>1, GotoStep DEF ShouldSkipFails
<1>3. CASE FindOrListFails
  <2>1. Quiet /\ ~At("idle") /\ ~At("wait")
    BY <1>3, FaultType DEF FindOrListFails, Quiet, At, TypeOK
  <2>2. "catch" # "find"
    OBVIOUS
  <2> QED
    BY <1>3, <2>1, <2>2, GotoStep DEF FindOrListFails
<1>4. CASE Done
  <2>1. Quiet /\ ~At("idle")
    BY <1>4 DEF Done, Quiet, At, TypeOK
  <2>2. handler.left = 0 /\ handler.pc = "wait"
    BY <1>4 DEF Done, At
  <2>3. handler.found /\ OrderOf[handler.event] \notin FromShop =>
            taken[OrderOf[handler.event]][handler.event] > 0
    <3>1. jobs = <<>>
      BY <2>2 DEF WaitsForAll, At, TypeOK
    <3>2. ~Pending(OrderOf[handler.event], handler.event)
      BY <3>1 DEF Pending
    <3> QED
      BY <2>2, <3>2 DEF FoundIsPending, At
  <2>4. CASE handler.found
    <3>1. Answer("found")
      BY <1>4, <2>4 DEF Done
    <3> QED
      BY <2>1, <2>2, <2>3, <2>4, <3>1, AnswerStep
  <2>5. CASE ~handler.found
    <3>1. Answer("blind")
      BY <1>4, <2>5 DEF Done
    <3> QED
      BY <2>1, <2>2, <3>1, AnswerStep
  <2> QED
    BY <2>4, <2>5
<1>5. CASE CreateNewIssue
  <2>1. Quiet /\ ~At("idle") /\ ~At("wait")
    BY <1>5, <1>0 DEF CreateNewIssue, Quiet, At, TypeOK
  <2>2. Answer("error") \/ Answer("issue")
    BY <1>5 DEF CreateNewIssue
  <2> QED
    BY <2>1, <2>2, AnswerStep
<1>6. CASE CreateNewIssueFails
  <2>1. Quiet /\ ~At("idle") /\ ~At("wait")
    BY <1>6, FaultType DEF CreateNewIssueFails, Quiet, At, TypeOK
  <2> QED
    BY <1>6, <2>1, AnswerStep DEF CreateNewIssueFails
<1> QED
  BY <1>1, <1>2, <1>3, <1>4, <1>5, <1>6

LEMMA FindStep == ASSUME IInv, FindOrderNumber PROVE IInv'
<1> USE DEF IInv
<1> DEFINE o == OrderOf[handler.event]
           n == IF o \in rows THEN RowNumber(o) ELSE Invoice[handler.event]
           b == o \in rows
<1>1. Quiet /\ UNCHANGED ended /\ handler.pc = "find" /\ handler.event \in Event /\ handler.left = 0
  BY DEF FindOrderNumber, Quiet, At, TypeOK, WaitsForAll
<1>2. o \in Order /\ RowNumber(o) \in Number /\ Invoice[handler.event] \in Number
  BY <1>1, ConstantTypes
<1>3. /\ handler' = [handler EXCEPT !.pc = "list", !.found = b, !.number = n]
      /\ n \in Number /\ b \in BOOLEAN /\ (b => n = RowNumber(o))
  BY <1>2 DEF FindOrderNumber
<1>4. /\ handler' \in Handler /\ handler'.pc = "list" /\ handler'.event = handler.event
      /\ handler'.left = 0 /\ handler'.number \in Number
      /\ handler'.found => o \in rows /\ handler'.number = RowNumber(o)
  <2>1. handler'.found = b /\ handler'.number = n /\ handler'.pc = "list"
        /\ handler'.event = handler.event /\ handler'.left = handler.left
    <3> HIDE DEF b, n
    <3> QED
      BY <1>3 DEF TypeOK, Handler
  <2>2. handler' \in Handler
    <3> HIDE DEF b, n
    <3> QED
      BY <1>3 DEF TypeOK, Handler, Label
  <2> QED
    BY <1>1, <1>3, <2>1, <2>2
<1>5. WaitsForAll' /\ FoundIsPending' /\ FoundIsTaken' /\ \A e \in Event : Open(e)' => Open(e)
  BY <1>1, <1>4 DEF WaitsForAll, FoundIsPending, FoundIsTaken, At, Open, Quiet
<1> QED
  BY <1>1, <1>4, <1>5, QuietStep DEF TypeOK

\* The updates of a list: one of each order, computed from what was listed, and
\* the order of the charge among them when it was found.
LEMMA ListStep == ASSUME IInv, ListOrders PROVE IInv'
<1> USE DEF IInv
<1> DEFINE e == handler.event
           L == Listed(handler.number)
<1>1. /\ handler.pc = "list" /\ e \in Event /\ jobs = <<>>
      /\ UNCHANGED <<ship, rows, issues, delivered, ended, taken, faults>>
  BY DEF ListOrders, At, TypeOK
<1>2. PICK s \in SetToSeqs(L) :
         /\ jobs' = [i \in DOMAIN s |-> Update(s[i], e)]
         /\ handler' = [handler EXCEPT !.pc = "wait", !.left = Len(s)]
  BY DEF ListOrders
<1>3. L \subseteq Order /\ IsFiniteSet(L)
  <2>1. Under \in [Number -> SUBSET Order] /\ IsFiniteSet(Order)
    BY RefundAssumption
  <2>2. handler.number \in Number
    BY <1>1 DEF FoundIsPending, At
  <2> QED
    BY <2>1, <2>2, FS_Subset DEF Listed
<1>4. /\ s \in Seq(L) /\ \A i, j \in DOMAIN s : s[i] = s[j] => i = j
      /\ \A x \in L : \E i \in DOMAIN s : s[i] = x
  BY <1>3, SequenceOfSet
<1>5. DOMAIN jobs' = DOMAIN s /\ Len(jobs') = Len(s) /\ Len(s) \in Nat /\ DOMAIN s = 1 .. Len(s)
  BY <1>2, <1>4
<1>6. ASSUME NEW i \in DOMAIN jobs'
      PROVE  /\ jobs'[i] \in Job /\ jobs'[i].order = s[i] /\ jobs'[i].event = e
             /\ ship[s[i]].state # "absent"
             /\ jobs'[i].new = Refunded(ship[s[i]], Settle[e])
  <2>1. s[i] \in Order /\ ship[s[i]].state # "absent"
    <3>1. s[i] \in L
      BY <1>4, <1>5
    <3> QED
      BY <3>1, <1>3 DEF Listed
  <2>2. jobs'[i] = Update(s[i], e)
    BY <1>2, <1>5
  <2>3. Refunded(ship[s[i]], Settle[e]) \in OrderState
    <3>1. ship[s[i]] \in OrderState /\ Settle[e] \in (Nat \ {0}) \cup {NoAmount}
      BY <1>1, <2>1, ConstantTypes DEF TypeOK
    <3> QED
      BY <3>1, <2>1, RefundedType
  <2> QED
    BY <1>1, <2>1, <2>2, <2>3 DEF Update, Job
<1> HIDE DEF e, L
<1>7. /\ handler'.pc = "wait" /\ handler'.left = Len(jobs') /\ handler'.event = e
      /\ handler'.found = handler.found /\ handler' \in Handler
  <2>1. handler' = [handler EXCEPT !.pc = "wait", !.left = Len(s)] /\ Len(s) \in Nat
    BY <1>2, <1>5
  <2> QED
    BY <2>1, <1>5 DEF TypeOK, Handler, Label, e
<1>8. TypeOK'
  <2>1. jobs' \in Seq(Job)
    <3>1. jobs' = [i \in DOMAIN s |-> jobs'[i]]
      BY <1>2
    <3>2. jobs' \in [1 .. Len(s) -> Job]
      BY <3>1, <1>5, <1>6
    <3> QED
      BY <3>2, <1>5
  <2> QED
    BY <1>1, <1>5, <1>7, <2>1 DEF TypeOK, e
<1>9. OneEach' /\ Current'
  BY <1>1, <1>4, <1>5, <1>6 DEF OneEach, Current
<1>10. Counted'
  <2>1. ASSUME NEW o \in Order, NEW d \in Event
        PROVE  ~Open(d)' /\ (Pending(o, d)' => d = e) /\ Open(e)
    BY <1>1, <1>6, <1>7 DEF Open, Pending, e
  <2>2. UNCHANGED <<taken, delivered>>
    BY <1>1
  <2> QED
    BY <2>1, <2>2 DEF Counted
<1>11. WaitsForAll' /\ FoundIsTaken'
  BY <1>1, <1>7 DEF WaitsForAll, At, FoundIsTaken
<1>12. FoundIsPending'
  <2> SUFFICES ASSUME handler.found, OrderOf[e] \notin FromShop
               PROVE  \E i \in DOMAIN jobs' : jobs'[i].order = OrderOf[e] /\ jobs'[i].event = e
    BY <1>7 DEF FoundIsPending, At, Pending
  <2>1. OrderOf[e] \in rows /\ handler.number = NumberOf[OrderOf[e]]
    BY <1>1 DEF FoundIsPending, At, RowNumber, e
  <2>2. OrderOf[e] \in L
    BY <2>1, RefundAssumption DEF Listed, TypeOK, L
  <2>3. PICK i \in DOMAIN s : s[i] = OrderOf[e]
    BY <1>4, <2>2
  <2> QED
    BY <2>3, <1>5, <1>6
<1> QED
  BY <1>8, <1>9, <1>10, <1>11, <1>12

-----------------------------------------------------------------------------
(* The steps of the limiter and the restart.                               *)

LEMMA JobDoneStep == ASSUME IInv, JobDone PROVE IInv'
<1> USE DEF IInv
<1>1. LimiterStep /\ jobs' = Tail(jobs) /\ Apply /\ UNCHANGED <<issues, ended, faults>>
  BY DEF JobDone, LimiterStep
<1>2. Len(jobs') = Len(jobs) - 1 /\ Len(jobs) \in Nat \ {0} /\ Len(jobs') \in Nat
  BY <1>1, TailFacts DEF TypeOK, LimiterStep
<1>3. /\ handler'.pc = handler.pc /\ handler'.event = handler.event
      /\ handler'.found = handler.found /\ handler'.number = handler.number
      /\ handler' \in Handler
      /\ handler'.left = IF At("wait") THEN Len(jobs') ELSE 0
  <2>1. CASE Mine
    BY <2>1, <1>2 DEF JobDone, Mine, At, WaitsForAll, TypeOK, Handler
  <2>2. CASE ~Mine
    BY <2>2, <1>2 DEF JobDone, Mine, At, WaitsForAll, TypeOK
  <2> QED
    BY <2>1, <2>2
<1>4. WaitsForAll' /\ handler'.left <= Len(jobs') /\ \A e \in Event : Open(e)' => Open(e)
  BY <1>2, <1>3 DEF WaitsForAll, At, Open
<1>5. TypeOK'
  BY <1>1, <1>3, <1>4, LimiterType DEF TypeOK, LimiterStep
<1>6. OneEach' /\ Current' /\ Counted'
  BY <1>1, <1>4, LimiterCurrent, LimiterCounted
<1>7. ASSUME NEW o \in Order, NEW e \in Event, taken[o][e] > 0 PROVE taken'[o][e] > 0
  <2>1. taken[o][e] \in Nat
    BY DEF TypeOK
  <2>2. taken'[o][e] = taken[o][e] \/ taken'[o][e] = taken[o][e] + 1
    BY <1>1, LimiterCounts
  <2> QED
    BY <1>7, <2>1, <2>2
<1>8. FoundIsTaken'
  BY <1>1, <1>7, ConstantTypes DEF FoundIsTaken
<1>9. FoundIsPending'
  <2>1. CASE ~At("wait")
    BY <2>1, <1>1, <1>3 DEF FoundIsPending, At, LimiterStep
  <2>2. CASE At("wait")
    <3>1. handler.event \in Event /\ OrderOf[handler.event] \in Order
      BY <2>2, ConstantTypes DEF At, TypeOK
    <3> QED
      BY <3>1, <2>2, <1>1, <1>3, <1>7, LimiterCounts DEF FoundIsPending, At
  <2> QED
    BY <2>1, <2>2
<1> QED
  BY <1>4, <1>5, <1>6, <1>8, <1>9

\* When an update fails, whoever waits for it turns to its catch block.
LEMMA JobFailsStep == ASSUME IInv, JobFails PROVE IInv'
<1> USE DEF IInv
<1>1. LimiterStep /\ jobs' = Tail(jobs) /\ UNCHANGED <<issues, ended>> /\ faults' \in Nat
  BY FaultType DEF JobFails, LimiterStep
<1>2. Len(jobs') \in Nat
  BY <1>1, TailFacts DEF TypeOK, LimiterStep
<1>3. /\ handler'.left = 0 /\ handler'.pc # "wait" /\ handler' \in Handler
      /\ handler'.event = handler.event /\ handler'.number = handler.number
      /\ handler'.found = handler.found
      /\ handler'.pc = handler.pc \/ (handler.pc = "wait" /\ handler'.pc = "catch")
  <2>1. CASE Mine
    BY <2>1 DEF JobFails, Mine, At, TypeOK, Handler, Label
  <2>2. CASE ~Mine
    <3>1. Len(jobs) \in Nat
      BY DEF TypeOK
    <3>2. handler.pc # "wait" /\ handler.left = 0
      BY <2>2, <3>1 DEF Mine, At, WaitsForAll
    <3> QED
      BY <2>2, <3>2 DEF JobFails, TypeOK
  <2> QED
    BY <2>1, <2>2
<1>4. WaitsForAll' /\ handler'.left <= Len(jobs') /\ \A e \in Event : Open(e)' => Open(e)
  BY <1>2, <1>3 DEF WaitsForAll, At, Open
<1>5. TypeOK'
  BY <1>1, <1>3, <1>4, LimiterType DEF TypeOK, LimiterStep
<1>6. OneEach' /\ Current' /\ Counted'
  BY <1>1, <1>4, LimiterCurrent, LimiterCounted
<1>7. ASSUME NEW o \in Order, NEW e \in Event, taken[o][e] > 0 PROVE taken'[o][e] > 0
  <2>1. taken[o][e] \in Nat
    BY DEF TypeOK
  <2>2. taken'[o][e] = taken[o][e] \/ taken'[o][e] = taken[o][e] + 1
    BY <1>1, LimiterCounts
  <2> QED
    BY <1>7, <2>1, <2>2
<1>8. FoundIsTaken'
  BY <1>1, <1>7, ConstantTypes DEF FoundIsTaken
<1>9. FoundIsPending'
  BY <1>1, <1>3 DEF FoundIsPending, At, LimiterStep
<1> QED
  BY <1>4, <1>5, <1>6, <1>8, <1>9

LEMMA RestartStep == ASSUME IInv, Restart PROVE IInv'
<1> USE DEF IInv
<1>1. /\ jobs' = <<>> /\ faults' \in Nat /\ UNCHANGED <<rows, issues, delivered>>
      /\ (jobs # <<>> /\ Apply) \/ UNCHANGED <<ship, taken>>
  BY FaultType DEF Restart
<1>2. /\ handler' \in Handler /\ handler'.pc = "idle" /\ handler'.left = 0
      /\ ended' \in [Event -> {"-", "skipped", "found", "blind", "issue", "error"}]
      /\ \A e \in Event : ended'[e] = "found" => ended[e] = "found"
  <2>1. CASE At("idle")
    <3>1. jobs # <<>> /\ UNCHANGED <<handler, ended>>
      BY <2>1 DEF Restart
    <3> QED
      BY <2>1, <3>1 DEF At, TypeOK, WaitsForAll
  <2>2. CASE ~At("idle")
    <3>1. Answer("error") /\ handler.event \in Event
      BY <2>2 DEF Restart, At, TypeOK
    <3> QED
      BY <3>1, IdleType DEF Answer, Idle, TypeOK
  <2> QED
    BY <2>1, <2>2
<1>3. /\ ship' \in [Order -> OrderState] /\ taken' \in [Order -> [Event -> Nat]]
      /\ jobs' \in Seq(Job) /\ rows' \subseteq {o \in Order : ship'[o].state # "absent"}
      /\ \A o \in Order, e \in Event : taken[o][e] > 0 => taken'[o][e] > 0
      /\ Counted'
  <2>1. \A e \in Event : Open(e)' => Open(e)
    BY <1>2 DEF Open
  <2>2. CASE jobs # <<>>
    <3>1. LimiterStep
      BY <1>1, <2>2 DEF LimiterStep
    <3>2. ASSUME NEW o \in Order, NEW e \in Event, taken[o][e] > 0 PROVE taken'[o][e] > 0
      <4>1. taken[o][e] \in Nat
        BY DEF TypeOK
      <4> QED
        BY <3>1, <3>2, <4>1, LimiterCounts
    <3> QED
      BY <2>1, <3>1, <3>2, LimiterType, LimiterCounted
  <2>3. CASE jobs = <<>>
    <3>1. UNCHANGED <<ship, rows, jobs, taken, delivered>>
      BY <1>1, <2>3
    <3>2. Counted'
      BY <2>1, <3>1 DEF Counted, Pending
    <3> QED
      BY <3>1, <3>2 DEF TypeOK
  <2> QED
    BY <2>2, <2>3
<1>4. OneEach' /\ Current' /\ WaitsForAll' /\ FoundIsPending'
  BY <1>1, <1>2 DEF OneEach, Current, WaitsForAll, FoundIsPending, At
<1>5. FoundIsTaken'
  BY <1>2, <1>3, ConstantTypes DEF FoundIsTaken
<1>6. TypeOK'
  <2>1. Len(jobs') = 0
    BY <1>1
  <2> QED
    BY <1>1, <1>2, <1>3, <2>1 DEF TypeOK
<1> QED
  BY <1>3, <1>4, <1>5, <1>6

-----------------------------------------------------------------------------

LEMMA NextIInv == IInv /\ [Next]_vars => IInv'
<1> SUFFICES ASSUME IInv, [Next]_vars PROVE IInv'
  OBVIOUS
<1>1. CASE UNCHANGED vars
  BY <1>1 DEF vars, IInv, TypeOK, WaitsForAll, OneEach, Current, Counted, Pending, Open,
              FoundIsPending, FoundIsTaken, At
<1>2. CASE Next
  BY <1>2, MakeStep, RecordStep, DeliverStep, QuietSteps, FindStep, ListStep, JobDoneStep,
     JobFailsStep, RestartStep
  DEF Next, HandlerNext, FaultNext
<1> QED
  BY <1>1, <1>2

LEMMA AlwaysIInv == Spec => []IInv
  BY InitIInv, NextIInv, PTL DEF Spec

\* The orders, the handler and its updates keep the types of the code; a processed
\* row is only of an order that was made.
THEOREM TypeCorrect == Spec => []TypeOK
<1>1. IInv => TypeOK
  BY DEF IInv
<1> QED
  BY <1>1, AlwaysIInv, PTL

\* However deliveries, failures, lost answers and restarts follow each other, a
\* delivery takes an event from an order at most once.
THEOREM RefundOncePerDelivery == Spec => []OncePerDelivery
<1>1. IInv => OncePerDelivery
  BY DEF IInv, Counted, OncePerDelivery
<1> QED
  BY <1>1, AlwaysIInv, PTL

\* A delivery that found the row of its charge, saved by the script, and ended without
\* an issue has taken its event from the order of the charge.
THEOREM RefundIsTaken == Spec => []FoundIsTaken
<1>1. IInv => FoundIsTaken
  BY DEF IInv
<1> QED
  BY <1>1, AlwaysIInv, PTL

\* An order that is cancelled is never opened again, whatever copies of it are
\* still under way.
THEOREM CancelledForEver == Spec => StaysCancelled
<1> DEFINE A == \A o \in Order : ship[o].state = "cancelled" => ship'[o].state = "cancelled"
<1>1. IInv /\ [Next]_vars => [A]_vars
  <2> SUFFICES ASSUME IInv, Next PROVE A
    BY DEF vars
  <2>1. ASSUME LimiterStep PROVE A
    BY <2>1, LimiterType DEF IInv
  <2>2. ASSUME NEW o \in Order, Make(o) PROVE A
    BY <2>2 DEF Make, IInv, TypeOK
  <2>3. CASE JobDone \/ JobFails \/ (Restart /\ jobs # <<>>)
    <3>1. LimiterStep
      BY <2>3 DEF JobDone, JobFails, Restart, LimiterStep
    <3> QED
      BY <2>1, <3>1
  <2>4. CASE UNCHANGED ship
    BY <2>4
  <2>5. \/ \E o \in Order : Make(o)
        \/ JobDone \/ JobFails \/ (Restart /\ jobs # <<>>)
        \/ UNCHANGED ship
    BY DEF Next, Record, Deliver, HandlerNext, ShouldSkip, FindOrderNumber, ListOrders, Done,
           CreateNewIssue, FaultNext, ShouldSkipFails, FindOrListFails,
           CreateNewIssueFails, Restart
  <2> QED
    BY <2>2, <2>3, <2>4, <2>5
<1>2. Spec => [][A]_vars
  BY <1>1, AlwaysIInv, PTL DEF Spec
<1> QED
  BY <1>2 DEF StaysCancelled

-----------------------------------------------------------------------------
(* The amounts.                                                            *)

\* What an event takes from an order each time.
Value(o, e) == IF Settle[e] = NoAmount THEN Amount[o] ELSE Settle[e]

Taken(o) == [e \in Event |-> taken[o][e] * Value(o, e)]

\* Nothing is taken from an order that was not made.
AbsentIsWhole ==
    \A o \in Order : ship[o].state = "absent" => \A e \in Event : taken[o][e] = 0

LEMMA ValueType == \A o \in Order, e \in Event : Value(o, e) \in Nat \ {0}
  BY RefundAssumption DEF Value

LEMMA TakenType ==
  ASSUME TypeOK, NEW o \in Order
  PROVE  \A e \in Event : taken[o][e] \in Nat /\ Taken(o)[e] \in Nat
<1>1. \A e \in Event : taken[o][e] \in Nat
  BY DEF TypeOK
<1>2. \A m \in Nat, n \in Nat : m * n \in Nat
  OBVIOUS
<1> QED
  BY <1>1, <1>2, ValueType DEF Taken

LEMMA TotalIsSum ==
  ASSUME TypeOK, NEW o \in Order
  PROVE  Total(o) = SumOf(Taken(o), Event) /\ Total(o) \in Nat
<1> DEFINE f == Taken(o)
           Adds(h) == h = [s \in SUBSET Event |->
                            IF s = {} THEN 0
                            ELSE h[s \ {CHOOSE x \in s : TRUE}] + Take(o, CHOOSE x \in s : TRUE)]
<1>1. IsFiniteSet(Event) /\ \A e \in Event : f[e] \in Int /\ f[e] = Take(o, e)
  BY RefundAssumption, TakenType DEF Take, Value, Taken
<1>2. \A h : Adds(h) <=> IsSum(h, Event, f)
  <2> TAKE h
  <2>1. \A s \in SUBSET Event : s # {} =>
            Take(o, CHOOSE x \in s : TRUE) = f[CHOOSE x \in s : TRUE]
    BY <1>1
  <2> HIDE DEF f
  <2> QED
    BY <2>1 DEF IsSum
<1>3. PICK g : IsSum(g, Event, f)
  BY <1>1, SumExists
<1>4. PICK h : Adds(h) /\ Total(o) = h[Event]
  <2>1. Adds(g)
    BY <1>2, <1>3
  <2> QED
    BY <2>1 DEF Total, FoldSet, MapThenFoldSet
<1>5. Total(o) = SumOf(f, Event)
  BY <1>1, <1>2, <1>4, SumIs
<1> QED
  BY <1>5, RefundAssumption, TakenType, SumNat

TotalsAreSums ==
  \A o \in Order : /\ Total(o) = SumOf(Taken(o), Event) /\ Total(o) \in Nat
                   /\ \A e \in Event : Taken(o)[e] \in Nat

\* In this state and in the next one.
LEMMA TotalsNext == (TypeOK => TotalsAreSums) /\ (TypeOK' => TotalsAreSums')
<1>1. TypeOK => TotalsAreSums
  BY TotalIsSum, TakenType DEF TotalsAreSums
<1> QED
  BY <1>1, PTL

\* Total depends on nothing else.
LEMMA TotalStays ==
  ASSUME TypeOK, TypeOK', NEW o \in Order, taken'[o] = taken[o]
  PROVE  Total(o)' = Total(o)
<1>1. Taken(o)' = Taken(o)
  BY DEF Taken, Value
<1> QED
  BY <1>1, TotalsNext DEF TotalsAreSums

\* An update takes what its event is worth, and cancels when that is not left.
LEMMA LimiterAdds ==
  ASSUME IInv, AbsentIsWhole, RefundsAddUp, LimiterStep, TypeOK'
  PROVE  AbsentIsWhole' /\ RefundsAddUp'
<1> DEFINE job == Head(jobs)
<1>1. /\ job \in Job /\ ship[job.order].state # "absent"
      /\ job.new = Refunded(ship[job.order], Settle[job.event])
  <2>1. jobs \in Seq(Job) /\ jobs # <<>> /\ Current
    BY DEF IInv, TypeOK, LimiterStep
  <2>2. 1 \in DOMAIN jobs /\ Head(jobs) = jobs[1] /\ Head(jobs) \in Job
    BY <2>1, TailFacts
  <2> QED
    BY <2>1, <2>2 DEF Current
<1>2. PICK o \in Order, e \in Event : o = job.order /\ e = job.event
  BY <1>1 DEF Job
<1>3. CASE UNCHANGED <<ship, taken>>
  BY <1>3, TotalStays DEF AbsentIsWhole, RefundsAddUp, IInv
<1>4. CASE Apply
  <2>1. /\ ship' = [ship EXCEPT ![o] = job.new]
        /\ taken' = [taken EXCEPT ![o][e] = @ + 1]
    BY <1>2, <1>4 DEF Apply
  <2>2. ship \in [Order -> OrderState] /\ taken \in [Order -> [Event -> Nat]]
    BY DEF IInv, TypeOK
  <2> HIDE DEF job
  <2>3. ASSUME NEW p \in Order, p # o
        PROVE  ship'[p] = ship[p] /\ taken'[p] = taken[p] /\ Total(p)' = Total(p)
    <3>1. ship'[p] = ship[p] /\ taken'[p] = taken[p]
      BY <1>2, <2>1, <2>2, <2>3
    <3> QED
      BY <3>1, TotalStays DEF IInv
  <2>4. Total(o)' = Total(o) + Value(o, e)
    <3> DEFINE f == Taken(o)
               h == Taken(o)'
    <3>1. taken'[o][e] = taken[o][e] + 1 /\ \A d \in Event \ {e} : taken'[o][d] = taken[o][d]
      BY <1>2, <2>1, <2>2
    <3>2. h[e] = f[e] + Value(o, e) /\ \A d \in Event \ {e} : h[d] = f[d]
      <4>1. \A m, n \in Nat : (m + 1) * n = m * n + n
        OBVIOUS
      <4>2. taken[o][e] \in Nat /\ Value(o, e) \in Nat
        BY <1>2, <2>2, ValueType
      <4>3. (taken[o][e] + 1) * Value(o, e) = taken[o][e] * Value(o, e) + Value(o, e)
        BY <4>1, <4>2
      <4>4. f[e] = taken[o][e] * Value(o, e) /\ h[e] = taken'[o][e] * Value(o, e)
        BY <1>2 DEF Taken, Value
      <4>5. \A d \in Event \ {e} : h[d] = f[d]
        BY <3>1 DEF Taken, Value
      <4> QED
        BY <3>1, <4>3, <4>4, <4>5
    <3>3. /\ \A d \in Event : f[d] \in Int /\ h[d] \in Int
          /\ Total(o) = SumOf(f, Event) /\ Total(o)' = SumOf(h, Event)
          /\ IsFiniteSet(Event) /\ SumOf(f, Event) \in Int
      <4>1. IsFiniteSet(Event) /\ TypeOK /\ TypeOK'
        BY RefundAssumption DEF IInv
      <4>2. /\ \A d \in Event : h[d] \in Nat
            /\ Total(o)' = SumOf(h, Event)
        BY <1>2, <4>1, TotalsNext DEF TotalsAreSums
      <4>3. Total(o) = SumOf(f, Event) /\ Total(o) \in Nat /\ \A d \in Event : f[d] \in Nat
        BY <1>2, <4>1, TotalsNext DEF TotalsAreSums
      <4> QED
        BY <4>1, <4>2, <4>3
    <3>4. Value(o, e) \in Int
      BY <1>2, ValueType
    <3> HIDE DEF f, h
    <3>5. SumOf(h, Event) = SumOf(f, Event) - f[e] + h[e]
      BY <1>2, <3>2, <3>3, SumChange
    <3> QED
      BY <1>2, <3>2, <3>3, <3>4, <3>5
  <2>5. /\ ship'[o].state = "open" => ship'[o].paid = Amount[o] - Total(o)' /\ ship'[o].paid > 0
        /\ ship'[o].state = "cancelled" => Total(o)' >= Amount[o]
    <3>1. ship'[o] = Refunded(ship[o], Settle[e])
      BY <1>1, <1>2, <2>1, <2>2
    <3>2. /\ ship[o] \in OrderState /\ ship[o].state # "absent"
          /\ Amount[o] \in Nat /\ Settle[e] \in (Nat \ {0}) \cup {NoAmount}
          /\ Total(o) \in Nat /\ Total(o)' \in Nat
      BY <1>1, <1>2, <2>2, TotalsNext, RefundAssumption DEF IInv, TotalsAreSums
    <3>3. /\ ship[o].state = "open" => ship[o].paid = Amount[o] - Total(o) /\ ship[o].paid > 0
          /\ ship[o].state = "cancelled" => Total(o) >= Amount[o]
      BY <1>2 DEF RefundsAddUp
    <3>4. Total(o)' = Total(o) + (IF Settle[e] = NoAmount THEN Amount[o] ELSE Settle[e])
      BY <2>4 DEF Value
    <3> DEFINE amount == Amount[o]
               total == Total(o)
               more == Total(o)'
               order == ship[o]
               new == ship'[o]
               settle == Settle[e]
    <3>5. /\ order \in OrderState /\ order.state # "absent" /\ new = Refunded(order, settle)
          /\ amount \in Nat /\ total \in Nat /\ more \in Nat
          /\ settle \in (Nat \ {0}) \cup {NoAmount}
          /\ order.state = "open" => order.paid = amount - total /\ order.paid > 0
          /\ order.state = "cancelled" => total >= amount
          /\ more = total + (IF settle = NoAmount THEN amount ELSE settle)
      BY <3>1, <3>2, <3>3, <3>4
    <3>6. /\ new.state = "open" => new.paid = amount - more /\ new.paid > 0
          /\ new.state = "cancelled" => more >= amount
      <4> HIDE DEF amount, total, more, order, new, settle
      <4>1. order.paid \in Int /\ order.state \in {"open", "cancelled"}
        BY <3>5 DEF OrderState
      <4>2. CASE settle # NoAmount /\ order.paid > settle
        <5>1. new.state = order.state /\ new.paid = order.paid - settle
          BY <3>5, <4>2 DEF Refunded, OrderState
        <5>2. settle \in Nat /\ more = total + settle
          BY <3>5, <4>2
        <5> QED
          BY <3>5, <4>1, <4>2, <5>1, <5>2
      <4>3. CASE ~(settle # NoAmount /\ order.paid > settle)
        <5>1. new.state = "cancelled"
          BY <3>5, <4>3 DEF Refunded, OrderState
        <5>2. CASE settle = NoAmount
          BY <3>5, <5>1, <5>2
        <5>3. CASE settle # NoAmount
          BY <3>5, <4>1, <4>3, <5>1, <5>3
        <5> QED
          BY <5>2, <5>3
      <4> QED
        BY <4>2, <4>3
    <3> QED
      BY <3>6
  <2>6. ship'[o].state # "absent"
    BY <1>1, <1>2, <2>1, <2>2, ConstantTypes, RefundedType
  <2>7. AbsentIsWhole'
    BY <1>2, <2>3, <2>6 DEF AbsentIsWhole
  <2>8. RefundsAddUp'
    BY <2>3, <2>5 DEF RefundsAddUp
  <2> QED
    BY <2>7, <2>8
<1> QED
  BY <1>3, <1>4 DEF LimiterStep

\* Whatever is written back was computed from the order as it is, so no update
\* undoes another one: what is left of an open order is what was paid less every
\* refund that reached it, and a cancelled one was covered by them.
THEOREM RefundsAlwaysAddUp == Spec => []RefundsAddUp
<1> DEFINE Inv == IInv /\ AbsentIsWhole /\ RefundsAddUp
<1>1. Init => AbsentIsWhole /\ RefundsAddUp
  BY DEF Init, AbsentIsWhole, RefundsAddUp
<1>2. Inv /\ [Next]_vars => AbsentIsWhole' /\ RefundsAddUp'
  <2> SUFFICES ASSUME Inv, [Next]_vars PROVE AbsentIsWhole' /\ RefundsAddUp'
    OBVIOUS
  <2>1. TypeOK /\ TypeOK'
    BY NextIInv DEF IInv
  <2>2. CASE UNCHANGED <<ship, taken>>
    BY <2>1, <2>2, TotalStays DEF AbsentIsWhole, RefundsAddUp
  <2>3. CASE JobDone \/ JobFails \/ (Restart /\ jobs # <<>>)
    <3>1. LimiterStep
      BY <2>3 DEF JobDone, JobFails, Restart, LimiterStep
    <3> QED
      BY <2>1, <3>1, LimiterAdds
  <2>4. ASSUME NEW o \in Order, Make(o) PROVE AbsentIsWhole' /\ RefundsAddUp'
    <3>1. /\ ship[o].state = "absent" /\ taken' = taken
          /\ ship' = [ship EXCEPT ![o] = [state |-> "open", paid |-> Amount[o]]]
          /\ ship \in [Order -> OrderState]
      BY <2>1, <2>4 DEF Make, TypeOK
    <3>2. \A p \in Order : Total(p)' = Total(p)
      BY <2>1, <3>1, TotalStays
    <3>3. Total(o) = 0
      <4>1. \A e \in Event : Taken(o)[e] = 0
        BY <3>1, ValueType DEF AbsentIsWhole, Taken
      <4> QED
        BY <2>1, <4>1, TotalIsSum, SumZero, RefundAssumption
    <3>4. Amount[o] \in Nat \ {0}
      BY RefundAssumption
    <3> QED
      BY <3>1, <3>2, <3>3, <3>4 DEF AbsentIsWhole, RefundsAddUp
  <2>5. \/ \E o \in Order : Make(o)
        \/ JobDone \/ JobFails \/ (Restart /\ jobs # <<>>)
        \/ UNCHANGED <<ship, taken>>
    BY DEF Next, Record, Deliver, HandlerNext, ShouldSkip, FindOrderNumber, ListOrders, Done,
           CreateNewIssue, FaultNext, ShouldSkipFails, FindOrListFails,
           CreateNewIssueFails, Restart, vars
  <2> QED
    BY <2>2, <2>3, <2>4, <2>5
<1> QED
  BY <1>1, <1>2, AlwaysIInv, PTL DEF Spec

-----------------------------------------------------------------------------
(* Refunds implements Ledger.                                              *)

\* The handler lists by one of the two numbers of its event, and what it sends is for
\* orders that were listed.
Reached ==
    /\ At("list") => handler.number \in {RowNumber(OrderOf[handler.event]), Invoice[handler.event]}
    /\ \A i \in DOMAIN jobs : jobs[i].order \in Reach[jobs[i].event]

\* The number is found, the list is read, updates leave the limiter.
LEMMA NextReached == IInv /\ Reached /\ [Next]_vars => Reached'
<1> SUFFICES ASSUME IInv, Reached, [Next]_vars PROVE Reached'
  OBVIOUS
<1>0. jobs \in Seq(Job) /\ (handler.pc # "idle" => handler.event \in Event) /\ handler \in Handler
  BY DEF IInv, TypeOK
<1>1. CASE FindOrderNumber
  <2>1. PICK e, b, n : e = handler.event /\ n \in {RowNumber(OrderOf[e]), Invoice[e]}
                       /\ handler' = [handler EXCEPT !.pc = "list", !.found = b, !.number = n]
    BY <1>1 DEF FindOrderNumber
  <2>2. jobs' = jobs /\ handler'.event = e /\ handler'.number = n
    BY <1>0, <1>1, <2>1 DEF FindOrderNumber, Handler
  <2> QED
    BY <2>1, <2>2 DEF Reached
<1>2. CASE ListOrders
  <2>1. PICK s \in SetToSeqs(Listed(handler.number)) :
           /\ jobs' = [i \in DOMAIN s |-> Update(s[i], handler.event)]
           /\ handler' = [handler EXCEPT !.pc = "wait", !.left = Len(s)]
    BY <1>2 DEF ListOrders
  <2>2. /\ handler.pc = "list" /\ handler.event \in Event /\ handler.number \in Number
        /\ handler.number \in {RowNumber(OrderOf[handler.event]), Invoice[handler.event]}
    BY <1>0, <1>2 DEF ListOrders, At, Reached, IInv, FoundIsPending
  <2>3. s \in Seq(Listed(handler.number))
    <3>1. IsFiniteSet(Listed(handler.number))
      BY <2>2, RefundAssumption, FS_Subset DEF Listed
    <3> QED
      BY <3>1, SequenceOfSet
  <2>4. ASSUME NEW i \in DOMAIN jobs'
        PROVE  jobs'[i].order \in Reach[jobs'[i].event]
    <3>1. i \in DOMAIN s /\ jobs'[i] = Update(s[i], handler.event)
      BY <2>1, <2>4
    <3>2. jobs'[i].order = s[i] /\ jobs'[i].event = handler.event
      BY <3>1 DEF Update
    <3>3. s[i] \in Under[handler.number]
      BY <2>3, <3>1 DEF Listed
    <3> QED
      BY <2>2, <3>2, <3>3 DEF Reach
  <2>5. handler'.pc = "wait"
    BY <1>0, <2>1 DEF Handler
  <2> QED
    BY <2>4, <2>5 DEF Reached, At
<1>3. CASE JobDone \/ JobFails
  <2>1. jobs # <<>> /\ jobs' = Tail(jobs)
    BY <1>3 DEF JobDone, JobFails
  <2>2. \A i \in DOMAIN jobs' : i + 1 \in DOMAIN jobs /\ jobs'[i] = jobs[i + 1]
    BY <1>0, <2>1, TailFacts
  <2>3. /\ handler'.pc = "list" => handler.pc = "list"
        /\ handler'.event = handler.event /\ handler'.number = handler.number
    BY <1>0, <1>3 DEF JobDone, JobFails, Mine, At, Handler
  <2> QED
    BY <2>2, <2>3 DEF Reached, At
<1>4. CASE Restart
  <2>1. jobs' = <<>> /\ handler'.pc = "idle"
    BY <1>4 DEF Restart, Answer, Idle, At
  <2> QED
    BY <2>1 DEF Reached, At
<1>5. CASE UNCHANGED <<handler, jobs>>
  BY <1>5 DEF Reached, At
<1>6. CASE jobs' = jobs /\ handler'.pc # "list"
  BY <1>6 DEF Reached, At
<1>7. \/ FindOrderNumber \/ ListOrders \/ JobDone \/ JobFails \/ Restart
      \/ UNCHANGED <<handler, jobs>>
      \/ jobs' = jobs /\ handler'.pc # "list"
  <2>1. CASE \E o \in Order : Make(o) \/ Record(o)
    BY <2>1 DEF Make, Record
  <2>2. CASE \E e \in Event : Deliver(e)
    BY <2>2 DEF Deliver, Idle
  <2>3. CASE ShouldSkip \/ ShouldSkipFails \/ FindOrListFails
    BY <1>0, <2>3 DEF ShouldSkip, ShouldSkipFails, FindOrListFails, Goto, Answer, Idle, Handler
  <2>4. CASE Done \/ CreateNewIssue \/ CreateNewIssueFails
    BY <2>4 DEF Done, CreateNewIssue, CreateNewIssueFails, Answer, Idle
  <2> QED
    BY <2>1, <2>2, <2>3, <2>4 DEF Next, HandlerNext, FaultNext, vars
<1> QED
  BY <1>1, <1>2, <1>3, <1>4, <1>5, <1>6, <1>7

\* What Ledger sees of an order.
LEMMA WorthIs ==
  ASSUME TypeOK, RefundsAddUp
  PROVE  \A o \in Order :
           /\ ship[o].state = "absent" <=> Worth(o) = NoAmount
           /\ ship[o].state = "open" => Worth(o) = ship[o].paid /\ ship[o].paid \in Nat
           /\ ship[o].state = "cancelled" => Worth(o) = 0
<1> SUFFICES ASSUME NEW o \in Order
             PROVE  /\ ship[o].state = "absent" <=> Worth(o) = NoAmount
                    /\ ship[o].state = "open" => Worth(o) = ship[o].paid /\ ship[o].paid \in Nat
                    /\ ship[o].state = "cancelled" => Worth(o) = 0
  OBVIOUS
<1>1. ship[o].state \in {"absent", "open", "cancelled"} /\ ship[o].paid \in Int
  BY DEF TypeOK, OrderState
<1>2. ship[o].state = "open" => ship[o].paid > 0
  BY DEF RefundsAddUp
<1> QED
  BY <1>1, <1>2, RefundAssumption DEF Worth

\* Whether the refund leaves something or not, Ledger knows what.
LEMMA RefundedWorth ==
  ASSUME NEW order \in OrderState, NEW settle \in (Nat \ {0}) \cup {NoAmount},
         order.state # "absent", order.state = "open" => order.paid \in Nat
  PROVE  LET left == IF order.state = "open" THEN order.paid ELSE 0
             new == Refunded(order, settle) IN
         LedgerOf!Less(left, settle) = IF new.state = "open" THEN new.paid ELSE 0
<1>1. order.state \in {"open", "cancelled"} /\ order.paid \in Int
  BY DEF OrderState
<1>2. CASE settle # NoAmount /\ order.paid > settle
  <2>1. Refunded(order, settle).state = order.state
        /\ Refunded(order, settle).paid = order.paid - settle
    BY <1>2 DEF Refunded, OrderState
  <2> QED
    BY <1>1, <1>2, <2>1 DEF LedgerOf!Less
<1>3. CASE ~(settle # NoAmount /\ order.paid > settle)
  <2>1. Refunded(order, settle).state = "cancelled"
    BY <1>3 DEF Refunded, OrderState
  <2> QED
    BY <1>1, <1>3, <2>1 DEF LedgerOf!Less
<1> QED
  BY <1>2, <1>3

LedgerVars == <<[o \in Order |-> Worth(o)], delivered, taken>>

\* The update that arrives is taken from what is left now, for a delivery that no other
\* one used up.
LEMMA LimiterTakes ==
  ASSUME IInv, TypeOK', RefundsAddUp, RefundsAddUp', Reached, LimiterStep, Apply
  PROVE  \E o \in Order, e \in Event : LedgerOf!Take(o, e)
<1>1. jobs \in Seq(Job) /\ jobs # <<>> /\ ship \in [Order -> OrderState]
      /\ taken \in [Order -> [Event -> Nat]] /\ delivered \in [Event -> Nat] /\ delivered' = delivered
  BY DEF IInv, TypeOK, LimiterStep
<1>2. PICK job : job = Head(jobs)
  OBVIOUS
<1>3. 1 \in DOMAIN jobs /\ job = jobs[1] /\ job \in Job
  BY <1>1, <1>2, TailFacts
<1>4. PICK o \in Order, e \in Event : o = job.order /\ e = job.event
  BY <1>3 DEF Job
<1>5. /\ ship' = [ship EXCEPT ![o] = Refunded(ship[o], Settle[e])]
      /\ taken' = [taken EXCEPT ![o][e] = @ + 1]
      /\ ship[o].state # "absent"
  BY <1>2, <1>3, <1>4 DEF Apply, IInv, Current
<1>6. o \in Reach[e]
  BY <1>3, <1>4 DEF Reached
<1>7. taken[o][e] < delivered[e]
  <2>1. Pending(o, e)
    BY <1>3, <1>4 DEF Pending
  <2>2. taken[o][e] \in Nat /\ delivered[e] \in Nat
    BY <1>1
  <2> QED
    BY <2>1, <2>2 DEF IInv, Counted
<1>8. Settle[e] \in (Nat \ {0}) \cup {NoAmount}
  BY ConstantTypes
<1>9. Worth(o) # NoAmount
  BY <1>5, WorthIs DEF IInv
<1>10. \A p \in Order : Worth(p)' = IF p = o THEN LedgerOf!Less(Worth(o), Settle[e]) ELSE Worth(p)
  <2>1. \A p \in Order \ {o} : ship'[p] = ship[p]
    BY <1>1, <1>5
  <2>2. \A p \in Order \ {o} : Worth(p)' = Worth(p)
    BY <2>1 DEF Worth
  <2>3. ship'[o] = Refunded(ship[o], Settle[e]) /\ ship[o] \in OrderState
    BY <1>1, <1>5
  <2>4. /\ ship[o].state = "open" => ship[o].paid \in Nat
        /\ Worth(o) = IF ship[o].state = "open" THEN ship[o].paid ELSE 0
    <3>1. ship[o].state \in {"open", "cancelled"}
      BY <1>5, <2>3 DEF OrderState
    <3> QED
      BY <3>1, WorthIs DEF IInv
  <2>5. Worth(o)' = IF ship'[o].state = "open" THEN ship'[o].paid ELSE 0
    <3>1. ship'[o].state \in {"open", "cancelled"}
      <4>1. ship'[o] \in OrderState /\ ship'[o].state # "absent"
        BY <1>5, <1>8, <2>3, RefundedType
      <4> QED
        BY <4>1 DEF OrderState
    <3> QED
      BY <3>1 DEF Worth
  <2> QED
    BY <1>5, <1>8, <2>2, <2>3, <2>4, <2>5, RefundedWorth
<1>11. [p \in Order |-> Worth(p)]'
          = [[p \in Order |-> Worth(p)] EXCEPT ![o] = LedgerOf!Less(@, Settle[e])]
  BY <1>10
<1> QED
  BY <1>1, <1>5, <1>6, <1>7, <1>9, <1>11 DEF LedgerOf!Take

LEMMA LedgerNext ==
  ASSUME IInv, TypeOK', RefundsAddUp, RefundsAddUp', Reached, [Next]_vars
  PROVE  [LedgerOf!Next]_LedgerVars
<1>1. CASE LimiterStep /\ Apply
  BY <1>1, LimiterTakes DEF LedgerOf!Next
<1>2. CASE UNCHANGED <<ship, delivered, taken>>
  BY <1>2 DEF LedgerVars, Worth
<1>3. ASSUME NEW o \in Order, Make(o)
      PROVE  LedgerOf!OpenAccount(o)
  <2>1. ship \in [Order -> OrderState] /\ Amount[o] \in Nat
    BY RefundAssumption DEF IInv, TypeOK
  <2>2. PICK new : new = [state |-> "open", paid |-> Amount[o]]
    OBVIOUS
  <2>3. new.state = "open" /\ new.paid = Amount[o]
    BY <2>2
  <2>4. /\ ship[o].state = "absent" /\ ship'[o] = new
        /\ \A p \in Order \ {o} : ship'[p] = ship[p]
        /\ UNCHANGED <<delivered, taken>>
    BY <1>3, <2>1, <2>2 DEF Make
  <2>5. Worth(o) = NoAmount
    BY <2>4 DEF Worth
  <2>6. Worth(o)' = Amount[o] /\ \A p \in Order \ {o} : Worth(p)' = Worth(p)
    BY <2>4, <2>3 DEF Worth
  <2>7. [p \in Order |-> Worth(p)]' = [[p \in Order |-> Worth(p)] EXCEPT ![o] = Amount[o]]
    BY <2>6
  <2> QED
    BY <2>4, <2>5, <2>7 DEF LedgerOf!OpenAccount
<1>4. ASSUME NEW e \in Event, Deliver(e)
      PROVE  LedgerOf!Ask(e)
  <2>1. UNCHANGED <<ship, taken>> /\ delivered' = [delivered EXCEPT ![e] = @ + 1]
    BY <1>4 DEF Deliver
  <2>2. [p \in Order |-> Worth(p)]' = [p \in Order |-> Worth(p)]
    BY <2>1 DEF Worth
  <2> QED
    BY <2>1, <2>2 DEF LedgerOf!Ask
<1>5. \/ LimiterStep /\ Apply
      \/ UNCHANGED <<ship, delivered, taken>>
      \/ \E o \in Order : Make(o)
      \/ \E e \in Event : Deliver(e)
  <2>1. CASE JobDone \/ JobFails \/ Restart
    BY <2>1 DEF JobDone, JobFails, Restart, LimiterStep
  <2> QED
    BY <2>1 DEF Next, Record, HandlerNext, ShouldSkip, FindOrderNumber, ListOrders, Done,
           CreateNewIssue, FaultNext, ShouldSkipFails, FindOrListFails,
           CreateNewIssueFails, vars
<1> QED
  BY <1>1, <1>2, <1>3, <1>4, <1>5 DEF LedgerOf!Next

\* Between the list and the write no other update of the order is under way and every
\* delivery is used once, so a refund, which the code computes before it sends it, is as
\* good as taken at once from what is left; and only orders whose number begins with one
\* that the event names pay for it.
THEOREM RefundsImplementLedger == Spec => ImplementsLedger
<1>1. Init => LedgerOf!Init /\ Reached
  <2> SUFFICES ASSUME Init PROVE LedgerOf!Init /\ Reached
    OBVIOUS
  <2>1. \A o \in Order : ship[o].state = "absent"
    BY DEF Init
  <2>2. [o \in Order |-> Worth(o)] = [o \in Order |-> NoAmount]
    BY <2>1 DEF Worth
  <2>3. LedgerOf!Init
    BY <2>2 DEF Init, LedgerOf!Init
  <2>4. Reached
    BY DEF Init, Idle, At, Reached
  <2> QED
    BY <2>3, <2>4
<1>2. IInv /\ Reached /\ [Next]_vars => Reached'
  BY NextReached
<1>3. /\ IInv /\ IInv' /\ RefundsAddUp /\ RefundsAddUp' /\ Reached /\ [Next]_vars
      => [LedgerOf!Next]_LedgerVars
  BY LedgerNext DEF IInv
<1> QED
  BY <1>1, <1>2, <1>3, AlwaysIInv, RefundsAlwaysAddUp, PTL
     DEF Spec, ImplementsLedger, LedgerOf!Spec, LedgerOf!ledger, LedgerVars


=============================================================================
