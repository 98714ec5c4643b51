----------------------------- MODULE WebProofs -----------------------------
(***************************************************************************)
(* Proofs about WebOrders, for any orders, parts and numbers of hooks,     *)
(* refunds, repeats and failures: its types, that a processed order has    *)
(* all its orders in ShipStation, and that a cancellation stays.           *)
(***************************************************************************)
EXTENDS WebOrders, SequenceTheorems, FiniteSetTheorems, TLAPS

USE DEF shop, hooks, records

LEMMA CurrentType == TypeOK /\ handler.pc # "idle" => Current \in Order
  <1>1. ASSUME TypeOK, handler.pc # "idle" PROVE Current \in Order
    <2>1. sent \in Seq(Hook) /\ handler.hook \in DOMAIN sent
      BY <1>1 DEF TypeOK, HooksTypeOK, HandlerTypeOK
    <2>2. sent[handler.hook] \in Hook
      BY <2>1, ElementOfSeq
    <2> QED BY <2>2 DEF Current, Hook
  <1> QED BY <1>1

\* What a handler does next: it goes on, or it ends.
LEMMA EndingType ==
    ASSUME TypeOK, handler.pc # "idle", UNCHANGED <<sent, repeats>>,
           \/ \E label \in {"prepare", "list", "wait", "catch"} :
                 Goto(label) /\ (label = "list" => handler.kind # "create")
           \/ Return \/ Throw \/ Swallow
    PROVE  HandlerTypeOK' /\ HooksTypeOK' /\ dropped' \subseteq Order \X Kind
  <1>1. Current \in Order
    BY CurrentType
  <1>2. CASE \E label \in {"prepare", "list", "wait", "catch"} :
                 Goto(label) /\ (label = "list" => handler.kind # "create")
    BY <1>2 DEF TypeOK, HooksTypeOK, HandlerTypeOK, Goto, Handler
  <1>3. CASE Return \/ Throw \/ Swallow
    BY <1>1, <1>3 DEF TypeOK, HooksTypeOK, HandlerTypeOK, Return, Throw, Swallow, Idle,
                      Handler, Kind
  <1> QED BY <1>2, <1>3

\* What a request does to the orders of ShipStation.
LEMMA AppliedFacts ==
    ASSUME ShipTypeOK, NEW j \in jobs
    PROVE  /\ Applied(j) \in Seq(ShipOrder)
           /\ Len(Applied(j)) = IF j.at = 0 THEN Len(ship) + 1 ELSE Len(ship)
           /\ \A i \in DOMAIN ship :
                 /\ i \in DOMAIN Applied(j)
                 /\ Applied(j)[i] = IF i = j.at THEN j.row ELSE ship[i]
           /\ j.at = 0 => Applied(j)[Len(ship) + 1] = j.row
  <1>1. ship \in Seq(ShipOrder) /\ j \in Job /\ j.at \in 0 .. Len(ship)
    BY DEF ShipTypeOK
  <1>2. j.row \in ShipOrder
    BY <1>1 DEF Job
  <1>3. CASE j.at = 0
    <2>1. Applied(j) = Append(ship, j.row)
      BY <1>3 DEF Applied
    <2> QED BY <1>1, <1>2, <1>3, <2>1, AppendProperties
  <1>4. CASE j.at # 0
    <2>1. Applied(j) = [ship EXCEPT ![j.at] = j.row] /\ j.at \in 1 .. Len(ship)
      BY <1>1, <1>4 DEF Applied
    <2> QED BY <1>1, <1>2, <1>4, <2>1, ExceptSeq
  <1> QED BY <1>3, <1>4

LEMMA JobType ==
    ASSUME ShipTypeOK, NEW j \in jobs, ship' \in {ship, Applied(j)}, jobs' = jobs \ {j}
    PROVE  ShipTypeOK'
  <1>1. Len(ship) <= Len(ship') /\ Len(ship') \in Nat /\ ship' \in Seq(ShipOrder)
    <2>1. ship \in Seq(ShipOrder) /\ Len(ship) \in Nat
      BY LenProperties DEF ShipTypeOK
    <2>2. Len(Applied(j)) \in Nat
      BY AppliedFacts, LenProperties
    <2> QED BY <2>1, <2>2, AppliedFacts
  <1>2. \A k \in jobs : k.at \in 0 .. Len(ship) /\ Len(ship) \in Nat
    BY LenProperties DEF ShipTypeOK
  <1> QED BY <1>1, <1>2 DEF ShipTypeOK

\* Sending hooks.
LEMMA SendType ==
    ASSUME HooksTypeOK, HandlerTypeOK, NEW new \in Seq(Hook), Send(new), handler' = handler
    PROVE  HooksTypeOK' /\ HandlerTypeOK'
  <1>1. sent \in Seq(Hook) /\ sent' = sent \o new
    BY DEF HooksTypeOK, Send
  <1>2. sent' \in Seq(Hook) /\ Len(sent') = Len(sent) + Len(new)
    BY <1>1, ConcatProperties
  <1>3. /\ DOMAIN sent = 1 .. Len(sent) /\ DOMAIN sent' = 1 .. Len(sent')
        /\ Len(sent) \in Nat /\ Len(new) \in Nat
    BY <1>1, <1>2, LenProperties
  <1>4. DOMAIN sent \subseteq DOMAIN sent'
    BY <1>2, <1>3
  <1>5. pending' \subseteq DOMAIN sent'
    BY <1>2, <1>3, <1>4 DEF HooksTypeOK, Send
  <1> QED BY <1>2, <1>3, <1>4, <1>5 DEF HooksTypeOK, HandlerTypeOK, Send

LEMMA StatusHookType ==
    ASSUME TypeOK, NEW o \in Order, NEW s \in Status
    PROVE  StatusHook(o, s) \in Hook /\ RefundHook(o) \in Hook
  BY DEF TypeOK, StatusHook, RefundHook, Hook

LEMMA FaultType == ASSUME TypeOK, NEW o \in Order, Fault(o) PROVE failed' \in [Order -> Nat]
  BY DEF TypeOK, Fault

LEMMA JobOrder == ASSUME TypeOK, NEW j \in jobs PROVE j.row.order \in Order
  BY DEF TypeOK, ShipTypeOK, Job, ShipOrder

-----------------------------------------------------------------------------

LEMMA ShopNextType == TypeOK /\ ShopNext => TypeOK'
  <1> SUFFICES ASSUME TypeOK, NEW o \in Order,
                      Resolve(o) \/ \E s \in Status : Change(o, s) \/ Refund(o, s)
               PROVE  TypeOK'
    BY DEF ShopNext
  <1>1. CASE Resolve(o)
    BY <1>1 DEF Resolve, TypeOK, HooksTypeOK, HandlerTypeOK, ShipTypeOK
  <1>2. ASSUME NEW s \in Status, Change(o, s) PROVE TypeOK'
    <2>1. <<StatusHook(o, s)>> \in Seq(Hook)
      BY StatusHookType
    <2>2. HooksTypeOK' /\ HandlerTypeOK'
      BY <1>2, <2>1, SendType DEF Change, TypeOK
    <2> QED BY <1>2, <2>2 DEF Change, TypeOK, ShipTypeOK
  <1>3. ASSUME NEW s \in Status, Refund(o, s) PROVE TypeOK'
    <2>1. \E new \in Seq(Hook) : Send(new)
      <3>1. <<RefundHook(o)>> \in Seq(Hook) /\ <<StatusHook(o, s), RefundHook(o)>> \in Seq(Hook)
        BY StatusHookType
      <3> QED BY <1>3, <3>1 DEF Refund
    <2>2. HooksTypeOK' /\ HandlerTypeOK'
      BY <1>3, <2>1, SendType DEF Refund, TypeOK
    <2> QED BY <1>3, <2>2 DEF Refund, TypeOK, ShipTypeOK
  <1> QED BY <1>1, <1>2, <1>3

LEMMA DeliverType == TypeOK /\ (\E n \in DOMAIN sent : Deliver(n)) => TypeOK'
  <1> SUFFICES ASSUME TypeOK, NEW n \in DOMAIN sent, Deliver(n) PROVE TypeOK'
    OBVIOUS
  <1>1. repeats' \in Nat /\ n \in Nat
    <2>1. DOMAIN sent = 1 .. Len(sent) /\ Len(sent) \in Nat
      BY LenProperties DEF TypeOK, HooksTypeOK
    <2> QED BY <2>1 DEF Deliver, Arrives, TypeOK, HooksTypeOK
  <1>2. KindOf(sent[n]) \in Kind \cup {"-"}
    BY DEF KindOf, Kind
  <1>3. HandlerTypeOK' /\ HooksTypeOK'
    BY <1>1, <1>2 DEF Deliver, TypeOK, HooksTypeOK, HandlerTypeOK, Handler
  <1> QED BY <1>3 DEF Deliver, TypeOK, ShipTypeOK

LEMMA ChangedType ==
    ASSUME TypeOK, handler.pc = "list", NEW row \in ShipOrder
    PROVE  /\ Changed(row) \in ShipOrder
           /\ Changed(row).order = row.order /\ Changed(row).part = row.part
           /\ row.state = "cancelled" /\ (handler.kind = "complete" => row.state = "awaiting")
                 => Changed(row).state = "cancelled"
  <1>1. handler.kind \in {"cancel", "partial", "complete"} /\ handler.refund \in Nat
    BY DEF TypeOK, HandlerTypeOK, Handler, Kind
  <1>2. CASE handler.kind = "cancel"
    BY <1>2 DEF Changed, ShipOrder
  <1>3. CASE handler.kind = "partial"
    BY <1>1, <1>3 DEF Changed, ShipOrder
  <1>4. CASE handler.kind = "complete"
    BY <1>4 DEF Changed, ShipOrder
  <1> QED BY <1>1, <1>2, <1>3, <1>4

LEMMA HandlerNextType == TypeOK /\ HandlerNext => TypeOK'
  <1> SUFFICES ASSUME TypeOK, HandlerNext PROVE TypeOK'
    OBVIOUS
  <1>1. CASE Fetch
    <2>1. HandlerTypeOK' /\ HooksTypeOK' /\ dropped' \subseteq Order \X Kind
      <3>1. CASE handler.kind = "partial"
        <4>1. Current \in Order
          BY <1>1, CurrentType DEF Fetch
        <4> QED BY <1>1, <3>1, <4>1 DEF Fetch, TypeOK, HooksTypeOK, HandlerTypeOK, Handler
      <3>2. CASE handler.kind # "partial"
        BY <1>1, <3>2, EndingType DEF Fetch
      <3> QED BY <3>1, <3>2
    <2> QED BY <1>1, <2>1 DEF Fetch, TypeOK, ShipTypeOK
  <1>2. CASE Prepare
    <2>1. HandlerTypeOK' /\ HooksTypeOK' /\ dropped' \subseteq Order \X Kind
      BY <1>2, EndingType DEF Prepare
    <2>2. Current \in Order
      BY <1>2, CurrentType DEF Prepare
    <2>3. ShipTypeOK'
      <3>1. Len(ship) \in Nat
        BY LenProperties DEF TypeOK, ShipTypeOK
      <3> QED BY <1>2, <2>2, <3>1 DEF Prepare, TypeOK, ShipTypeOK, Job, ShipOrder
    <2> QED BY <1>2, <2>1, <2>3 DEF Prepare, TypeOK
  <1>3. CASE List
    <2>1. HandlerTypeOK' /\ HooksTypeOK' /\ dropped' \subseteq Order \X Kind
      BY <1>3, EndingType DEF List
    <2>2. ShipTypeOK'
      <3>1. /\ DOMAIN ship = 1 .. Len(ship) /\ Len(ship) \in Nat
            /\ \A i \in DOMAIN ship : ship[i] \in ShipOrder
        BY LenProperties, ElementOfSeq DEF TypeOK, ShipTypeOK
      <3>2. \A i \in Found : i \in 1 .. Len(ship) /\ Changed(ship[i]) \in ShipOrder
        BY <1>3, <3>1, ChangedType DEF Found, List
      <3> QED BY <1>3, <3>1, <3>2 DEF List, TypeOK, ShipTypeOK, Job
    <2> QED BY <1>3, <2>1, <2>2 DEF List, TypeOK
  <1>4. CASE Finish
    <2>1. HandlerTypeOK' /\ HooksTypeOK' /\ dropped' \subseteq Order \X Kind
      BY <1>4, EndingType DEF Finish
    <2> QED BY <1>4, <2>1 DEF Finish, TypeOK, ShipTypeOK
  <1>5. CASE Catch
    <2>1. HandlerTypeOK' /\ HooksTypeOK' /\ dropped' \subseteq Order \X Kind
      BY <1>5, EndingType DEF Catch
    <2>2. Current \in Order
      BY <1>5, CurrentType DEF Catch
    <2> QED BY <1>5, <2>1, <2>2 DEF Catch, TypeOK, ShipTypeOK
  <1>6. CASE \E j \in jobs : JobDone(j)
    <2>1. ShipTypeOK'
      BY <1>6, JobType DEF JobDone, TypeOK
    <2> QED BY <1>6, <2>1 DEF JobDone, TypeOK, HooksTypeOK, HandlerTypeOK
  <1> QED BY <1>1, <1>2, <1>3, <1>4, <1>5, <1>6 DEF HandlerNext

LEMMA FailNextType == TypeOK /\ FailNext => TypeOK'
  <1> SUFFICES ASSUME TypeOK, FailNext PROVE TypeOK'
    OBVIOUS
  <1>1. CASE FetchFails \/ CheckFails \/ PrepareOrListFails \/ FinishFails \/ CatchFails
    <2>1. handler.pc # "idle" /\ Fault(Current)
      BY <1>1 DEF FetchFails, CheckFails, PrepareOrListFails, FinishFails, CatchFails
    <2>2. failed' \in [Order -> Nat]
      BY <2>1, CurrentType, FaultType
    <2>3. UNCHANGED <<shop, sent, repeats, jobs, ship, records>>
      BY <1>1 DEF FetchFails, CheckFails, PrepareOrListFails, FinishFails, CatchFails
    <2>4. Goto("catch") \/ Throw \/ Swallow
      BY <1>1 DEF FetchFails, CheckFails, PrepareOrListFails, FinishFails, CatchFails, Reject
    <2>5. HandlerTypeOK' /\ HooksTypeOK' /\ dropped' \subseteq Order \X Kind
      BY <2>1, <2>3, <2>4, EndingType
    <2> QED BY <2>2, <2>3, <2>5 DEF TypeOK, ShipTypeOK
  <1>2. CASE Crash
    <2>1. failed' \in [Order -> Nat]
      BY <1>2, CurrentType, FaultType, JobOrder DEF Crash
    <2>2. HandlerTypeOK' /\ HooksTypeOK' /\ dropped' \subseteq Order \X Kind
      <3>1. CASE handler.pc # "idle" /\ Throw
        BY <1>2, <3>1, EndingType DEF Crash
      <3>2. CASE UNCHANGED <<handler, pending, dropped>>
        BY <1>2, <3>2 DEF Crash, TypeOK, HooksTypeOK, HandlerTypeOK
      <3> QED BY <1>2, <3>1, <3>2 DEF Crash
    <2> QED BY <1>2, <2>1, <2>2 DEF Crash, TypeOK, ShipTypeOK
  <1>3. ASSUME NEW j \in jobs, JobFails(j) PROVE TypeOK'
    <2>1. failed' \in [Order -> Nat]
      BY <1>3, FaultType, JobOrder DEF JobFails
    <2>2. ShipTypeOK'
      BY <1>3, JobType DEF JobFails, TypeOK
    <2>3. HandlerTypeOK' /\ HooksTypeOK' /\ dropped' \subseteq Order \X Kind
      <3>1. CASE handler.pc = "wait"
        <4>1. Goto("catch") \/ Swallow
          BY <1>3, <3>1 DEF JobFails, Reject
        <4> QED BY <1>3, <3>1, <4>1, EndingType DEF JobFails
      <3>2. CASE handler.pc # "wait"
        BY <1>3, <3>2 DEF JobFails, TypeOK, HooksTypeOK, HandlerTypeOK
      <3> QED BY <3>1, <3>2
    <2> QED BY <1>3, <2>1, <2>2, <2>3 DEF JobFails, TypeOK
  <1> QED BY <1>1, <1>2, <1>3 DEF FailNext

LEMMA StepType == TypeOK /\ [Next]_vars => TypeOK'
  <1> SUFFICES ASSUME TypeOK, [Next]_vars PROVE TypeOK'
    OBVIOUS
  <1>1. CASE Next
    BY <1>1, ShopNextType, HandlerNextType, FailNextType, DeliverType DEF Next
  <1>2. CASE UNCHANGED vars
    BY <1>2 DEF vars, TypeOK, HooksTypeOK, HandlerTypeOK, ShipTypeOK
  <1> QED BY <1>1, <1>2

\* Every variable of WebOrders keeps its type.
THEOREM WebTypes == Spec => []TypeOK
  <1>1. Init => TypeOK
    <2>1. <<>> \in Seq(Hook) /\ <<>> \in Seq(ShipOrder)
      BY EmptySeq
    <2> QED BY <2>1 DEF Init, TypeOK, HooksTypeOK, HandlerTypeOK, ShipTypeOK, Idle, Handler,
                        Status
  <1> QED BY <1>1, StepType, PTL DEF Spec

-----------------------------------------------------------------------------
(* ShipInv: processed orders are complete, copies are fresh.               *)

\* The orders of ShipStation keep their order and part when a request is done.
LEMMA PlacesKept ==
    ASSUME ShipTypeOK, CopiesFresh, NEW j \in jobs, ship' \in {ship, Applied(j)}
    PROVE  \A i \in DOMAIN ship :
              /\ i \in DOMAIN ship'
              /\ ship'[i].order = ship[i].order /\ ship'[i].part = ship[i].part
              /\ ship[i].state = "cancelled" => ship'[i].state = "cancelled"
              /\ i # j.at => ship'[i] = ship[i]
  <1> SUFFICES ASSUME NEW i \in DOMAIN ship
               PROVE  /\ i \in DOMAIN ship'
                      /\ ship'[i].order = ship[i].order /\ ship'[i].part = ship[i].part
                      /\ ship[i].state = "cancelled" => ship'[i].state = "cancelled"
                      /\ i # j.at => ship'[i] = ship[i]
    OBVIOUS
  <1>1. i # 0
    BY LenProperties DEF ShipTypeOK
  <1>2. CASE ship' = ship
    BY <1>2
  <1>3. CASE ship' = Applied(j)
    <2>1. i \in DOMAIN ship' /\ ship'[i] = IF i = j.at THEN j.row ELSE ship[i]
      BY <1>3, AppliedFacts
    <2> QED BY <1>1, <2>1 DEF CopiesFresh
  <1> QED BY <1>2, <1>3

\* So what was made for a part stays.
LEMMA PartsKept ==
    ASSUME ShipTypeOK, CopiesFresh, NEW j \in jobs, ship' \in {ship, Applied(j)},
           NEW o, NEW p, OrdersOf(o, p) # {}
    PROVE  OrdersOf(o, p)' # {}
  BY PlacesKept DEF OrdersOf

LEMMA JobKeepsCopies ==
    ASSUME ShipTypeOK, CopiesFresh, NEW j \in jobs, ship' \in {ship, Applied(j)},
           jobs' = jobs \ {j}
    PROVE  CopiesFresh'
  <1>1. \A k \in jobs' : k.at # 0 => k.at \in DOMAIN ship /\ k.at # j.at
    <2>1. DOMAIN ship = 1 .. Len(ship)
      BY LenProperties DEF ShipTypeOK
    <2> QED BY <2>1 DEF ShipTypeOK, CopiesFresh
  <1>2. \A k \in jobs' : k.at # 0 => ship'[k.at] = ship[k.at]
    BY <1>1, PlacesKept
  <1> QED BY <1>2 DEF CopiesFresh

\* Hooks that were sent stay as they are.
LEMMA SentKept ==
    ASSUME TypeOK, ShopNext
    PROVE  \A n \in DOMAIN sent : sent'[n] = sent[n]
  <1>1. sent \in Seq(Hook) /\ DOMAIN sent = 1 .. Len(sent) /\ Len(sent) \in Nat
    BY LenProperties DEF TypeOK, HooksTypeOK
  <1>2. sent' = sent \/ \E new \in Seq(Hook) : sent' = sent \o new
    <2>1. ASSUME NEW o \in Order, NEW s \in Status, Change(o, s)
          PROVE  \E new \in Seq(Hook) : sent' = sent \o new
      <3>1. <<StatusHook(o, s)>> \in Seq(Hook)
        BY StatusHookType
      <3> QED BY <2>1, <3>1 DEF Change, Send
    <2>2. ASSUME NEW o \in Order, NEW s \in Status, Refund(o, s)
          PROVE  \E new \in Seq(Hook) : sent' = sent \o new
      <3>1. <<RefundHook(o)>> \in Seq(Hook) /\ <<StatusHook(o, s), RefundHook(o)>> \in Seq(Hook)
        BY StatusHookType
      <3> QED BY <2>2, <3>1 DEF Refund, Send
    <2>3. ASSUME NEW o \in Order, Resolve(o) PROVE sent' = sent
      BY <2>3 DEF Resolve
    <2> QED BY <2>1, <2>2, <2>3 DEF ShopNext
  <1>3. ASSUME NEW new \in Seq(Hook), sent' = sent \o new
        PROVE  \A n \in DOMAIN sent : sent'[n] = sent[n]
    <2>1. Len(new) \in Nat
      BY LenProperties
    <2> QED BY <1>1, <1>3, <2>1, ConcatProperties
  <1> QED BY <1>2, <1>3

\* So the handler is about the same order.
LEMMA CurrentKept ==
    ASSUME TypeOK, handler.pc # "idle", handler' = handler, ShopNext
    PROVE  Current' = Current
  BY SentKept DEF Current, TypeOK, HandlerTypeOK

\* A step that touches neither the orders nor the requests.
LEMMA QuietStep ==
    ASSUME ShipInv, UNCHANGED <<ship, jobs, processed>>,
           handler'.pc = "wait" /\ handler'.kind = "create" =>
               handler.pc = "wait" /\ handler.kind = "create" /\ Current' = Current
    PROVE  ShipInv'
  BY DEF ShipInv, CopiesFresh, NoPartMissing, ProcessedComplete, OrdersOf, Queued

LEMMA ListShip == TypeOK /\ ShipInv /\ List => ShipInv'
  <1> SUFFICES ASSUME TypeOK, ShipInv, List PROVE ShipInv'
    OBVIOUS
  <1>1. /\ DOMAIN ship = 1 .. Len(ship) /\ Len(ship) \in Nat
        /\ \A i \in DOMAIN ship : ship[i] \in ShipOrder
    BY LenProperties, ElementOfSeq DEF TypeOK, ShipTypeOK
  <1>2. \A i \in Found :
           /\ Changed(ship[i]).order = ship[i].order /\ Changed(ship[i]).part = ship[i].part
           /\ ship[i].state = "cancelled" => Changed(ship[i]).state = "cancelled"
    BY <1>1, ChangedType DEF List, Found
  <1>3. CopiesFresh'
    BY <1>2 DEF List, CopiesFresh
  <1>4. handler'.kind # "create"
    BY DEF List, Goto, TypeOK, HandlerTypeOK, Handler
  <1> QED BY <1>3, <1>4 DEF List, ShipInv, NoPartMissing, ProcessedComplete, OrdersOf

LEMMA PrepareShip == TypeOK /\ ShipInv /\ Prepare => ShipInv'
  <1> SUFFICES ASSUME TypeOK, ShipInv, Prepare PROVE ShipInv'
    OBVIOUS
  <1>1. Current' = Current
    BY DEF Prepare, Goto, Current, TypeOK, HandlerTypeOK, Handler
  <1>2. CopiesFresh'
    BY DEF Prepare, CopiesFresh
  <1>3. \A p \in Part : Queued(Current, p)'
    <2> SUFFICES ASSUME NEW p \in Part PROVE Queued(Current, p)'
      OBVIOUS
    <2> DEFINE row == [order |-> Current, part |-> p, state |-> "awaiting", refund |-> 0]
               j == [at |-> 0, row |-> row]
    <2>1. j \in jobs'
      BY DEF Prepare
    <2>2. j.at = 0 /\ j.row.order = Current' /\ j.row.part = p
      BY <1>1
    <2> HIDE DEF j
    <2> QED BY <2>1, <2>2 DEF Queued
  <1> QED BY <1>1, <1>2, <1>3 DEF Prepare, ShipInv, NoPartMissing, ProcessedComplete, OrdersOf

LEMMA FinishShip == TypeOK /\ ShipInv /\ Finish => ShipInv'
  <1> SUFFICES ASSUME TypeOK, ShipInv, Finish PROVE ShipInv'
    OBVIOUS
  <1>1. ProcessedComplete'
    BY DEF Finish, ShipInv, NoPartMissing, ProcessedComplete, OrdersOf, Queued
  <1>2. handler'.pc = "idle"
    BY DEF Finish, Return, Idle
  <1> QED BY <1>1, <1>2 DEF Finish, ShipInv, CopiesFresh, NoPartMissing

\* A request that is done or fails; the handler stops waiting when it fails.
LEMMA JobShip ==
    ASSUME TypeOK, ShipInv, NEW j \in jobs, JobDone(j) \/ JobFails(j)
    PROVE  ShipInv'
  <1>1. /\ ship' \in {ship, Applied(j)} /\ jobs' = jobs \ {j} /\ processed' = processed
        /\ sent' = sent /\ ShipTypeOK /\ CopiesFresh
    BY DEF JobDone, JobFails, TypeOK, ShipInv
  <1>2. CopiesFresh'
    BY <1>1, JobKeepsCopies
  <1>3. ProcessedComplete'
    BY <1>1, PartsKept DEF ShipInv, ProcessedComplete
  <1>4. NoPartMissing'
    <2>1. CASE JobDone(j)
      <3> SUFFICES ASSUME handler.pc = "wait", handler.kind = "create", NEW p \in Part
                   PROVE  OrdersOf(Current, p)' # {} \/ Queued(Current, p)'
        BY <2>1 DEF NoPartMissing, JobDone, Current
      <3>1. Current' = Current
        BY <2>1 DEF JobDone, Current
      <3>2. OrdersOf(Current, p) # {} \/ Queued(Current, p)
        BY DEF ShipInv, NoPartMissing
      <3>3. ASSUME OrdersOf(Current, p) # {} PROVE OrdersOf(Current, p)' # {}
        <4> DEFINE o == Current
        <4>1. OrdersOf(o, p) # {}
          BY <3>3
        <4> HIDE DEF o
        <4>2. \E i \in DOMAIN ship' : ship'[i].order = o /\ ship'[i].part = p
          BY <1>1, <4>1, PlacesKept DEF OrdersOf
        <4>3. \E i \in DOMAIN ship' : ship'[i].order = Current' /\ ship'[i].part = p
          BY <3>1, <4>2 DEF o
        <4> QED BY <4>3 DEF OrdersOf
      <3>4. ASSUME NEW k \in jobs, k.at = 0, k.row.order = Current, k.row.part = p
            PROVE  OrdersOf(Current, p)' # {} \/ Queued(Current, p)'
        <4>1. CASE k = j
          <5>1. Len(ship) + 1 \in DOMAIN ship' /\ ship'[Len(ship) + 1] = k.row
            <6>1. ship' = Applied(k)
              BY <2>1, <4>1 DEF JobDone
            <6>2. /\ Len(ship') = Len(ship) + 1 /\ ship' \in Seq(ShipOrder)
                  /\ ship'[Len(ship) + 1] = k.row
              BY <1>1, <3>4, <6>1, AppliedFacts
            <6>3. DOMAIN ship' = 1 .. Len(ship') /\ Len(ship) \in Nat
              BY <6>2, LenProperties DEF TypeOK, ShipTypeOK
            <6> QED BY <6>2, <6>3
          <5> QED BY <3>1, <3>4, <5>1 DEF OrdersOf
        <4>2. CASE k # j
          BY <1>1, <3>1, <3>4, <4>2 DEF Queued
        <4> QED BY <4>1, <4>2
      <3> QED BY <3>2, <3>3, <3>4 DEF Queued
    <2>2. CASE JobFails(j)
      <3>1. handler'.pc # "wait"
        BY <2>2 DEF JobFails, Reject, Goto, Swallow, Idle, TypeOK, HandlerTypeOK, Handler
      <3> QED BY <3>1 DEF NoPartMissing
    <2> QED BY <2>1, <2>2
  <1> QED BY <1>2, <1>3, <1>4 DEF ShipInv

LEMMA StepShip == TypeOK /\ ShipInv /\ [Next]_vars => ShipInv'
  <1> SUFFICES ASSUME TypeOK, ShipInv, [Next]_vars PROVE ShipInv'
    OBVIOUS
  <1>1. CASE ShopNext
    <2>1. UNCHANGED <<ship, jobs, processed, handler>>
      BY <1>1 DEF ShopNext, Resolve, Change, Refund
    <2> QED BY <1>1, <2>1, QuietStep, CurrentKept
  <1>2. ASSUME NEW n \in DOMAIN sent, Deliver(n) PROVE ShipInv'
    <2>1. UNCHANGED <<ship, jobs, processed>> /\ handler'.pc # "wait"
      BY <1>2 DEF Deliver
    <2> QED BY <2>1, QuietStep
  <1>3. CASE Fetch \/ Catch
    <2>1. UNCHANGED <<ship, jobs, processed>>
      BY <1>3 DEF Fetch, Catch
    <2>2. handler'.pc # "wait"
      <3>1. CASE Goto("prepare") \/ Goto("list") \/ Return \/ Throw
        BY <3>1 DEF Goto, Return, Throw, Idle, TypeOK, HandlerTypeOK, Handler
      <3>2. CASE handler' = [handler EXCEPT !.pc = "list", !.refund = refunded[Current]]
        BY <3>2 DEF TypeOK, HandlerTypeOK, Handler
      <3> QED BY <1>3, <3>1, <3>2 DEF Fetch, Catch
    <2> QED BY <2>1, <2>2, QuietStep
  <1>4. CASE FetchFails \/ CheckFails \/ PrepareOrListFails \/ FinishFails \/ CatchFails
    <2>1. UNCHANGED <<ship, jobs, processed>>
      BY <1>4 DEF FetchFails, CheckFails, PrepareOrListFails, FinishFails, CatchFails
    <2>2. Goto("catch") \/ Throw \/ Swallow
      BY <1>4 DEF FetchFails, CheckFails, PrepareOrListFails, FinishFails, CatchFails, Reject
    <2>3. handler'.pc # "wait"
      BY <2>2 DEF Goto, Throw, Swallow, Idle, TypeOK, HandlerTypeOK, Handler
    <2> QED BY <2>1, <2>3, QuietStep
  <1>5. CASE Crash
    <2>1. handler'.pc # "wait" /\ jobs' = {} /\ UNCHANGED <<ship, processed>>
      BY <1>5 DEF Crash, Throw, Idle
    <2> QED BY <2>1 DEF ShipInv, CopiesFresh, NoPartMissing, ProcessedComplete, OrdersOf
  <1>6. CASE UNCHANGED vars
    BY <1>6 DEF vars, ShipInv, CopiesFresh, NoPartMissing, ProcessedComplete, OrdersOf,
                Queued, Current
  <1>7. CASE Prepare \/ List \/ Finish
    BY <1>7, PrepareShip, ListShip, FinishShip
  <1>8. ASSUME NEW j \in jobs, JobDone(j) \/ JobFails(j) PROVE ShipInv'
    BY <1>8, JobShip
  <1>9. CASE HandlerNext
    BY <1>3, <1>7, <1>8, <1>9 DEF HandlerNext
  <1>10. CASE FailNext
    BY <1>4, <1>5, <1>8, <1>10 DEF FailNext
  <1> QED BY <1>1, <1>2, <1>6, <1>9, <1>10 DEF Next

LEMMA ShipInvariant == Spec => [](TypeOK /\ ShipInv)
  <1>1. Init => ShipInv
    BY DEF Init, ShipInv, CopiesFresh, NoPartMissing, ProcessedComplete, Idle
  <1> QED BY <1>1, StepShip, WebTypes, PTL DEF Spec

\* A processed order of BigCommerce has an order of ShipStation for every part.
THEOREM ProcessedIsComplete == Spec => []ProcessedComplete
  <1>1. ShipInv => ProcessedComplete
    BY DEF ShipInv
  <1> QED BY <1>1, ShipInvariant, PTL

\* No step takes back a cancellation.
THEOREM CancellationStays == Spec => CancelStays
  <1>1. TypeOK /\ ShipInv /\ [Next]_vars
           => [\A i \in DOMAIN ship :
                 ship[i].state = "cancelled" => ship'[i].state = "cancelled"]_vars
    <2> SUFFICES ASSUME TypeOK, ShipInv, Next, NEW i \in DOMAIN ship,
                        ship[i].state = "cancelled"
                 PROVE  ship'[i].state = "cancelled"
      BY DEF vars
    <2>1. ship' = ship \/ \E j \in jobs : ship' \in {ship, Applied(j)}
      BY DEF Next, ShopNext, HandlerNext, FailNext, Resolve, Change, Refund, Fetch, Prepare,
             List, Finish, Catch, JobDone, FetchFails, CheckFails, PrepareOrListFails,
             FinishFails, CatchFails, Crash, JobFails, Deliver
    <2> QED BY <2>1, PlacesKept DEF TypeOK, ShipInv
  <1> QED BY <1>1, ShipInvariant, PTL DEF Spec, CancelStays

-----------------------------------------------------------------------------
(* MadeInv: no orders but those of failed attempts and of one that did not *)
(* fail.                                                                   *)

LEMMA CountType ==
    ASSUME ShipTypeOK, NEW o, NEW p
    PROVE  IsFiniteSet(OrdersOf(o, p)) /\ Cardinality(OrdersOf(o, p)) \in Nat
  <1>1. DOMAIN ship = 1 .. Len(ship) /\ Len(ship) \in Nat
    BY LenProperties DEF ShipTypeOK
  <1>2. IsFiniteSet(1 .. Len(ship)) /\ OrdersOf(o, p) \subseteq 1 .. Len(ship)
    BY <1>1, FS_Interval DEF OrdersOf
  <1>3. IsFiniteSet(OrdersOf(o, p))
    BY <1>2, FS_Subset
  <1> QED BY <1>3, FS_CardinalityType

Makes(j, o, p) == j.at = 0 /\ j.row.order = o /\ j.row.part = p

\* Only a request for a part makes an order of the part, at the end.
LEMMA NewOrder ==
    ASSUME ShipTypeOK, CopiesFresh, NEW j \in jobs, ship' \in {ship, Applied(j)},
           NEW o, NEW p
    PROVE  \A i \in OrdersOf(o, p)' : i \in OrdersOf(o, p) \/ (Makes(j, o, p) /\ i = Len(ship) + 1)
  <1> SUFFICES ASSUME NEW i \in DOMAIN ship', ship'[i].order = o, ship'[i].part = p,
                      i \notin OrdersOf(o, p)
               PROVE  Makes(j, o, p) /\ i = Len(ship) + 1
    BY DEF OrdersOf
  <1>1. i \notin DOMAIN ship
    BY PlacesKept DEF OrdersOf
  <1>2. ship' = Applied(j) /\ Applied(j) \in Seq(ShipOrder)
    BY <1>1, AppliedFacts
  <1>3. /\ Len(ship') = IF j.at = 0 THEN Len(ship) + 1 ELSE Len(ship)
        /\ j.at = 0 => ship'[Len(ship) + 1] = j.row
    BY <1>2, AppliedFacts
  <1>4. /\ DOMAIN ship' = 1 .. Len(ship') /\ DOMAIN ship = 1 .. Len(ship)
        /\ Len(ship) \in Nat
    BY <1>2, LenProperties DEF ShipTypeOK
  <1>5. j.at = 0 /\ i = Len(ship) + 1
    BY <1>1, <1>3, <1>4
  <1> QED BY <1>3, <1>5 DEF Makes

\* A request makes one order of the part it is for, or none.
LEMMA JobCount ==
    ASSUME ShipTypeOK, CopiesFresh, NEW j \in jobs, ship' \in {ship, Applied(j)},
           NEW o, NEW p
    PROVE  /\ Cardinality(OrdersOf(o, p))' \in Nat
           /\ Cardinality(OrdersOf(o, p))'
                 <= Cardinality(OrdersOf(o, p)) + (IF Makes(j, o, p) THEN 1 ELSE 0)
  <1> DEFINE old == OrdersOf(o, p)
             new == OrdersOf(o, p)'
             top == Len(ship) + 1
  <1>1. IsFiniteSet(old) /\ Cardinality(old) \in Nat
    BY CountType
  <1>3. new \subseteq old \cup (IF Makes(j, o, p) THEN {top} ELSE {})
    BY NewOrder
  <1>4. /\ IsFiniteSet(old \cup {top})
        /\ Cardinality(old \cup {top}) <= Cardinality(old) + 1
        /\ Cardinality(old \cup {top}) \in Nat
    <2>1. /\ IsFiniteSet(old \cup {top})
          /\ Cardinality(old \cup {top}) = IF top \in old THEN Cardinality(old)
                                           ELSE Cardinality(old) + 1
      BY <1>1, FS_AddElement
    <2> QED BY <1>1, <2>1
  <1> HIDE DEF old, new, top
  <1>5. IsFiniteSet(new) /\ Cardinality(new) <= Cardinality(old) + (IF Makes(j, o, p) THEN 1 ELSE 0)
    <2>1. CASE Makes(j, o, p)
      <3>1. new \in SUBSET (old \cup {top})
        BY <1>3, <2>1
      <3>2. IsFiniteSet(new) /\ Cardinality(new) <= Cardinality(old \cup {top})
        BY <1>4, <3>1, FS_Subset
      <3>3. Cardinality(new) \in Nat
        BY <3>2, FS_CardinalityType
      <3> QED BY <1>1, <1>4, <2>1, <3>2, <3>3
    <2>2. CASE ~Makes(j, o, p)
      <3>1. new \in SUBSET old
        BY <1>3, <2>2
      <3>2. IsFiniteSet(new) /\ Cardinality(new) <= Cardinality(old)
        BY <1>1, <3>1, FS_Subset
      <3> QED BY <1>1, <2>2, <3>2
    <2> QED BY <2>1, <2>2
  <1>6. Cardinality(new) \in Nat
    BY <1>5, FS_CardinalityType
  <1> QED BY <1>5, <1>6 DEF new, old

\* The count after a step that makes no orders: an attempt that ends without a
\* record costs a failure.
LEMMA QuietCount ==
    ASSUME TypeOK, CountedOrders, ship' = ship, failed' \in [Order -> Nat],
           \A o \in HasTxn :
              /\ \A p \in Part : Queued(o, p)' => Queued(o, p)
              /\ failed[o] <= failed'[o]
              /\ o \in processed \/ Attempt(o) =>
                    \/ (o \in processed \/ Attempt(o))'
                    \/ failed'[o] = failed[o] + 1
    PROVE  CountedOrders'
  <1> SUFFICES ASSUME NEW o \in HasTxn, NEW p \in Part
               PROVE  (Cardinality(OrdersOf(o, p)) + (IF Queued(o, p) THEN 1 ELSE 0)
                        <= failed[o] + (IF o \in processed \/ Attempt(o) THEN 1 ELSE 0))'
    BY DEF CountedOrders
  <1>1. o \in Order /\ failed[o] \in Nat /\ failed'[o] \in Nat
    BY WebAssumption DEF TypeOK
  <1>2. Cardinality(OrdersOf(o, p)) \in Nat
    BY CountType DEF TypeOK
  <1>3. Cardinality(OrdersOf(o, p))' = Cardinality(OrdersOf(o, p))
    BY DEF OrdersOf
  <1>4. Cardinality(OrdersOf(o, p)) + (IF Queued(o, p) THEN 1 ELSE 0)
           <= failed[o] + (IF o \in processed \/ Attempt(o) THEN 1 ELSE 0)
    BY DEF CountedOrders
  <1> QED BY <1>1, <1>2, <1>3, <1>4

LEMMA PrepareMade == TypeOK /\ MadeInv /\ Prepare => MadeInv'
  <1> SUFFICES ASSUME TypeOK, MadeInv, Prepare PROVE MadeInv'
    OBVIOUS
  <1>1. Current' = Current /\ handler'.pc = "wait" /\ handler'.kind = "create"
        /\ Current \notin processed
    BY DEF Prepare, Goto, Current, TypeOK, HandlerTypeOK, Handler, MadeInv, OneAttempt
  <1>2. \A j \in jobs' : /\ j.at = 0 /\ j.row.order = Current
                         /\ \E p \in Part : j = [at |-> 0, row |-> [order |-> Current, part |-> p,
                                                  state |-> "awaiting", refund |-> 0]]
    BY DEF Prepare
  <1>3. OneAttempt'
    <2>1. \A j, k \in jobs' : j.row.part = k.row.part => j = k
      BY <1>2
    <2> QED BY <1>1, <1>2, <2>1 DEF OneAttempt
  <1>4. CountedOrders'
    <2> SUFFICES ASSUME NEW o \in HasTxn, NEW p \in Part
                 PROVE  (Cardinality(OrdersOf(o, p)) + (IF Queued(o, p) THEN 1 ELSE 0)
                          <= failed[o] + (IF o \in processed \/ Attempt(o) THEN 1 ELSE 0))'
      BY DEF CountedOrders
    <2>1. o \in Order /\ failed[o] \in Nat /\ failed' = failed /\ processed' = processed
      BY WebAssumption DEF TypeOK, Prepare
    <2>2. Cardinality(OrdersOf(o, p)) \in Nat
      BY CountType DEF TypeOK
    <2>3. Cardinality(OrdersOf(o, p))' = Cardinality(OrdersOf(o, p))
      BY DEF OrdersOf, Prepare
    <2>4. ~Queued(o, p) /\ ~Attempt(o)
      BY DEF Prepare, Queued, Attempt
    <2>5. Cardinality(OrdersOf(o, p)) <= failed[o] + (IF o \in processed THEN 1 ELSE 0)
      BY <2>1, <2>2, <2>4 DEF MadeInv, CountedOrders
    <2>6. Queued(o, p)' => Attempt(o)' /\ o \notin processed
      BY <1>1, <1>2 DEF Queued, Attempt
    <2> QED BY <2>1, <2>2, <2>3, <2>5, <2>6
  <1> QED BY <1>3, <1>4 DEF MadeInv

\* A request that is done or fails.
LEMMA JobMade ==
    ASSUME TypeOK, ShipInv, MadeInv, NEW j \in jobs, JobDone(j) \/ JobFails(j)
    PROVE  MadeInv'
  <1>1. /\ ship' \in {ship, Applied(j)} /\ jobs' = jobs \ {j} /\ processed' = processed
        /\ sent' = sent /\ ShipTypeOK /\ CopiesFresh
    BY DEF JobDone, JobFails, TypeOK, ShipInv
  <1>2. \/ JobDone(j) /\ handler' = handler /\ failed' = failed /\ Current' = Current
        \/ /\ JobFails(j) /\ failed' = [failed EXCEPT ![j.row.order] = @ + 1]
           /\ \/ handler'.pc \notin {"wait", "prepare"}
              \/ handler' = handler /\ handler.pc # "wait"
    <2>1. CASE JobDone(j)
      BY <2>1 DEF JobDone, Current
    <2>2. CASE JobFails(j)
      <3>1. handler.pc = "wait" => handler'.pc \notin {"wait", "prepare"}
        BY <2>2 DEF JobFails, Reject, Goto, Swallow, Idle, TypeOK, HandlerTypeOK, Handler
      <3>2. handler.pc # "wait" => handler' = handler
        BY <2>2 DEF JobFails
      <3>3. failed' = [failed EXCEPT ![j.row.order] = @ + 1]
        BY <2>2 DEF JobFails, Fault
      <3> QED BY <2>2, <3>1, <3>2, <3>3
    <2> QED BY <2>1, <2>2
  <1>3. (Current' = Current) \/ handler'.pc \notin {"wait", "prepare"}
    BY <1>1, <1>2 DEF Current
  <1>4. OneAttempt'
    BY <1>1, <1>2, <1>3 DEF MadeInv, OneAttempt
  <1>5. CountedOrders'
    <2> SUFFICES ASSUME NEW o \in HasTxn, NEW p \in Part
                 PROVE  (Cardinality(OrdersOf(o, p)) + (IF Queued(o, p) THEN 1 ELSE 0)
                          <= failed[o] + (IF o \in processed \/ Attempt(o) THEN 1 ELSE 0))'
      BY DEF CountedOrders
    <2> DEFINE c == Cardinality(OrdersOf(o, p))
               d == Cardinality(OrdersOf(o, p))'
               q == IF Queued(o, p) THEN 1 ELSE 0
               r == IF Queued(o, p)' THEN 1 ELSE 0
               m == IF Makes(j, o, p) THEN 1 ELSE 0
               a == IF o \in processed \/ Attempt(o) THEN 1 ELSE 0
               b == IF o \in processed' \/ Attempt(o)' THEN 1 ELSE 0
    <2>1. c \in Nat /\ d \in Nat /\ d <= c + m
      BY <1>1, CountType, JobCount
    <2>2. c + q <= failed[o] + a
      BY DEF MadeInv, CountedOrders
    <2>3. m + r <= q
      <3>1. CASE Makes(j, o, p)
        <4>1. Queued(o, p)
          BY <3>1 DEF Makes, Queued
        <4>2. ~Queued(o, p)'
          <5>1. ASSUME NEW k \in jobs', k.at = 0, k.row.order = o, k.row.part = p PROVE FALSE
            BY <1>1, <3>1, <5>1 DEF Makes, MadeInv, OneAttempt
          <5> QED BY <5>1 DEF Queued
        <4> QED BY <4>1, <4>2
      <3>2. CASE ~Makes(j, o, p)
        <4>1. Queued(o, p)' => Queued(o, p)
          BY <1>1 DEF Queued
        <4> QED BY <3>2, <4>1
      <3> QED BY <3>1, <3>2
    <2>4. failed[o] \in Nat /\ failed'[o] \in Nat /\ failed[o] + a <= failed'[o] + b
      <3>1. o \in Order /\ failed \in [Order -> Nat] /\ j.row.order \in Order
        BY WebAssumption, JobOrder DEF TypeOK
      <3>2. CASE handler' = handler /\ failed' = failed /\ Current' = Current
        <4>1. Attempt(o)' <=> Attempt(o)
          BY <3>2 DEF Attempt
        <4> QED BY <1>1, <3>1, <3>2, <4>1
      <3>3. CASE /\ failed' = [failed EXCEPT ![j.row.order] = @ + 1]
                 /\ \/ handler'.pc # "wait"
                    \/ handler' = handler /\ handler.pc # "wait"
        <4>1. failed'[o] = IF o = j.row.order THEN failed[o] + 1 ELSE failed[o]
          BY <3>1, <3>3
        <4>2. Attempt(o) => o = j.row.order
          BY DEF Attempt, MadeInv, OneAttempt
        <4>3. o \in processed' <=> o \in processed
          BY <1>1
        <4> QED BY <3>1, <4>1, <4>2, <4>3
      <3> QED BY <1>2, <3>2, <3>3
    <2>5. q \in {0, 1} /\ r \in {0, 1} /\ m \in {0, 1} /\ a \in {0, 1} /\ b \in {0, 1}
      OBVIOUS
    <2>6. d + r <= failed'[o] + b
      <3> HIDE DEF c, d, q, r, m, a, b
      <3> QED BY <2>1, <2>2, <2>3, <2>4, <2>5
    <2> QED BY <2>6
  <1> QED BY <1>4, <1>5 DEF MadeInv

LEMMA StepMade == TypeOK /\ ShipInv /\ MadeInv /\ [Next]_vars => MadeInv'
  <1> SUFFICES ASSUME TypeOK, ShipInv, MadeInv, [Next]_vars PROVE MadeInv'
    OBVIOUS
  <1>0. TypeOK' /\ failed' \in [Order -> Nat]
    BY StepType DEF TypeOK
  <1>1. CASE ShopNext
    <2>1. UNCHANGED <<ship, jobs, processed, handler, failed>>
      BY <1>1 DEF ShopNext, Resolve, Change, Refund
    <2>2. handler.pc # "idle" => Current' = Current
      BY <1>1, <2>1, CurrentKept
    <2>3. OneAttempt'
      BY <2>1, <2>2 DEF MadeInv, OneAttempt
    <2>4. \A o \in HasTxn : /\ \A p \in Part : Queued(o, p)' <=> Queued(o, p)
                            /\ Attempt(o)' <=> Attempt(o)
      BY <2>1, <2>2 DEF Queued, Attempt
    <2>5. CountedOrders'
      <3>1. \A o \in HasTxn : failed[o] \in Nat
        BY WebAssumption DEF TypeOK
      <3> QED BY <1>0, <2>1, <2>4, <3>1, QuietCount DEF MadeInv
    <2> QED BY <2>3, <2>5 DEF MadeInv
  <1>2. ASSUME UNCHANGED <<ship, processed, failed>>, handler.pc # "wait", handler'.pc # "wait",
               jobs' = jobs \/ \A k \in jobs' : k.at # 0,
               handler'.pc = "prepare" => handler'.kind = "create" /\ Current' \notin processed
        PROVE  MadeInv'
    <2>1. OneAttempt'
      BY <1>2 DEF MadeInv, OneAttempt
    <2>2. \A o \in HasTxn : /\ \A p \in Part : Queued(o, p)' => Queued(o, p)
                            /\ ~Attempt(o)
      BY <1>2 DEF Queued, Attempt
    <2>3. \A o \in HasTxn : failed[o] \in Nat
      BY WebAssumption DEF TypeOK
    <2> QED BY <1>0, <1>2, <2>1, <2>2, <2>3, QuietCount DEF MadeInv
  <1>3. ASSUME NEW n \in DOMAIN sent, Deliver(n) PROVE MadeInv'
    <2>1. /\ UNCHANGED <<ship, processed, failed, jobs>>
          /\ handler.pc = "idle" /\ handler'.pc \in {"idle", "fetch"}
      BY <1>3 DEF Deliver
    <2> QED BY <1>2, <2>1
  <1>4. CASE Fetch
    <2>1. UNCHANGED <<ship, processed, failed, jobs, sent>> /\ handler.pc = "fetch"
      BY <1>4 DEF Fetch
    <2>2. \/ Goto("prepare") /\ handler.kind = "create" /\ Current \notin processed
          \/ Goto("list") \/ Return
          \/ handler' = [handler EXCEPT !.pc = "list", !.refund = refunded[Current]]
      BY <1>4 DEF Fetch
    <2>3. /\ handler'.pc # "wait"
          /\ handler'.pc = "prepare" => handler'.kind = "create" /\ Current' \notin processed
      <3>1. CASE Goto("prepare") /\ handler.kind = "create" /\ Current \notin processed
        BY <2>1, <3>1 DEF Goto, Current, TypeOK, HandlerTypeOK, Handler
      <3>2. CASE Goto("list") \/ Return
        BY <3>2 DEF Goto, Return, Idle, TypeOK, HandlerTypeOK, Handler
      <3>3. CASE handler' = [handler EXCEPT !.pc = "list", !.refund = refunded[Current]]
        BY <3>3 DEF TypeOK, HandlerTypeOK, Handler
      <3> QED BY <2>2, <3>1, <3>2, <3>3
    <2> QED BY <1>2, <2>1, <2>3
  <1>5. CASE Catch
    <2>1. UNCHANGED <<ship, processed, failed, jobs>> /\ handler.pc = "catch"
      BY <1>5 DEF Catch
    <2>2. handler'.pc = "idle"
      BY <1>5 DEF Catch, Return, Throw, Idle
    <2> QED BY <1>2, <2>1, <2>2
  <1>6. CASE List
    <2>1. /\ UNCHANGED <<ship, processed, failed>> /\ handler.pc = "list" /\ jobs = {}
          /\ handler'.pc = "wait" /\ handler'.kind # "create"
      BY <1>6 DEF List, Goto, TypeOK, HandlerTypeOK, Handler
    <2>2. \A k \in jobs' : k.at # 0
      <3>1. DOMAIN ship = 1 .. Len(ship)
        BY LenProperties DEF TypeOK, ShipTypeOK
      <3> QED BY <1>6, <3>1 DEF List, Found
    <2>3. OneAttempt'
      BY <2>1, <2>2 DEF OneAttempt
    <2>4. \A o \in HasTxn : /\ \A p \in Part : ~Queued(o, p)'
                            /\ ~Attempt(o)
      BY <2>1, <2>2 DEF Queued, Attempt
    <2>5. \A o \in HasTxn : failed[o] \in Nat
      BY WebAssumption DEF TypeOK
    <2> QED BY <1>0, <2>1, <2>3, <2>4, <2>5, QuietCount DEF MadeInv
  <1>7. CASE Finish
    <2>1. /\ UNCHANGED <<ship, failed, jobs>> /\ jobs = {} /\ handler'.pc = "idle"
          /\ processed \subseteq processed'
      BY <1>7 DEF Finish, Return, Idle
    <2>2. OneAttempt'
      BY <2>1 DEF OneAttempt
    <2>3. \A o \in HasTxn : /\ \A p \in Part : ~Queued(o, p)'
                            /\ Attempt(o) => o \in processed'
      BY <1>7, <2>1 DEF Finish, Queued, Attempt
    <2>4. \A o \in HasTxn : failed[o] \in Nat
      BY WebAssumption DEF TypeOK
    <2> QED BY <1>0, <2>1, <2>2, <2>3, <2>4, QuietCount DEF MadeInv
  <1>8. ASSUME handler.pc # "idle", Fault(Current), UNCHANGED <<ship, processed>>,
               jobs' \subseteq jobs, handler'.pc \notin {"wait", "prepare"}
        PROVE  MadeInv'
    <2>1. OneAttempt'
      BY <1>8 DEF MadeInv, OneAttempt
    <2>2. \A o \in HasTxn : /\ \A p \in Part : Queued(o, p)' => Queued(o, p)
                            /\ Attempt(o) => o = Current
      BY <1>8 DEF Queued, Attempt
    <2>3. /\ Current \in Order /\ failed \in [Order -> Nat]
          /\ failed' = [failed EXCEPT ![Current] = failed[Current] + 1]
      BY <1>8, CurrentType DEF Fault, TypeOK
    <2>4. \A o \in HasTxn :
             /\ failed[o] \in Nat
             /\ failed'[o] = IF o = Current THEN failed[o] + 1 ELSE failed[o]
      BY <2>3, WebAssumption
    <2> HIDE DEF Current
    <2>5. \A o \in HasTxn : /\ failed[o] <= failed'[o]
                            /\ Attempt(o) => failed'[o] = failed[o] + 1
      BY <2>2, <2>4
    <2> QED BY <1>0, <1>8, <2>1, <2>2, <2>5, QuietCount DEF MadeInv
  <1>9. CASE FetchFails \/ CheckFails \/ PrepareOrListFails \/ FinishFails \/ CatchFails
    <2>1. handler.pc # "idle" /\ Fault(Current) /\ UNCHANGED <<ship, jobs, processed>>
      BY <1>9 DEF FetchFails, CheckFails, PrepareOrListFails, FinishFails, CatchFails
    <2>2. Goto("catch") \/ Throw \/ Swallow
      BY <1>9 DEF FetchFails, CheckFails, PrepareOrListFails, FinishFails, CatchFails, Reject
    <2>3. handler'.pc \notin {"wait", "prepare"}
      BY <2>2 DEF Goto, Throw, Swallow, Idle, TypeOK, HandlerTypeOK, Handler
    <2> QED BY <1>8, <2>1, <2>3
  <1>10. CASE Crash
    <2>1. jobs' = {} /\ UNCHANGED <<ship, processed>>
      BY <1>10 DEF Crash
    <2>2. CASE handler.pc # "idle" /\ Fault(Current) /\ Throw
      <3>1. handler'.pc = "idle"
        BY <2>2 DEF Throw, Idle
      <3> QED BY <1>8, <2>1, <2>2, <3>1
    <2>3. CASE handler.pc = "idle" /\ handler' = handler /\ \E j \in jobs : Fault(j.row.order)
      <3>1. OneAttempt'
        BY <2>1, <2>3 DEF OneAttempt
      <3>2. \A o \in HasTxn : (\A p \in Part : ~Queued(o, p)') /\ ~Attempt(o)
        BY <2>1, <2>3 DEF Queued, Attempt
      <3>3. \A o \in HasTxn : failed[o] <= failed'[o]
        <4> SUFFICES ASSUME NEW o \in HasTxn, NEW j \in jobs, Fault(j.row.order)
                     PROVE  failed[o] <= failed'[o]
          BY <2>3
        <4>1. o \in Order /\ j.row.order \in Order /\ failed \in [Order -> Nat]
          BY WebAssumption, JobOrder DEF TypeOK
        <4> QED BY <4>1 DEF Fault
      <3> QED BY <1>0, <2>1, <3>1, <3>2, <3>3, QuietCount DEF MadeInv
    <2> QED BY <1>10, <2>2, <2>3 DEF Crash
  <1>11. CASE UNCHANGED vars
    <2>1. UNCHANGED <<ship, jobs, processed, handler, failed, sent>>
      BY <1>11 DEF vars
    <2> QED BY <2>1 DEF MadeInv, OneAttempt, CountedOrders, Attempt, Queued, OrdersOf, Current
  <1>12. CASE Prepare
    BY <1>12, PrepareMade
  <1>13. ASSUME NEW j \in jobs, JobDone(j) \/ JobFails(j) PROVE MadeInv'
    BY <1>13, JobMade
  <1>14. CASE HandlerNext
    BY <1>4, <1>5, <1>6, <1>7, <1>12, <1>13, <1>14 DEF HandlerNext
  <1>15. CASE FailNext
    BY <1>9, <1>10, <1>13, <1>15 DEF FailNext
  <1> QED BY <1>1, <1>3, <1>11, <1>14, <1>15 DEF Next

LEMMA MadeInvariant == Spec => []MadeInv
  <1>1. Init => MadeInv
    <2> SUFFICES ASSUME Init PROVE OneAttempt /\ CountedOrders
      BY DEF MadeInv
    <2>1. OneAttempt
      BY DEF Init, OneAttempt, Idle
    <2>2. \A o, p : OrdersOf(o, p) = {} /\ ~Queued(o, p)
      BY DEF Init, OrdersOf, Queued
    <2>3. \A o \in HasTxn : failed[o] = 0 /\ ~Attempt(o)
      BY WebAssumption DEF Init, Attempt, Idle
    <2>4. processed = {} /\ Cardinality({}) = 0
      BY FS_EmptySet DEF Init
    <2> QED BY <2>1, <2>2, <2>3, <2>4 DEF CountedOrders
  <1> QED BY <1>1, StepMade, ShipInvariant, PTL DEF Spec

\* An order with a transaction has at most one order for each part more than
\* failures met with it.
THEOREM MadeOnceInvariant == Spec => []MadeOnce
  <1>1. TypeOK /\ MadeInv => MadeOnce
    <2> SUFFICES ASSUME TypeOK, MadeInv, NEW o \in HasTxn, NEW p \in Part
                 PROVE  Cardinality(OrdersOf(o, p)) <= 1 + failed[o]
      BY DEF MadeOnce
    <2>1. Cardinality(OrdersOf(o, p)) \in Nat /\ failed[o] \in Nat
      BY CountType, WebAssumption DEF TypeOK
    <2> QED BY <2>1 DEF MadeInv, CountedOrders
  <1> QED BY <1>1, MadeInvariant, ShipInvariant, PTL

-----------------------------------------------------------------------------
(* RecordInv: whatever was made for an order is accounted for.             *)

\* What a handler's end, or another of its steps, leaves of its account.
LEMMA AccountKept ==
    ASSUME TypeOK, RecordInv, NEW o \in HasTxn, Accounted(o), sent' = sent,
           processed \subseteq processed', issues \subseteq issues', resolved' = resolved,
           \/ \E label \in {"prepare", "list", "wait", "catch"} : Goto(label)
           \/ Throw \/ Swallow
           \/ Return /\ (handler.kind = "create" /\ Current = o => o \in processed' \cup issues'),
           handler.pc # "idle"
    PROVE  Accounted(o)'
  <1>1. CASE o \in processed \cup issues \cup resolved
    BY <1>1 DEF Accounted
  <1>2. CASE <<o, "create">> \in dropped
    BY <1>2 DEF Accounted, Goto, Return, Throw, Swallow
  <1>3. CASE Busy(o)
    <2>1. handler.kind = "create" /\ Current = o
      BY <1>3 DEF Busy
    <2>2. CASE \E label \in {"prepare", "list", "wait", "catch"} : Goto(label)
      <3>1. handler'.pc # "idle" /\ handler'.kind = "create" /\ handler'.hook = handler.hook
        BY <2>1, <2>2 DEF Goto, TypeOK, HandlerTypeOK, Handler
      <3>2. Current' = Current
        BY <3>1 DEF Current
      <3>3. Busy(o)'
        BY <2>1, <3>1, <3>2 DEF Busy
      <3> QED BY <3>3 DEF Accounted
    <2>3. CASE Throw
      <3>1. CreateHook(handler.hook, o) /\ handler.hook \in pending'
        BY <1>3, <2>1, <2>3 DEF Throw, CreateHook, RecordInv, Current, Busy
      <3> QED BY <3>1 DEF Accounted, CreateHook, KindOf
    <2>4. CASE Swallow
      BY <2>1, <2>4 DEF Accounted, Swallow
    <2>5. CASE Return /\ o \in processed' \cup issues'
      BY <2>5 DEF Accounted
    <2> QED BY <2>1, <2>2, <2>3, <2>4, <2>5
  <1>4. ASSUME NEW n \in pending, CreateHook(n, o) PROVE Accounted(o)'
    <2>1. CASE n \in pending'
      BY <1>4, <2>1 DEF Accounted, CreateHook, KindOf
    <2>2. CASE n \notin pending'
      <3>1. /\ n = handler.hook
            /\ \/ Swallow
               \/ (handler.kind = "create" /\ Current = o) => o \in processed' \cup issues'
        BY <2>2 DEF Goto, Return, Throw, Swallow
      <3>2. handler.kind = "create" /\ Current = o
        BY <1>4, <3>1 DEF RecordInv, CreateHook, Current
      <3>3. CASE Swallow
        BY <3>2, <3>3 DEF Accounted, Swallow
      <3>4. CASE o \in processed' \cup issues'
        BY <3>4 DEF Accounted
      <3> QED BY <3>1, <3>2, <3>3, <3>4
    <2> QED BY <2>1, <2>2
  <1> QED BY <1>1, <1>2, <1>3, <1>4 DEF Accounted

\* A step that makes nothing and queues nothing.
LEMMA QuietRecord ==
    ASSUME RecordInv, ship' = ship, jobs' \subseteq jobs,
           handler'.pc # "idle" => handler'.kind = KindOf(sent'[handler'.hook]),
           \A o \in HasTxn : Accounted(o) => Accounted(o)'
    PROVE  RecordInv'
  BY DEF RecordInv, OrdersOf, Queued

\* The hook a handler is about does not change while it goes on.
LEMMA KindKept ==
    ASSUME TypeOK, RecordInv, handler.pc # "idle", sent' = sent,
           (\E label \in {"prepare", "list", "wait", "catch"} : Goto(label))
              \/ Throw \/ Swallow \/ Return
    PROVE  handler'.pc # "idle" => handler'.kind = KindOf(sent'[handler'.hook])
  <1>1. CASE \E label \in {"prepare", "list", "wait", "catch"} : Goto(label)
    <2>1. handler'.kind = handler.kind /\ handler'.hook = handler.hook
      BY <1>1 DEF Goto, TypeOK, HandlerTypeOK, Handler
    <2> QED BY <2>1 DEF RecordInv
  <1>2. CASE Throw \/ Swallow \/ Return
    BY <1>2 DEF Throw, Swallow, Return, Idle
  <1> QED BY <1>1, <1>2

LEMMA JobRecord ==
    ASSUME TypeOK, ShipInv, RecordInv, NEW j \in jobs, JobDone(j) \/ JobFails(j)
    PROVE  RecordInv'
  <1>1. /\ ship' \in {ship, Applied(j)} /\ jobs' = jobs \ {j} /\ sent' = sent
        /\ UNCHANGED records /\ ShipTypeOK /\ CopiesFresh
    BY DEF JobDone, JobFails, TypeOK, ShipInv
  <1>2. \/ UNCHANGED <<handler, pending, dropped>>
        \/ handler.pc # "idle" /\ (Goto("catch") \/ Swallow)
    BY DEF JobDone, JobFails, Reject
  <1>3. \A o \in HasTxn : Accounted(o) => Accounted(o)'
    <2>1. CASE UNCHANGED <<handler, pending, dropped>>
      BY <1>1, <2>1 DEF Accounted, Busy, Current, CreateHook, KindOf
    <2>2. CASE handler.pc # "idle" /\ (Goto("catch") \/ Swallow)
      BY <1>1, <2>2, AccountKept
    <2> QED BY <1>2, <2>1, <2>2
  <1>4. handler'.pc # "idle" => handler'.kind = KindOf(sent'[handler'.hook])
    <2>1. CASE UNCHANGED <<handler, pending, dropped>>
      BY <1>1, <2>1 DEF RecordInv
    <2>2. CASE handler.pc # "idle" /\ (Goto("catch") \/ Swallow)
      BY <1>1, <2>2, KindKept
    <2> QED BY <1>2, <2>1, <2>2
  <1>5. ASSUME NEW o \in HasTxn, NEW p \in Part, OrdersOf(o, p)' # {} \/ Queued(o, p)'
        PROVE  OrdersOf(o, p) # {} \/ Queued(o, p)
    <2>1. CASE Queued(o, p)'
      BY <1>1, <2>1 DEF Queued
    <2>2. CASE OrdersOf(o, p)' # {} /\ OrdersOf(o, p) = {}
      <3>1. Makes(j, o, p)
        BY <1>1, <2>2, NewOrder
      <3> QED BY <3>1 DEF Makes, Queued
    <2> QED BY <1>5, <2>1, <2>2
  <1> QED BY <1>3, <1>4, <1>5 DEF RecordInv

LEMMA StepRecord == TypeOK /\ ShipInv /\ MadeInv /\ RecordInv /\ [Next]_vars => RecordInv'
  <1> SUFFICES ASSUME TypeOK, ShipInv, MadeInv, RecordInv, [Next]_vars PROVE RecordInv'
    OBVIOUS
  <1>1. CASE ShopNext
    <2>1. /\ UNCHANGED <<ship, jobs, processed, handler, dropped>>
          /\ pending \subseteq pending'
          /\ issues \cup resolved \subseteq issues' \cup resolved'
      BY <1>1 DEF ShopNext, Resolve, Change, Refund, Send
    <2>2. \A n \in DOMAIN sent : sent'[n] = sent[n]
      BY <1>1, SentKept
    <2>3. handler.pc # "idle" => sent'[handler.hook] = sent[handler.hook]
      BY <2>2 DEF TypeOK, HandlerTypeOK
    <2>4. \A o \in HasTxn : Accounted(o) => Accounted(o)'
      <3> SUFFICES ASSUME NEW o \in HasTxn, Accounted(o) PROVE Accounted(o)'
        OBVIOUS
      <3>1. CASE Busy(o)
        BY <2>1, <2>3, <3>1 DEF Accounted, Busy, Current
      <3>2. ASSUME NEW n \in pending, CreateHook(n, o) PROVE Accounted(o)'
        <4>1. n \in pending' /\ sent'[n] = sent[n]
          BY <2>1, <2>2 DEF TypeOK, HooksTypeOK
        <4> QED BY <3>2, <4>1 DEF Accounted, CreateHook, KindOf
      <3>3. CASE o \in processed \cup issues \cup resolved \/ <<o, "create">> \in dropped
        BY <2>1, <3>3 DEF Accounted
      <3> QED BY <3>1, <3>2, <3>3 DEF Accounted
    <2>5. handler'.pc # "idle" => handler'.kind = KindOf(sent'[handler'.hook])
      BY <2>1, <2>3 DEF RecordInv
    <2> QED BY <2>1, <2>4, <2>5, QuietRecord
  <1>2. ASSUME NEW n \in DOMAIN sent, Deliver(n) PROVE RecordInv'
    <2>1. /\ UNCHANGED <<ship, jobs, records, sent, dropped>> /\ handler.pc = "idle"
          /\ \/ pending' = pending \ {n} /\ handler' = handler /\ KindOf(sent[n]) = "-"
             \/ /\ pending' = pending
                /\ handler' = [pc |-> "fetch", hook |-> n, kind |-> KindOf(sent[n]), refund |-> 0]
      BY <1>2 DEF Deliver
    <2>2. handler'.pc # "idle" => handler'.kind = KindOf(sent'[handler'.hook])
      BY <2>1 DEF RecordInv
    <2>3. \A k \in pending, o \in HasTxn : CreateHook(k, o) => k \in pending'
      BY <2>1 DEF CreateHook
    <2>4. \A o \in HasTxn : Accounted(o) => Accounted(o)'
      BY <2>1, <2>3 DEF Accounted, Busy, CreateHook, KindOf
    <2> QED BY <2>1, <2>2, <2>4, QuietRecord
  <1>3. ASSUME handler.pc # "idle", UNCHANGED <<sent, ship>>, jobs' \subseteq jobs,
               processed \subseteq processed', issues \subseteq issues', resolved' = resolved,
               \/ \E label \in {"prepare", "list", "wait", "catch"} : Goto(label)
               \/ Throw \/ Swallow
               \/ /\ Return
                  /\ \A o \in HasTxn : handler.kind = "create" /\ Current = o
                                          => o \in processed' \cup issues'
        PROVE  RecordInv'
    <2>1. \A o \in HasTxn : Accounted(o) => Accounted(o)'
      BY <1>3, AccountKept
    <2>2. handler'.pc # "idle" => handler'.kind = KindOf(sent'[handler'.hook])
      BY <1>3, KindKept
    <2> QED BY <1>3, <2>1, <2>2, QuietRecord
  <1>4. CASE Fetch
    <2>1. UNCHANGED <<sent, ship, jobs, records>> /\ handler.pc = "fetch"
      BY <1>4 DEF Fetch
    <2>2. CASE handler.kind = "partial"
      <3>1. /\ handler' = [handler EXCEPT !.pc = "list", !.refund = refunded[Current]]
            /\ UNCHANGED <<pending, dropped>>
        BY <1>4, <2>2 DEF Fetch
      <3>2. handler'.hook = handler.hook /\ handler'.kind = "partial"
        BY <2>2, <3>1 DEF TypeOK, HandlerTypeOK, Handler
      <3>3. \A o \in HasTxn : Accounted(o) => Accounted(o)'
        BY <2>1, <2>2, <3>1 DEF Accounted, Busy, CreateHook, KindOf
      <3>4. handler'.kind = KindOf(sent'[handler'.hook])
        BY <2>1, <2>2, <3>2 DEF RecordInv
      <3> QED BY <2>1, <3>3, <3>4, QuietRecord
    <2>3. CASE handler.kind # "partial"
      <3>1. \/ Goto("prepare") \/ Goto("list")
            \/ Return /\ (handler.kind = "create" => Current \in processed)
        BY <1>4, <2>3 DEF Fetch
      <3> QED BY <1>3, <2>1, <3>1
    <2> QED BY <2>2, <2>3
  <1>5. CASE Catch
    <2>1. /\ handler.pc = "catch" /\ UNCHANGED <<sent, ship, jobs, processed, resolved>>
          /\ issues' = issues \cup {Current} /\ (Throw \/ Return)
      BY <1>5 DEF Catch
    <2> QED BY <1>3, <2>1
  <1>6. CASE Finish
    <2>1. /\ handler.pc = "wait" /\ UNCHANGED <<sent, ship, jobs, issues, resolved>> /\ Return
          /\ processed \subseteq processed'
          /\ \A o \in HasTxn : handler.kind = "create" /\ Current = o => o \in processed'
      BY <1>6 DEF Finish
    <2> QED BY <1>3, <2>1
  <1>7. CASE FetchFails \/ CheckFails \/ PrepareOrListFails \/ FinishFails \/ CatchFails
    <2>1. handler.pc # "idle" /\ UNCHANGED <<sent, ship, jobs, records>>
      BY <1>7 DEF FetchFails, CheckFails, PrepareOrListFails, FinishFails, CatchFails
    <2>2. Goto("catch") \/ Throw \/ Swallow
      BY <1>7 DEF FetchFails, CheckFails, PrepareOrListFails, FinishFails, CatchFails, Reject
    <2> QED BY <1>3, <2>1, <2>2
  <1>8. CASE Crash
    <2>1. jobs' \subseteq jobs /\ UNCHANGED <<sent, ship, records>>
      BY <1>8 DEF Crash
    <2>2. CASE handler.pc # "idle" /\ Throw
      BY <1>3, <2>1, <2>2
    <2>3. CASE handler.pc = "idle" /\ UNCHANGED <<handler, pending, dropped>>
      <3>1. \A o \in HasTxn : Accounted(o) => Accounted(o)'
        BY <2>1, <2>3 DEF Accounted, Busy, CreateHook, KindOf
      <3> QED BY <2>1, <2>3, <3>1, QuietRecord
    <2> QED BY <1>8, <2>2, <2>3 DEF Crash
  <1>9. CASE Prepare \/ List
    <2>1. /\ handler.pc # "idle" /\ UNCHANGED <<sent, ship, records>> /\ Goto("wait")
      BY <1>9 DEF Prepare, List
    <2>2. \A o \in HasTxn : Accounted(o) => Accounted(o)'
      BY <2>1, AccountKept
    <2>3. handler'.pc # "idle" => handler'.kind = KindOf(sent'[handler'.hook])
      BY <2>1, KindKept
    <2>4. ASSUME NEW o \in HasTxn, NEW p \in Part, Queued(o, p)' PROVE Accounted(o)'
      <3>1. PICK k \in jobs' : k.at = 0 /\ k.row.order = o
        BY <2>4 DEF Queued
      <3>2. CASE Prepare
        <4>1. handler.kind = "create" /\ Current = o
          BY <3>1, <3>2 DEF Prepare, MadeInv, OneAttempt
        <4>2. Busy(o)
          BY <2>1, <4>1 DEF Busy
        <4> QED BY <2>2, <4>2 DEF Accounted
      <3>3. CASE List
        <4>1. DOMAIN ship = 1 .. Len(ship)
          BY LenProperties DEF TypeOK, ShipTypeOK
        <4> QED BY <3>1, <3>3, <4>1 DEF List, Found
      <3> QED BY <1>9, <3>2, <3>3
    <2>5. \A o \in HasTxn, p \in Part : OrdersOf(o, p)' # {} => OrdersOf(o, p) # {}
      BY <2>1 DEF OrdersOf
    <2> QED BY <2>2, <2>3, <2>4, <2>5 DEF RecordInv
  <1>10. ASSUME NEW j \in jobs, JobDone(j) \/ JobFails(j) PROVE RecordInv'
    BY <1>10, JobRecord
  <1>11. CASE UNCHANGED vars
    <2>1. UNCHANGED <<sent, ship, jobs, records, handler, pending, dropped>>
      BY <1>11 DEF vars
    <2>2. \A o \in HasTxn : Accounted(o) => Accounted(o)'
      BY <2>1 DEF Accounted, Busy, Current, CreateHook, KindOf
    <2>3. handler'.pc # "idle" => handler'.kind = KindOf(sent'[handler'.hook])
      BY <2>1 DEF RecordInv
    <2> QED BY <2>1, <2>2, <2>3, QuietRecord
  <1>12. CASE HandlerNext
    BY <1>4, <1>5, <1>6, <1>9, <1>10, <1>12 DEF HandlerNext
  <1>13. CASE FailNext
    BY <1>7, <1>8, <1>10, <1>13 DEF FailNext
  <1> QED BY <1>1, <1>2, <1>11, <1>12, <1>13 DEF Next

\* Whatever was made for an order with a transaction is recorded, known to the
\* operator, logged, or in the hands of a handler or of a hook that comes again.
THEOREM RecordInvariant == Spec => []AttemptRecorded
  <1>1. Init => RecordInv
    BY DEF Init, RecordInv, OrdersOf, Queued, Idle
  <1>2. RecordInv => AttemptRecorded
    BY DEF RecordInv, AttemptRecorded
  <1> QED BY <1>1, <1>2, StepRecord, ShipInvariant, MadeInvariant, PTL DEF Spec

-----------------------------------------------------------------------------
(* WebOrders implements Parcels.                                           *)

\* Refunds are made, and never unmade.
LEMMA RefundsGrow ==
    ASSUME TypeOK, TypeOK', [Next]_vars
    PROVE  \A o \in Order : refunded[o] \in Nat /\ refunded'[o] \in Nat /\ refunded[o] <= refunded'[o]
  <1> SUFFICES ASSUME NEW o \in Order
               PROVE  refunded[o] \in Nat /\ refunded'[o] \in Nat /\ refunded[o] <= refunded'[o]
    OBVIOUS
  <1>1. refunded[o] \in Nat /\ refunded'[o] \in Nat
    BY DEF TypeOK
  <1>2. refunded' = refunded \/ \E q \in Order, s \in Status : Refund(q, s)
    BY DEF Next, ShopNext, HandlerNext, FailNext, Resolve, Change, Fetch, Prepare, List, Finish,
           Catch, JobDone, FetchFails, CheckFails, PrepareOrListFails, FinishFails, CatchFails,
           Crash, JobFails, Deliver, vars
  <1>3. CASE refunded' = refunded
    BY <1>1, <1>3
  <1>4. ASSUME NEW q \in Order, NEW s \in Status, Refund(q, s)
        PROVE  refunded[o] <= refunded'[o]
    BY <1>1, <1>4 DEF Refund, TypeOK
  <1> QED BY <1>1, <1>2, <1>3, <1>4

\* What a request may make of an order, it may make of it after more refunds.
LEMMA ChangeStays ==
    ASSUME TypeOK, TypeOK', [Next]_vars, NEW row, NEW new, OneChange(row, new)
    PROVE  OneChange(row, new)'
  <1>1. ASSUME NEW o \in Order, NEW amount \in 0 .. refunded[o]
        PROVE  amount \in 0 .. refunded'[o]
    BY RefundsGrow
  <1> QED BY <1>1 DEF OneChange

\* Each handler changes one thing.
LEMMA ChangedOnce ==
    ASSUME TypeOK, ParcelsInv, handler.pc = "list", NEW i \in Found
    PROVE  OneChange(ship[i], Changed(ship[i]))
  <1>1. /\ handler.kind \in {"cancel", "partial", "complete"} /\ handler.refund \in Nat
        /\ handler.refund <= refunded[Current] /\ Current \in Order
        /\ refunded[Current] \in Nat
    BY CurrentType DEF TypeOK, HandlerTypeOK, Handler, Kind, ParcelsInv
  <1>2. CASE handler.kind = "cancel"
    BY <1>2 DEF Changed, OneChange
  <1>3. CASE handler.kind = "complete"
    BY <1>3 DEF Changed, OneChange, Found
  <1>4. CASE handler.kind = "partial"
    <2>1. Changed(ship[i]) = [ship[i] EXCEPT !.refund = handler.refund]
      BY <1>4 DEF Changed
    <2>2. handler.refund \in 0 .. refunded[Current] /\ ship[i].order \in Lists[Current]
      BY <1>1 DEF Found
    <2> QED BY <1>1, <2>1, <2>2 DEF OneChange
  <1> QED BY <1>1, <1>2, <1>3, <1>4

\* The refund that a handler knows of was made.
LEMMA StepRefund ==
    ASSUME TypeOK, TypeOK', ParcelsInv, [Next]_vars, handler'.pc # "idle"
    PROVE  handler'.refund <= refunded'[Current']
  <1> USE DEF HandlerTypeOK, Handler
  <1>1. \A o \in Order : refunded[o] \in Nat /\ refunded'[o] \in Nat /\ refunded[o] <= refunded'[o]
    BY RefundsGrow
  <1>2. handler \in Handler /\ handler' \in Handler /\ Current' \in Order
    <2>1. sent' \in Seq(Hook) /\ handler'.hook \in DOMAIN sent'
      BY DEF TypeOK, HooksTypeOK
    <2>2. sent'[handler'.hook] \in Hook
      BY <2>1, ElementOfSeq
    <2> QED BY <2>2 DEF Current, Hook, TypeOK
  <1>3. CASE handler'.refund = 0
    BY <1>1, <1>2, <1>3
  <1>4. ASSUME handler.pc # "idle", handler'.refund = handler.refund, Current' = Current
        PROVE  handler'.refund <= refunded'[Current']
    <2>1. handler.refund <= refunded[Current] /\ handler.refund \in Nat
      BY <1>2, <1>4 DEF ParcelsInv
    <2> QED BY <1>1, <1>2, <1>4, <2>1
  <1>5. CASE ShopNext
    <2>1. handler' = handler
      BY <1>5 DEF ShopNext, Resolve, Change, Refund
    <2> QED BY <1>4, <1>5, <2>1, CurrentKept
  <1>6. ASSUME NEW n \in DOMAIN sent, Deliver(n) PROVE handler'.refund <= refunded'[Current']
    <2>1. handler' = handler \/ handler'.refund = 0
      BY <1>6 DEF Deliver
    <2> QED BY <1>3, <1>6, <2>1 DEF Deliver
  <1>7. CASE HandlerNext \/ FailNext
    <2>1. sent' = sent
      BY <1>7 DEF HandlerNext, FailNext, Fetch, Prepare, List, Finish, Catch, JobDone,
             FetchFails, CheckFails, PrepareOrListFails, FinishFails, CatchFails, Crash, JobFails
    <2>2. CASE Fetch /\ handler.kind = "partial"
      <3>1. handler' = [handler EXCEPT !.pc = "list", !.refund = refunded[Current]]
        BY <2>2 DEF Fetch
      <3>2. handler'.refund = refunded[Current] /\ handler'.hook = handler.hook
        BY <1>2, <3>1
      <3>3. Current' = Current
        BY <2>1, <3>2 DEF Current
      <3> QED BY <1>1, <1>2, <3>2, <3>3
    <2>3. CASE ~(Fetch /\ handler.kind = "partial")
      <3>1. \/ handler' = handler \/ handler' = Idle
            \/ \E label \in {"prepare", "list", "wait", "catch"} : Goto(label)
        BY <1>7, <2>3 DEF HandlerNext, FailNext, Fetch, Prepare, List, Finish, Catch, JobDone,
             FetchFails, CheckFails, PrepareOrListFails, FinishFails, CatchFails, Crash, JobFails,
             Return, Throw, Swallow, Reject
      <3>2. CASE handler' = Idle
        BY <1>3, <3>2 DEF Idle
      <3>3. CASE handler' = handler
        BY <1>4, <2>1, <3>3 DEF Current
      <3>4. ASSUME NEW label \in {"prepare", "list", "wait", "catch"}, Goto(label)
            PROVE  handler'.refund <= refunded'[Current']
        <4>1. handler' = [handler EXCEPT !.pc = label]
          BY <3>4 DEF Goto
        <4>2. handler'.refund = handler.refund /\ handler'.hook = handler.hook
          BY <1>2, <4>1
        <4>3. handler.pc # "idle"
          BY <1>7, <3>4, <4>1 DEF HandlerNext, FailNext, Fetch, Prepare, List, Finish, Catch,
             JobDone, FetchFails, CheckFails, PrepareOrListFails, FinishFails, CatchFails, Crash,
             JobFails, Throw, Idle
        <4> QED BY <1>4, <2>1, <4>2, <4>3 DEF Current
      <3> QED BY <3>1, <3>2, <3>3, <3>4
    <2> QED BY <2>2, <2>3
  <1>8. CASE UNCHANGED vars
    BY <1>4, <1>8 DEF vars, Current
  <1> QED BY <1>5, <1>6, <1>7, <1>8 DEF Next

\* The requests that are left are as exact as before: the one that is done was of another
\* order.
LEMMA StepRequests ==
    ASSUME TypeOK, TypeOK', ShipInv, MadeInv, ParcelsInv, [Next]_vars
    PROVE  RequestsExact'
  <1>0. RequestsExact
    BY DEF ParcelsInv
  <1>1. CASE UNCHANGED <<ship, jobs, processed>>
    BY <1>0, <1>1, ChangeStays DEF RequestsExact
  <1>2. CASE jobs' = {}
    BY <1>2 DEF RequestsExact
  <1>3. CASE Prepare
    <2>1. Current \notin processed
      BY <1>3 DEF Prepare, MadeInv, OneAttempt
    <2>2. ASSUME NEW p \in Part, NEW row,
                 row = [order |-> Current, part |-> p, state |-> "awaiting", refund |-> 0]
          PROVE  row.state = "awaiting" /\ row.refund = 0 /\ row.part \in Part /\ row.order \notin processed
      BY <2>1, <2>2
    <2>3. ASSUME NEW j \in jobs'
          PROVE  /\ j.at = 0 /\ j.row.state = "awaiting" /\ j.row.refund = 0
                 /\ j.row.part \in Part /\ j.row.order \notin processed
      <3>1. PICK p \in Part :
               j = [at |-> 0, row |-> [order |-> Current, part |-> p,
                                       state |-> "awaiting", refund |-> 0]]
        BY <1>3 DEF Prepare
      <3> QED BY <2>2, <3>1
    <2> QED BY <1>3, <2>3 DEF Prepare, RequestsExact
  <1>4. CASE List
    <2>1. DOMAIN ship = 1 .. Len(ship)
      BY LenProperties DEF TypeOK, ShipTypeOK
    <2>2. ASSUME NEW j \in jobs'
          PROVE  j.at # 0 /\ OneChange(ship[j.at], j.row)'
      <3>1. PICK i \in Found : j = [at |-> i, row |-> Changed(ship[i])]
        BY <1>4 DEF List
      <3>2. j.at = i /\ j.row = Changed(ship[i]) /\ i # 0 /\ ship' = ship
        BY <1>4, <2>1, <3>1 DEF Found, List
      <3>3. PICK row, new : row = ship[i] /\ new = Changed(ship[i])
        OBVIOUS
      <3>4. OneChange(row, new)
        BY <1>4, <3>3, ChangedOnce DEF List
      <3>5. OneChange(row, new)'
        BY <3>4, ChangeStays
      <3> QED BY <3>2, <3>3, <3>5
    <2> QED BY <2>2 DEF RequestsExact
  <1>5. ASSUME NEW j \in jobs, JobDone(j) \/ JobFails(j) PROVE RequestsExact'
    <2>1. /\ ship' \in {ship, Applied(j)} /\ jobs' = jobs \ {j} /\ processed' = processed
          /\ ShipTypeOK /\ CopiesFresh
      BY <1>5 DEF JobDone, JobFails, TypeOK, ShipInv
    <2>2. ASSUME NEW k \in jobs', k.at # 0 PROVE OneChange(ship[k.at], k.row)'
      <3>1. k.at \in DOMAIN ship /\ k.at # j.at /\ k \in jobs
        <4>1. DOMAIN ship = 1 .. Len(ship)
          BY LenProperties DEF TypeOK, ShipTypeOK
        <4> QED BY <2>1, <2>2, <4>1 DEF ShipTypeOK, CopiesFresh
      <3>2. ship'[k.at] = ship[k.at]
        BY <2>1, <3>1, PlacesKept
      <3>3. PICK row, new : row = ship[k.at] /\ new = k.row
        OBVIOUS
      <3>4. OneChange(row, new)
        BY <1>0, <2>2, <3>1, <3>3 DEF RequestsExact
      <3>5. OneChange(row, new)'
        BY <3>4, ChangeStays
      <3> QED BY <3>2, <3>3, <3>5
    <2> QED BY <1>0, <2>1, <2>2 DEF RequestsExact
  <1>6. \/ UNCHANGED <<ship, jobs, processed>> \/ jobs' = {} \/ Prepare \/ List
        \/ \E j \in jobs : JobDone(j) \/ JobFails(j)
    BY DEF Next, ShopNext, HandlerNext, FailNext, Resolve, Change, Refund, Fetch, Finish, Catch,
           FetchFails, CheckFails, PrepareOrListFails, FinishFails, CatchFails, Crash, Deliver, vars
  <1> QED BY <1>1, <1>2, <1>3, <1>4, <1>5, <1>6

LEMMA ParcelsInvariant == Spec => []ParcelsInv
  <1>1. Init => ParcelsInv
    BY DEF Init, Idle, ParcelsInv, RequestsExact
  <1>2. TypeOK /\ TypeOK' /\ ShipInv /\ MadeInv /\ ParcelsInv /\ [Next]_vars => ParcelsInv'
    BY StepRefund, StepRequests DEF ParcelsInv
  <1> QED BY <1>1, <1>2, WebTypes, ShipInvariant, MadeInvariant, PTL DEF Spec

\* A request that is done makes a parcel or changes one thing of it.
LEMMA AppliedStep ==
    ASSUME TypeOK, ShipInv, MadeInv, ParcelsInv, NEW j \in jobs, ship' = Applied(j),
           UNCHANGED <<processed, refunded>>
    PROVE  ParcelsOf!Step
  <1>1. j \in Job /\ j.row \in ShipOrder /\ j.at \in 0 .. Len(ship) /\ DOMAIN ship = 1 .. Len(ship)
        /\ Len(ship) \in Nat
    BY LenProperties DEF TypeOK, ShipTypeOK, Job
  <1>2. CASE j.at = 0
    <2>1. PICK o \in Order, p \in Part : o = j.row.order /\ p = j.row.part
      BY <1>1 DEF ShipOrder
    <2>2. j.row.state = "awaiting" /\ j.row.refund = 0 /\ o \notin processed
      BY <1>2, <2>1 DEF ParcelsInv, RequestsExact
    <2>3. j.row = [order |-> o, part |-> p, state |-> "awaiting", refund |-> 0]
      BY <1>1, <2>1, <2>2 DEF ShipOrder
    <2>4. ship' = Append(ship, [order |-> o, part |-> p, state |-> "awaiting", refund |-> 0])
      BY <1>2, <2>3 DEF Applied
    <2>5. ASSUME o \in HasTxn PROVE Cardinality(OrdersOf(o, p)) <= failed[o]
      <3>1. Queued(o, p)
        BY <1>2, <2>1 DEF Queued
      <3>2. Cardinality(OrdersOf(o, p)) + 1 <= failed[o] + (IF Attempt(o) THEN 1 ELSE 0)
        BY <2>2, <2>5, <3>1 DEF MadeInv, CountedOrders
      <3>3. Cardinality(OrdersOf(o, p)) \in Nat /\ failed[o] \in Nat
        BY CountType DEF TypeOK
      <3> QED BY <3>2, <3>3
    <2>6. ParcelsOf!Cardinality(ParcelsOf!Copies(o, p)) = Cardinality(OrdersOf(o, p))
      BY Zenon DEF ParcelsOf!Copies, OrdersOf, ParcelsOf!Cardinality, Cardinality
    <2>7. ParcelsOf!Make(o, p)
      BY Zenon, <2>2, <2>4, <2>5, <2>6 DEF ParcelsOf!Make
    <2> QED BY <2>7 DEF ParcelsOf!Step
  <1>3. CASE j.at # 0
    <2>1. PICK i \in DOMAIN ship : i = j.at
      BY <1>1, <1>3
    <2>2. ship' = [ship EXCEPT ![i] = j.row] /\ OneChange(ship[i], j.row)
      BY <1>3, <2>1 DEF Applied, ParcelsInv, RequestsExact
    <2>3. CASE j.row = [ship[i] EXCEPT !.state = "cancelled"]
      <3>1. ParcelsOf!Cancel(i)
        BY <2>2, <2>3 DEF ParcelsOf!Cancel
      <3> QED BY <3>1 DEF ParcelsOf!Step
    <2>4. CASE ship[i].state = "awaiting" /\ j.row = [ship[i] EXCEPT !.state = "shipped"]
      <3>1. ParcelsOf!Ship(i)
        BY <2>2, <2>4 DEF ParcelsOf!Ship
      <3> QED BY <3>1 DEF ParcelsOf!Step
    <2>5. ASSUME NEW o \in Order, NEW amount \in 0 .. refunded[o], ship[i].order \in Lists[o],
                 j.row = [ship[i] EXCEPT !.refund = amount]
          PROVE  ParcelsOf!Step
      <3>1. ParcelsOf!TakeOff(i, o, amount)
        BY <2>2, <2>5 DEF ParcelsOf!TakeOff
      <3> QED BY <3>1 DEF ParcelsOf!Step
    <2> QED BY <2>2, <2>3, <2>4, <2>5 DEF OneChange
  <1> QED BY <1>2, <1>3

LEMMA ParcelsNext ==
    ASSUME TypeOK, ShipInv, MadeInv, ParcelsInv, Next
    PROVE  ParcelsOf!Next
  <1>1. failed' = failed \/ \E o \in Order : ParcelsOf!Fail(o)
    BY CurrentType, JobOrder DEF Next, ShopNext, HandlerNext, FailNext, Resolve, Change, Refund,
           Fetch, Prepare, List, Finish, Catch, JobDone, FetchFails, CheckFails,
           PrepareOrListFails, FinishFails, CatchFails, Crash, JobFails, Deliver, Fault,
           ParcelsOf!Fail
  <1>2. ParcelsOf!Step \/ UNCHANGED ParcelsOf!state
    <2>1. CASE UNCHANGED <<ship, processed, refunded>>
      BY <2>1 DEF ParcelsOf!state
    <2>2. ASSUME NEW o \in Order, NEW s \in Status, Refund(o, s) PROVE ParcelsOf!Step
      <3>1. ParcelsOf!Refund(o)
        BY <2>2 DEF Refund, ParcelsOf!Refund
      <3> QED BY <3>1 DEF ParcelsOf!Step
    <2>3. ASSUME NEW j \in jobs, JobDone(j) \/ JobFails(j)
          PROVE  ParcelsOf!Step \/ UNCHANGED ParcelsOf!state
      <3>1. ship' \in {ship, Applied(j)} /\ UNCHANGED <<processed, refunded>>
        BY <2>3 DEF JobDone, JobFails
      <3> QED BY <3>1, AppliedStep DEF ParcelsOf!state
    <2>4. CASE Finish /\ handler.kind = "create" /\ Current \in HasTxn
      <3>1. PICK o \in Order : o = Current
        BY <2>4, CurrentType DEF Finish
      <3>2. \A p \in Part : ParcelsOf!Copies(o, p) # {}
        BY <2>4, <3>1 DEF Finish, ShipInv, NoPartMissing, OrdersOf, Queued, ParcelsOf!Copies
      <3>3. ParcelsOf!Record(o)
        BY <2>4, <3>1, <3>2 DEF Finish, ParcelsOf!Record
      <3> QED BY <3>3 DEF ParcelsOf!Step
    <2>5. \/ UNCHANGED <<ship, processed, refunded>>
          \/ \E o \in Order, s \in Status : Refund(o, s)
          \/ \E j \in jobs : JobDone(j) \/ JobFails(j)
          \/ Finish /\ handler.kind = "create" /\ Current \in HasTxn
      BY DEF Next, ShopNext, HandlerNext, FailNext, Resolve, Change, Fetch, Prepare, List, Finish,
             Catch, FetchFails, CheckFails, PrepareOrListFails, FinishFails, CatchFails, Crash,
             Deliver
    <2> QED BY <2>1, <2>2, <2>3, <2>4, <2>5
  <1> QED BY <1>1, <1>2 DEF ParcelsOf!Next

\* For any orders, parts and prefixes, any hooks and failures: between the list and the
\* write nobody else changes an order, requests that a handler leaves behind are done
\* before the next one lists, and no attempt begins for an order that is recorded.  So
\* the webhook does to the orders of ShipStation what Parcels allows and nothing else.
THEOREM WebImplementsParcels == Spec => ImplementsParcels
  <1>1. Init => ParcelsOf!Init
    BY DEF Init, ParcelsOf!Init
  <1>2. TypeOK /\ ShipInv /\ MadeInv /\ ParcelsInv /\ [Next]_vars
          => [ParcelsOf!Next]_<<ParcelsOf!state, failed>>
    <2>1. UNCHANGED vars => UNCHANGED <<ParcelsOf!state, failed>>
      BY DEF vars, ParcelsOf!state
    <2> QED BY <2>1, ParcelsNext
  <1> QED BY <1>1, <1>2, WebTypes, ShipInvariant, MadeInvariant, ParcelsInvariant, PTL
          DEF Spec, ImplementsParcels, ParcelsOf!Spec

=============================================================================
