----------------------------- MODULE RateLimits ------------------------------
(***************************************************************************)
(* The limiters in front of one account of a service.  Each instance of a  *)
(* proxy has its own: the module of the BigCommerce webhook, that of the   *)
(* ShipStation webhook and the cron script.  A limiter starts the requests *)
(* in the order in which they were scheduled, so many at a time and so     *)
(* many between two refreshes of its reservoir.  needle gives a request up *)
(* after NET_TIMEOUT; the service may still carry it out.                  *)
(*                                                                         *)
(* The clock only counts down: a tick is a fraction of the refresh         *)
(* interval that is long for the minTime between two starts, which is left *)
(* out.                                                                    *)
(***************************************************************************)
EXTENDS Integers, Sequences, FiniteSetsExt, SequencesExt

CONSTANTS
    Limiter,
    Reservoir,       \* reservoir, reservoirRefreshAmount
    MaxConcurrent,   \* maxConcurrent
    Interval,        \* reservoirRefreshInterval, in ticks
    NetTimeout,      \* NET_TIMEOUT, in ticks
    Called,          \* the methods that are called
    MaxRequests      \* how many requests there are in all

Kind == {"createorder", "deleteorder", "listorders"}
Write == {"createorder", "deleteorder"}

ASSUME RateLimitsAssumption ==
    /\ Called \subseteq Kind
    /\ {Reservoir, MaxConcurrent, Interval, NetTimeout, MaxRequests} \subseteq Nat \ {0}

VARIABLES
    requests,   \* all requests, in the order in which they were scheduled
    state,      \* how far the caller's promise is
    age,        \* the ticks since a request was started
    server,     \* how far the service is with it
    effects,    \* the writes of the service, in its order
    seen,       \* what a list of orders has shown: the writes before it
    reservoir,  \* of each limiter: the starts that are left
    refresh     \* of each limiter: the ticks until the next refresh

vars == <<requests, state, age, server, effects, seen, reservoir, refresh>>

Id == DOMAIN requests
MaxAge == Max({Interval, NetTimeout})

TypeOK ==
    /\ requests \in Seq([limiter : Limiter, kind : Kind])
    /\ state \in [Id -> {"queued", "running", "ok", "failed"}]
    /\ age \in [Id -> 0 .. MaxAge]
    /\ server \in [Id -> {"no", "flying", "done", "refused", "lost"}]
    /\ seen \in [Id -> SUBSET Range(effects)]
    /\ effects \in Seq(Id) /\ IsInjective(effects)
    /\ \A i \in Range(effects) : requests[i].kind \in Write
    /\ reservoir \in [Limiter -> 0 .. Reservoir]
    /\ refresh \in [Limiter -> 1 .. Interval]

\* The instances are made at different times.
Init ==
    /\ requests = <<>> /\ state = <<>> /\ age = <<>> /\ server = <<>>
    /\ effects = <<>> /\ seen = <<>>
    /\ reservoir = [l \in Limiter |-> Reservoir]
    /\ refresh \in [Limiter -> 1 .. Interval]

Queue(l) == {i \in Id : requests[i].limiter = l /\ state[i] = "queued"}
Running(l) == {i \in Id : requests[i].limiter = l /\ state[i] = "running"}

\* limiter.schedule.
Schedule(l, k) ==
    /\ Len(requests) < MaxRequests /\ k \in Called
    /\ requests' = Append(requests, [limiter |-> l, kind |-> k])
    /\ state' = Append(state, "queued") /\ age' = Append(age, 0)
    /\ server' = Append(server, "no") /\ seen' = Append(seen, {})
    /\ UNCHANGED <<effects, reservoir, refresh>>

CreateOrUpdateOrder(l) == Schedule(l, "createorder")
DeleteOrder(l) == Schedule(l, "deleteorder")
GetListOrders(l) == Schedule(l, "listorders")

\* Mutant of Free: the number of running requests is not looked at.
FreeAlways(l) == TRUE

Free(l) == Cardinality(Running(l)) < MaxConcurrent

\* The first of the queue is sent.
Start(l) ==
    /\ Free(l) /\ reservoir[l] > 0
    /\ \E i \in Queue(l) :
         /\ \A j \in Queue(l) : i <= j
         /\ state' = [state EXCEPT ![i] = "running"]
         /\ server' = [server EXCEPT ![i] = "flying"]
    /\ reservoir' = [reservoir EXCEPT ![l] = @ - 1]
    /\ UNCHANGED <<requests, age, effects, seen, refresh>>

\* The service carries the request out, whether it is still waited for or not.
CarryOut(i) ==
    /\ server[i] = "flying"
    /\ server' = [server EXCEPT ![i] = "done"]
    /\ IF requests[i].kind \in Write
       THEN effects' = Append(effects, i) /\ UNCHANGED seen
       ELSE seen' = [seen EXCEPT ![i] = Range(effects)] /\ UNCHANGED effects
    /\ UNCHANGED <<requests, state, age, reservoir, refresh>>

\* It refuses it, or never gets it.
Refuse(i) ==
    /\ server[i] = "flying"
    /\ server' \in {[server EXCEPT ![i] = s] : s \in {"refused", "lost"}}
    /\ UNCHANGED <<requests, state, age, effects, seen, reservoir, refresh>>

\* Anything but 200 becomes an exception.
Answered(i) == IF server[i] = "done" THEN "ok" ELSE "failed"

Answer(i) ==
    /\ state[i] = "running" /\ server[i] \in {"done", "refused"}
    /\ state' = [state EXCEPT ![i] = Answered(i)]
    /\ UNCHANGED <<requests, age, server, effects, seen, reservoir, refresh>>

\* Mutant of IsOverdue: there is no timeout.
IsOverdueNever(i) == FALSE

IsOverdue(i) == state[i] = "running" /\ age[i] >= NetTimeout

\* read_timeout and response_timeout.
TimeOut(i) ==
    /\ IsOverdue(i)
    /\ state' = [state EXCEPT ![i] = "failed"]
    /\ UNCHANGED <<requests, age, server, effects, seen, reservoir, refresh>>

\* Mutant of Refill: the refresh gives so many starts more.
RefillAdds(l) == reservoir[l] + Reservoir

\* reservoirRefreshAmount: what is left is not added.
Refill(l) == Reservoir

Tick ==
    /\ \A i \in Id : ~IsOverdue(i)
    /\ age' = [i \in Id |-> IF state[i] = "queued" THEN 0 ELSE Min({age[i] + 1, MaxAge})]
    /\ refresh' = [l \in Limiter |-> IF refresh[l] = 1 THEN Interval ELSE refresh[l] - 1]
    /\ reservoir' = [l \in Limiter |-> IF refresh[l] = 1 THEN Refill(l) ELSE reservoir[l]]
    /\ UNCHANGED <<requests, state, server, effects, seen>>

Next ==
    \/ \E l \in Limiter : CreateOrUpdateOrder(l) \/ DeleteOrder(l) \/ GetListOrders(l) \/ Start(l)
    \/ \E i \in Id : CarryOut(i) \/ Refuse(i) \/ Answer(i) \/ TimeOut(i)
    \/ Tick

Spec == Init /\ [][Next]_vars

\* The event loop runs what is due, and time goes on.
LiveSpec ==
    /\ Spec /\ WF_vars(Tick)
    /\ \A l \in Limiter : WF_vars(Start(l))
    /\ \A i \in 1 .. MaxRequests : WF_vars(i \in Id /\ TimeOut(i))

-----------------------------------------------------------------------------
(* Properties.                                                             *)

GivenUp(i) == state[i] = "failed" /\ server[i] # "refused"

\* The handlers rely on the order of the limiter: of two writes that went through
\* one with a single place, the later one comes later, and a list shows every
\* write that was scheduled before it.  Only a write that was given up may come late.
InOrder ==
    MaxConcurrent = 1 =>
        \A i, j \in Id :
            (i < j /\ requests[i].limiter = requests[j].limiter
             /\ server[i] = "done" /\ server[j] = "done" /\ ~GivenUp(i)) =>
                IF requests[i].kind \notin Write THEN j \notin seen[i]
                ELSE IF requests[j].kind \in Write
                THEN \E m, n \in DOMAIN effects : m < n /\ effects[m] = i /\ effects[n] = j
                ELSE i \in seen[j]

\* The starts of a limiter in the last interval.
Recent(l) == {i \in Id : requests[i].limiter = l /\ state[i] # "queued" /\ age[i] < Interval}

\* What the account gets of a limiter in any interval: it may use one reservoir
\* just before a refresh and the next one after it.  Nobody coordinates the
\* limiters, so the account gets as much of each.
AccountLoad == \A l \in Limiter : Cardinality(Recent(l)) <= 2 * Reservoir

\* Every request is answered or given up in the end, although the service may stay
\* silent and the reservoir be empty.
EveryRequestEnds ==
    \A i \in 1 .. MaxRequests :
        (i \in Id /\ state[i] = "queued") ~> (i \in Id /\ state[i] \in {"ok", "failed"})

=============================================================================
