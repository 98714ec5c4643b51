------------------------------ MODULE HookWatch ------------------------------
(***************************************************************************)
(* BigCommerce switches a hook off when its deliveries keep failing.  The  *)
(* task TaskCheckBGHook looks for that and switches the hook on again; it  *)
(* runs once for each time somebody starts it, since the CronJob around it *)
(* is made with start = false and nobody calls its start().  The script    *)
(* bigCommerceHookHandler, run by hand as well, makes the hook if there is *)
(* none and sets its scope.  Both read all hooks and send the one they     *)
(* know, by its number, back as a whole.                                   *)
(***************************************************************************)
EXTENDS Naturals

CONSTANTS
    MaxTrouble   \* how often the shop, its owner or the network interfere

ASSUME HookWatchAssumption == MaxTrouble \in Nat

VARIABLES
    hooks,     \* the hooks of the shop by their number; the code knows "known"
    task,      \* the run of the task: where it is, the hooks it has read
    handler,   \* the same of the script
    events,    \* what the run has written into SystemHealthEntity
    trouble    \* how often there was interference

watchVars == <<hooks, task, handler, events, trouble>>

NoHook == [is_active |-> FALSE, scope |-> "none"]
Hook == [is_active : BOOLEAN, scope : {"store/order/*", "other"}] \cup {NoHook}
Hooks == [{"known", "new"} -> Hook]

Event == {"not found", "disabled", "enabled", "ok", "unexpected"}

WatchTypeOK ==
    /\ hooks \in Hooks
    /\ task \in [pc : {"idle", "get", "check", "put", "enabled", "catch", "done", "rejected"}, read : Hooks]
    /\ handler \in [pc : {"idle", "get", "check", "put", "post"}, read : Hooks]
    /\ events \subseteq Event
    /\ trouble \in 0 .. MaxTrouble

WatchInit ==
    /\ hooks \in {h \in Hooks : h["new"] = NoHook}
    /\ task = [pc |-> "idle", read |-> hooks] /\ handler = [pc |-> "idle", read |-> hooks]
    /\ events = {} /\ trouble = 0

IsEmpty(all) == \A id \in DOMAIN all : all[id] = NoHook

-----------------------------------------------------------------------------
(* The shop.                                                               *)

Interfere == trouble < MaxTrouble /\ trouble' = trouble + 1

\* Deliveries fail too often.
Disable ==
    /\ Interfere
    /\ \E id \in DOMAIN hooks :
         hooks[id].is_active /\ hooks' = [hooks EXCEPT ![id].is_active = FALSE]
    /\ UNCHANGED <<task, handler, events>>

\* The owner changes the scope or removes the hook.
Edit ==
    /\ Interfere
    /\ \E id \in DOMAIN hooks : \E new \in {NoHook, [hooks[id] EXCEPT !.scope = "other"]} :
         hooks[id] # NoHook /\ hooks' = [hooks EXCEPT ![id] = new]
    /\ UNCHANGED <<task, handler, events>>

\* updateHookById: the hook as it was read, with changes; a hook that is gone is
\* answered with an error.
Put(read, change) == hooks' = [hooks EXCEPT !["known"] = change]

-----------------------------------------------------------------------------
(* TaskCheckBGHook.                                                        *)

Go(pc) == task' = [task EXCEPT !.pc = pc] /\ UNCHANGED <<hooks, handler>>

\* logCommon: the message is saved, or the run goes on with its catch block.
Log(event, pc) ==
    \/ events' = events \cup {event} /\ Go(pc) /\ UNCHANGED trouble
    \/ Interfere /\ Go("catch") /\ UNCHANGED events

\* npm run task:checkBGHook: runOnInit calls run, once.
TaskStart ==
    /\ task.pc \in {"idle", "done", "rejected"} /\ Go("get") /\ events' = {} /\ UNCHANGED trouble

TaskGetAllHooks ==
    /\ task.pc = "get"
    /\ \/ task' = [pc |-> "check", read |-> hooks] /\ UNCHANGED <<hooks, handler, trouble>>
       \/ Interfere /\ Go("catch")
    /\ UNCHANGED events

NoHooks ==
    /\ task.pc = "check" /\ IsEmpty(task.read)
    /\ Go("done") /\ UNCHANGED <<events, trouble>>

NotFound ==
    /\ task.pc = "check" /\ ~IsEmpty(task.read) /\ task.read["known"] = NoHook
    /\ Log("not found", "done")

\* Mutant of IsDisabled: the test is the wrong way round.
IsDisabledNot(hook) == hook.is_active

IsDisabled(hook) == ~hook.is_active

Disabled ==
    /\ task.pc = "check" /\ task.read["known"] # NoHook /\ IsDisabled(task.read["known"])
    /\ Log("disabled", "put")

StateIsOk ==
    /\ task.pc = "check" /\ task.read["known"] # NoHook /\ ~IsDisabled(task.read["known"])
    /\ Log("ok", "done")

\* Mutant of Enabled: the payload names the scope, too.
EnabledScope(hook) == [is_active |-> TRUE, scope |-> "store/order/*"]

Enabled(hook) == [hook EXCEPT !.is_active = TRUE]

\* The answer may be lost or come too late, whether or not the hook was written.
TaskUpdateHook ==
    /\ task.pc = "put"
    /\ \/ /\ hooks["known"] # NoHook
          /\ Put(task.read, Enabled(task.read["known"])) /\ UNCHANGED handler
          /\ \/ task' = [task EXCEPT !.pc = "enabled"] /\ UNCHANGED trouble
             \/ task' = [task EXCEPT !.pc = "catch"] /\ Interfere
       \/ hooks["known"] = NoHook /\ Go("catch") /\ UNCHANGED trouble
       \/ Interfere /\ Go("catch")
    /\ UNCHANGED events

ReportEnabled == task.pc = "enabled" /\ Log("enabled", "done")

\* Mutant of Catch: the exception is only logged.
CatchSilent ==
    /\ task.pc = "catch" /\ Go("done") /\ UNCHANGED <<events, trouble>>

\* The catch block saves, too.  A message of BigCommerce may be too long for the
\* column; then the promise of the run is rejected, and nobody waits for it.
Catch ==
    /\ task.pc = "catch"
    /\ \/ events' = events \cup {"unexpected"} /\ Go("done") /\ UNCHANGED trouble
       \/ Interfere /\ Go("rejected") /\ UNCHANGED events

-----------------------------------------------------------------------------
(* bigCommerceHookHandler.                                                 *)

HandlerGo(pc) ==
    handler' = [handler EXCEPT !.pc = pc] /\ UNCHANGED <<hooks, task, events>>

HandlerStart == handler.pc = "idle" /\ Interfere /\ HandlerGo("get")

\* A request that was carried out and whose answer is lost ends the script like one
\* that succeeds.
HandlerFails == handler.pc \in {"get", "put", "post"} /\ Interfere /\ HandlerGo("idle")

HandlerGetAllHooks ==
    /\ handler.pc = "get" /\ handler' = [pc |-> "check", read |-> hooks]
    /\ UNCHANGED <<hooks, task, events, trouble>>

HandlerCheck ==
    /\ handler.pc = "check" /\ UNCHANGED trouble
    /\ HandlerGo(IF IsEmpty(handler.read) THEN "post"
                 ELSE IF handler.read["known"] # NoHook THEN "put" ELSE "idle")

\* createHook: the number is a new one.
HandlerCreateHook ==
    /\ handler.pc = "post" /\ handler' = [handler EXCEPT !.pc = "idle"]
    /\ hooks' = [hooks EXCEPT !["new"] = [is_active |-> TRUE, scope |-> "store/order/*"]]
    /\ UNCHANGED <<task, events, trouble>>

HandlerUpdateHook ==
    /\ handler.pc = "put" /\ handler' = [handler EXCEPT !.pc = "idle"]
    /\ IF hooks["known"] = NoHook THEN UNCHANGED hooks
       ELSE Put(handler.read, [is_active |-> TRUE, scope |-> "store/order/*"])
    /\ UNCHANGED <<task, events, trouble>>

\* What a run does once it is started.
TaskGoesOn ==
    \/ TaskGetAllHooks \/ NoHooks \/ NotFound \/ Disabled \/ StateIsOk
    \/ TaskUpdateHook \/ ReportEnabled \/ Catch

TaskNext == TaskStart \/ TaskGoesOn

HandlerNext ==
    HandlerStart \/ HandlerFails \/ HandlerGetAllHooks \/ HandlerCheck \/ HandlerCreateHook \/ HandlerUpdateHook

WatchNext == Disable \/ Edit \/ TaskNext \/ HandlerNext

\* A run that was started goes on, for its requests and queries end.  Nobody owes
\* the start of the task or of the script.
WatchSpec == WatchInit /\ [][WatchNext]_watchVars /\ WF_watchVars(TaskGoesOn)

-----------------------------------------------------------------------------
(* Properties.                                                             *)

\* A run that comes to its end has left an event, whichever one request or save of
\* it failed, unless the shop had no hook at all.  One whose catch block cannot save
\* either ends as "rejected" and leaves nothing.
EachRunReports == task.pc = "done" => events # {} \/ IsEmpty(task.read)

\* The task sends the hook back as a whole, yet all it changes is that the hook is
\* on.  Only when the hook was edited after the task had read it does the task
\* undo the edit.
OnlyEnables ==
    [][task' # task /\ hooks' # hooks =>
        /\ hooks'["new"] = hooks["new"] /\ hooks'["known"].is_active
        /\ hooks'["known"].scope # hooks["known"].scope =>
               hooks'["known"].scope = task.read["known"].scope]_watchVars

\* Somebody starts the task again and again; the code does not see to it.
Restarted == []<><<TaskStart>>_watchVars

\* While the task is started again and again, a hook of the number that it knows is
\* not left switched off: runs that fail half way, an edit the run undoes and a
\* script that sends back what it read too early delay that, and no more.
EnabledAgain ==
    Restarted => ((hooks["known"] # NoHook /\ ~hooks["known"].is_active)
                     ~> (hooks["known"] = NoHook \/ hooks["known"].is_active))

=============================================================================
