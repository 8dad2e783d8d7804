---------------------------- MODULE BrokerEngine ----------------------------
(***************************************************************************)
(* The inference half of the Android broker during one life of             *)
(* BrokerService: HTTP calls and jobs of the service are coroutines that   *)
(* share one native engine behind two fair mutexes, the coordinator's and  *)
(* the lifecycle one.  An inference may time out, a load may fail, and the *)
(* service may be destroyed at any moment.                                 *)
(*                                                                         *)
(* Abstractions.  An engine object is named by the coroutine that created  *)
(* it.  Calls that guarded() turns away, and the routes that touch no      *)
(* engine, are in BrokerAccess.  Routing and chat differ in what is done   *)
(* with the text (Routing) and are one kind here.                          *)
(***************************************************************************)
EXTENDS Naturals, Sequences, SequencesExt, FiniteSets

CONSTANTS
  Call,            \* HTTP calls that pass guarded()
  Job,             \* coroutines that BrokerService launches
  Main,            \* the main thread inside onDestroy
  Model,           \* model names
  Imported,        \* those ModelRegistry.find returns
  NoModel, NoEngine,
  MaxQueued,       \* LiteRtEngineController: 1
  Asks             \* bound: what each coroutine may be asked to do

Worker == Call \cup Job \cup {Main}

Kind == {"infer", "load", "unload"}
Task == [kind : Kind, model : Model \cup {NoModel}]

ASSUME WorkerAssumption ==
  /\ IsFiniteSet(Call) /\ Call \cap Job = {} /\ Main \notin Call \cup Job
  /\ NoEngine \notin Worker /\ NoModel \notin Model
  /\ Imported \subseteq Model /\ MaxQueued \in Nat
ASSUME AskAssumption ==
  /\ Asks \in [Call \cup Job -> SUBSET Task]
  /\ \A j \in Job : \A t \in Asks[j] : t.kind # "infer"

VARIABLES
  service,    \* where BrokerService is in its life
  task, pc,   \* what each coroutine was asked, and where it is
  coordinator, lifecycle,  \* the mutexes: holder first, then who waits
  admitted,   \* InferenceCoordinator.admitted
  engine, modelName,       \* LiteRtEngineController
  live,       \* native engines that are initialized and not closed
  active,     \* the engine an inference took from the field
  expired,    \* inferences whose time ran out inside the native call
  cancelled,  \* coroutines that were cancelled
  reply,      \* how a coroutine ended: a status for an HTTP call
  straggler   \* history: jobs that outlived the unloading of onDestroy

locks  == <<coordinator, lifecycle, admitted>>
native == <<engine, modelName, live>>
fate   == <<expired, cancelled, straggler>>
engineVars   == <<service, task, pc, locks, native, active, fate, reply>>

Reply == {"none", "ok", "busy", "unavailable", "timeout", "not_found",
          "not_loaded", "failed", "dropped"}
Place == {"new", "begin", "queued", "waiting", "closed", "native", "leaving", "done"}

EngineTypeOK ==
  /\ service \in {"created", "serving", "broken", "stopping", "unloading", "destroyed"}
  /\ task \in [Worker -> Task] /\ pc \in [Worker -> Place]
  /\ coordinator \in Seq(Call) /\ lifecycle \in Seq(Worker) /\ admitted \in Nat
  /\ engine \in Worker \cup {NoEngine} /\ modelName \in Model \cup {NoModel}
  /\ live \subseteq Worker /\ active \in [Call -> Worker \cup {NoEngine}]
  /\ expired \subseteq Call /\ cancelled \subseteq Call \cup Job /\ straggler \subseteq Job
  /\ reply \in [Worker -> Reply]

EngineInit ==
  /\ service = "created"
  /\ task = [w \in Worker |-> [kind |-> "unload", model |-> NoModel]]
  /\ pc = [w \in Worker |-> "new"]
  /\ coordinator = <<>> /\ lifecycle = <<>> /\ admitted = 0
  /\ engine = NoEngine /\ modelName = NoModel /\ live = {}
  /\ active = [c \in Call |-> NoEngine]
  /\ expired = {} /\ cancelled = {} /\ straggler = {}
  /\ reply = [w \in Worker |-> "none"]

Holds(w) == lifecycle # <<>> /\ Head(lifecycle) = w
At(w, place, kind) == pc[w] = place /\ task[w].kind = kind
Goto(w, place) == pc' = [pc EXCEPT ![w] = place]
Answer(w, status) ==
  reply' = [reply EXCEPT ![w] = IF w \in cancelled THEN "dropped" ELSE status]
End(w, status) == Goto(w, "done") /\ Answer(w, status)
AwaitLifecycle(w) == lifecycle' = Append(lifecycle, w) /\ Goto(w, "waiting")
Release(w) == lifecycle' = RemoveFirst(lifecycle, w)

-----------------------------------------------------------------------------
(* BrokerService and the server's life.                                    *)

StartServer ==
  /\ service = "created"
  /\ service' \in {"serving", "broken"}
  /\ UNCHANGED <<task, pc, locks, native, active, fate, reply>>

(* ACTION_LOAD and ACTION_UNLOAD launch a coroutine in the service's scope. *)
Launch(j, t) ==
  /\ service \in {"serving", "broken"} /\ pc[j] = "new"
  /\ task' = [task EXCEPT ![j] = t] /\ Goto(j, "begin")
  /\ UNCHANGED <<service, locks, native, active, fate, reply>>

Arrive(c, t) ==
  /\ service = "serving" /\ pc[c] = "new"
  /\ task' = [task EXCEPT ![c] = t] /\ Goto(c, "begin")
  /\ UNCHANGED <<service, locks, native, active, fate, reply>>

(* onDestroy: the server takes no more calls ...                           *)
OnDestroy ==
  /\ service \in {"created", "serving", "broken"}
  /\ service' = "stopping"
  /\ UNCHANGED <<task, pc, locks, native, active, fate, reply>>

\* Mistake: stopping the server leaves its calls alone.
CloseServerOnly ==
  /\ service = "stopping" /\ service' = "unloading"
  /\ AwaitLifecycle(Main)
  /\ UNCHANGED <<task, coordinator, admitted, native, active, fate, reply>>

(* ... cancels those still there when the grace is over, and waits for the *)
(* lifecycle mutex to unload.                                              *)
CloseServer ==
  /\ service = "stopping" /\ service' = "unloading"
  /\ cancelled' = cancelled \cup {c \in Call : pc[c] \notin {"new", "done"}}
  /\ AwaitLifecycle(Main)
  /\ UNCHANGED <<task, coordinator, admitted, native, active, expired, straggler, reply>>

(* scope.cancel() after the unloading.                                     *)
Destroyed ==
  /\ service = "unloading" /\ pc[Main] = "done"
  /\ service' = "destroyed"
  /\ cancelled' = cancelled \cup {j \in Job : pc[j] \notin {"new", "done"}}
  /\ UNCHANGED <<task, pc, locks, native, active, expired, straggler, reply>>

-----------------------------------------------------------------------------
(* infer(): InferenceCoordinator.run around the lifecycle mutex.           *)

Admit(c) ==
  /\ At(c, "begin", "infer")
  /\ IF admitted > MaxQueued
     THEN End(c, "busy") /\ UNCHANGED locks
     ELSE /\ admitted' = admitted + 1
          /\ coordinator' = Append(coordinator, c)
          /\ Goto(c, "queued")
          /\ UNCHANGED <<lifecycle, reply>>
  /\ UNCHANGED <<service, task, native, active, fate>>

TakeCoordinator(c) ==
  /\ pc[c] = "queued" /\ Head(coordinator) = c
  /\ AwaitLifecycle(c)
  /\ UNCHANGED <<service, task, coordinator, admitted, native, active, fate, reply>>

\* Mistake: a call whose time runs out in the queue keeps its place there.
LeaveCoordinatorOnly(c, status) ==
  /\ coordinator' = RemoveFirst(coordinator, c)
  /\ lifecycle' = IF pc[c] = "native" THEN RemoveFirst(lifecycle, c) ELSE lifecycle
  /\ Goto(c, "leaving") /\ Answer(c, status)
  /\ UNCHANGED admitted

(* Leaves both mutexes; the finally block is a step of its own.            *)
LeaveWith(c, status) ==
  /\ coordinator' = RemoveFirst(coordinator, c) /\ Release(c)
  /\ Goto(c, "leaving") /\ Answer(c, status)
  /\ UNCHANGED admitted

\* Mistake: the name is not compared under the lock.
InferWithAnyModel(c) ==
  /\ At(c, "waiting", "infer") /\ Holds(c) /\ c \notin cancelled
  /\ IF engine = NoEngine
     THEN LeaveWith(c, "unavailable") /\ UNCHANGED active
     ELSE /\ active' = [active EXCEPT ![c] = engine] /\ Goto(c, "native")
          /\ UNCHANGED <<locks, reply>>
  /\ UNCHANGED <<service, task, native, fate>>

BeginInfer(c) ==
  /\ At(c, "waiting", "infer") /\ Holds(c) /\ c \notin cancelled
  /\ IF engine = NoEngine \/ modelName # task[c].model
     THEN LeaveWith(c, "unavailable") /\ UNCHANGED active
     ELSE /\ active' = [active EXCEPT ![c] = engine] /\ Goto(c, "native")
          /\ UNCHANGED <<locks, reply>>
  /\ UNCHANGED <<service, task, native, fate>>

(* The blocking call ends; only now is a timeout noticed.                  *)
EndInfer(c) ==
  /\ At(c, "native", "infer")
  /\ \E status \in {"ok", "failed"} :
       LeaveWith(c, IF c \in expired THEN "timeout" ELSE status)
  /\ UNCHANGED <<service, task, native, active, fate>>

(* A timeout ends a wait at once, and a native call not at all.            *)
Expire(c) ==
  \/ /\ pc[c] \in {"queued", "waiting"} /\ task[c].kind = "infer"
     /\ LeaveWith(c, "timeout")
     /\ UNCHANGED <<service, task, native, active, fate>>
  \/ /\ At(c, "native", "infer") /\ c \notin expired
     /\ expired' = expired \cup {c}
     /\ UNCHANGED <<service, task, pc, locks, native, active, cancelled, straggler, reply>>

\* Mistake: the counter is decremented on success only.
LeaveOnSuccess(c) ==
  /\ pc[c] = "leaving" /\ Goto(c, "done")
  /\ admitted' = admitted - (IF reply[c] = "ok" THEN 1 ELSE 0)
  /\ UNCHANGED <<service, task, coordinator, lifecycle, native, active, fate, reply>>

Leave(c) ==
  /\ pc[c] = "leaving" /\ Goto(c, "done")
  /\ admitted' = admitted - 1
  /\ UNCHANGED <<service, task, coordinator, lifecycle, native, active, fate, reply>>

-----------------------------------------------------------------------------
(* load() and unload(), called by a route, by a job or by onDestroy.       *)

FindModel(w) ==
  /\ At(w, "begin", "load")
  /\ IF task[w].model \in Imported
     THEN AwaitLifecycle(w) /\ UNCHANGED reply
     ELSE End(w, "not_found") /\ UNCHANGED lifecycle
  /\ UNCHANGED <<service, task, coordinator, admitted, native, active, fate>>

(* The route compares the status before it asks for the mutex.             *)
AskUnload(w) ==
  /\ At(w, "begin", "unload")
  /\ IF w \in Job \/ modelName = task[w].model
     THEN AwaitLifecycle(w) /\ UNCHANGED reply
     ELSE End(w, "not_loaded") /\ UNCHANGED lifecycle
  /\ UNCHANGED <<service, task, coordinator, admitted, native, active, fate>>

CloseEngine(w) ==
  /\ pc[w] = "waiting" /\ task[w].kind # "infer" /\ Holds(w) /\ w \notin cancelled
  /\ live' = live \ {engine}
  /\ Goto(w, "closed")
  /\ UNCHANGED <<service, task, locks, engine, modelName, active, fate, reply>>

BeginLoad(w) ==
  /\ At(w, "closed", "load") /\ Goto(w, "native")
  /\ engine' = NoEngine /\ modelName' = NoModel /\ live' = live \cup {w}
  /\ UNCHANGED <<service, task, locks, active, fate, reply>>

EndLoad(w) ==
  /\ At(w, "native", "load") /\ Release(w)
  /\ \/ /\ engine' = w /\ modelName' = task[w].model /\ End(w, "ok")
        /\ UNCHANGED live
     \/ live' = live \ {w} /\ End(w, "failed") /\ UNCHANGED <<engine, modelName>>
  /\ UNCHANGED <<service, task, coordinator, admitted, active, fate>>

(* The fields are cleared outside withContext: a coroutine cancelled while *)
(* it closed the engine leaves them.                                       *)
EndUnload(w) ==
  /\ At(w, "closed", "unload") /\ Release(w) /\ End(w, "ok")
  /\ IF w \in cancelled THEN UNCHANGED <<engine, modelName>>
     ELSE engine' = NoEngine /\ modelName' = NoModel
  /\ straggler' = IF w = Main THEN {j \in Job : pc[j] \notin {"new", "done"}} ELSE straggler
  /\ UNCHANGED <<service, task, coordinator, admitted, live, active, expired, cancelled>>

(* A cancelled coroutine goes no further than its next suspension.         *)
Drop(w) ==
  /\ w \in cancelled /\ pc[w] \in {"begin", "queued", "waiting"}
  /\ IF task[w].kind = "infer" /\ pc[w] # "begin"
     THEN LeaveWith(w, "dropped")
     ELSE Release(w) /\ End(w, "dropped") /\ UNCHANGED <<coordinator, admitted>>
  /\ UNCHANGED <<service, task, native, active, fate>>

-----------------------------------------------------------------------------
CallStep(c) == \/ Admit(c) \/ TakeCoordinator(c) \/ BeginInfer(c) \/ EndInfer(c) \/ Leave(c)
EngineStep(w) ==
  \/ FindModel(w) \/ AskUnload(w) \/ CloseEngine(w) \/ BeginLoad(w) \/ EndLoad(w)
  \/ EndUnload(w) \/ Drop(w)
Stop == CloseServer \/ Destroyed

EngineNext ==
  \/ StartServer \/ OnDestroy \/ Stop
  \/ \E j \in Job : \E t \in Asks[j] : Launch(j, t)
  \/ \E c \in Call : (\E t \in Asks[c] : Arrive(c, t)) \/ CallStep(c) \/ Expire(c)
  \/ \E w \in Worker : EngineStep(w)

EngineSpec == EngineInit /\ [][EngineNext]_engineVars

(* Mutexes are fair and native calls return.  Nothing makes a call arrive  *)
(* or time out, or the service stop; a stop that has begun goes on.        *)
EngineFair ==
  /\ WF_engineVars(Stop)
  /\ \A w \in Worker : WF_engineVars(EngineStep(w) \/ (w \in Call /\ CallStep(w)))
-----------------------------------------------------------------------------
(* Properties.                                                             *)

(* An inference runs on an engine that is open, whose model is the one the *)
(* call named, and no second engine is in memory: loads, unloads, timeouts *)
(* and the end of the service come between whenever they can.              *)
UsesOpenEngine ==
  /\ Cardinality(live) <= 1
  /\ \A c \in Call : At(c, "native", "infer") =>
       active[c] \in live /\ task[active[c]].model = task[c].model

(* The admission counter counts the inferences that are under way: it is   *)
(* never left too high by a timeout, a cancellation or an error, which     *)
(* would shut callers out for good, and never above its limit.             *)
AdmissionExact ==
  /\ admitted <= MaxQueued + 1
  /\ admitted = Cardinality({c \in Call : /\ task[c].kind = "infer"
                                          /\ pc[c] \notin {"new", "begin", "done"}})

(* Only one thing can stay loaded when the service is gone: what a job     *)
(* that was launched before, and had not got the mutex when onDestroy      *)
(* unloaded, has loaded since.  No call leaves an engine behind, whenever  *)
(* it was cut off (BrokerService.kt lines 94-101).                         *)
OnlyLateJobsLeak == service = "destroyed" => live \subseteq straggler

(* "conversations and engine explicitly closed; service unloads on         *)
(* destruction" (docs/security/threat-model.md line 25): when the service  *)
(* is destroyed and nobody is at work any more, no engine is loaded.  That *)
(* late job breaks it: it gets the mutex between the unload and the cancel *)
(* of its scope (lines 97, 98), and a native load cannot be interrupted.   *)
UnloadedAtEnd ==
  service = "destroyed" /\ (\A w \in Worker : pc[w] \in {"new", "done"}) => live = {}

(* Every call that arrives is answered in the end; only the end of the     *)
(* service drops one.                                                      *)
Answered ==
  <>[](\A c \in Call : pc[c] # "new" =>
         /\ pc[c] = "done" /\ reply[c] # "none"
         /\ reply[c] = "dropped" => service \notin {"created", "serving"})
=============================================================================
