---------------------------- MODULE Broker_proofs ----------------------------
(* Theorems about the Android broker and the client's routing, for every   *)
(* value of their constants: the engine of the broker, its token and rate  *)
(* limit, its model store, and what becomes of a command.                  *)
EXTENDS BrokerEngine, BrokerAccess, ModelStore, Routing, Lemmas, SequenceTheorems, TLAPS

-----------------------------------------------------------------------------
(* BrokerEngine, for any number of calls, jobs and models and any length of *)
(* the queue.                                                              *)

(* Facts about a queue without repetitions.                                *)

InLine(s, w) == \E k \in 1 .. Len(s) : s[k] = w
Distinct(s) == \A i, j \in 1 .. Len(s) : s[i] = s[j] => i = j

(* A newcomer is last.                                                     *)
LEMMA JoinsLine ==
  ASSUME NEW S, NEW s \in Seq(S), Distinct(s), NEW e \in S, ~InLine(s, e)
  PROVE  /\ Append(s, e) \in Seq(S) /\ Distinct(Append(s, e))
         /\ \A w : InLine(Append(s, e), w) <=> InLine(s, w) \/ w = e
         /\ s # <<>> => Append(s, e) # <<>> /\ Head(Append(s, e)) = Head(s)
<1>1. /\ Append(s, e) \in Seq(S) /\ Len(Append(s, e)) = Len(s) + 1 /\ Len(s) \in Nat
      /\ \A i \in 1 .. Len(s) : Append(s, e)[i] = s[i]
      /\ Append(s, e)[Len(s) + 1] = e
  BY AppendProperties
<1>2. Distinct(Append(s, e)) BY <1>1 DEF Distinct, InLine
<1>3. ASSUME NEW w PROVE InLine(Append(s, e), w) <=> InLine(s, w) \/ w = e
  BY <1>1 DEF InLine
<1>4. s # <<>> => Append(s, e) # <<>> /\ Head(Append(s, e)) = Head(s) BY <1>1
<1> QED BY <1>1, <1>2, <1>3, <1>4

(* Who leaves is gone, and whoever else is first stays first.              *)
LEMMA LeavesLine ==
  ASSUME NEW S, NEW s \in Seq(S), Distinct(s), NEW e
  PROVE  /\ RemoveFirst(s, e) \in Seq(S) /\ Distinct(RemoveFirst(s, e))
         /\ \A w : InLine(RemoveFirst(s, e), w) <=> InLine(s, w) /\ w # e
         /\ s # <<>> /\ Head(s) # e =>
              RemoveFirst(s, e) # <<>> /\ Head(RemoveFirst(s, e)) = Head(s)
<1>1. CASE ~InLine(s, e)
  <2>1. RemoveFirst(s, e) = s BY <1>1 DEF RemoveFirst, InLine
  <2> QED BY <1>1, <2>1
<1>2. CASE InLine(s, e)
  <2>1. PICK k \in 1 .. Len(s) : s[k] = e BY <1>2 DEF InLine
  <2> DEFINE n == Len(s)
             r == SubSeq(s, 1, k - 1) \o SubSeq(s, k + 1, n)
  <2>2. RemoveFirst(s, e) = r
    <3>1. {i \in 1 .. Len(s) : s[i] = e} = {k} BY <2>1 DEF Distinct
    <3>2. Min({k}) = k BY DEF Min
    <3> QED BY <2>1, <3>1, <3>2 DEF RemoveFirst, RemoveAt, SelectInSeq
  <2>3. n \in Nat /\ k \in 1 .. n BY <2>1
  <2>4. /\ r \in Seq(S) /\ Len(r) = n - 1
        /\ \A i \in 1 .. n - 1 : r[i] = IF i < k THEN s[i] ELSE s[i + 1]
    <3> DEFINE a == SubSeq(s, 1, k - 1)
               b == SubSeq(s, k + 1, n)
    <3>1. \A i \in 1 .. n : s[i] \in S OBVIOUS
    <3>2. /\ a \in Seq(S) /\ Len(a) = k - 1
          /\ \A i \in 1 .. k - 1 : a[i] = s[i]
      OBVIOUS
    <3>3. /\ b \in Seq(S) /\ Len(b) = n - k
          /\ \A i \in 1 .. n - k : b[i] = s[i + k]
      OBVIOUS
    <3> HIDE DEF a, b
    <3>4. /\ a \o b \in Seq(S) /\ Len(a \o b) = Len(a) + Len(b)
          /\ \A i \in 1 .. Len(a) + Len(b) :
               (a \o b)[i] = IF i <= Len(a) THEN a[i] ELSE b[i - Len(a)]
      BY <3>2, <3>3, ConcatProperties
    <3> HIDE DEF n
    <3>5. Len(a) + Len(b) = n - 1 BY <2>3, <3>2, <3>3
    <3>6. r = a \o b BY DEF a, b
    <3> HIDE DEF r
    <3>7. ASSUME NEW i \in 1 .. n - 1 PROVE r[i] = IF i < k THEN s[i] ELSE s[i + 1]
      <4>1. CASE i < k BY <2>3, <3>2, <3>4, <3>5, <3>6, <4>1
      <4>2. CASE ~(i < k)
        <5>1. i - Len(a) \in 1 .. n - k /\ (i - Len(a)) + k = i + 1 BY <2>3, <3>2, <4>2
        <5>2. r[i] = b[i - Len(a)] BY <2>3, <3>2, <3>4, <3>5, <3>6, <4>2
        <5> QED BY <3>3, <4>2, <5>1, <5>2
      <4> QED BY <4>1, <4>2
    <3> QED BY <3>4, <3>5, <3>6, <3>7
  <2> HIDE DEF n, r
  <2>5. \A i, j \in 1 .. n : s[i] = s[j] => i = j BY DEF Distinct, n
  <2>6. Distinct(r)
    <3> SUFFICES ASSUME NEW i \in 1 .. n - 1, NEW j \in 1 .. n - 1, r[i] = r[j] PROVE i = j
      BY <2>4 DEF Distinct
    <3> DEFINE up(m) == IF m < k THEN m ELSE m + 1
    <3>1. \A m \in 1 .. n - 1 : up(m) \in 1 .. n /\ r[m] = s[up(m)] BY <2>3, <2>4
    <3>2. up(i) = up(j) BY <2>5, <3>1
    <3> QED BY <2>3, <3>2
  <2>7. ASSUME NEW w PROVE InLine(r, w) <=> InLine(s, w) /\ w # e
    <3>1. ASSUME NEW i \in 1 .. n - 1 PROVE r[i] # e /\ \E j \in 1 .. n : r[i] = s[j]
      BY <2>1, <2>3, <2>4, <2>5, <3>1
    <3>2. ASSUME NEW j \in 1 .. n, s[j] # e PROVE \E i \in 1 .. n - 1 : r[i] = s[j]
      <4>1. CASE j < k
        <5>1. j \in 1 .. n - 1 /\ r[j] = s[j] BY <2>3, <2>4, <4>1
        <5> QED BY <5>1
      <4>2. CASE j > k
        <5>1. j - 1 \in 1 .. n - 1 /\ r[j - 1] = s[j] BY <2>3, <2>4, <4>2
        <5> QED BY <5>1
      <4> QED BY <2>1, <2>3, <3>2, <4>1, <4>2
    <3> QED BY <2>4, <3>1, <3>2 DEF InLine, n
  <2>8. s # <<>> /\ Head(s) # e => r # <<>> /\ Head(r) = Head(s)
    <3> SUFFICES ASSUME s # <<>>, Head(s) # e PROVE r # <<>> /\ Head(r) = Head(s)
      OBVIOUS
    <3>1. Head(s) = s[1] /\ k # 1 BY <2>1
    <3>2. 1 \in 1 .. n - 1 /\ r[1] = s[1] BY <2>3, <2>4, <3>1
    <3> QED BY <2>4, <3>1, <3>2
  <2> QED BY <2>2, <2>4, <2>6, <2>7, <2>8
<1> QED BY <1>1, <1>2

-----------------------------------------------------------------------------
(* The invariant.                                                          *)

(* A coroutine is where its kind of task can be.                           *)
Placed ==
  /\ \A w \in Worker : pc[w] \in {"queued", "leaving"} => w \in Call /\ task[w].kind = "infer"
  /\ \A w \in Worker : pc[w] = "closed" => task[w].kind # "infer"
  /\ \A w \in Worker : pc[w] = "native" => task[w].kind # "unload"
  /\ \A w \in Worker : pc[w] # "new" /\ task[w].kind = "infer" => w \in Call
  /\ task[Main].kind = "unload" /\ pc[Main] # "begin"

(* The queues of the mutexes hold those who wait or work, once each, and   *)
(* whoever works is first.                                                 *)
Lined ==
  /\ Distinct(lifecycle) /\ Distinct(coordinator)
  /\ \A w \in Worker : InLine(lifecycle, w) <=> pc[w] \in {"waiting", "closed", "native"}
  /\ \A c \in Call : InLine(coordinator, c) <=>
                       task[c].kind = "infer" /\ pc[c] \in {"queued", "waiting", "native"}
  /\ \A w \in Worker : pc[w] \in {"closed", "native"} => Holds(w)

(* Only the end of the service cancels, and it cancels every call.         *)
Gone == service \in {"unloading", "destroyed"}
Cancelled ==
  /\ cancelled # {} => Gone
  /\ Gone => \A c \in Call : pc[c] \in {"new", "done"} \/ c \in cancelled
  /\ pc[Main] # "new" <=> Gone
  /\ service = "destroyed" => pc[Main] = "done"

(* Whoever changes the engine is alone with what it has made of it; the    *)
(* field names the open engine, or nobody is left to use it.               *)
Changing(w) == pc[w] = "closed" \/ At(w, "native", "load")
Memory ==
  /\ \A w \in Worker : pc[w] = "closed" => live = {}
  /\ \A w \in Worker : At(w, "native", "load") => live = {w} /\ engine = NoEngine
  /\ (\A w \in Worker : ~Changing(w)) =>
       live \subseteq {engine} \ {NoEngine} /\ (engine # NoEngine => engine \in live \/ Gone)
  /\ engine # NoEngine => pc[engine] = "done" /\ task[engine].model = modelName
  /\ \A c \in Call : At(c, "native", "infer") =>
       active[c] = engine /\ engine \in live /\ task[engine].model = task[c].model

(* After the unloading of onDestroy only jobs that it found waiting go on. *)
Unloaded ==
  pc[Main] = "done" =>
    /\ live \subseteq straggler
    /\ \A j \in Job : pc[j] \notin {"new", "done"} => j \in straggler
    /\ \A c \in Call : pc[c] \notin {"closed", "native"}

UnderWay == {c \in Call : task[c].kind = "infer" /\ pc[c] \notin {"new", "begin", "done"}}
Admitted == admitted <= MaxQueued + 1 /\ admitted = Cardinality(UnderWay)

EngineInv ==
  EngineTypeOK /\ Placed /\ Lined /\ Cancelled /\ Memory /\ Unloaded /\ Admitted

LEMMA EngineStart == EngineInit => EngineInv
<1> SUFFICES ASSUME EngineInit PROVE EngineInv
  OBVIOUS
<1> USE DEF EngineInit
<1>1. EngineTypeOK BY WorkerAssumption DEF EngineTypeOK, Worker, Task, Kind, Place, Reply
<1>2. Placed BY DEF Placed, Worker
<1>3. Lined BY DEF Lined, Distinct, InLine, Worker
<1>4. Cancelled BY DEF Cancelled, Gone, Worker
<1>5. Memory BY DEF Memory, Changing, At, Worker
<1>6. Unloaded BY DEF Unloaded, Worker
<1>7. Admitted
  <2>1. UnderWay = {} BY DEF UnderWay, Worker
  <2> QED BY <2>1, FS_EmptySet, WorkerAssumption DEF Admitted
<1> QED BY <1>1, <1>2, <1>3, <1>4, <1>5, <1>6, <1>7 DEF EngineInv

(* What the two mutexes do to the queues.                                  *)
LEMMA QueueEnds ==
  ASSUME EngineTypeOK, Lined
  PROVE  /\ \A w \in Worker :
              /\ RemoveFirst(lifecycle, w) \in Seq(Worker)
              /\ ~InLine(lifecycle, w) => Append(lifecycle, w) \in Seq(Worker)
         /\ \A c \in Call :
              /\ RemoveFirst(coordinator, c) \in Seq(Call)
              /\ ~InLine(coordinator, c) => Append(coordinator, c) \in Seq(Call)
BY JoinsLine, LeavesLine DEF EngineTypeOK, Lined

(* Who works holds the mutex, so nobody else works.                        *)
LEMMA OneWorks ==
  ASSUME Lined, NEW v \in Worker, NEW w \in Worker, Holds(v) \/ pc[v] \in {"closed", "native"},
         pc[w] \in {"closed", "native"}
  PROVE  v = w
BY DEF Lined, Holds

(* A call under way is counted.                                            *)
LEMMA Counted ==
  ASSUME EngineInv, NEW c \in UnderWay
  PROVE  admitted \in Nat \ {0}
<1>1. IsFiniteSet(UnderWay) BY FS_Subset, WorkerAssumption DEF UnderWay
<1> QED BY <1>1, FS_EmptySet DEF EngineInv, Admitted, EngineTypeOK

Queued == coordinator \in Seq(Call) /\ lifecycle \in Seq(Worker)

(* The types but those of the queues.                                      *)
TypedRest ==
  /\ service \in {"created", "serving", "broken", "stopping", "unloading", "destroyed"}
  /\ task \in [Worker -> Task] /\ pc \in [Worker -> Place] /\ admitted \in Nat
  /\ engine \in Worker \cup {NoEngine} /\ modelName \in Model \cup {NoModel}
  /\ live \subseteq Worker /\ active \in [Call -> Worker \cup {NoEngine}]
  /\ expired \subseteq Call /\ cancelled \subseteq Call \cup Job /\ straggler \subseteq Job
  /\ reply \in [Worker -> Reply]

LEMMA TypesSplit == EngineTypeOK <=> TypedRest /\ Queued
BY DEF EngineTypeOK, TypedRest, Queued

(* The queues hold coroutines.                                             *)
LEMMA EngineQueued == EngineInv /\ [EngineNext]_engineVars => Queued'
<1> SUFFICES ASSUME EngineInv, [EngineNext]_engineVars PROVE Queued'
  OBVIOUS
<1>0. EngineTypeOK /\ Placed /\ Lined BY DEF EngineInv
<1>. Queued /\ pc \in [Worker -> Place] /\ Call \subseteq Worker /\ Main \in Worker
  BY <1>0 DEF Queued, EngineTypeOK, Worker
<1>. \A w \in Worker : RemoveFirst(lifecycle, w) \in Seq(Worker) BY <1>0, QueueEnds
<1>. \A c \in Call : RemoveFirst(coordinator, c) \in Seq(Call) BY <1>0, QueueEnds
<1>. \A w \in Worker, s \in Seq(Worker) : Append(s, w) \in Seq(Worker) OBVIOUS
<1>. \A c \in Call, s \in Seq(Call) : Append(s, c) \in Seq(Call) OBVIOUS
<1> USE DEF Queued, AwaitLifecycle, Release, LeaveWith, locks
<1>1. CASE UNCHANGED engineVars BY <1>1 DEF engineVars, locks, native, fate
<1>2. CASE StartServer
  BY <1>2 DEF StartServer
<1>3. CASE OnDestroy
  BY <1>3 DEF OnDestroy
<1>4. CASE CloseServer
  BY <1>4 DEF CloseServer
<1>5. CASE Destroyed
  BY <1>5 DEF Destroyed
<1>6. ASSUME NEW j \in Job, NEW t \in Asks[j], Launch(j, t) PROVE Queued'
  BY <1>6 DEF Launch
<1>7. ASSUME NEW c \in Call, NEW t \in Asks[c], Arrive(c, t) PROVE Queued'
  BY <1>7 DEF Arrive
<1>8. ASSUME NEW c \in Call, Admit(c) PROVE Queued'
  BY <1>8 DEF Admit
<1>9. ASSUME NEW c \in Call, TakeCoordinator(c) PROVE Queued'
  BY <1>9 DEF TakeCoordinator
<1>10. ASSUME NEW c \in Call, BeginInfer(c) PROVE Queued'
  BY <1>10 DEF BeginInfer
<1>11. ASSUME NEW c \in Call, EndInfer(c) PROVE Queued'
  BY <1>11 DEF EndInfer
<1>12. ASSUME NEW c \in Call, Expire(c) PROVE Queued'
  BY <1>12 DEF Expire
<1>13. ASSUME NEW c \in Call, Leave(c) PROVE Queued'
  BY <1>13 DEF Leave
<1>14. ASSUME NEW w \in Worker, FindModel(w) PROVE Queued'
  BY <1>14 DEF FindModel
<1>15. ASSUME NEW w \in Worker, AskUnload(w) PROVE Queued'
  BY <1>15 DEF AskUnload
<1>16. ASSUME NEW w \in Worker, CloseEngine(w) PROVE Queued'
  BY <1>16 DEF CloseEngine
<1>17. ASSUME NEW w \in Worker, BeginLoad(w) PROVE Queued'
  BY <1>17 DEF BeginLoad
<1>18. ASSUME NEW w \in Worker, EndLoad(w) PROVE Queued'
  BY <1>18 DEF EndLoad
<1>19. ASSUME NEW w \in Worker, EndUnload(w) PROVE Queued'
  BY <1>19 DEF EndUnload
<1>20. ASSUME NEW w \in Worker, Drop(w) PROVE Queued'
  <2>1. task[w].kind = "infer" => w \in Call BY <1>20, <1>0 DEF Drop, Placed
  <2>2. CASE task[w].kind = "infer" /\ pc[w] # "begin" BY <1>20, <2>1, <2>2 DEF Drop
  <2>3. CASE ~(task[w].kind = "infer" /\ pc[w] # "begin")
    <3>1. UNCHANGED coordinator /\ lifecycle' = RemoveFirst(lifecycle, w) BY <1>20, <2>3 DEF Drop
    <3> QED BY <3>1
  <2> QED BY <2>2, <2>3
<1> QED BY <1>1, <1>2, <1>3, <1>4, <1>5, <1>6, <1>7, <1>8, <1>9, <1>10, <1>11,
         <1>12, <1>13, <1>14, <1>15, <1>16, <1>17, <1>18, <1>19, <1>20
    DEF EngineNext, Stop, CallStep, EngineStep

(* Everything else has its type.                                           *)
LEMMA EngineTypedRest == EngineInv /\ [EngineNext]_engineVars => TypedRest'
<1> SUFFICES ASSUME EngineInv, [EngineNext]_engineVars PROVE TypedRest'
  OBVIOUS
<1>. TypedRest /\ Call \subseteq Worker /\ Job \subseteq Worker /\ Main \in Worker
  BY TypesSplit DEF EngineInv, Worker
<1> USE WorkerAssumption, AskAssumption
    DEF TypedRest, Task, Kind, Place, Reply, At, Goto, Answer, End, AwaitLifecycle, LeaveWith,
        locks, native, fate
<1>1. CASE UNCHANGED engineVars BY <1>1 DEF engineVars, locks, native, fate
<1>2. CASE StartServer
  BY <1>2 DEF StartServer
<1>3. CASE OnDestroy
  BY <1>3 DEF OnDestroy
<1>4. CASE CloseServer
  BY <1>4 DEF CloseServer
<1>5. CASE Destroyed
  BY <1>5 DEF Destroyed
<1>6. ASSUME NEW j \in Job, NEW t \in Asks[j], Launch(j, t) PROVE TypedRest'
  BY <1>6 DEF Launch
<1>7. ASSUME NEW c \in Call, NEW t \in Asks[c], Arrive(c, t) PROVE TypedRest'
  BY <1>7 DEF Arrive
<1>8. ASSUME NEW c \in Call, Admit(c) PROVE TypedRest'
  BY <1>8 DEF Admit
<1>9. ASSUME NEW c \in Call, TakeCoordinator(c) PROVE TypedRest'
  BY <1>9 DEF TakeCoordinator
<1>10. ASSUME NEW c \in Call, BeginInfer(c) PROVE TypedRest'
  <2>1. CASE engine = NoEngine \/ modelName # task[c].model
    <3>1. LeaveWith(c, "unavailable") /\ UNCHANGED <<service, task, native, fate, active>>
      BY <1>10, <2>1 DEF BeginInfer
    <3>2. pc' \in [Worker -> Place] /\ reply' \in [Worker -> Reply] BY <3>1
    <3>3. UNCHANGED <<service, task, admitted, engine, modelName, live, active, expired,
                      cancelled, straggler>>
      BY <3>1
    <3> QED BY <3>2, <3>3
  <2>2. CASE ~(engine = NoEngine \/ modelName # task[c].model)
    <3>1. /\ active' = [active EXCEPT ![c] = engine] /\ Goto(c, "native")
          /\ UNCHANGED <<service, task, admitted, native, fate, reply>>
      BY <1>10, <2>2 DEF BeginInfer
    <3>2. active' \in [Call -> Worker \cup {NoEngine}] /\ pc' \in [Worker -> Place] BY <3>1
    <3> QED BY <3>1, <3>2
  <2> QED BY <2>1, <2>2
<1>11. ASSUME NEW c \in Call, EndInfer(c) PROVE TypedRest'
  BY <1>11 DEF EndInfer
<1>12. ASSUME NEW c \in Call, Expire(c) PROVE TypedRest'
  <2>1. CASE LeaveWith(c, "timeout") BY <1>12, <2>1 DEF Expire
  <2>2. CASE ~LeaveWith(c, "timeout")
    <3>1. expired' = expired \cup {c} /\ UNCHANGED <<service, task, pc, admitted, native, active>>
      BY <1>12, <2>2 DEF Expire
    <3>2. UNCHANGED <<cancelled, straggler, reply>> BY <1>12, <2>2 DEF Expire
    <3> QED BY <3>1, <3>2
  <2> QED BY <2>1, <2>2
<1>13. ASSUME NEW c \in Call, Leave(c) PROVE TypedRest'
  <2>1. c \in UnderWay BY <1>13 DEF Leave, EngineInv, Placed, UnderWay
  <2>2. admitted - 1 \in Nat BY <2>1, Counted
  <2> QED BY <1>13, <2>2 DEF Leave
<1>14. ASSUME NEW w \in Worker, FindModel(w) PROVE TypedRest'
  BY <1>14 DEF FindModel
<1>15. ASSUME NEW w \in Worker, AskUnload(w) PROVE TypedRest'
  BY <1>15 DEF AskUnload
<1>16. ASSUME NEW w \in Worker, CloseEngine(w) PROVE TypedRest'
  BY <1>16 DEF CloseEngine
<1>17. ASSUME NEW w \in Worker, BeginLoad(w) PROVE TypedRest'
  BY <1>17 DEF BeginLoad
<1>18. ASSUME NEW w \in Worker, EndLoad(w) PROVE TypedRest'
  <2>1. task[w].model \in Model \cup {NoModel} OBVIOUS
  <2>2. pc' \in [Worker -> Place] /\ reply' \in [Worker -> Reply]
    <3>1. PICK status \in {"ok", "failed"} : End(w, status) BY <1>18 DEF EndLoad
    <3> QED BY <3>1
  <2>3. /\ engine' \in Worker \cup {NoEngine} /\ modelName' \in Model \cup {NoModel}
        /\ live' \subseteq Worker
    BY <1>18, <2>1 DEF EndLoad
  <2>4. UNCHANGED <<service, task, admitted, active, fate>> BY <1>18 DEF EndLoad
  <2> QED BY <2>2, <2>3, <2>4
<1>19. ASSUME NEW w \in Worker, EndUnload(w) PROVE TypedRest'
  BY <1>19 DEF EndUnload
<1>20. ASSUME NEW w \in Worker, Drop(w) PROVE TypedRest'
  BY <1>20 DEF Drop
<1> QED BY <1>1, <1>2, <1>3, <1>4, <1>5, <1>6, <1>7, <1>8, <1>9, <1>10, <1>11,
         <1>12, <1>13, <1>14, <1>15, <1>16, <1>17, <1>18, <1>19, <1>20
    DEF EngineNext, Stop, CallStep, EngineStep
(* The four things a step does to the lifecycle mutex, besides nothing.    *)
InLifecycle == {"waiting", "closed", "native"}
LifecycleStep ==
  \/ UNCHANGED <<pc, lifecycle>>
  \/ \E w \in Worker :
       \/ pc[w] \notin InLifecycle /\ AwaitLifecycle(w)
       \/ Release(w) /\ \E p \in {"leaving", "done"} : Goto(w, p)
       \/ /\ pc[w] \notin InLifecycle /\ UNCHANGED lifecycle
          /\ \E p \in Place \ InLifecycle : Goto(w, p)
       \/ /\ pc[w] \in InLifecycle /\ Holds(w) /\ UNCHANGED lifecycle
          /\ \E p \in {"closed", "native"} : Goto(w, p)

LifecycleOK ==
  /\ Distinct(lifecycle)
  /\ \A w \in Worker : InLine(lifecycle, w) <=> pc[w] \in InLifecycle
  /\ \A w \in Worker : pc[w] \in {"closed", "native"} => Holds(w)

(* Each of the four keeps the queue of the lifecycle mutex in order.       *)
LEMMA LifecycleKept == EngineTypeOK /\ LifecycleOK /\ LifecycleStep => LifecycleOK'
<1> SUFFICES ASSUME EngineTypeOK, LifecycleOK, LifecycleStep PROVE LifecycleOK'
  OBVIOUS
<1>1. pc \in [Worker -> Place] /\ lifecycle \in Seq(Worker) BY DEF EngineTypeOK
<1> USE DEF LifecycleOK, InLifecycle
<1>2. CASE UNCHANGED <<pc, lifecycle>> BY <1>2 DEF Distinct, InLine, Holds
<1>3. ASSUME NEW w \in Worker, pc[w] \notin InLifecycle, AwaitLifecycle(w) PROVE LifecycleOK'
  <2>1. pc' = [pc EXCEPT ![w] = "waiting"] /\ ~InLine(lifecycle, w)
    BY <1>3 DEF AwaitLifecycle, Goto
  <2>2. /\ Distinct(lifecycle')
        /\ \A v : InLine(lifecycle', v) <=> InLine(lifecycle, v) \/ v = w
        /\ lifecycle # <<>> => lifecycle' # <<>> /\ Head(lifecycle') = Head(lifecycle)
    BY <1>1, <1>3, <2>1, JoinsLine DEF AwaitLifecycle
  <2> QED BY <1>1, <2>1, <2>2 DEF Holds
<1>4. ASSUME NEW w \in Worker, NEW p \in {"leaving", "done"}, Release(w), Goto(w, p)
      PROVE  LifecycleOK'
  <2>1. /\ Distinct(lifecycle')
        /\ \A v : InLine(lifecycle', v) <=> InLine(lifecycle, v) /\ v # w
        /\ lifecycle # <<>> /\ Head(lifecycle) # w =>
             lifecycle' # <<>> /\ Head(lifecycle') = Head(lifecycle)
    BY <1>1, <1>4, LeavesLine DEF Release
  <2> QED BY <1>1, <1>4, <2>1 DEF Goto, Holds
<1>5. ASSUME NEW w \in Worker, NEW p \in Place, UNCHANGED lifecycle, Goto(w, p),
             pc[w] \in InLifecycle <=> p \in InLifecycle,
             p \in {"closed", "native"} => Holds(w)
      PROVE  LifecycleOK'
  <2>1. UNCHANGED Distinct(lifecycle) /\ \A v : InLine(lifecycle', v) <=> InLine(lifecycle, v)
    BY <1>5
  <2> QED BY <1>1, <1>5, <2>1 DEF Goto, Holds
<1> QED BY <1>2, <1>3, <1>4, <1>5 DEF LifecycleStep, Place

(* The three things a step does to the coordinator's mutex.                *)
InCoordinator(c) == task[c].kind = "infer" /\ pc[c] \in {"queued", "waiting", "native"}
CoordinatorStep ==
  \/ UNCHANGED coordinator /\ \A c \in Call : InCoordinator(c)' <=> InCoordinator(c)
  \/ \E c \in Call :
       \/ /\ ~InCoordinator(c) /\ coordinator' = Append(coordinator, c)
          /\ \A d \in Call : InCoordinator(d)' <=> InCoordinator(d) \/ d = c
       \/ /\ coordinator' = RemoveFirst(coordinator, c)
          /\ \A d \in Call : InCoordinator(d)' <=> InCoordinator(d) /\ d # c

CoordinatorOK ==
  Distinct(coordinator) /\ \A c \in Call : InLine(coordinator, c) <=> InCoordinator(c)

(* Each of the three keeps the queue of the coordinator in order.          *)
LEMMA CoordinatorKept ==
  coordinator \in Seq(Call) /\ CoordinatorOK /\ CoordinatorStep => CoordinatorOK'
<1> SUFFICES ASSUME coordinator \in Seq(Call), CoordinatorOK, CoordinatorStep
             PROVE  CoordinatorOK'
  OBVIOUS
<1> USE DEF CoordinatorOK
<1>1. CASE UNCHANGED coordinator /\ \A c \in Call : InCoordinator(c)' <=> InCoordinator(c)
  BY <1>1 DEF Distinct, InLine
<1>2. ASSUME NEW c \in Call, ~InCoordinator(c), coordinator' = Append(coordinator, c),
             \A d \in Call : InCoordinator(d)' <=> InCoordinator(d) \/ d = c
      PROVE  CoordinatorOK'
  <2>1. Distinct(coordinator')
        /\ \A d : InLine(coordinator', d) <=> InLine(coordinator, d) \/ d = c
    BY <1>2, JoinsLine
  <2> QED BY <1>2, <2>1
<1>3. ASSUME NEW c \in Call, coordinator' = RemoveFirst(coordinator, c),
             \A d \in Call : InCoordinator(d)' <=> InCoordinator(d) /\ d # c
      PROVE  CoordinatorOK'
  <2>1. Distinct(coordinator')
        /\ \A d : InLine(coordinator', d) <=> InLine(coordinator, d) /\ d # c
    BY <1>3, LeavesLine
  <2> QED BY <1>3, <2>1
<1> QED BY <1>1, <1>2, <1>3 DEF CoordinatorStep

LEMMA LinedSplit == Lined <=> LifecycleOK /\ CoordinatorOK
BY DEF Lined, LifecycleOK, CoordinatorOK, InLifecycle, InCoordinator

(* Coroutines stay where their kind of task can be.                        *)
LEMMA EnginePlaced == EngineInv /\ [EngineNext]_engineVars => Placed'
<1> SUFFICES ASSUME EngineInv, [EngineNext]_engineVars PROVE Placed'
  OBVIOUS
<1>. TypedRest /\ Placed /\ Call \subseteq Worker /\ Job \subseteq Worker /\ Main \in Worker
  BY TypesSplit DEF EngineInv, Worker
<1> USE WorkerAssumption, AskAssumption DEF TypedRest, Placed, At, Goto, End,
    AwaitLifecycle, LeaveWith, Task, Kind, Place
<1>1. CASE UNCHANGED engineVars BY <1>1 DEF engineVars, locks, native, fate
<1>2. CASE StartServer
  BY <1>2 DEF StartServer
<1>3. CASE OnDestroy
  BY <1>3 DEF OnDestroy
<1>4. CASE CloseServer
  BY <1>4 DEF CloseServer
<1>5. CASE Destroyed
  BY <1>5 DEF Destroyed
<1>6. ASSUME NEW j \in Job, NEW t \in Asks[j], Launch(j, t) PROVE Placed'
  BY <1>6 DEF Launch
<1>7. ASSUME NEW c \in Call, NEW t \in Asks[c], Arrive(c, t) PROVE Placed'
  BY <1>7 DEF Arrive
<1>8. ASSUME NEW c \in Call, Admit(c) PROVE Placed'
  BY <1>8 DEF Admit
<1>9. ASSUME NEW c \in Call, TakeCoordinator(c) PROVE Placed'
  BY <1>9 DEF TakeCoordinator
<1>10. ASSUME NEW c \in Call, BeginInfer(c) PROVE Placed'
  BY <1>10 DEF BeginInfer
<1>11. ASSUME NEW c \in Call, EndInfer(c) PROVE Placed'
  BY <1>11 DEF EndInfer
<1>12. ASSUME NEW c \in Call, Expire(c) PROVE Placed'
  BY <1>12 DEF Expire
<1>13. ASSUME NEW c \in Call, Leave(c) PROVE Placed'
  BY <1>13 DEF Leave
<1>14. ASSUME NEW w \in Worker, FindModel(w) PROVE Placed'
  BY <1>14 DEF FindModel
<1>15. ASSUME NEW w \in Worker, AskUnload(w) PROVE Placed'
  BY <1>15 DEF AskUnload
<1>16. ASSUME NEW w \in Worker, CloseEngine(w) PROVE Placed'
  BY <1>16 DEF CloseEngine
<1>17. ASSUME NEW w \in Worker, BeginLoad(w) PROVE Placed'
  BY <1>17 DEF BeginLoad
<1>18. ASSUME NEW w \in Worker, EndLoad(w) PROVE Placed'
  BY <1>18 DEF EndLoad
<1>19. ASSUME NEW w \in Worker, EndUnload(w) PROVE Placed'
  BY <1>19 DEF EndUnload
<1>20. ASSUME NEW w \in Worker, Drop(w) PROVE Placed'
  BY <1>20 DEF Drop
<1> QED BY <1>1, <1>2, <1>3, <1>4, <1>5, <1>6, <1>7, <1>8, <1>9, <1>10, <1>11,
         <1>12, <1>13, <1>14, <1>15, <1>16, <1>17, <1>18, <1>19, <1>20
    DEF EngineNext, Stop, CallStep, EngineStep

(* Every step is one of the four.                                          *)
LEMMA StepsQueue == EngineInv /\ [EngineNext]_engineVars => LifecycleStep
<1> SUFFICES ASSUME EngineInv, [EngineNext]_engineVars PROVE LifecycleStep
  OBVIOUS
<1>. TypedRest /\ Placed /\ Call \subseteq Worker /\ Job \subseteq Worker /\ Main \in Worker
  BY TypesSplit DEF EngineInv, Worker
<1> USE WorkerAssumption DEF Place, InLifecycle, LifecycleStep, TypedRest, Placed, At, End,
    AwaitLifecycle, LeaveWith, locks
<1>1. CASE UNCHANGED engineVars BY <1>1 DEF engineVars, locks, native, fate
<1>2. CASE StartServer
  BY <1>2 DEF StartServer
<1>3. CASE OnDestroy
  BY <1>3 DEF OnDestroy
<1>4. CASE CloseServer
  <2>1. pc[Main] = "new" BY <1>4 DEF CloseServer, EngineInv, Cancelled, Gone
  <2> QED BY <1>4, <2>1 DEF CloseServer
<1>5. CASE Destroyed
  BY <1>5 DEF Destroyed
<1>6. ASSUME NEW j \in Job, NEW t \in Asks[j], Launch(j, t) PROVE LifecycleStep
  BY <1>6 DEF Launch
<1>7. ASSUME NEW c \in Call, NEW t \in Asks[c], Arrive(c, t) PROVE LifecycleStep
  BY <1>7 DEF Arrive
<1>8. ASSUME NEW c \in Call, Admit(c) PROVE LifecycleStep
  BY <1>8 DEF Admit
<1>9. ASSUME NEW c \in Call, TakeCoordinator(c) PROVE LifecycleStep
  BY <1>9 DEF TakeCoordinator
<1>10. ASSUME NEW c \in Call, BeginInfer(c) PROVE LifecycleStep
  BY <1>10 DEF BeginInfer
<1>11. ASSUME NEW c \in Call, EndInfer(c) PROVE LifecycleStep
  BY <1>11 DEF EndInfer
<1>12. ASSUME NEW c \in Call, Expire(c) PROVE LifecycleStep
  BY <1>12 DEF Expire
<1>13. ASSUME NEW c \in Call, Leave(c) PROVE LifecycleStep
  BY <1>13 DEF Leave
<1>14. ASSUME NEW w \in Worker, FindModel(w) PROVE LifecycleStep
  BY <1>14 DEF FindModel
<1>15. ASSUME NEW w \in Worker, AskUnload(w) PROVE LifecycleStep
  BY <1>15 DEF AskUnload
<1>16. ASSUME NEW w \in Worker, CloseEngine(w) PROVE LifecycleStep
  BY <1>16 DEF CloseEngine
<1>17. ASSUME NEW w \in Worker, BeginLoad(w) PROVE LifecycleStep
  <2>1. Holds(w) BY <1>17 DEF BeginLoad, EngineInv, Lined
  <2> QED BY <1>17, <2>1 DEF BeginLoad
<1>18. ASSUME NEW w \in Worker, EndLoad(w) PROVE LifecycleStep
  BY <1>18 DEF EndLoad
<1>19. ASSUME NEW w \in Worker, EndUnload(w) PROVE LifecycleStep
  BY <1>19 DEF EndUnload
<1>20. ASSUME NEW w \in Worker, Drop(w) PROVE LifecycleStep
  BY <1>20 DEF Drop
<1> QED BY <1>1, <1>2, <1>3, <1>4, <1>5, <1>6, <1>7, <1>8, <1>9, <1>10, <1>11,
         <1>12, <1>13, <1>14, <1>15, <1>16, <1>17, <1>18, <1>19, <1>20
    DEF EngineNext, Stop, CallStep, EngineStep

(* Every step is one of the three.                                         *)
LEMMA StepsCoordinate == EngineInv /\ [EngineNext]_engineVars => CoordinatorStep
<1> SUFFICES ASSUME EngineInv, [EngineNext]_engineVars PROVE CoordinatorStep
  OBVIOUS
<1>. TypedRest /\ Placed /\ Call \subseteq Worker /\ Job \subseteq Worker /\ Main \in Worker
  BY TypesSplit DEF EngineInv, Worker
<1> USE WorkerAssumption DEF InCoordinator, CoordinatorStep, TypedRest, Placed, At, Goto, End,
    AwaitLifecycle, LeaveWith, Task, Kind, Place, locks
<1>1. CASE UNCHANGED engineVars BY <1>1 DEF engineVars, locks, native, fate
<1>2. CASE StartServer
  BY <1>2 DEF StartServer
<1>3. CASE OnDestroy
  BY <1>3 DEF OnDestroy
<1>4. CASE CloseServer
  BY <1>4 DEF CloseServer
<1>5. CASE Destroyed
  BY <1>5 DEF Destroyed
<1>6. ASSUME NEW j \in Job, NEW t \in Asks[j], Launch(j, t) PROVE CoordinatorStep
  BY <1>6 DEF Launch
<1>7. ASSUME NEW c \in Call, NEW t \in Asks[c], Arrive(c, t) PROVE CoordinatorStep
  BY <1>7 DEF Arrive
<1>8. ASSUME NEW c \in Call, Admit(c) PROVE CoordinatorStep
  BY <1>8 DEF Admit
<1>9. ASSUME NEW c \in Call, TakeCoordinator(c) PROVE CoordinatorStep
  BY <1>9 DEF TakeCoordinator
<1>10. ASSUME NEW c \in Call, BeginInfer(c) PROVE CoordinatorStep
  BY <1>10 DEF BeginInfer
<1>11. ASSUME NEW c \in Call, EndInfer(c) PROVE CoordinatorStep
  BY <1>11 DEF EndInfer
<1>12. ASSUME NEW c \in Call, Expire(c) PROVE CoordinatorStep
  BY <1>12 DEF Expire
<1>13. ASSUME NEW c \in Call, Leave(c) PROVE CoordinatorStep
  BY <1>13 DEF Leave
<1>14. ASSUME NEW w \in Worker, FindModel(w) PROVE CoordinatorStep
  BY <1>14 DEF FindModel
<1>15. ASSUME NEW w \in Worker, AskUnload(w) PROVE CoordinatorStep
  BY <1>15 DEF AskUnload
<1>16. ASSUME NEW w \in Worker, CloseEngine(w) PROVE CoordinatorStep
  BY <1>16 DEF CloseEngine
<1>17. ASSUME NEW w \in Worker, BeginLoad(w) PROVE CoordinatorStep
  BY <1>17 DEF BeginLoad
<1>18. ASSUME NEW w \in Worker, EndLoad(w) PROVE CoordinatorStep
  BY <1>18 DEF EndLoad
<1>19. ASSUME NEW w \in Worker, EndUnload(w) PROVE CoordinatorStep
  BY <1>19 DEF EndUnload
<1>20. ASSUME NEW w \in Worker, Drop(w) PROVE CoordinatorStep
  BY <1>20 DEF Drop
<1> QED BY <1>1, <1>2, <1>3, <1>4, <1>5, <1>6, <1>7, <1>8, <1>9, <1>10, <1>11,
         <1>12, <1>13, <1>14, <1>15, <1>16, <1>17, <1>18, <1>19, <1>20
    DEF EngineNext, Stop, CallStep, EngineStep

(* Nothing is cancelled before the end of the service.                     *)
LEMMA EngineCancelled == EngineInv /\ [EngineNext]_engineVars => Cancelled'
<1> SUFFICES ASSUME EngineInv, [EngineNext]_engineVars PROVE Cancelled'
  OBVIOUS
<1>. TypedRest /\ Placed /\ Call \subseteq Worker /\ Job \subseteq Worker /\ Main \in Worker
  BY TypesSplit DEF EngineInv, Worker
<1>. Cancelled BY DEF EngineInv
<1> USE WorkerAssumption DEF Cancelled, Gone, TypedRest, Placed, At, Goto, End,
    AwaitLifecycle, LeaveWith, Task, Kind, Place, fate, locks
<1>1. CASE UNCHANGED engineVars BY <1>1 DEF engineVars, locks, native, fate
<1>2. CASE StartServer
  BY <1>2 DEF StartServer
<1>3. CASE OnDestroy
  BY <1>3 DEF OnDestroy
<1>4. CASE CloseServer
  BY <1>4 DEF CloseServer
<1>5. CASE Destroyed
  BY <1>5 DEF Destroyed
<1>6. ASSUME NEW j \in Job, NEW t \in Asks[j], Launch(j, t) PROVE Cancelled'
  BY <1>6 DEF Launch
<1>7. ASSUME NEW c \in Call, NEW t \in Asks[c], Arrive(c, t) PROVE Cancelled'
  BY <1>7 DEF Arrive
<1>8. ASSUME NEW c \in Call, Admit(c) PROVE Cancelled'
  BY <1>8 DEF Admit
<1>9. ASSUME NEW c \in Call, TakeCoordinator(c) PROVE Cancelled'
  BY <1>9 DEF TakeCoordinator
<1>10. ASSUME NEW c \in Call, BeginInfer(c) PROVE Cancelled'
  BY <1>10 DEF BeginInfer
<1>11. ASSUME NEW c \in Call, EndInfer(c) PROVE Cancelled'
  BY <1>11 DEF EndInfer
<1>12. ASSUME NEW c \in Call, Expire(c) PROVE Cancelled'
  BY <1>12 DEF Expire
<1>13. ASSUME NEW c \in Call, Leave(c) PROVE Cancelled'
  BY <1>13 DEF Leave
<1>14. ASSUME NEW w \in Worker, FindModel(w) PROVE Cancelled'
  BY <1>14 DEF FindModel
<1>15. ASSUME NEW w \in Worker, AskUnload(w) PROVE Cancelled'
  BY <1>15 DEF AskUnload
<1>16. ASSUME NEW w \in Worker, CloseEngine(w) PROVE Cancelled'
  BY <1>16 DEF CloseEngine
<1>17. ASSUME NEW w \in Worker, BeginLoad(w) PROVE Cancelled'
  BY <1>17 DEF BeginLoad
<1>18. ASSUME NEW w \in Worker, EndLoad(w) PROVE Cancelled'
  BY <1>18 DEF EndLoad
<1>19. ASSUME NEW w \in Worker, EndUnload(w) PROVE Cancelled'
  BY <1>19 DEF EndUnload
<1>20. ASSUME NEW w \in Worker, Drop(w) PROVE Cancelled'
  BY <1>20 DEF Drop
<1> QED BY <1>1, <1>2, <1>3, <1>4, <1>5, <1>6, <1>7, <1>8, <1>9, <1>10, <1>11,
         <1>12, <1>13, <1>14, <1>15, <1>16, <1>17, <1>18, <1>19, <1>20
    DEF EngineNext, Stop, CallStep, EngineStep

(* The engine in memory is the one in the field.                           *)
LEMMA EngineMemory == EngineInv /\ [EngineNext]_engineVars => Memory'
<1> SUFFICES ASSUME EngineInv, [EngineNext]_engineVars PROVE Memory'
  OBVIOUS
<1>. TypedRest /\ Placed /\ Call \subseteq Worker /\ Job \subseteq Worker /\ Main \in Worker
  BY TypesSplit DEF EngineInv, Worker
<1>. Memory /\ Cancelled /\ Lined BY DEF EngineInv
<1>. \A v, w \in Worker :
       /\ Holds(v) \/ pc[v] \in {"closed", "native"}
       /\ pc[w] \in {"closed", "native"}
       => v = w
  BY OneWorks
<1> USE WorkerAssumption DEF Memory, Changing, Cancelled, Gone, TypedRest, Placed, At, Goto, End,
    AwaitLifecycle, LeaveWith, Task, Kind, Place, fate, native
<1>1. CASE UNCHANGED engineVars BY <1>1 DEF engineVars, locks, native, fate
<1>2. CASE StartServer
  BY <1>2 DEF StartServer
<1>3. CASE OnDestroy
  BY <1>3 DEF OnDestroy
<1>4. CASE CloseServer
  BY <1>4 DEF CloseServer
<1>5. CASE Destroyed
  BY <1>5 DEF Destroyed
<1>6. ASSUME NEW j \in Job, NEW t \in Asks[j], Launch(j, t) PROVE Memory'
  BY <1>6 DEF Launch
<1>7. ASSUME NEW c \in Call, NEW t \in Asks[c], Arrive(c, t) PROVE Memory'
  BY <1>7 DEF Arrive
<1>8. ASSUME NEW c \in Call, Admit(c) PROVE Memory'
  BY <1>8 DEF Admit
<1>9. ASSUME NEW c \in Call, TakeCoordinator(c) PROVE Memory'
  BY <1>9 DEF TakeCoordinator
<1>10. ASSUME NEW c \in Call, BeginInfer(c) PROVE Memory'
  BY <1>10 DEF BeginInfer
<1>11. ASSUME NEW c \in Call, EndInfer(c) PROVE Memory'
  BY <1>11 DEF EndInfer
<1>12. ASSUME NEW c \in Call, Expire(c) PROVE Memory'
  BY <1>12 DEF Expire
<1>13. ASSUME NEW c \in Call, Leave(c) PROVE Memory'
  BY <1>13 DEF Leave
<1>14. ASSUME NEW w \in Worker, FindModel(w) PROVE Memory'
  BY <1>14 DEF FindModel
<1>15. ASSUME NEW w \in Worker, AskUnload(w) PROVE Memory'
  BY <1>15 DEF AskUnload
<1>16. ASSUME NEW w \in Worker, CloseEngine(w) PROVE Memory'
  BY <1>16 DEF CloseEngine
<1>17. ASSUME NEW w \in Worker, BeginLoad(w) PROVE Memory'
  BY <1>17 DEF BeginLoad
<1>18. ASSUME NEW w \in Worker, EndLoad(w) PROVE Memory'
  <2>1. /\ pc[w] = "native" /\ task[w].kind = "load" /\ live = {w} /\ engine = NoEngine
        /\ \A v \in Worker : v # w => pc[v] \notin {"closed", "native"}
    BY <1>18 DEF EndLoad
  <2>2. pc' = [pc EXCEPT ![w] = "done"] /\ UNCHANGED <<service, task, active>>
    BY <1>18 DEF EndLoad
  <2>3. \/ engine' = w /\ modelName' = task[w].model /\ live' = {w}
        \/ engine' = NoEngine /\ live' = {}
    BY <1>18, <2>1 DEF EndLoad
  <2>4. \A v \in Worker : pc'[v] \notin {"closed", "native"} BY <2>1, <2>2
  <2> QED BY <2>2, <2>3, <2>4
<1>19. ASSUME NEW w \in Worker, EndUnload(w) PROVE Memory'
  BY <1>19 DEF EndUnload
<1>20. ASSUME NEW w \in Worker, Drop(w) PROVE Memory'
  BY <1>20 DEF Drop
<1> QED BY <1>1, <1>2, <1>3, <1>4, <1>5, <1>6, <1>7, <1>8, <1>9, <1>10, <1>11,
         <1>12, <1>13, <1>14, <1>15, <1>16, <1>17, <1>18, <1>19, <1>20
    DEF EngineNext, Stop, CallStep, EngineStep

(* onDestroy leaves nothing behind but for late jobs.                      *)
LEMMA EngineUnloaded == EngineInv /\ [EngineNext]_engineVars => Unloaded'
<1> SUFFICES ASSUME EngineInv, [EngineNext]_engineVars PROVE Unloaded'
  OBVIOUS
<1>. TypedRest /\ Placed /\ Call \subseteq Worker /\ Job \subseteq Worker /\ Main \in Worker
  BY TypesSplit DEF EngineInv, Worker
<1>. Unloaded /\ Memory /\ Cancelled BY DEF EngineInv
<1>. \A v, w \in Worker :
       /\ Holds(v) \/ pc[v] \in {"closed", "native"}
       /\ pc[w] \in {"closed", "native"}
       => v = w
  BY OneWorks DEF EngineInv
<1> USE WorkerAssumption DEF Unloaded, Cancelled, Gone, TypedRest, Placed, At, Goto, End,
    AwaitLifecycle, LeaveWith, Task, Kind, Place, fate, native
<1>1. CASE UNCHANGED engineVars BY <1>1 DEF engineVars, locks, native, fate
<1>2. CASE StartServer
  BY <1>2 DEF StartServer
<1>3. CASE OnDestroy
  BY <1>3 DEF OnDestroy
<1>4. CASE CloseServer
  BY <1>4 DEF CloseServer
<1>5. CASE Destroyed
  BY <1>5 DEF Destroyed
<1>6. ASSUME NEW j \in Job, NEW t \in Asks[j], Launch(j, t) PROVE Unloaded'
  BY <1>6 DEF Launch
<1>7. ASSUME NEW c \in Call, NEW t \in Asks[c], Arrive(c, t) PROVE Unloaded'
  BY <1>7 DEF Arrive
<1>8. ASSUME NEW c \in Call, Admit(c) PROVE Unloaded'
  BY <1>8 DEF Admit
<1>9. ASSUME NEW c \in Call, TakeCoordinator(c) PROVE Unloaded'
  BY <1>9 DEF TakeCoordinator
<1>10. ASSUME NEW c \in Call, BeginInfer(c) PROVE Unloaded'
  BY <1>10 DEF BeginInfer
<1>11. ASSUME NEW c \in Call, EndInfer(c) PROVE Unloaded'
  BY <1>11 DEF EndInfer
<1>12. ASSUME NEW c \in Call, Expire(c) PROVE Unloaded'
  BY <1>12 DEF Expire
<1>13. ASSUME NEW c \in Call, Leave(c) PROVE Unloaded'
  BY <1>13 DEF Leave
<1>14. ASSUME NEW w \in Worker, FindModel(w) PROVE Unloaded'
  BY <1>14 DEF FindModel
<1>15. ASSUME NEW w \in Worker, AskUnload(w) PROVE Unloaded'
  BY <1>15 DEF AskUnload
<1>16. ASSUME NEW w \in Worker, CloseEngine(w) PROVE Unloaded'
  BY <1>16 DEF CloseEngine
<1>17. ASSUME NEW w \in Worker, BeginLoad(w) PROVE Unloaded'
  <2>1. live = {} /\ pc[w] = "closed" /\ task[w].kind = "load"
    BY <1>17 DEF BeginLoad, Memory
  <2>2. /\ pc' = [pc EXCEPT ![w] = "native"] /\ live' = {w}
        /\ UNCHANGED <<service, task, straggler>>
    BY <1>17, <2>1 DEF BeginLoad
  <2>3. w # Main /\ (pc[Main] = "done" => w \in Job) BY <2>1 DEF Worker
  <2> QED BY <2>1, <2>2, <2>3
<1>18. ASSUME NEW w \in Worker, EndLoad(w) PROVE Unloaded'
  BY <1>18 DEF EndLoad
<1>19. ASSUME NEW w \in Worker, EndUnload(w) PROVE Unloaded'
  <2>1. live = {} /\ pc[w] = "closed" BY <1>19 DEF EndUnload, Memory
  <2>2. pc' = [pc EXCEPT ![w] = "done"] /\ UNCHANGED <<service, task, live>>
    BY <1>19 DEF EndUnload
  <2>3. \A v \in Worker : v # w => pc[v] \notin {"closed", "native"} BY <2>1
  <2>4. straggler' = IF w = Main THEN {j \in Job : pc[j] \notin {"new", "done"}} ELSE straggler
    BY <1>19 DEF EndUnload
  <2> QED BY <2>1, <2>2, <2>3, <2>4
<1>20. ASSUME NEW w \in Worker, Drop(w) PROVE Unloaded'
  BY <1>20 DEF Drop
<1> QED BY <1>1, <1>2, <1>3, <1>4, <1>5, <1>6, <1>7, <1>8, <1>9, <1>10, <1>11,
         <1>12, <1>13, <1>14, <1>15, <1>16, <1>17, <1>18, <1>19, <1>20
    DEF EngineNext, Stop, CallStep, EngineStep

(* The counter moves with the calls under way.                             *)
LEMMA EngineAdmitted == EngineInv /\ [EngineNext]_engineVars => Admitted'
<1> SUFFICES ASSUME EngineInv, [EngineNext]_engineVars PROVE Admitted'
  OBVIOUS
<1>. TypedRest /\ Placed /\ Call \subseteq Worker /\ Job \subseteq Worker /\ Main \in Worker
  BY TypesSplit DEF EngineInv, Worker
<1>. Admitted /\ MaxQueued \in Nat BY WorkerAssumption DEF EngineInv
<1>. IsFiniteSet(UnderWay) BY FS_Subset, WorkerAssumption DEF UnderWay
<1>0. admitted' = admitted /\ UnderWay' = UnderWay => Admitted' BY DEF Admitted
<1> USE WorkerAssumption DEF UnderWay, TypedRest, Placed, At, Goto, End, LeaveWith, Task, Kind,
     Place
<1> USE DEF AwaitLifecycle, locks
<1>1. CASE UNCHANGED engineVars BY <1>0, <1>1 DEF engineVars, locks, native, fate
<1>2. CASE StartServer
  BY <1>2, <1>0 DEF StartServer
<1>3. CASE OnDestroy
  BY <1>3, <1>0 DEF OnDestroy
<1>4. CASE CloseServer
  BY <1>4, <1>0 DEF CloseServer
<1>5. CASE Destroyed
  BY <1>5, <1>0 DEF Destroyed
<1>6. ASSUME NEW j \in Job, NEW t \in Asks[j], Launch(j, t) PROVE Admitted'
  BY <1>6, <1>0 DEF Launch
<1>7. ASSUME NEW c \in Call, NEW t \in Asks[c], Arrive(c, t) PROVE Admitted'
  BY <1>7, <1>0 DEF Arrive
<1>8. ASSUME NEW c \in Call, Admit(c) PROVE Admitted'
  <2>1. CASE admitted > MaxQueued BY <1>0, <1>8, <2>1 DEF Admit
  <2>2. CASE ~(admitted > MaxQueued)
    <3>1. /\ admitted' = admitted + 1 /\ UnderWay' = UnderWay \cup {c} /\ c \notin UnderWay
      BY <1>8, <2>2 DEF Admit
    <3> HIDE DEF UnderWay
    <3>2. Cardinality(UnderWay \cup {c}) = Cardinality(UnderWay) + 1 BY <3>1, FS_AddElement
    <3> QED BY <2>2, <3>1, <3>2 DEF Admitted
  <2> QED BY <2>1, <2>2
<1>9. ASSUME NEW c \in Call, TakeCoordinator(c) PROVE Admitted'
  BY <1>9, <1>0 DEF TakeCoordinator
<1>10. ASSUME NEW c \in Call, BeginInfer(c) PROVE Admitted'
  BY <1>10, <1>0 DEF BeginInfer
<1>11. ASSUME NEW c \in Call, EndInfer(c) PROVE Admitted'
  BY <1>11, <1>0 DEF EndInfer
<1>12. ASSUME NEW c \in Call, Expire(c) PROVE Admitted'
  BY <1>12, <1>0 DEF Expire
<1>13. ASSUME NEW c \in Call, Leave(c) PROVE Admitted'
  <2>1. /\ admitted' = admitted - 1 /\ UnderWay' = UnderWay \ {c} /\ c \in UnderWay
    BY <1>13 DEF Leave
  <2> HIDE DEF UnderWay
  <2>2. Cardinality(UnderWay \ {c}) = Cardinality(UnderWay) - 1 BY <2>1, FS_RemoveElement
  <2> QED BY <2>1, <2>2 DEF Admitted
<1>14. ASSUME NEW w \in Worker, FindModel(w) PROVE Admitted'
  BY <1>14, <1>0 DEF FindModel
<1>15. ASSUME NEW w \in Worker, AskUnload(w) PROVE Admitted'
  BY <1>15, <1>0 DEF AskUnload
<1>16. ASSUME NEW w \in Worker, CloseEngine(w) PROVE Admitted'
  BY <1>16, <1>0 DEF CloseEngine
<1>17. ASSUME NEW w \in Worker, BeginLoad(w) PROVE Admitted'
  BY <1>17, <1>0 DEF BeginLoad
<1>18. ASSUME NEW w \in Worker, EndLoad(w) PROVE Admitted'
  BY <1>18, <1>0 DEF EndLoad
<1>19. ASSUME NEW w \in Worker, EndUnload(w) PROVE Admitted'
  BY <1>19, <1>0 DEF EndUnload
<1>20. ASSUME NEW w \in Worker, Drop(w) PROVE Admitted'
  BY <1>20, <1>0 DEF Drop
<1> QED BY <1>1, <1>2, <1>3, <1>4, <1>5, <1>6, <1>7, <1>8, <1>9, <1>10, <1>11,
         <1>12, <1>13, <1>14, <1>15, <1>16, <1>17, <1>18, <1>19, <1>20
    DEF EngineNext, Stop, CallStep, EngineStep

(* All parts together are inductive.                                       *)
LEMMA EngineStepsKeep == EngineInv /\ [EngineNext]_engineVars => EngineInv'
<1> SUFFICES ASSUME EngineInv, [EngineNext]_engineVars PROVE EngineInv'
  OBVIOUS
<1>1. EngineTypeOK' BY EngineQueued, EngineTypedRest DEF EngineTypeOK, TypedRest, Queued
<1>2. LifecycleOK'
  BY StepsQueue, LifecycleKept, LinedSplit DEF EngineInv
<1>3. CoordinatorOK'
  BY StepsCoordinate, CoordinatorKept, LinedSplit DEF EngineInv, EngineTypeOK
<1>4. Lined'
  BY <1>2, <1>3 DEF Lined, LifecycleOK, CoordinatorOK, InLifecycle, InCoordinator
<1> QED BY <1>1, <1>4, EnginePlaced, EngineCancelled, EngineMemory, EngineUnloaded,
           EngineAdmitted DEF EngineInv

LEMMA EngineAlways == EngineSpec => []EngineInv
BY EngineStart, EngineStepsKeep, PTL DEF EngineSpec

(* Every state is of the types that the module gives it.                   *)
THEOREM EngineTypes == EngineSpec => []EngineTypeOK
<1>1. EngineInv => EngineTypeOK BY DEF EngineInv
<1> QED BY <1>1, EngineAlways, PTL

(* An inference never runs on a closed or another model's engine, and two  *)
(* engines are never open at once, whatever loads, unloads, timeouts,      *)
(* cancellations and the end of the service come between.                  *)
THEOREM InferenceIsSafe == EngineSpec => []UsesOpenEngine
<1>1. EngineInv => UsesOpenEngine
  <2> SUFFICES ASSUME EngineInv PROVE UsesOpenEngine
    OBVIOUS
  <2>1. \E x : live \subseteq {x} BY DEF EngineInv, Memory, Changing
  <2>2. Cardinality(live) <= 1
    <3>1. PICK x : live = {} \/ live = {x} BY <2>1
    <3>2. Cardinality({}) = 0 BY FS_EmptySet
    <3>3. Cardinality({x}) = 1 BY FS_Singleton
    <3> QED BY <3>1, <3>2, <3>3
  <2> QED BY <2>2 DEF EngineInv, Memory, UsesOpenEngine
<1> QED BY <1>1, EngineAlways, PTL

(* The admission counter always counts the inferences under way.           *)
THEOREM AdmissionCounts == EngineSpec => []AdmissionExact
<1>1. EngineInv => AdmissionExact BY DEF EngineInv, Admitted, UnderWay, AdmissionExact
<1> QED BY <1>1, EngineAlways, PTL

(* When the service is gone only jobs that onDestroy found waiting keep a  *)
(* model in memory.  That they can is shown by the run broker_end.         *)
THEOREM EndUnloads == EngineSpec => []OnlyLateJobsLeak
<1>1. EngineInv => OnlyLateJobsLeak BY DEF EngineInv, Cancelled, Unloaded, OnlyLateJobsLeak
<1> QED BY <1>1, EngineAlways, PTL

-----------------------------------------------------------------------------
(* BrokerAccess, for any number of callers and tokens, any limit and       *)
(* window, and any number of changes of the clock.                         *)

TypedAccess ==
  /\ stored \in Nat
  /\ step \in [Caller -> {"new", "header", "nonce", "rate", "done"}]
  /\ candidate \in [Caller -> Nat] /\ cipher \in [Caller -> Nat]
  /\ verdict \in [Caller -> {"none", "served", "rate_limited", "unauthorized", "error"}]
  /\ seen \in [Caller -> SUBSET Nat]

(* What a call that is being handled relies on.                            *)
Authentic ==
  \A c \in Caller :
    /\ step[c] # "done" => verdict[c] = "none"
    /\ step[c] \in {"header", "nonce", "rate"} => stored # NoToken /\ stored \in seen[c]
    /\ step[c] = "nonce" => cipher[c] \in seen[c]
    /\ step[c] = "rate" => candidate[c] \in seen[c]

TokenInv == TypedAccess /\ Authentic /\ TokenDecides

LEMMA TokenStart == AccessInit => TokenInv
BY DEF AccessInit, TokenInv, TypedAccess, Authentic, TokenDecides, NoToken

(* Tokens are only ever added to what a call has seen.                     *)
LEMMA TokenStep == TokenInv /\ [AccessNext]_accessVars => TokenInv'
<1> SUFFICES ASSUME TokenInv, [AccessNext]_accessVars PROVE TokenInv'
  OBVIOUS
<1> USE DEF TokenInv, TypedAccess, Authentic, TokenDecides, NoToken
<1>1. CASE UNCHANGED accessVars BY <1>1 DEF accessVars
<1>2. CASE Regenerate BY <1>2 DEF Regenerate, calls
<1>3. CASE Tick \/ SetBack BY <1>3 DEF Tick, SetBack, calls
<1>4. ASSUME NEW c \in Caller, NEW t \in Token \cup {NoToken}, Present(c, t) PROVE TokenInv'
  BY <1>4 DEF Present, Token
<1>5. ASSUME NEW c \in Caller, ReadCiphertext(c) PROVE TokenInv'
  BY <1>5 DEF ReadCiphertext, Decide
<1>6. ASSUME NEW c \in Caller, Compare(c) PROVE TokenInv'
  BY <1>6 DEF Compare, Decide
<1>7. ASSUME NEW c \in Caller, TryAcquire(c) PROVE TokenInv'
  BY <1>7 DEF TryAcquire, Decide
<1> QED BY <1>1, <1>2, <1>3, <1>4, <1>5, <1>6, <1>7 DEF AccessNext

(* However often the token is regenerated while calls are handled: who is  *)
(* served presented a token that was stored meanwhile, and who is refused  *)
(* for its token met another one.                                          *)
THEOREM StoredTokenDecides == AccessSpec => []TokenDecides
<1>1. TokenInv => TokenDecides BY DEF TokenInv
<1> QED BY <1>1, TokenStart, TokenStep, PTL DEF AccessSpec

-----------------------------------------------------------------------------
(* The clock reads MaxSetBack, plus the time that passed, less the changes. *)
TypedWindow ==
  /\ now \in Nat /\ wall \in Nat /\ setBacks \in 0 .. MaxSetBack
  /\ wall + setBacks = now + MaxSetBack

(* The log holds the last grants, each with a clock reading that by now is *)
(* no earlier than its time; the grants that it forgot are a window old.   *)
Covers(log, granted) ==
  /\ log \in Seq(Nat) /\ granted \in Seq(Nat) /\ Len(log) <= Len(granted)
  /\ \A j \in 1 .. Len(log) : log[j] + now >= granted[Len(granted) - Len(log) + j] + wall
  /\ \A i \in 1 .. Len(granted) - Len(log) : now >= granted[i] + Window

WindowInv == TypedWindow /\ Covers(requests, grants) /\ WindowHolds

(* Forget cuts off a prefix of entries that are a window old.              *)
LEMMA ForgetsOld ==
  ASSUME NEW log \in Seq(Nat), wall \in Nat
  PROVE  \E p \in 0 .. Len(log) :
           /\ Forget(log) = SubSeq(log, p + 1, Len(log))
           /\ \A j \in 1 .. p : wall >= log[j] + Window
<1> DEFINE Fresh == {i \in DOMAIN log : ~(wall >= log[i] + Window)}
<1>1. Fresh \subseteq 1 .. Len(log) OBVIOUS
<1>2. CASE Fresh = {}
  <2>1. Forget(log) = <<>> BY <1>2 DEF Forget
  <2>2. SubSeq(log, Len(log) + 1, Len(log)) = <<>> OBVIOUS
  <2>3. \A j \in 1 .. Len(log) : wall >= log[j] + Window BY <1>2
  <2> QED BY <2>1, <2>2, <2>3
<1>3. CASE Fresh # {}
  <2> DEFINE m == CHOOSE i \in Fresh : \A j \in Fresh : i <= j
  <2>1. Fresh \subseteq Nat BY <1>1
  <2>2. m \in Fresh /\ \A j \in Fresh : m <= j BY <1>3, <2>1, Least
  <2>3. Forget(log) = SubSeq(log, m, Len(log)) BY <1>3 DEF Forget
  <2> HIDE DEF m
  <2>4. m \in 1 .. Len(log) BY <1>1, <2>2
  <2>5. \A j \in 1 .. m - 1 : wall >= log[j] + Window BY <2>2, <2>4
  <2>6. m - 1 \in 0 .. Len(log) /\ (m - 1) + 1 = m BY <2>4
  <2> QED BY <2>3, <2>5, <2>6
<1> QED BY <1>2, <1>3

(* The log with its old entries gone remembers the grants as well.         *)
LEMMA ForgettingRemembers ==
  ASSUME now \in Nat, wall \in Nat, Covers(requests, grants)
  PROVE  Covers(Forget(requests), grants)
<1> DEFINE kept == Forget(requests)
           n == Len(requests)
           m == Len(grants)
<1>1. requests \in Seq(Nat) /\ grants \in Seq(Nat) /\ n \in Nat /\ m \in Nat /\ n <= m
  BY DEF Covers
<1>2. PICK p \in 0 .. n :
        /\ kept = SubSeq(requests, p + 1, n)
        /\ \A j \in 1 .. p : wall >= requests[j] + Window
  BY <1>1, ForgetsOld
<1>3. \A i \in (p + 1) .. n : requests[i] \in Nat BY <1>1
<1>4. /\ kept \in Seq(Nat) /\ Len(kept) = n - p
      /\ \A j \in 1 .. n - p : kept[j] = requests[p + j]
  <2>1. p + 1 \in Int /\ n \in Int BY <1>1
  <2> HIDE DEF n
  <2>2. /\ SubSeq(requests, p + 1, n) \in Seq(Nat)
        /\ Len(SubSeq(requests, p + 1, n)) = IF p + 1 <= n THEN n - (p + 1) + 1 ELSE 0
        /\ \A j \in 1 .. n - (p + 1) + 1 :
             SubSeq(requests, p + 1, n)[j] = requests[(p + 1) + j - 1]
    BY <1>3, <2>1, SubSeqProperties
  <2>3. n - (p + 1) + 1 = n - p /\ (~(p + 1 <= n) => n - p = 0) BY <1>1
  <2>4. \A j \in 1 .. n - p : (p + 1) + j - 1 = p + j BY <1>1
  <2> QED BY <1>2, <2>2, <2>3, <2>4
<1> HIDE DEF kept
<1>5. \A j \in 1 .. n : requests[j] + now >= grants[m - n + j] + wall
  BY DEF Covers
<1>6. \A i \in 1 .. m - n : now >= grants[i] + Window
  BY DEF Covers
<1>7. (\A i \in 1 .. n : requests[i] \in Nat) /\ (\A i \in 1 .. m : grants[i] \in Nat)
  BY <1>1
<1> HIDE DEF n, m
<1>8. ASSUME NEW j \in 1 .. n - p
      PROVE  kept[j] + now >= grants[m - (n - p) + j] + wall
  <2>1. p + j \in 1 .. n /\ m - n + (p + j) = m - (n - p) + j BY <1>1
  <2>2. requests[p + j] + now >= grants[m - n + (p + j)] + wall BY <1>5, <2>1
  <2> QED BY <1>4, <2>1, <2>2
<1>9. ASSUME NEW i \in 1 .. m - (n - p) PROVE now >= grants[i] + Window
  <2>1. CASE i <= m - n
    <3>1. i \in 1 .. m - n BY <1>1, <2>1
    <3> QED BY <1>6, <3>1
  <2>2. CASE ~(i <= m - n)
    <3>1. PICK j \in 1 .. p : i = m - n + j
      <4>1. i - (m - n) \in 1 .. p /\ i = m - n + (i - (m - n)) BY <1>1, <2>2
      <4> QED BY <4>1
    <3>2. j \in 1 .. n /\ i \in 1 .. m BY <1>1, <3>1
    <3>3. requests[j] + now >= grants[i] + wall BY <1>5, <3>1, <3>2
    <3>4. wall >= requests[j] + Window BY <1>2
    <3>5. requests[j] \in Nat /\ grants[i] \in Nat BY <1>7, <3>2
    <3> QED BY <3>3, <3>4, <3>5, AccessAssumption
  <2> QED BY <2>1, <2>2
<1>10. n - p <= m BY <1>1
<1> QED BY <1>1, <1>4, <1>8, <1>9, <1>10 DEF Covers, kept, m

(* Letting a call in is remembered.                                        *)
LEMMA GrantingRemembers ==
  ASSUME now \in Nat, wall \in Nat, NEW log, NEW granted, Covers(log, granted)
  PROVE  Covers(Append(log, wall), Append(granted, now))
<1> DEFINE n == Len(log)
           m == Len(granted)
           log2 == Append(log, wall)
           granted2 == Append(granted, now)
<1>1. n \in Nat /\ m \in Nat /\ n <= m BY DEF Covers
<1>2. /\ log2 \in Seq(Nat) /\ Len(log2) = n + 1
      /\ (\A j \in 1 .. n : log2[j] = log[j]) /\ log2[n + 1] = wall
  BY AppendProperties DEF Covers
<1>3. /\ granted2 \in Seq(Nat) /\ Len(granted2) = m + 1
      /\ (\A i \in 1 .. m : granted2[i] = granted[i]) /\ granted2[m + 1] = now
  BY AppendProperties DEF Covers
<1>4. \A j \in 1 .. n : log[j] + now >= granted[m - n + j] + wall BY DEF Covers
<1>5. \A i \in 1 .. m - n : now >= granted[i] + Window BY DEF Covers
<1> HIDE DEF n, m, log2, granted2
<1>6. ASSUME NEW j \in 1 .. n + 1
      PROVE  log2[j] + now >= granted2[(m + 1) - (n + 1) + j] + wall
  <2>1. CASE j = n + 1
    <3>1. (m + 1) - (n + 1) + j = m + 1 BY <1>1, <2>1
    <3> QED BY <1>2, <1>3, <2>1, <3>1
  <2>2. CASE j # n + 1
    <3>1. /\ j \in 1 .. n /\ (m + 1) - (n + 1) + j = m - n + j
          /\ m - n + j \in 1 .. m
      BY <1>1, <2>2
    <3> QED BY <1>2, <1>3, <1>4, <3>1
  <2> QED BY <2>1, <2>2
<1>7. ASSUME NEW i \in 1 .. (m + 1) - (n + 1) PROVE now >= granted2[i] + Window
  <2>1. i \in 1 .. m - n /\ i \in 1 .. m BY <1>1
  <2> QED BY <1>3, <1>5, <2>1
<1>8. n + 1 <= m + 1 BY <1>1
<1> QED BY <1>2, <1>3, <1>6, <1>7, <1>8 DEF Covers, log2, granted2

LEMMA WindowStart == AccessInit => WindowInv
BY AccessAssumption DEF AccessInit, WindowInv, TypedWindow, Covers, WindowHolds

(* The clock only ever falls behind the log.                               *)
LEMMA TimeRemembers ==
  ASSUME WindowInv, Tick \/ SetBack
  PROVE  WindowInv'
<1>1. UNCHANGED <<requests, grants>> BY DEF Tick, SetBack
<1>2. /\ TypedWindow /\ TypedWindow' /\ now' >= now
      /\ now' + wall >= now + wall'
  BY AccessAssumption DEF WindowInv, TypedWindow, Tick, SetBack
<1>3. WindowHolds' BY <1>1 DEF WindowInv, WindowHolds
<1>4. requests \in Seq(Nat) /\ grants \in Seq(Nat) /\ Len(requests) <= Len(grants)
  BY DEF WindowInv, Covers
<1>5. ASSUME NEW j \in 1 .. Len(requests)
      PROVE  requests[j] + now' >= grants[Len(grants) - Len(requests) + j] + wall'
  <2>1. requests[j] + now >= grants[Len(grants) - Len(requests) + j] + wall
    BY DEF WindowInv, Covers
  <2>2. Len(grants) - Len(requests) + j \in 1 .. Len(grants) BY <1>4
  <2>3. requests[j] \in Nat /\ grants[Len(grants) - Len(requests) + j] \in Nat
    BY <1>4, <2>2
  <2>4. \A r, g, n, o, w, x \in Nat : r + n >= g + w /\ o + w >= n + x => r + o >= g + x
    OBVIOUS
  <2>5. now \in Nat /\ wall \in Nat /\ now' \in Nat /\ wall' \in Nat
    BY <1>2 DEF TypedWindow
  <2> QED BY <1>2, <2>1, <2>3, <2>4, <2>5
<1>6. ASSUME NEW i \in 1 .. Len(grants) - Len(requests)
      PROVE  now' >= grants[i] + Window
  <2>1. now >= grants[i] + Window BY DEF WindowInv, Covers
  <2>2. i \in 1 .. Len(grants) BY <1>4
  <2>3. grants[i] \in Nat BY <1>4, <2>2
  <2> QED BY <1>2, <2>1, <2>3, AccessAssumption DEF TypedWindow
<1>7. Covers(requests, grants)' BY <1>1, <1>4, <1>5, <1>6 DEF Covers
<1> QED BY <1>2, <1>3, <1>7 DEF WindowInv

(* The grant MaxRequests before this one has been forgotten.               *)
LEMMA GrantKeepsWindow ==
  ASSUME WindowInv, NEW c \in Caller, TryAcquire(c)
  PROVE  WindowInv'
<1> DEFINE kept == Forget(requests)
           n == Len(kept)
           m == Len(grants)
<1>1. UNCHANGED <<wall, setBacks, now>> BY DEF TryAcquire, clock
<1>2. now \in Nat /\ wall \in Nat /\ TypedWindow' BY <1>1 DEF WindowInv, TypedWindow
<1>3. Covers(kept, grants) BY <1>2, ForgettingRemembers DEF WindowInv
<1> HIDE DEF kept
<1>4. kept \in Seq(Nat) /\ grants \in Seq(Nat) /\ n \in Nat /\ m \in Nat
  BY <1>3 DEF Covers
<1>5. CASE requests' = kept /\ grants' = grants
  BY <1>1, <1>2, <1>3, <1>5 DEF WindowInv, Covers, WindowHolds
<1>6. CASE n < MaxRequests /\ requests' = Append(kept, wall) /\ grants' = Append(grants, now)
  <2>1. Covers(Append(kept, wall), Append(grants, now)) BY <1>2, <1>3, GrantingRemembers
  <2>2. Covers(requests, grants)' BY <1>1, <1>6, <2>1 DEF Covers
  <2>3. /\ Len(grants') = m + 1 /\ grants' \in Seq(Nat)
        /\ (\A i \in 1 .. m : grants'[i] = grants[i]) /\ grants'[m + 1] = now
    BY <1>2, <1>4, <1>6, AppendProperties
  <2>4. \A i \in 1 .. m - n : now >= grants[i] + Window BY <1>3 DEF Covers
  <2>5. \A i \in 1 .. m : i + MaxRequests \in 1 .. m =>
                            grants[i + MaxRequests] >= grants[i] + Window
    BY <1>4 DEF WindowInv, WindowHolds
  <2> HIDE DEF n, m
  <2>6. ASSUME NEW i \in 1 .. m + 1, i + MaxRequests \in 1 .. m + 1
        PROVE  grants'[i + MaxRequests] >= grants'[i] + Window
    <3>1. i \in 1 .. m BY <1>4, <2>6, AccessAssumption
    <3>2. CASE i + MaxRequests \in 1 .. m BY <2>3, <2>5, <3>1, <3>2
    <3>3. CASE i + MaxRequests = m + 1
      <4>1. i \in 1 .. m - n BY <1>4, <1>6, <3>1, <3>3, AccessAssumption
      <4> QED BY <2>3, <2>4, <3>1, <3>3, <4>1
    <3> QED BY <1>4, <2>6, <3>2, <3>3, AccessAssumption
  <2>7. WindowHolds'
    <3>1. DOMAIN grants' = 1 .. m + 1 BY <2>3
    <3> QED BY <2>6, <3>1 DEF WindowHolds
  <2> QED BY <1>2, <2>2, <2>7 DEF WindowInv
<1>7. \/ requests' = kept /\ grants' = grants
      \/ n < MaxRequests /\ requests' = Append(kept, wall) /\ grants' = Append(grants, now)
  BY <1>4, AccessAssumption DEF TryAcquire, kept
<1> QED BY <1>5, <1>6, <1>7

(* Only time and the limiter touch the window.                             *)
LEMMA WindowStep == WindowInv /\ [AccessNext]_accessVars => WindowInv'
<1> SUFFICES ASSUME WindowInv, [AccessNext]_accessVars PROVE WindowInv'
  OBVIOUS
<1>1. CASE UNCHANGED <<requests, grants, wall, setBacks, now>>
  BY <1>1 DEF WindowInv, TypedWindow, Covers, WindowHolds
<1>2. ASSUME AccessNext, ~Tick, ~SetBack, \A c \in Caller : ~TryAcquire(c)
      PROVE  UNCHANGED <<requests, grants, wall, setBacks, now>>
  BY <1>2 DEF AccessNext, Regenerate, Present, ReadCiphertext, Compare, clock
<1>3. CASE UNCHANGED accessVars BY <1>1, <1>3 DEF accessVars
<1> QED BY <1>1, <1>2, <1>3, TimeRemembers, GrantKeepsWindow

(* However the calls come and however often the clock is set back: between *)
(* a call that is let in and the MaxRequests-th one after it lies at least *)
(* a window of real time.                                                  *)
THEOREM RateIsBounded == AccessSpec => []WindowHolds
<1>1. WindowInv => WindowHolds BY DEF WindowInv
<1> QED BY <1>1, WindowStart, WindowStep, PTL DEF AccessSpec

-----------------------------------------------------------------------------
(* Routing, for any catalog, any actions outside it and any threshold of   *)
(* confidence.                                                             *)

(* Where a command has got to tells who, if anyone, has answered.          *)
Places ==
  /\ at \in {"build", "sent", "error", "decided", "done"}
  /\ at \in {"build", "sent"} => category = "none" /\ ~byBroker
  /\ at = "sent" => token /\ mode # "keyword"
  /\ at = "error" => category # "none" /\ ~byBroker
  /\ at # "done" => ran = {}

(* A decision that is to be handled comes from the user's own words, or is *)
(* what the text that reached the client, and was accepted there, says.    *)
FromKeyword ==
  /\ decision.action = keyword
  /\ mode = "keyword" \/ (mode = "auto" /\ category \in FallbackCategories)
Arrived == IF byBroker THEN Rendered(answer) ELSE answer
FromServer ==
  /\ token /\ mode # "keyword" /\ category = "none"
  /\ answer \in Output
  /\ ClientAccepts(Arrived) /\ decision = ClientReads(Arrived)
Accounted == at = "decided" => FromKeyword \/ FromServer

RouteInv == Places /\ Accounted /\ OnlyAskedRuns /\ BrokerUnderstood

USE ActionAssumption

LEMMA RouteStart == RouteInit => RouteInv
BY DEF RouteInit, RouteInv, Places, Accounted, OnlyAskedRuns, BrokerUnderstood

(* No error of the transport is mistaken for no error.                     *)
LEMMA Categories ==
  /\ "none" \notin Transport \cup FallbackCategories
  /\ \A s \in Status : StatusCategory(s) # "none"
  /\ \A b \in BadBody : BodyCategory(b) # "none"
BY DEF Transport, FallbackCategories, Status, StatusCategory, BadBody, BodyCategory

(* What the broker makes of a decision it has read, field by field.        *)
LEMMA RenderedFields ==
  ASSUME NEW o \in Output
  PROVE  /\ Rendered(o).form = o.form /\ Rendered(o).kind = Canonical(o.kind)
         /\ Rendered(o).action = o.action /\ Rendered(o).confidence = o.confidence
         /\ Rendered(o).sound = o.sound
         /\ Rendered(o).args = "fit" <=> o.args \in {"fit", "nulls"}
         /\ Rendered(o).source = IF o.source = "absent" THEN "litertlm" ELSE o.source
<1>1. CASE o \in ObjectText BY <1>1 DEF ObjectText, Arguments, Rendered
<1>2. CASE o \in CallText BY <1>2 DEF CallText, Arguments, Rendered
<1>3. CASE o \in WordText BY <1>3 DEF WordText, Rendered
<1> QED BY <1>1, <1>2, <1>3 DEF Output

(* A text names a source or none, and only the texts that the broker reads *)
(* no decision from are calls.                                             *)
LEMMA Sources ==
  ASSUME NEW o \in Output
  PROVE  /\ o.source \in {"absent", "named"}
         /\ BrokerAccepts(o) => o.form # "call"
BY DEF Output, ObjectText, CallText, WordText, BrokerAccepts

(* A decision that the Android broker passes on is one the client accepts, *)
(* and the client reads in it what the broker read.                        *)
LEMMA Understands ==
  ASSUME NEW o \in Output, BrokerAccepts(o)
  PROVE  /\ ClientAccepts(Rendered(o))
         /\ ClientReads(Rendered(o)).kind = Canonical(o.kind)
         /\ ClientReads(Rendered(o)).action = o.action
         /\ ClientReads(Rendered(o)).confidence = o.confidence
         /\ ClientReads(Rendered(o)).args = "fit" <=> o.args \in {"fit", "nulls"}
         /\ ClientReads(Rendered(o)).source =
              IF o.source = "absent" THEN "litertlm" ELSE o.source
<1>1. ClientAccepts(Rendered(o))
  BY RenderedFields DEF BrokerAccepts, ClientAccepts, Canonical, RouteKind
<1>2. Rendered(o).form # "call" /\ Rendered(o).source # "absent"
  BY RenderedFields, Sources
<1> QED BY <1>1, <1>2, RenderedFields DEF ClientReads, Canonical

(* What the client calls a direct action was written as one.               *)
LEMMA DirectIsDirect ==
  ASSUME NEW o, Canonical(o.kind) = "direct_action" PROVE o.kind = "direct_action"
BY DEF Canonical

LEMMA RouteStep == RouteInv /\ [RouteNext]_routeVars => RouteInv'
<1> SUFFICES ASSUME RouteInv, [RouteNext]_routeVars PROVE RouteInv'
  OBVIOUS
<1> USE DEF RouteInv, Places, Accounted, command
<1>1. CASE UNCHANGED routeVars
  BY <1>1 DEF routeVars, FromKeyword, FromServer, Arrived, OnlyAskedRuns, BrokerUnderstood
<1>2. CASE Build
  <2>1. Places' BY <1>2 DEF Build, Decided, Raise, Done
  <2>2. Accounted' BY <1>2 DEF Build, Decided, Raise, Done, FromKeyword, KeywordDecision
  <2>3. ran' = {} /\ ~byBroker' BY <1>2 DEF Build
  <2> QED BY <2>1, <2>2, <2>3 DEF OnlyAskedRuns, BrokerUnderstood
<1>3. CASE Fail
  <2>1. Places' BY <1>3, Categories DEF Fail, Raise
  <2>2. at' = "error" /\ ran' = {} /\ ~byBroker' BY <1>3 DEF Fail, Raise
  <2> QED BY <2>1, <2>2 DEF OnlyAskedRuns, BrokerUnderstood
<1>4. ASSUME NEW o \in Output, NEW b \in BOOLEAN, Receive(o, b) PROVE RouteInv'
  <2> DEFINE text == IF b THEN Rendered(o) ELSE o
  <2>0. /\ at = "sent" /\ answer' = o /\ byBroker' = b /\ (b => BrokerAccepts(o))
        /\ IF ClientAccepts(text) THEN Decided(ClientReads(text)) ELSE Raise("invalid_response")
        /\ UNCHANGED <<mode, token, execute, keyword, fits, ran, result>>
    BY <1>4 DEF Receive
  <2>5. b => ClientAccepts(text) BY <2>0, Understands
  <2>6. Arrived' = text BY <2>0 DEF Arrived
  <2> HIDE DEF text
  <2>1. Places' BY <2>0, <2>5 DEF Decided, Raise
  <2>2. Accounted' BY <2>0, <2>6 DEF Decided, Raise, FromServer
  <2>3. BrokerUnderstood'
    <3>1. CASE ~b BY <2>0, <3>1 DEF BrokerUnderstood
    <3>2. CASE b
      <4>1. category' = "none" /\ decision' = ClientReads(Rendered(o))
        BY <2>0, <2>5, <3>2 DEF text, Decided
      <4> QED BY <2>0, <3>2, <4>1, Understands DEF BrokerUnderstood
    <3> QED BY <3>1, <3>2
  <2>4. ran' = {} BY <1>4 DEF Receive
  <2> QED BY <2>1, <2>2, <2>3, <2>4 DEF OnlyAskedRuns
<1>5. CASE Fallback
  <2>1. Places' BY <1>5 DEF Fallback, Done
  <2>2. Accounted' BY <1>5 DEF Fallback, Done, FromKeyword, KeywordDecision
  <2>3. ran' = {} /\ ~byBroker' BY <1>5 DEF Fallback, Done
  <2> QED BY <2>1, <2>2, <2>3 DEF OnlyAskedRuns, BrokerUnderstood
<1>6. CASE Handle
  <2>1. Places' /\ Accounted' BY <1>6 DEF Handle, Done
  <2>2. BrokerUnderstood' BY <1>6 DEF Handle, BrokerUnderstood
  <2>3. OnlyAskedRuns'
    <3>1. CASE ran' = {} BY <3>1 DEF OnlyAskedRuns
    <3>2. CASE ran' # {}
      <4>1. /\ execute /\ decision.action \in Catalog /\ decision.args = "fit"
            /\ decision.kind = "direct_action" /\ decision.confidence >= MinConfidence
            /\ ran' = {decision.action}
        BY <1>6, <3>2 DEF Handle
      <4>2. UNCHANGED <<mode, token, execute, keyword, category, answer, byBroker>>
        BY <1>6 DEF Handle
      <4>3. CASE FromKeyword BY <4>1, <4>2, <4>3 DEF FromKeyword, OnlyAskedRuns
      <4>4. CASE FromServer
        <5>1. /\ Canonical(Arrived.kind) = "direct_action" /\ Arrived.form # "several"
              /\ Arrived.sound /\ Arrived.confidence \in 0 .. 2
              /\ Arrived.action = decision.action /\ Arrived.args = "fit"
              /\ Arrived.confidence = decision.confidence
          BY <4>1, <4>4 DEF FromServer, ClientAccepts, ClientReads
        <5>2. /\ answer.form = Arrived.form /\ answer.sound = Arrived.sound
              /\ answer.action = Arrived.action /\ answer.confidence = Arrived.confidence
              /\ answer.args = "fit" \/ (byBroker /\ answer.args = "nulls")
              /\ Canonical(answer.kind) = "direct_action"
          BY <4>4, <5>1, RenderedFields DEF FromServer, Arrived, Canonical
        <5>3. answer.kind = "direct_action" BY <5>2, DirectIsDirect
        <5>4. answer.confidence \in MinConfidence .. 2 BY <4>1, <5>1, <5>2
        <5> QED BY <4>1, <4>2, <4>4, <5>1, <5>2, <5>3, <5>4 DEF FromServer, OnlyAskedRuns
      <4> QED BY <1>6, <4>3, <4>4 DEF Handle
    <3> QED BY <3>1, <3>2
  <2> QED BY <2>1, <2>2, <2>3
<1> QED BY <1>1, <1>2, <1>3, <1>4, <1>5, <1>6 DEF RouteNext

(* Whatever a server answers, and whichever error there is: an action is   *)
(* executed only if it was asked for.                                      *)
THEOREM OnlyWhatWasAsked == RouteSpec => []OnlyAskedRuns
<1>1. RouteInv => OnlyAskedRuns BY DEF RouteInv
<1> QED BY <1>1, RouteStart, RouteStep, PTL DEF RouteSpec

(* Client and Android broker agree on every decision the broker passes on. *)
THEOREM ClientUnderstandsBroker == RouteSpec => []BrokerUnderstood
<1>1. RouteInv => BrokerUnderstood BY DEF RouteInv
<1> QED BY <1>1, RouteStart, RouteStep, PTL DEF RouteSpec

HIDE ActionAssumption

-----------------------------------------------------------------------------
(* ModelStore, for any number of importers, names, contents, imports and   *)
(* kills.                                                                  *)

Copying == {"copying", "copied"}
Moving  == {"moved", "read"}

TypedStore ==
  /\ target \in [Name -> Plausible \cup {NoContent}]
  /\ records \in [Name -> Content \cup {NoContent}]
  /\ doing \in [Importer -> {"idle"} \cup Copying \cup Moving]
  /\ document \in [Importer -> Document \cup {NoDocument}]
  /\ read \in [Importer -> [Name -> Content \cup {NoContent}]]
  /\ \A i \in Busy : document[i] \in Document

(* A record, also one that an import has read and will write back, is of a *)
(* file that lies there: files are only ever replaced.                     *)
Recorded ==
  /\ \A n \in Name : records[n] # NoContent => target[n] # NoContent
  /\ \A i \in Importer : \A n \in Name : read[i][n] # NoContent => target[n] # NoContent
  /\ \A i \in Importer : doing[i] \in Moving => target[NameOf(i)] # NoContent

(* What an import relies on as long as none overlapped it: the file it     *)
(* moved is the one in place, and the records it read are those there are. *)
Undisturbed ==
  /\ \A i, j \in Busy : i # j => NameOf(i) \in torn
  /\ \A i \in Importer :
       doing[i] \in Moving /\ NameOf(i) \notin torn => target[NameOf(i)] = document[i].content
  /\ \A i \in Importer : doing[i] = "read" =>
       \A n \in Name : n \notin torn => read[i][n] = records[n]

(* A name that nobody is about to change agrees with its record.           *)
Settled ==
  \A n \in Name :
    n \notin torn /\ (\A i \in Importer : doing[i] \in Moving => NameOf(i) # n)
      => records[n] = target[n]

StoreInv == TypedStore /\ Recorded /\ Undisturbed /\ Settled

USE ModelAssumption DEF Document, Copying, Moving, Busy, NameOf, Enter, Finish

LEMMA StoreInit == ModelInit => StoreInv
BY DEF ModelInit, StoreInv, TypedStore, Recorded, Undisturbed, Settled

(* A file is only ever replaced by a plausible one.                        *)
LEMMA StoreTyped == StoreInv /\ [ModelNext]_modelVars => TypedStore'
<1> SUFFICES ASSUME StoreInv, [ModelNext]_modelVars PROVE TypedStore'
  OBVIOUS
<1> USE DEF StoreInv, TypedStore
<1>1. CASE UNCHANGED modelVars BY <1>1 DEF modelVars
<1>2. CASE Kill BY <1>2 DEF Kill
<1>3. ASSUME NEW i \in Importer, NEW d \in Document, Pick(i, d) PROVE TypedStore'
  BY <1>3 DEF Pick
<1>4. ASSUME NEW i \in Importer, Copy(i) PROVE TypedStore' BY <1>4 DEF Copy
<1>5. ASSUME NEW i \in Importer, Reject(i) PROVE TypedStore' BY <1>5 DEF Reject
<1>6. ASSUME NEW i \in Importer, Move(i) PROVE TypedStore' BY <1>6 DEF Move
<1>7. ASSUME NEW i \in Importer, ReadRecords(i) PROVE TypedStore' BY <1>7 DEF ReadRecords
<1>8. ASSUME NEW i \in Importer, Commit(i) PROVE TypedStore' BY <1>8 DEF Commit
<1> QED BY <1>1, <1>2, <1>3, <1>4, <1>5, <1>6, <1>7, <1>8 DEF ModelNext

(* A record never outlives its file.                                       *)
LEMMA StoreRecorded == StoreInv /\ [ModelNext]_modelVars => Recorded'
<1> SUFFICES ASSUME StoreInv, [ModelNext]_modelVars PROVE Recorded'
  OBVIOUS
<1> USE DEF StoreInv, TypedStore, Recorded
<1>1. CASE UNCHANGED modelVars BY <1>1 DEF modelVars
<1>2. CASE Kill BY <1>2 DEF Kill
<1>3. ASSUME NEW i \in Importer, NEW d \in Document, Pick(i, d) PROVE Recorded'
  BY <1>3 DEF Pick
<1>4. ASSUME NEW i \in Importer, Copy(i) PROVE Recorded' BY <1>4 DEF Copy
<1>5. ASSUME NEW i \in Importer, Reject(i) PROVE Recorded' BY <1>5 DEF Reject
<1>6. ASSUME NEW i \in Importer, Move(i) PROVE Recorded' BY <1>6 DEF Move
<1>7. ASSUME NEW i \in Importer, ReadRecords(i) PROVE Recorded' BY <1>7 DEF ReadRecords
<1>8. ASSUME NEW i \in Importer, Commit(i) PROVE Recorded' BY <1>8 DEF Commit
<1> QED BY <1>1, <1>2, <1>3, <1>4, <1>5, <1>6, <1>7, <1>8 DEF ModelNext

(* An import that nobody overlaps finds what it left.                      *)
LEMMA StoreUndisturbed == StoreInv /\ [ModelNext]_modelVars => Undisturbed'
<1> SUFFICES ASSUME StoreInv, [ModelNext]_modelVars PROVE Undisturbed'
  OBVIOUS
<1> USE DEF StoreInv, TypedStore, Undisturbed
<1>1. CASE UNCHANGED modelVars BY <1>1 DEF modelVars
<1>2. CASE Kill BY <1>2 DEF Kill
<1>3. ASSUME NEW i \in Importer, NEW d \in Document, Pick(i, d) PROVE Undisturbed'
  BY <1>3 DEF Pick
<1>4. ASSUME NEW i \in Importer, Copy(i) PROVE Undisturbed' BY <1>4 DEF Copy
<1>5. ASSUME NEW i \in Importer, Reject(i) PROVE Undisturbed' BY <1>5 DEF Reject
<1>6. ASSUME NEW i \in Importer, Move(i) PROVE Undisturbed' BY <1>6 DEF Move
<1>7. ASSUME NEW i \in Importer, ReadRecords(i) PROVE Undisturbed' BY <1>7 DEF ReadRecords
<1>8. ASSUME NEW i \in Importer, Commit(i) PROVE Undisturbed' BY <1>8 DEF Commit
<1> QED BY <1>1, <1>2, <1>3, <1>4, <1>5, <1>6, <1>7, <1>8 DEF ModelNext

(* A name left alone agrees with its record.                               *)
LEMMA StoreSettled == StoreInv /\ [ModelNext]_modelVars => Settled'
<1> SUFFICES ASSUME StoreInv, [ModelNext]_modelVars PROVE Settled'
  OBVIOUS
<1> USE DEF StoreInv, TypedStore, Undisturbed, Settled
<1>1. CASE UNCHANGED modelVars BY <1>1 DEF modelVars
<1>2. CASE Kill BY <1>2 DEF Kill
<1>3. ASSUME NEW i \in Importer, NEW d \in Document, Pick(i, d) PROVE Settled'
  BY <1>3 DEF Pick
<1>4. ASSUME NEW i \in Importer, Copy(i) PROVE Settled' BY <1>4 DEF Copy
<1>5. ASSUME NEW i \in Importer, Reject(i) PROVE Settled' BY <1>5 DEF Reject
<1>6. ASSUME NEW i \in Importer, Move(i) PROVE Settled' BY <1>6 DEF Move
<1>7. ASSUME NEW i \in Importer, ReadRecords(i) PROVE Settled' BY <1>7 DEF ReadRecords
<1>8. ASSUME NEW i \in Importer, Commit(i) PROVE Settled' BY <1>8 DEF Commit
<1> QED BY <1>1, <1>2, <1>3, <1>4, <1>5, <1>6, <1>7, <1>8 DEF ModelNext

(* Whatever imports overlap and wherever the process is killed: a listed   *)
(* model is a complete file of plausible size, every record has a file,    *)
(* and a model left alone agrees with its record.                          *)
THEOREM ImportsStayWhole == ModelSpec => []ModelsWhole
<1>1. StoreInv => ModelsWhole
  BY DEF StoreInv, TypedStore, Recorded, Settled, ModelsWhole, Find
<1>2. StoreInv /\ [ModelNext]_modelVars => StoreInv'
  BY StoreTyped, StoreRecorded, StoreUndisturbed, StoreSettled DEF StoreInv
<1> QED BY <1>1, <1>2, StoreInit, PTL DEF ModelSpec
=============================================================================
