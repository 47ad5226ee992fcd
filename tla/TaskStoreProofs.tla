-------------------------- MODULE TaskStoreProofs --------------------------
(***************************************************************************)
(* Optimistic concurrency at work: a copy whose resourceVersion is current *)
(* is the stored object, so that an update that is accepted changes the    *)
(* task it was computed from.  With this every change of a stored task is  *)
(* a step of the task's life cycle.                                        *)
(***************************************************************************)
EXTENDS TaskControllerProofs

\* The copy o of the object cur is an old version, or cur itself.
Fresh(o, cur) == o.rv <= cur.rv /\ (o.rv = cur.rv => o = cur)

\* The worker's copy has the worker's own additions: the cost of a run, and
\* ahead of SetPod the pod name.
WorkerCopyOf(o, cur, pc) ==
    /\ o.rv <= cur.rv
    /\ o.rv = cur.rv =>
         /\ o.phase = cur.phase
         /\ o.claim = cur.claim
         /\ o.clar = cur.clar
         /\ IF pc = "setPod" THEN cur.pod = 0 ELSE o.pod = cur.pod

StoreFresh ==
    \A t \in Tasks : /\ Fresh(cache[t], obj[t])
                     /\ \A v \in watch[t] : Fresh(v, obj[t])

HandlerFresh ==
    \A d \in Tasks : hpc[d] = "resume" => Fresh(hcopy[d], obj[htask[d]])

WorkerFresh ==
    /\ wpc # "idle" => WorkerCopyOf(wcopy, obj[wtask], wpc)
    /\ wpc = "waitReady" => wcopy.pod = 0

\* A task is created by its own handler, which is then done.
CreatedOnce ==
    \A d \in Tasks : /\ hpc[d] # "done" => obj[d].phase = "Absent"
                     /\ obj[d].phase = "Absent" => obj[d] = NoObject

FreshInv == GoodInv /\ StoreFresh /\ HandlerFresh /\ WorkerFresh /\ CreatedOnce

-----------------------------------------------------------------------------
(* What an update does to the copies.                                      *)

\* The object after an update: the same, or a version newer by one.
NextVersion(cur, new) == new = cur \/ new.rv = cur.rv + 1

LEMMA PutEffect ==
    ASSUME TypeOK, NEW t \in Tasks, NEW new \in Object, new.rv = obj[t].rv,
           Put(t, new)
    PROVE  /\ \A u \in Tasks \ {t} : obj'[u] = obj[u] /\ watch'[u] = watch[u]
           /\ obj'[t] = Stored(t, new)
           /\ NextVersion(obj[t], obj'[t])
           /\ \A v \in watch'[t] : v \in watch[t] \/ v = obj'[t]
           /\ obj'[t].phase = new.phase
           /\ obj'[t].claim = new.claim
           /\ obj'[t].clar = new.clar
           /\ obj'[t].pod = new.pod
<1>1. obj'[t] = Stored(t, new)
  BY DEF Put, TypeOK
<1>2. /\ Stored(t, new).phase = new.phase
      /\ Stored(t, new).claim = new.claim
      /\ Stored(t, new).clar = new.clar
      /\ Stored(t, new).pod = new.pod
  BY DEF Stored, Object
<1>3. NextVersion(obj[t], Stored(t, new))
  BY DEF Stored, Object, NextVersion
<1>4. /\ \A u \in Tasks \ {t} : obj'[u] = obj[u] /\ watch'[u] = watch[u]
      /\ \A v \in watch'[t] : v \in watch[t] \/ v = Stored(t, new)
  BY DEF Put, TypeOK
<1> QED
  BY <1>1, <1>2, <1>3, <1>4

\* A newer version makes no copy fresher than it was.
LEMMA FreshNext ==
    ASSUME NEW cur \in Object, NEW new \in Object, NextVersion(cur, new)
    PROVE  /\ \A o \in Object : Fresh(o, cur) => Fresh(o, new)
           /\ \A o \in Object, pc \in WorkerPCs :
                 WorkerCopyOf(o, cur, pc) => WorkerCopyOf(o, new, pc)
<1>1. CASE new = cur
  BY <1>1
<1>2. CASE new.rv = cur.rv + 1
  <2>1. \A o \in Object : o.rv <= cur.rv => o.rv <= new.rv /\ o.rv # new.rv
    <3>1. cur.rv \in Nat /\ \A o \in Object : o.rv \in Nat
      BY DEF Object
    <3> QED
      BY <1>2, <3>1
  <2> QED
    BY <2>1 DEF Fresh, WorkerCopyOf
<1> QED
  BY <1>1, <1>2 DEF NextVersion

\* The store, and the copies others hold, after an update of t.
LEMMA PutFresh ==
    ASSUME FreshInv, NEW t \in Tasks, NEW new \in Object, new.rv = obj[t].rv,
           Put(t, new)
    PROVE  /\ UNCHANGED cache => StoreFresh'
           /\ (\A d \in Tasks : hpc'[d] = "resume" =>
                 hpc[d] = "resume" /\ htask'[d] = htask[d] /\ hcopy'[d] = hcopy[d])
              => HandlerFresh'
           /\ UNCHANGED workerVars => WorkerFresh'
<1>0. TypeOK /\ obj'[t] \in Object
  BY PutType DEF FreshInv, GoodInv, TypeInv, TypeOK
<1>1. /\ \A u \in Tasks \ {t} : obj'[u] = obj[u] /\ watch'[u] = watch[u]
      /\ NextVersion(obj[t], obj'[t])
      /\ \A v \in watch'[t] : v \in watch[t] \/ v = obj'[t]
  BY <1>0, PutEffect
<1>2. \A o \in Object, u \in Tasks : Fresh(o, obj[u]) => Fresh(o, obj'[u])
  <2> SUFFICES ASSUME NEW o \in Object, NEW u \in Tasks, Fresh(o, obj[u])
               PROVE  Fresh(o, obj'[u])
    OBVIOUS
  <2>1. CASE u = t
    BY <1>0, <1>1, <2>1, FreshNext DEF TypeOK
  <2>2. CASE u # t
    BY <1>1, <2>2
  <2> QED
    BY <2>1, <2>2
<1>3. ASSUME UNCHANGED cache PROVE StoreFresh'
  <2>1. \A u \in Tasks : Fresh(cache'[u], obj'[u])
    BY <1>0, <1>2, <1>3 DEF FreshInv, StoreFresh, TypeOK
  <2>2. ASSUME NEW u \in Tasks, NEW v \in watch'[u] PROVE Fresh(v, obj'[u])
    <3>1. CASE v \in watch[u]
      <4>1. v \in Object /\ Fresh(v, obj[u])
        BY <1>0, <3>1 DEF FreshInv, StoreFresh, TypeOK
      <4> QED
        BY <1>2, <4>1
    <3>2. CASE u = t /\ v = obj'[t]
      BY <1>0, <3>2 DEF Fresh, Object
    <3> QED
      BY <1>1, <2>2, <3>1, <3>2
  <2> QED
    BY <2>1, <2>2 DEF StoreFresh
<1>4. ASSUME \A d \in Tasks : hpc'[d] = "resume" =>
                 hpc[d] = "resume" /\ htask'[d] = htask[d] /\ hcopy'[d] = hcopy[d]
      PROVE  HandlerFresh'
  <2> SUFFICES ASSUME NEW d \in Tasks, hpc'[d] = "resume"
               PROVE  Fresh(hcopy'[d], obj'[htask'[d]])
    BY DEF HandlerFresh
  <2>1. /\ hcopy'[d] = hcopy[d] /\ htask'[d] = htask[d]
        /\ htask[d] \in Tasks /\ hcopy[d] \in Object
        /\ Fresh(hcopy[d], obj[htask[d]])
    BY <1>0, <1>4 DEF FreshInv, HandlerFresh, TypeOK
  <2> QED
    BY <1>2, <2>1
<1>5. ASSUME UNCHANGED workerVars PROVE WorkerFresh'
  <2> SUFFICES ASSUME wpc # "idle" PROVE WorkerCopyOf(wcopy, obj'[wtask], wpc)
    BY <1>5 DEF FreshInv, WorkerFresh, workerVars
  <2>1. /\ wtask \in Tasks /\ wcopy \in Object /\ wpc \in WorkerPCs
        /\ WorkerCopyOf(wcopy, obj[wtask], wpc)
    BY <1>0 DEF FreshInv, WorkerFresh, TypeOK
  <2>2. CASE wtask = t
    BY <1>0, <1>1, <2>1, <2>2, FreshNext DEF TypeOK
  <2>3. CASE wtask # t
    BY <1>1, <2>1, <2>3
  <2> QED
    BY <2>2, <2>3
<1> QED
  BY <1>3, <1>4, <1>5

\* Whoever has a copy of a task knows that it was created.
LEMMA Known ==
    ASSUME FreshInv
    PROVE  /\ wpc # "idle" => obj[wtask].phase # "Absent"
           /\ \A d \in Tasks : hpc[d] = "resume" => obj[htask[d]].phase # "Absent"
<1>0. TypeOK
  BY DEF FreshInv, GoodInv, TypeInv
<1>1. ASSUME wpc # "idle", obj[wtask].phase = "Absent" PROVE FALSE
  <2>1. /\ wtask \in Tasks /\ wcopy.rv \in Nat
        /\ WorkerCopyOf(wcopy, obj[wtask], wpc)
        /\ wcopy.phase # "Absent"
    BY <1>0, <1>1 DEF FreshInv, GoodInv, WorkerGood, WorkerFresh, PhasesAt,
                      Terminal, TypeOK, Object
  <2>2. obj[wtask].rv = 0
    BY <1>1, <2>1 DEF FreshInv, CreatedOnce, NoObject
  <2> QED
    BY <1>1, <2>1, <2>2 DEF WorkerCopyOf
<1>2. ASSUME NEW d \in Tasks, hpc[d] = "resume", obj[htask[d]].phase = "Absent"
      PROVE  FALSE
  <2>1. /\ htask[d] \in Tasks /\ hcopy[d].rv \in Nat
        /\ Fresh(hcopy[d], obj[htask[d]])
        /\ hcopy[d].phase = "Waiting"
    BY <1>0, <1>2 DEF FreshInv, GoodInv, HandlerGood, HandlerFresh, TypeOK, Object
  <2>2. obj[htask[d]].rv = 0
    BY <1>2, <2>1 DEF FreshInv, CreatedOnce, NoObject
  <2> QED
    BY <1>2, <2>1, <2>2 DEF Fresh
<1> QED
  BY <1>1, <1>2

-----------------------------------------------------------------------------
(* Every step keeps the copies fresh.                                      *)

FreshParts == StoreFresh /\ HandlerFresh /\ WorkerFresh /\ CreatedOnce

\* A step that leaves the stored objects and the copies outside the worker
\* alone, and moves the worker on with the same copy or makes it return.
LEMMA GotoFresh ==
    ASSUME FreshInv, UNCHANGED <<storeVars, cache, handlerVars>>,
           \/ UNCHANGED workerVars
           \/ Return
           \/ \E call \in WorkerPCs \ {"setPod", "waitReady"} :
                 Goto(call) /\ UNCHANGED wcopy /\ wpc \notin {"idle", "setPod"}
    PROVE  FreshParts'
<1>1. StoreFresh' /\ HandlerFresh' /\ CreatedOnce'
  BY DEF FreshInv, StoreFresh, HandlerFresh, CreatedOnce, storeVars, handlerVars
<1>2. WorkerFresh'
  BY DEF FreshInv, WorkerFresh, WorkerCopyOf, storeVars, workerVars, Return, Goto
<1> QED
  BY <1>1, <1>2 DEF FreshParts

\* An accepted update of a task that was created leaves it created.
LEMMA PutCreated ==
    ASSUME FreshInv, NEW t \in Tasks, NEW new \in Object, new.rv = obj[t].rv,
           Put(t, new), new.phase # "Absent", hpc[t] = "done",
           \A d \in Tasks : hpc'[d] = "done" \/ hpc[d] # "done"
    PROVE  CreatedOnce'
<1>1. TypeOK
  BY DEF FreshInv, GoodInv, TypeInv
<1>2. /\ \A u \in Tasks \ {t} : obj'[u] = obj[u]
      /\ obj'[t].phase = new.phase
  BY <1>1, PutEffect
<1> QED
  BY <1>2 DEF FreshInv, CreatedOnce

LEMMA StatusUpdateFresh ==
    ASSUME FreshInv, wpc # "idle", NEW new \in Object, new.rv = wcopy.rv,
           new.phase # "Absent", NEW call \in WorkerPCs \ {"setPod", "waitReady"},
           StatusUpdate(new, call), UNCHANGED <<cache, handlerVars>>
    PROVE  /\ FreshParts'
           /\ obj' = obj \/ (CanWrite(wtask, wcopy) /\ Put(wtask, new))
<1>0. TypeOK /\ wtask \in Tasks /\ hpc[wtask] = "done"
  BY Known DEF FreshInv, GoodInv, TypeInv, TypeOK, CreatedOnce
<1>1. CASE UNCHANGED storeVars /\ Return
  BY <1>1, GotoFresh DEF storeVars
<1>2. CASE CanWrite(wtask, wcopy) /\ Put(wtask, new)
  <2>1. new.rv = obj[wtask].rv
    BY <1>2 DEF CanWrite
  <2>2. StoreFresh' /\ HandlerFresh'
    BY <1>0, <1>2, <2>1, PutFresh DEF handlerVars
  <2>3. CreatedOnce'
    BY <1>0, <1>2, <2>1, PutCreated DEF handlerVars
  <2>4. obj'[wtask] = Stored(wtask, new) /\ obj'[wtask] \in Object
    BY <1>0, <1>2, <2>1, PutEffect, PutType
  <2>5. WorkerFresh'
    <3>1. CASE wpc' = "idle"
      BY <3>1 DEF WorkerFresh
    <3>2. CASE wcopy' = Stored(wtask, new) /\ Goto(call)
      BY <2>4, <3>2 DEF WorkerFresh, WorkerCopyOf, Goto, Object
    <3> QED
      BY <1>2, <3>1, <3>2 DEF StatusUpdate, ReturnRequeue, Return
  <2> QED
    BY <1>2, <2>2, <2>3, <2>5 DEF FreshParts
<1> QED
  BY <1>1, <1>2 DEF StatusUpdate, ReturnRequeue

\* One change of a stored task, in the terms of its life cycle; an answer is
\* that of a handler which thereby ends its update.  Nothing else of a waiting
\* task changes.
Moved(a, b) ==
    \/ b.phase = a.phase /\ b.clar = a.clar /\ a.phase # "Waiting"
    \/ a.phase = "Absent" /\ b.phase = "Pending" /\ b.clar = a.clar
    \/ a.phase = "Pending" /\ b.phase = "Running" /\ b.clar = a.clar
    \/ /\ a.phase = "Running" /\ b.phase = "Waiting"
       /\ Len(a.clar) < MaxRounds /\ b.clar = Append(a.clar, None)
    \/ /\ a.phase = "Waiting" /\ b.phase = "Running"
       /\ \E d \in Tasks : /\ hpc[d] = "resume" /\ hpc'[d] # "resume"
                           /\ b.clar = WithAnswer(a.clar, d)
    \/ a.phase = "Running" /\ b.phase = "Completed" /\ b.clar = a.clar
    \/ a.phase \in {"Running", "Waiting"} /\ b.phase = "Failed" /\ b.clar = a.clar
    \/ a.phase \notin {"Absent", "Gone"} /\ b.phase = "Gone" /\ b.clar = a.clar

ObjMoved ==
    \/ obj' = obj
    \/ \E t \in Tasks : /\ Moved(obj[t], obj'[t])
                        /\ obj[t].phase = "Absent" => hpc[t] # "done"
                        /\ \A u \in Tasks \ {t} : obj'[u] = obj[u]

\* An accepted update moves the task if its new value is a move away from the
\* stored one.
LEMMA PutMoved ==
    ASSUME FreshInv, NEW t \in Tasks, NEW new \in Object, new.rv = obj[t].rv,
           obj[t].phase # "Absent", Put(t, new), Moved(obj[t], new)
    PROVE  ObjMoved
<1>1. TypeOK
  BY DEF FreshInv, GoodInv, TypeInv
<1>2. /\ \A u \in Tasks \ {t} : obj'[u] = obj[u]
      /\ obj'[t].phase = new.phase /\ obj'[t].clar = new.clar
  BY <1>1, PutEffect
<1>3. Moved(obj[t], obj'[t])
  BY <1>2 DEF Moved
<1> QED
  BY <1>2, <1>3 DEF ObjMoved

LEMMA HandleFresh ==
    ASSUME FreshInv, NEW d \in Tasks, Handle(d)
    PROVE  FreshParts' /\ ObjMoved
<1>0. TypeOK /\ UNCHANGED <<workerVars, cache>>
  BY DEF FreshInv, GoodInv, TypeInv, Handle, HandleMention, HandleLabel,
         ResumeClarification, CreateTask
<1>1. CASE HandleMention(d) \/ HandleLabel(d)
  <2>1. UNCHANGED storeVars
    BY <1>1 DEF HandleMention, HandleLabel
  <2>2. StoreFresh' /\ WorkerFresh'
    BY <1>0, <2>1 DEF FreshInv, StoreFresh, WorkerFresh, storeVars, workerVars
  <2>3. CreatedOnce'
    BY <1>0, <1>1, <2>1
    DEF HandleMention, HandleLabel, FreshInv, CreatedOnce, storeVars, TypeOK
  <2>4. HandlerFresh'
    <3> SUFFICES ASSUME NEW e \in Tasks, hpc'[e] = "resume"
                 PROVE  Fresh(hcopy'[e], obj[htask'[e]])
      BY <2>1 DEF HandlerFresh, storeVars
    <3>1. CASE hpc[e] = "resume" /\ hcopy'[e] = hcopy[e] /\ htask'[e] = htask[e]
      BY <3>1 DEF FreshInv, HandlerFresh
    <3>2. CASE \E t \in Tasks : hcopy'[e] = cache[t] /\ htask'[e] = t
      BY <3>2 DEF FreshInv, StoreFresh
    <3> QED
      BY <1>0, <1>1, <3>1, <3>2 DEF HandleMention, HandleLabel, TypeOK
  <2> QED
    BY <2>1, <2>2, <2>3, <2>4 DEF FreshParts, ObjMoved, storeVars
<1>2. CASE ResumeClarification(d)
  <2> DEFINE t == htask[d]
  <2>1. /\ t \in Tasks /\ hcopy[d] \in Object
        /\ hcopy[d].clar \in Seq(Tasks \cup {None})
        /\ Fresh(hcopy[d], obj[t]) /\ hcopy[d].phase = "Waiting"
        /\ hpc[t] = "done"
    <3>1. hpc[d] = "resume"
      BY <1>2 DEF ResumeClarification
    <3>2. t \in Tasks /\ hcopy[d] \in Object
      BY <1>0, <3>1 DEF TypeOK
    <3>3. hcopy[d].clar \in Seq(Tasks \cup {None})
      BY <3>2 DEF Object
    <3>4. Fresh(hcopy[d], obj[t])
      BY <3>1 DEF FreshInv, HandlerFresh
    <3>5. hcopy[d].phase = "Waiting"
      BY <3>1 DEF FreshInv, GoodInv, HandlerGood
    <3>6. hpc[t] = "done"
      <4>1. CreatedOnce
        BY DEF FreshInv
      <4>2. obj[t].phase # "Absent"
        BY <3>1, Known
      <4> QED
        BY <3>2, <4>1, <4>2 DEF CreatedOnce
    <3> QED
      BY <3>2, <3>3, <3>4, <3>5, <3>6
  <2>2. Answered(d) \in Object
    BY <2>1, WithAnswerType, ObjectExcept DEF Answered, Phases
  <2>3. /\ Answered(d).rv = hcopy[d].rv /\ Answered(d).phase = "Running"
        /\ Answered(d).clar = WithAnswer(hcopy[d].clar, d)
    BY <2>1 DEF Answered, Object
  <2>4. \A e \in Tasks : hpc'[e] = "resume" =>
            hpc[e] = "resume" /\ htask'[e] = htask[e] /\ hcopy'[e] = hcopy[e]
    BY <1>0, <1>2 DEF ResumeClarification, TypeOK
  <2>5. /\ hpc[d] = "resume" /\ hpc'[d] # "resume"
        /\ \A e \in Tasks : hpc'[e] = "done" \/ hpc[e] # "done"
    BY <1>0, <1>2 DEF ResumeClarification, TypeOK
  <2>6. CASE CanWrite(t, hcopy[d]) /\ Put(t, Answered(d))
    <3>1. Answered(d).rv = obj[t].rv /\ hcopy[d] = obj[t]
      BY <2>1, <2>3, <2>6 DEF CanWrite, Fresh
    <3>2. StoreFresh' /\ HandlerFresh' /\ WorkerFresh'
      BY <1>0, <2>1, <2>2, <2>4, <2>6, <3>1, PutFresh
    <3>3. CreatedOnce'
      BY <2>1, <2>2, <2>3, <2>5, <2>6, <3>1, PutCreated
    <3>4. Moved(obj[t], Answered(d))
      BY <2>1, <2>3, <2>5, <3>1 DEF Moved
    <3> QED
      BY <2>1, <2>2, <2>6, <3>1, <3>2, <3>3, <3>4, PutMoved DEF FreshParts
  <2>7. CASE UNCHANGED storeVars
    <3>1. StoreFresh' /\ WorkerFresh'
      BY <1>0, <2>7 DEF FreshInv, StoreFresh, WorkerFresh, storeVars, workerVars
    <3>2. HandlerFresh'
      BY <2>4, <2>7 DEF FreshInv, HandlerFresh, storeVars
    <3>3. CreatedOnce'
      BY <2>5, <2>7 DEF FreshInv, CreatedOnce, storeVars
    <3> QED
      BY <2>7, <3>1, <3>2, <3>3 DEF FreshParts, ObjMoved, storeVars
  <2> QED
    BY <1>2, <2>6, <2>7 DEF ResumeClarification
<1>3. CASE CreateTask(d)
  <2> DEFINE new == [NoObject EXCEPT !.phase = "Pending"]
  <2>1. new \in Object
    BY NoObjectType, ObjectExcept DEF Phases
  <2>2. new.phase = "Pending" /\ new.clar = <<>> /\ new.rv = 0
    BY DEF NoObject
  <2>3. obj[d].phase = "Absent" /\ obj[d].clar = <<>> /\ obj[d].rv = 0
    BY <1>3 DEF CreateTask, FreshInv, CreatedOnce, NoObject
  <2>4. \A e \in Tasks : hpc'[e] = "resume" =>
            hpc[e] = "resume" /\ htask'[e] = htask[e] /\ hcopy'[e] = hcopy[e]
    BY <1>0, <1>3 DEF CreateTask, TypeOK
  <2>5. /\ hpc'[d] = "done"
        /\ \A e \in Tasks : hpc'[e] = "done" \/ hpc[e] # "done"
    BY <1>0, <1>3 DEF CreateTask, TypeOK
  <2> HIDE DEF new
  <2>6. CASE Put(d, new)
    <3>1. StoreFresh' /\ HandlerFresh' /\ WorkerFresh'
      BY <1>0, <2>1, <2>2, <2>3, <2>4, <2>6, PutFresh
    <3>2. /\ \A u \in Tasks \ {d} : obj'[u] = obj[u]
          /\ obj'[d].phase = "Pending" /\ obj'[d].clar = <<>>
      BY <1>0, <2>1, <2>2, <2>3, <2>6, PutEffect
    <3>3. CreatedOnce'
      BY <2>5, <3>2 DEF FreshInv, CreatedOnce
    <3>4. Moved(obj[d], obj'[d])
      BY <2>3, <3>2 DEF Moved
    <3>5. hpc[d] # "done"
      BY <1>3 DEF CreateTask
    <3> QED
      BY <3>1, <3>2, <3>3, <3>4, <3>5 DEF FreshParts, ObjMoved
  <2>7. CASE UNCHANGED storeVars
    <3>1. StoreFresh' /\ WorkerFresh'
      BY <1>0, <2>7 DEF FreshInv, StoreFresh, WorkerFresh, storeVars, workerVars
    <3>2. HandlerFresh'
      BY <2>4, <2>7 DEF FreshInv, HandlerFresh, storeVars
    <3>3. CreatedOnce'
      BY <2>5, <2>7 DEF FreshInv, CreatedOnce, storeVars
    <3> QED
      BY <2>7, <3>1, <3>2, <3>3 DEF FreshParts, ObjMoved, storeVars
  <2> QED
    BY <1>3, <2>6, <2>7 DEF CreateTask, new
<1> QED
  BY <1>1, <1>2, <1>3 DEF Handle

\* An update by which the worker moves the task it has read.
LEMMA StatusUpdateMoved ==
    ASSUME FreshInv, wpc \notin {"idle", "setPod"}, NEW new \in Object,
           new.rv = wcopy.rv, wcopy.phase # "Absent", new.phase # "Absent",
           NEW call \in WorkerPCs \ {"setPod", "waitReady"},
           StatusUpdate(new, call), UNCHANGED <<cache, handlerVars>>,
           Moved(wcopy, new)
    PROVE  FreshParts' /\ ObjMoved
<1>1. FreshParts' /\ (obj' = obj \/ (CanWrite(wtask, wcopy) /\ Put(wtask, new)))
  BY StatusUpdateFresh
<1>2. CASE CanWrite(wtask, wcopy) /\ Put(wtask, new)
  <2>1. wtask \in Tasks /\ new.rv = obj[wtask].rv
    BY <1>2 DEF CanWrite, FreshInv, GoodInv, TypeInv, TypeOK
  <2>2. wcopy.phase = obj[wtask].phase /\ wcopy.clar = obj[wtask].clar
    BY <1>2 DEF CanWrite, FreshInv, WorkerFresh, WorkerCopyOf
  <2>3. Moved(obj[wtask], new)
    BY <2>2 DEF Moved
  <2> QED
    BY <1>1, <1>2, <2>1, <2>2, <2>3, PutMoved
<1> QED
  BY <1>1, <1>2 DEF ObjMoved

LEMMA CallFresh ==
    ASSUME FreshInv, Call
    PROVE  FreshParts' /\ ObjMoved
<1>0. /\ TypeOK /\ wpc # "idle" /\ wtask \in Tasks /\ wcopy \in Object
      /\ wcopy.clar \in Seq(Tasks \cup {None}) /\ hpc[wtask] = "done"
      /\ wcopy.phase \in PhasesAt(wpc)
      /\ WorkerCopyOf(wcopy, obj[wtask], wpc)
  <2>1. wpc # "idle"
    BY DEF Call, CreateClaim, SetRunning, StartComment, WaitForReady, SetPod,
           GetCloneToken, ExecInPod, SaveCost, Ask, AskComment, Complete,
           FailTask, FinalComment, DeleteClaim
  <2> QED
    BY <2>1, Known DEF FreshInv, GoodInv, TypeInv, WorkerGood, WorkerFresh,
                       CreatedOnce, TypeOK, Object
<1> USE DEF PhasesAt, WorkerPCs
<1>1. CASE CreateClaim
  BY <1>1, GotoFresh DEF CreateClaim, ReturnRequeue, ObjMoved, storeVars
<1>2. CASE SetRunning
  <2> DEFINE new == [wcopy EXCEPT !.phase = "Running", !.claim = ClaimOf(wtask)]
  <2>1. new \in Object
    BY <1>0, ObjectExcept, ClaimOfType DEF Phases
  <2>2. wpc = "setRunning" /\ wcopy.phase = "Pending"
    BY <1>0, <1>2 DEF SetRunning
  <2>3. new.rv = wcopy.rv /\ new.phase = "Running" /\ new.clar = wcopy.clar
    BY <1>0 DEF Object
  <2> HIDE DEF new
  <2>4. StatusUpdate(new, "startComment") /\ UNCHANGED <<cache, handlerVars>>
    BY <1>2 DEF SetRunning, new
  <2>5. Moved(wcopy, new)
    BY <2>2, <2>3 DEF Moved
  <2> QED
    BY <2>1, <2>2, <2>3, <2>4, <2>5, StatusUpdateMoved
<1>3. CASE StartComment
  BY <1>3, GotoFresh DEF StartComment, ReturnRequeue, ObjMoved, storeVars
<1>4. CASE WaitForReady
  <2>1. UNCHANGED <<obj, watch, clock, cache, hpc, htask, hcopy, wtask>>
    BY <1>4 DEF WaitForReady, Goto, storeVars, handlerVars
  <2>2. StoreFresh' /\ HandlerFresh' /\ CreatedOnce'
    BY <2>1 DEF FreshInv, StoreFresh, HandlerFresh, CreatedOnce
  <2>3. wcopy.pod = 0 /\ wpc = "waitReady"
    BY <1>4 DEF WaitForReady, FreshInv, WorkerFresh
  <2>4. /\ wcopy'.rv = wcopy.rv /\ wcopy'.phase = wcopy.phase
        /\ wcopy'.claim = wcopy.claim /\ wcopy'.clar = wcopy.clar
        /\ wpc' = "setPod" \/ (wpc' = "fail" /\ wcopy' = wcopy)
    BY <1>0, <1>4 DEF WaitForReady, Goto, Object
  <2>5. WorkerFresh'
    BY <1>0, <2>1, <2>3, <2>4 DEF WorkerFresh, WorkerCopyOf
  <2> QED
    BY <2>1, <2>2, <2>5 DEF FreshParts, ObjMoved
<1>5. CASE SetPod
  <2>1. /\ FreshParts'
        /\ obj' = obj \/ (CanWrite(wtask, wcopy) /\ Put(wtask, wcopy))
    BY <1>0, <1>5, StatusUpdateFresh DEF SetPod
  <2>2. CASE CanWrite(wtask, wcopy) /\ Put(wtask, wcopy)
    <3>1. wcopy.phase = "Running"
      BY <1>0, <1>5 DEF SetPod
    <3>2. /\ wcopy.rv = obj[wtask].rv
          /\ wcopy.phase = obj[wtask].phase /\ wcopy.clar = obj[wtask].clar
      BY <1>0, <2>2 DEF CanWrite, WorkerCopyOf
    <3>3. Moved(obj[wtask], wcopy) /\ obj[wtask].phase # "Absent"
      BY <3>1, <3>2 DEF Moved
    <3> QED
      BY <1>0, <2>1, <2>2, <3>2, <3>3, PutMoved
  <2> QED
    BY <2>1, <2>2 DEF ObjMoved
<1>6. CASE GetCloneToken
  BY <1>6, GotoFresh DEF GetCloneToken, ReturnRequeue, ObjMoved, storeVars
<1>7. CASE ExecInPod
  <2>1. /\ UNCHANGED <<obj, watch, clock, cache, hpc, htask, hcopy, wtask>>
        /\ wpc = "exec" /\ wpc' \in {"saveCost", "fail", "complete"}
    BY <1>7 DEF ExecInPod, Goto, AfterExec, storeVars, handlerVars
  <2>2. StoreFresh' /\ HandlerFresh' /\ CreatedOnce'
    BY <2>1 DEF FreshInv, StoreFresh, HandlerFresh, CreatedOnce
  <2>3. /\ wcopy'.rv = wcopy.rv /\ wcopy'.phase = wcopy.phase
        /\ wcopy'.claim = wcopy.claim /\ wcopy'.clar = wcopy.clar
        /\ wcopy'.pod = wcopy.pod
    BY <1>0, <1>7 DEF ExecInPod, Object
  <2>4. WorkerFresh'
    BY <1>0, <2>1, <2>3 DEF WorkerFresh, WorkerCopyOf
  <2> QED
    BY <2>1, <2>2, <2>4 DEF FreshParts, ObjMoved
<1>8. CASE SaveCost
  <2>1. /\ wpc = "saveCost" /\ wpc' = "ask" /\ wtask' = wtask
        /\ UNCHANGED <<cache, hpc, htask, hcopy>>
    BY <1>8 DEF SaveCost, Goto, handlerVars
  <2>2. CASE UNCHANGED storeVars /\ UNCHANGED wcopy
    <3>1. StoreFresh' /\ HandlerFresh' /\ CreatedOnce'
      BY <2>1, <2>2 DEF FreshInv, StoreFresh, HandlerFresh, CreatedOnce, storeVars
    <3>2. WorkerFresh'
      BY <1>0, <2>1, <2>2 DEF WorkerFresh, WorkerCopyOf, storeVars
    <3> QED
      BY <2>2, <3>1, <3>2 DEF FreshParts, ObjMoved, storeVars
  <2>3. CASE CanWrite(wtask, wcopy) /\ Put(wtask, wcopy)
    <3>0. /\ wcopy.rv = obj[wtask].rv /\ wcopy.phase = "Running"
          /\ wcopy.phase = obj[wtask].phase /\ wcopy.clar = obj[wtask].clar
      BY <1>0, <2>1, <2>3 DEF CanWrite, WorkerCopyOf
    <3>1. /\ wcopy.rv = obj[wtask].rv /\ Moved(obj[wtask], wcopy)
          /\ wcopy.phase # "Absent" /\ obj[wtask].phase # "Absent"
      BY <3>0 DEF Moved
    <3>2. StoreFresh' /\ HandlerFresh'
      BY <1>0, <2>1, <2>3, <3>1, PutFresh
    <3>3. CreatedOnce'
      BY <1>0, <2>1, <2>3, <3>1, PutCreated
    <3>4. /\ obj'[wtask] = Stored(wtask, wcopy) /\ obj'[wtask] \in Object
          /\ NextVersion(obj[wtask], obj'[wtask])
      BY <1>0, <2>3, <3>1, PutEffect, PutType
    <3>5. WorkerFresh'
      <4>1. CASE wcopy' = obj'[wtask]
        BY <2>1, <3>4, <4>1 DEF WorkerFresh, WorkerCopyOf, Object
      <4>2. CASE wcopy' = wcopy
        <5>1. WorkerCopyOf(wcopy, obj'[wtask], "saveCost")
          BY <1>0, <2>1, <3>4, FreshNext DEF TypeOK
        <5> QED
          BY <2>1, <4>2, <5>1 DEF WorkerFresh, WorkerCopyOf
      <4> QED
        BY <1>8, <3>4, <4>1, <4>2 DEF SaveCost
    <3> QED
      BY <1>0, <2>3, <3>1, <3>2, <3>3, <3>5, PutMoved DEF FreshParts
  <2> QED
    BY <1>8, <2>2, <2>3 DEF SaveCost
<1>9. CASE Ask
  <2>1. wpc = "ask" /\ wcopy.phase = "Running"
    BY <1>0, <1>9 DEF Ask
  <2>2. CASE RoundsExhausted(wcopy.clar)
    BY <1>9, <2>1, <2>2, GotoFresh DEF Ask, ObjMoved, storeVars
  <2>3. CASE ~RoundsExhausted(wcopy.clar)
    <3> DEFINE new == [wcopy EXCEPT !.phase = "Waiting", !.clar = Append(@, None)]
    <3>1. Append(wcopy.clar, None) \in Seq(Tasks \cup {None})
      BY <1>0, AppendProperties
    <3>2. new \in Object
      BY <1>0, <3>1, ObjectExcept DEF Phases
    <3>3. /\ new.rv = wcopy.rv /\ new.phase = "Waiting"
          /\ new.clar = Append(wcopy.clar, None)
      BY <1>0 DEF Object
    <3>4. Len(wcopy.clar) < MaxRounds
      <4>1. Len(wcopy.clar) \in Nat
        BY <1>0, LenProperties
      <4> QED
        BY <2>3, <4>1, MaxRoundsType DEF RoundsExhausted
    <3> HIDE DEF new
    <3>5. StatusUpdate(new, "askComment") /\ UNCHANGED <<cache, handlerVars>>
      BY <1>9, <2>3 DEF Ask, new
    <3>6. Moved(wcopy, new)
      BY <2>1, <3>3, <3>4 DEF Moved
    <3> QED
      BY <2>1, <3>2, <3>3, <3>5, <3>6, StatusUpdateMoved
  <2> QED
    BY <2>2, <2>3
<1>10. CASE AskComment
  BY <1>10, GotoFresh DEF AskComment, ObjMoved, storeVars
<1>11. CASE Complete
  <2> DEFINE new == [wcopy EXCEPT !.phase = "Completed"]
  <2>1. new \in Object
    BY <1>0, ObjectExcept DEF Phases
  <2>2. wpc = "complete" /\ wcopy.phase = "Running"
    BY <1>0, <1>11 DEF Complete
  <2>3. new.rv = wcopy.rv /\ new.phase = "Completed" /\ new.clar = wcopy.clar
    BY <1>0 DEF Object
  <2> HIDE DEF new
  <2>4. StatusUpdate(new, "finalComment") /\ UNCHANGED <<cache, handlerVars>>
    BY <1>11 DEF Complete, new
  <2>5. Moved(wcopy, new)
    BY <2>2, <2>3 DEF Moved
  <2> QED
    BY <2>1, <2>2, <2>3, <2>4, <2>5, StatusUpdateMoved
<1>12. CASE FailTask
  <2> DEFINE new == [wcopy EXCEPT !.phase = "Failed"]
  <2>1. new \in Object
    BY <1>0, ObjectExcept DEF Phases
  <2>2. wpc = "fail" /\ wcopy.phase \in {"Running", "Waiting"}
    BY <1>0, <1>12 DEF FailTask
  <2>3. new.rv = wcopy.rv /\ new.phase = "Failed" /\ new.clar = wcopy.clar
    BY <1>0 DEF Object
  <2> HIDE DEF new
  <2>4. StatusUpdate(new, "finalComment") /\ UNCHANGED <<cache, handlerVars>>
    BY <1>12 DEF FailTask, new
  <2>5. Moved(wcopy, new)
    BY <2>2, <2>3 DEF Moved
  <2> QED
    BY <2>1, <2>2, <2>3, <2>4, <2>5, StatusUpdateMoved
<1>13. CASE FinalComment
  BY <1>13, GotoFresh DEF FinalComment, ObjMoved, storeVars
<1>14. CASE DeleteClaim
  BY <1>14, GotoFresh DEF DeleteClaim, ObjMoved, storeVars
<1> QED
  BY <1>1, <1>2, <1>3, <1>4, <1>5, <1>6, <1>7, <1>8, <1>9, <1>10, <1>11,
     <1>12, <1>13, <1>14 DEF Call

LEMMA EnvironmentFresh ==
    ASSUME FreshInv,
           \/ \E t \in Tasks : Deliver(t) \/ DeleteTask(t) \/ Reconcile(t)
           \/ Tick
           \/ Crash
    PROVE  FreshParts' /\ ObjMoved
<1>0. TypeOK
  BY DEF FreshInv, GoodInv, TypeInv
<1>1. ASSUME NEW t \in Tasks, Deliver(t) PROVE FreshParts' /\ ObjMoved
  <2>1. StoreFresh'
    BY <1>0, <1>1 DEF Deliver, FreshInv, StoreFresh, TypeOK
  <2>2. HandlerFresh' /\ WorkerFresh' /\ CreatedOnce'
    BY <1>1 DEF Deliver, FreshInv, HandlerFresh, WorkerFresh, CreatedOnce,
                workerVars, handlerVars
  <2> QED
    BY <1>1, <2>1, <2>2 DEF Deliver, FreshParts, ObjMoved
<1>2. ASSUME NEW t \in Tasks, DeleteTask(t) PROVE FreshParts' /\ ObjMoved
  <2> DEFINE new == [obj[t] EXCEPT !.phase = "Gone"]
  <2>1. obj[t] \in Object /\ obj[t].phase \notin {"Absent", "Gone"}
    BY <1>0, <1>2 DEF DeleteTask, TypeOK
  <2>2. new \in Object
    BY <2>1, ObjectExcept DEF Phases
  <2>3. new.rv = obj[t].rv /\ new.phase = "Gone" /\ new.clar = obj[t].clar
    BY <2>1 DEF Object
  <2> HIDE DEF new
  <2>4. Put(t, new) /\ UNCHANGED <<cache, workerVars, hpc, htask, hcopy>>
    BY <1>2 DEF DeleteTask, new, handlerVars
  <2>5. StoreFresh' /\ HandlerFresh' /\ WorkerFresh'
    BY <2>2, <2>3, <2>4, PutFresh
  <2>6. hpc[t] = "done"
    BY <2>1 DEF FreshInv, CreatedOnce
  <2>7. CreatedOnce'
    BY <2>2, <2>3, <2>4, <2>6, PutCreated
  <2>8. Moved(obj[t], new)
    BY <2>1, <2>3 DEF Moved
  <2> QED
    BY <2>1, <2>2, <2>3, <2>4, <2>5, <2>7, <2>8, PutMoved DEF FreshParts
<1>3. ASSUME NEW t \in Tasks, Reconcile(t) PROVE FreshParts' /\ ObjMoved
  <2>1. StoreFresh' /\ HandlerFresh' /\ CreatedOnce'
    BY <1>3 DEF Reconcile, FreshInv, StoreFresh, HandlerFresh, CreatedOnce,
                storeVars, handlerVars
  <2>2. Fresh(cache[t], obj[t]) /\ cache[t] \in Object
    BY <1>0 DEF FreshInv, StoreFresh, TypeOK
  <2>3. LET call == FirstCall(t, cache[t]) IN
        /\ call # "setPod"
        /\ call = "waitReady" => cache[t].pod = 0
    BY DEF FirstCall
  <2>4. WorkerFresh'
    BY <1>3, <2>2, <2>3
    DEF Reconcile, WorkerFresh, WorkerCopyOf, Fresh, storeVars
  <2> QED
    BY <1>3, <2>1, <2>4 DEF Reconcile, FreshParts, ObjMoved, storeVars
<1>4. CASE Tick
  BY <1>4 DEF Tick, FreshInv, FreshParts, StoreFresh, HandlerFresh, WorkerFresh,
              CreatedOnce, ObjMoved, workerVars, handlerVars
<1>5. CASE Crash
  <2>1. StoreFresh'
    <3>1. /\ obj' = obj /\ cache' = obj
          /\ \A t \in Tasks : watch'[t] = {}
      BY <1>5 DEF Crash
    <3>2. \A t \in Tasks : Fresh(obj[t], obj[t])
      <4> TAKE t \in Tasks
      <4>1. obj[t] \in Object
        BY <1>0 DEF TypeOK
      <4>2. obj[t].rv \in Nat
        BY <4>1 DEF Object
      <4>3. obj[t].rv <= obj[t].rv
        BY <4>2
      <4> QED
        BY <4>3 DEF Fresh
    <3> SUFFICES ASSUME NEW t \in Tasks
                 PROVE  /\ Fresh(cache'[t], obj'[t])
                        /\ \A v \in watch'[t] : Fresh(v, obj'[t])
      BY DEF StoreFresh
    <3> QED
      BY <3>1, <3>2
  <2>2. HandlerFresh' /\ WorkerFresh'
    BY <1>5 DEF Crash, Return, HandlerFresh, WorkerFresh
  <2>3. CreatedOnce'
    BY <1>5 DEF Crash, FreshInv, CreatedOnce
  <2> QED
    BY <1>5, <2>1, <2>2, <2>3 DEF Crash, FreshParts, ObjMoved
<1> QED
  BY <1>1, <1>2, <1>3, <1>4, <1>5

LEMMA InitFresh == Init => FreshInv
<1> SUFFICES ASSUME Init PROVE FreshInv
  OBVIOUS
<1>1. StoreFresh
  <2>1. Fresh(NoObject, NoObject)
    BY DEF Fresh, NoObject
  <2> QED
    BY <2>1 DEF Init, StoreFresh
<1> QED
  BY <1>1, InitGood
  DEF Init, FreshInv, HandlerFresh, WorkerFresh, CreatedOnce, NoObject

LEMMA StepFresh == FreshInv /\ [Next]_vars => FreshInv' /\ ObjMoved
<1> SUFFICES ASSUME FreshInv, [Next]_vars PROVE FreshInv' /\ ObjMoved
  OBVIOUS
<1>1. GoodInv'
  BY StepGood DEF FreshInv
<1>2. FreshParts' /\ ObjMoved
  <2>1. CASE UNCHANGED vars
    BY <2>1, GotoFresh
    DEF vars, storeVars, handlerVars, workerVars, ObjMoved
  <2>2. CASE Next
    BY <2>2, HandleFresh, CallFresh, EnvironmentFresh DEF Next
  <2> QED
    BY <2>1, <2>2
<1> QED
  BY <1>1, <1>2 DEF FreshInv, FreshParts

-----------------------------------------------------------------------------
(* Consequences.                                                           *)

\* A task that completed or failed is not revived by a late answer, a stale
\* copy or a repeated run.
THEOREM TerminalStays == Spec => TerminalIsFinal
<1>1. FreshInv /\ [Next]_vars =>
        [\A t \in Tasks : obj[t].phase \in Terminal =>
            obj'[t].phase \in {obj[t].phase, "Gone"}]_vars
  <2> SUFFICES ASSUME FreshInv, [Next]_vars, NEW t \in Tasks,
                      obj[t].phase \in Terminal
               PROVE  obj'[t].phase \in {obj[t].phase, "Gone"}
    OBVIOUS
  <2>1. obj'[t] = obj[t] \/ Moved(obj[t], obj'[t])
    BY StepFresh DEF ObjMoved
  <2> QED
    BY <2>1 DEF Moved, Terminal
<1>2. FreshInv /\ [Next]_vars => FreshInv'
  BY StepFresh
<1> QED
  BY <1>1, <1>2, InitFresh, PTL DEF Spec, TerminalIsFinal

LEMMA StepAnswers ==
    ASSUME FreshInv, [Next]_vars, NEW t \in Tasks,
           NEW i \in DOMAIN obj[t].clar, obj[t].clar[i] # None
    PROVE  /\ i \in DOMAIN obj'[t].clar
           /\ obj'[t].clar[i] = obj[t].clar[i]
<1> DEFINE s == obj[t].clar
           q == obj'[t].clar
<1>0. /\ s \in Seq(Tasks \cup {None}) /\ Len(s) \in Nat
      /\ DOMAIN s = 1 .. Len(s) /\ QuestionsOK(obj[t])
  BY LenProperties
  DEF FreshInv, GoodInv, StoreGood, Good, TypeInv, TypeOK, Object
<1>1. obj'[t] = obj[t] \/ Moved(obj[t], obj'[t])
  BY StepFresh DEF ObjMoved
<1>2. CASE q = s
  BY <1>2
<1>3. CASE q = Append(s, None)
  <2>1. /\ q \in Seq(Tasks \cup {None}) /\ Len(q) = Len(s) + 1
        /\ \A j \in 1 .. Len(s) : q[j] = s[j]
    BY <1>0, <1>3, AppendProperties
  <2>2. DOMAIN q = 1 .. Len(q)
    BY <2>1, LenProperties
  <2>3. i \in 1 .. Len(s) /\ Len(s) \in Nat
    BY <1>0
  <2>4. i \in DOMAIN q
    BY <2>1, <2>2, <2>3
  <2>5. q[i] = s[i]
    BY <2>1, <2>3
  <2> QED
    BY <2>4, <2>5
<1>4. CASE /\ obj[t].phase = "Waiting"
           /\ \E d \in Tasks : q = WithAnswer(s, d)
  <2>1. PICK d \in Tasks : q = WithAnswer(s, d)
    BY <1>4
  <2>2. /\ q \in Seq(Tasks \cup {None}) /\ Len(q) = Len(s)
        /\ \A j \in 1 .. Len(s) : q[j] = IF j = Len(s) THEN d ELSE s[j]
    BY <1>0, <2>1, WithAnswerType
  <2>3. DOMAIN q = 1 .. Len(q)
    BY <2>2, LenProperties
  <2>4. i # Len(s)
    BY <1>0, <1>4 DEF QuestionsOK
  <2> QED
    BY <1>0, <2>2, <2>3, <2>4
<1> QED
  BY <1>1, <1>2, <1>3, <1>4 DEF Moved

\* An answer that was recorded is never lost or overwritten.
THEOREM AnswersStay == Spec => AnswersKept
<1>1. FreshInv /\ [Next]_vars =>
        [\A t \in Tasks : \A i \in DOMAIN obj[t].clar :
            obj[t].clar[i] # None =>
              /\ i \in DOMAIN obj'[t].clar
              /\ obj'[t].clar[i] = obj[t].clar[i]]_vars
  BY StepAnswers
<1>2. FreshInv /\ [Next]_vars => FreshInv'
  BY StepFresh
<1> QED
  BY <1>1, <1>2, InitFresh, PTL DEF Spec, AnswersKept

-----------------------------------------------------------------------------
(* A reply counts once.                                                    *)

\* How far a handler may go in one step.
LEMMA HandlerStep ==
    ASSUME TypeOK, [Next]_vars, NEW d \in Tasks
    PROVE  /\ hpc[d] \in {"create", "done"} => hpc'[d] \in {"create", "done"}
           /\ hpc[d] = "done" => hpc'[d] = "done"
           /\ hpc[d] = "resume" => hpc'[d] \in {"resume", "create", "done"}
           /\ hpc[d] = "resume" /\ hpc'[d] = "create" /\ obj' # obj => Fault
           /\ budget' = budget \/ budget'.fault <= budget.fault
<1>0. budget.fault \in Nat /\ (Fault => budget'.fault <= budget.fault)
  BY BoundsAssumption DEF TypeOK, Budgets, Fault
<1>1. CASE UNCHANGED vars
  BY <1>1 DEF vars, handlerVars
<1>2. ASSUME NEW e \in Tasks, Handle(e)
      PROVE  /\ hpc[d] \in {"create", "done"} => hpc'[d] \in {"create", "done"}
             /\ hpc[d] = "done" => hpc'[d] = "done"
             /\ hpc[d] = "resume" => hpc'[d] \in {"resume", "create", "done"}
             /\ hpc[d] = "resume" /\ hpc'[d] = "create" /\ obj' # obj => Fault
             /\ budget' = budget \/ Fault
  BY <1>2 DEF Handle, HandleMention, HandleLabel, ResumeClarification,
              CreateTask, TypeOK, storeVars
<1>3. CASE Call
  <2>1. UNCHANGED hpc
    BY <1>3 DEF Call, CreateClaim, SetRunning, StartComment, WaitForReady,
                SetPod, GetCloneToken, ExecInPod, SaveCost, Ask, AskComment,
                Complete, FailTask, FinalComment, DeleteClaim, handlerVars
  <2>2. budget' = budget \/ Fault
    BY <1>3 DEF Call, CreateClaim, SetRunning, StartComment, WaitForReady,
                SetPod, GetCloneToken, ExecInPod, SaveCost, Ask, AskComment,
                Complete, FailTask, FinalComment, DeleteClaim, StatusUpdate,
                CommentOnTask
  <2> QED
    BY <1>0, <2>1, <2>2
<1>4. CASE \/ \E t \in Tasks : Deliver(t) \/ DeleteTask(t) \/ Reconcile(t)
           \/ Tick
           \/ Crash
  <2>1. budget'.fault = budget.fault
    BY <1>4 DEF Deliver, DeleteTask, Reconcile, Tick, Crash, TypeOK, Budgets
  <2>2. UNCHANGED hpc \/ (Crash /\ obj' = obj)
    BY <1>4 DEF Deliver, DeleteTask, Reconcile, Tick, Crash, handlerVars
  <2> QED
    BY <1>0, <2>1, <2>2 DEF Crash, TypeOK
<1> QED
  BY <1>0, <1>1, <1>2, <1>3, <1>4 DEF Next

\* Exchange i of task t has the answer of delivery d.
Recorded(o, d, i) == i \in DOMAIN o.clar /\ o.clar[i] = d

\* A delivery whose answer is recorded has ended its update; if nothing
\* failed, it is over and has started no task.
ReplyInv ==
    /\ FreshInv
    /\ \A d, t, u \in Tasks : \A i \in DOMAIN obj[t].clar, j \in DOMAIN obj[u].clar :
          Recorded(obj[t], d, i) /\ Recorded(obj[u], d, j) => t = u /\ i = j
    /\ \A d, t \in Tasks : \A i \in DOMAIN obj[t].clar :
          Recorded(obj[t], d, i) =>
              /\ hpc[d] \in {"create", "done"}
              /\ budget.fault = MaxFaults =>
                    hpc[d] = "done" /\ obj[d].phase = "Absent"

\* An answer that a step records is that of a handler which ends its update.
LEMMA StepRecords ==
    ASSUME FreshInv, [Next]_vars, NEW d \in Tasks, NEW t \in Tasks,
           NEW i \in DOMAIN obj'[t].clar, Recorded(obj'[t], d, i)
    PROVE  \/ i \in DOMAIN obj[t].clar /\ Recorded(obj[t], d, i)
           \/ /\ hpc[d] = "resume" /\ hpc'[d] # "resume"
              /\ obj'[t] # obj[t] /\ obj[t].phase = "Waiting"
              /\ i = Len(obj[t].clar)
<1> DEFINE s == obj[t].clar
           q == obj'[t].clar
<1>0. /\ s \in Seq(Tasks \cup {None}) /\ Len(s) \in Nat
      /\ DOMAIN s = 1 .. Len(s) /\ QuestionsOK(obj[t])
  BY LenProperties
  DEF FreshInv, GoodInv, StoreGood, Good, TypeInv, TypeOK, Object
<1>1. obj'[t] = obj[t] \/ Moved(obj[t], obj'[t])
  BY StepFresh DEF ObjMoved
<1>2. CASE q = s
  BY <1>2 DEF Recorded
<1>3. CASE q = Append(s, None)
  <2>1. /\ q \in Seq(Tasks \cup {None}) /\ Len(q) = Len(s) + 1
        /\ \A j \in 1 .. Len(s) : q[j] = s[j]
        /\ q[Len(s) + 1] = None
    BY <1>0, <1>3, AppendProperties
  <2>2. i \in 1 .. Len(s) + 1 /\ q[i] = d /\ d # None
    BY <2>1, LenProperties, NoneAssumption DEF Recorded
  <2>3. i \in 1 .. Len(s)
    BY <1>0, <2>1, <2>2
  <2>4. i \in DOMAIN s /\ s[i] = d
    BY <1>0, <2>1, <2>2, <2>3
  <2> QED
    BY <2>4 DEF Recorded
<1>4. CASE /\ obj[t].phase = "Waiting" /\ obj'[t].phase = "Running"
           /\ \E e \in Tasks : /\ hpc[e] = "resume" /\ hpc'[e] # "resume"
                               /\ q = WithAnswer(s, e)
  <2>1. PICK e \in Tasks : /\ hpc[e] = "resume" /\ hpc'[e] # "resume"
                           /\ q = WithAnswer(s, e)
    BY <1>4
  <2>2. /\ q \in Seq(Tasks \cup {None}) /\ Len(q) = Len(s)
        /\ \A j \in 1 .. Len(s) : q[j] = IF j = Len(s) THEN e ELSE s[j]
    BY <1>0, <2>1, WithAnswerType
  <2>3. DOMAIN q = 1 .. Len(s)
    BY <2>2, LenProperties
  <2>4. CASE i = Len(s)
    BY <1>4, <2>1, <2>2, <2>3, <2>4 DEF Recorded
  <2>5. CASE i # Len(s)
    BY <1>0, <2>2, <2>3, <2>5 DEF Recorded
  <2> QED
    BY <2>4, <2>5
<1> QED
  BY <1>1, <1>2, <1>3, <1>4 DEF Moved

LEMMA StepReply == ReplyInv /\ [Next]_vars => ReplyInv'
<1> SUFFICES ASSUME ReplyInv, [Next]_vars PROVE ReplyInv'
  OBVIOUS
<1>0. FreshInv /\ FreshInv' /\ TypeOK /\ TypeOK' /\ ObjMoved
  BY StepFresh DEF ReplyInv, FreshInv, GoodInv, TypeInv
<1>1. ASSUME NEW d \in Tasks, NEW t \in Tasks, NEW u \in Tasks,
             NEW i \in DOMAIN obj'[t].clar, NEW j \in DOMAIN obj'[u].clar,
             Recorded(obj'[t], d, i), Recorded(obj'[u], d, j)
      PROVE  t = u /\ i = j
  <2> DEFINE Old(v, k) == k \in DOMAIN obj[v].clar /\ Recorded(obj[v], d, k)
             New(v, k) == /\ hpc[d] = "resume" /\ obj'[v] # obj[v]
                          /\ k = Len(obj[v].clar)
  <2>1. (Old(t, i) \/ New(t, i)) /\ (Old(u, j) \/ New(u, j))
    BY <1>0, <1>1, StepRecords
  <2>2. CASE Old(t, i) /\ Old(u, j)
    BY <2>2 DEF ReplyInv
  <2>3. CASE Old(t, i) \/ Old(u, j)
    <3>1. hpc[d] # "resume"
      BY <2>3 DEF ReplyInv
    <3> QED
      BY <2>1, <2>2, <3>1
  <2>4. CASE New(t, i) /\ New(u, j)
    BY <1>0, <2>4 DEF ObjMoved
  <2> QED
    BY <2>1, <2>3, <2>4
<1>2. ASSUME NEW d \in Tasks, NEW t \in Tasks, NEW i \in DOMAIN obj'[t].clar,
             Recorded(obj'[t], d, i)
      PROVE  /\ hpc'[d] \in {"create", "done"}
             /\ budget'.fault = MaxFaults =>
                   hpc'[d] = "done" /\ obj'[d].phase = "Absent"
  <2>0. /\ budget.fault \in Nat /\ budget.fault <= MaxFaults /\ MaxFaults \in Nat
        /\ budget'.fault \in Nat
    BY <1>0, BoundsAssumption DEF TypeOK, Budgets
  <2>1. budget'.fault = MaxFaults => budget.fault = MaxFaults /\ ~Fault
    <3>1. budget' = budget \/ budget'.fault <= budget.fault
      BY <1>0, HandlerStep
    <3>2. Fault => budget.fault > 0 /\ budget'.fault = budget.fault - 1
      BY <1>0 DEF Fault, TypeOK, Budgets
    <3> QED
      BY <2>0, <3>1, <3>2
  <2>2. CASE i \in DOMAIN obj[t].clar /\ Recorded(obj[t], d, i)
    <3>1. /\ hpc[d] \in {"create", "done"}
          /\ budget.fault = MaxFaults =>
                hpc[d] = "done" /\ obj[d].phase = "Absent"
      BY <2>2 DEF ReplyInv
    <3>2. hpc[d] = "done" /\ obj[d].phase = "Absent" => obj'[d] = obj[d]
      BY <1>0 DEF ObjMoved
    <3> QED
      BY <1>0, <2>1, <3>1, <3>2, HandlerStep
  <2>3. CASE /\ hpc[d] = "resume" /\ hpc'[d] # "resume"
             /\ obj'[t] # obj[t] /\ obj[t].phase = "Waiting"
    <3>1. hpc'[d] \in {"create", "done"} /\ (hpc'[d] = "create" => Fault)
      BY <1>0, <2>3, HandlerStep
    <3>2. obj[d].phase = "Absent"
      BY <1>0, <2>3 DEF FreshInv, CreatedOnce
    <3>3. obj'[d] = obj[d]
      BY <1>0, <2>3, <3>2 DEF ObjMoved
    <3> QED
      BY <2>1, <3>1, <3>2, <3>3
  <2> QED
    BY <1>0, <1>2, <2>2, <2>3, StepRecords
<1> QED
  BY <1>0, <1>1, <1>2 DEF ReplyInv

\* One reply neither answers two questions nor, without a failure, answers a
\* question and starts a task, however handlers and reconciler interleave.
THEOREM RepliesCountOnce == Spec => []ReplyCountsOnce
<1>1. Init => ReplyInv
  <2> SUFFICES ASSUME Init PROVE ReplyInv
    OBVIOUS
  <2>1. \A t \in Tasks : obj[t].clar = <<>>
    BY DEF Init, NoObject
  <2> QED
    BY <2>1, InitFresh DEF ReplyInv
<1>2. ReplyInv => ReplyCountsOnce
  <2> SUFFICES ASSUME ReplyInv, NEW d \in Tasks
               PROVE  /\ \A x, y \in AnsweredBy(d) : x = y
                      /\ AnsweredBy(d) # {} /\ budget.fault = MaxFaults
                         => obj[d].phase = "Absent"
    BY DEF ReplyCountsOnce
  <2>1. \A x \in AnsweredBy(d) : \E t \in Tasks : \E i \in DOMAIN obj[t].clar :
           x = <<t, i>> /\ Recorded(obj[t], d, i)
    BY DEF AnsweredBy, Recorded
  <2> QED
    BY <2>1 DEF ReplyInv
<1> QED
  BY <1>1, <1>2, StepReply, PTL DEF Spec

=============================================================================
