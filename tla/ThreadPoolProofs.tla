-------------------------- MODULE ThreadPoolProofs ---------------------------
(***************************************************************************)
(* Theorems about the thread pool, for any number of workers and units.    *)
(***************************************************************************)
EXTENDS ThreadPool, FiniteSetTheorems, TLAPS

LEMMA ReadyFinite == IsFiniteSet(Ready) /\ Cardinality(Ready) \in Nat
BY WorkersAssumption, FS_Subset, FS_CardinalityType DEF Ready

(***************************************************************************)
(* What a step of one worker does to the number of workers that are awake. *)
(***************************************************************************)
LEMMA ReadyChange ==
    ASSUME TypeOK, NEW w \in Workers, NEW to,
           worker_pc' = [worker_pc EXCEPT ![w] = to]
    PROVE  worker_pc[w] # "ready" =>
              /\ to = "ready" => Cardinality(Ready') = Cardinality(Ready) + 1
              /\ to # "ready" => Cardinality(Ready') = Cardinality(Ready)
<1>1. \A v \in Workers : worker_pc'[v] = IF v = w THEN to ELSE worker_pc[v]
  BY DEF TypeOK
<1>2. ASSUME worker_pc[w] # "ready", to = "ready"
      PROVE  Cardinality(Ready') = Cardinality(Ready) + 1
  <2>1. Ready' = Ready \cup {w} /\ w \notin Ready  BY <1>1, <1>2 DEF Ready
  <2> QED  BY <2>1, ReadyFinite, FS_AddElement
<1>3. ASSUME worker_pc[w] # "ready", to # "ready"
      PROVE  Cardinality(Ready') = Cardinality(Ready)
  <2>1. Ready' = Ready  BY <1>1, <1>3 DEF Ready
  <2> QED  BY <2>1
<1> QED  BY <1>2, <1>3

LEMMA ReadyLeaves ==
    ASSUME TypeOK, NEW w \in Workers, NEW to, worker_pc[w] = "ready", to # "ready",
           worker_pc' = [worker_pc EXCEPT ![w] = to]
    PROVE  Cardinality(Ready') = Cardinality(Ready) - 1
<1>1. Ready' = Ready \ {w} /\ w \in Ready  BY DEF Ready, TypeOK
<1> QED  BY <1>1, ReadyFinite, FS_RemoveElement

-----------------------------------------------------------------------------
PInv == TypeOK /\ WorkConserving

LEMMA InitPInv == Init => PInv
<1> SUFFICES ASSUME Init PROVE PInv  OBVIOUS
<1>1. TypeOK
  <2>1. tasks_ \in Seq(Units) /\ joined \subseteq Workers  BY DEF Init
  <2>2. \A w \in Workers : task[w] = NoUnit /\ worker_pc[w] = "ready"  BY DEF Init
  <2>3. /\ worker_pc \in [Workers -> {"ready", "waiting", "running", "exited"}]
        /\ task \in [Workers -> Units \cup {NoUnit}]
        /\ answer \in [Units -> {"none", "accepted", "refused"}]
    BY DEF Init
  <2> QED  BY <2>1, <2>2, <2>3 DEF Init, TypeOK
<1>2. Waiting = {}  BY DEF Init, Waiting
<1> QED  BY <1>1, <1>2 DEF PInv, WorkConserving

\* notify_one: a wakeup for the unit that has just been queued.
LEMMA EnqueuePInv ==
    ASSUME PInv, NEW u \in Units, Enqueue(u)
    PROVE  PInv'
<1> USE UnitsAssumption DEF PInv
<1>1. /\ tasks_ \in Seq(Units) /\ tasks_' = Append(tasks_, u)
      /\ Len(tasks_') = Len(tasks_) + 1 /\ tasks_' \in Seq(Units)
  BY DEF Enqueue, TypeOK
<1>2. CASE Waiting = {}
  <2>1. TypeOK'  BY <1>1, <1>2 DEF Enqueue, NotifyOne, TypeOK
  <2>2. Waiting' = {}  BY <1>2 DEF Enqueue, NotifyOne, Waiting
  <2> QED  BY <2>1, <2>2 DEF WorkConserving
<1>3. CASE Waiting # {}
  <2>1. PICK w \in Waiting : worker_pc' = [worker_pc EXCEPT ![w] = "ready"]
    BY <1>3 DEF Enqueue, NotifyOne
  <2>2. w \in Workers /\ worker_pc[w] = "waiting"  BY DEF Waiting
  <2>3. TypeOK'  BY <1>1, <2>1, <2>2 DEF Enqueue, TypeOK
  <2>4. Cardinality(Ready') = Cardinality(Ready) + 1  BY <2>1, <2>2, ReadyChange
  <2>5. Len(tasks_) <= Cardinality(Ready)  BY <1>3 DEF WorkConserving
  <2>6. Len(tasks_') <= Cardinality(Ready')  BY <1>1, <2>4, <2>5, ReadyFinite
  <2> QED  BY <2>3, <2>6 DEF WorkConserving
<1> QED  BY <1>2, <1>3

\* A worker sleeps or leaves only when the queue is empty, takes one unit
\* for its own wakeup, and comes back as one more that is awake.
LEMMA WorkerPInv ==
    ASSUME PInv, NEW w \in Workers, Worker(w) \/ SpuriousWakeup(w)
    PROVE  PInv'
<1> USE UnitsAssumption DEF PInv
<1>1. tasks_ \in Seq(Units) /\ Len(tasks_) \in Nat  BY DEF TypeOK
<1>2. ASSUME TypeOK', tasks_ = <<>>, tasks_' = tasks_
      PROVE  PInv'
  <2>1. Len(tasks_') = 0  BY <1>2
  <2>2. IsFiniteSet(Ready')  BY WorkersAssumption, FS_Subset DEF Ready
  <2>3. Cardinality(Ready') \in Nat  BY <2>2, FS_CardinalityType
  <2> QED  BY <1>2, <2>1, <2>3 DEF WorkConserving
<1>3. CASE WorkerWait(w)
  <2>1. TypeOK'  BY <1>3 DEF WorkerWait, TypeOK
  <2> QED  BY <1>2, <1>3, <2>1 DEF WorkerWait
<1>4. CASE WorkerExit(w)
  <2>1. TypeOK'  BY <1>4 DEF WorkerExit, TypeOK
  <2> QED  BY <1>2, <1>4, <2>1 DEF WorkerExit
<1>5. CASE WorkerTake(w)
  <2>1. /\ Head(tasks_) \in Units /\ tasks_' \in Seq(Units)
        /\ Len(tasks_') = Len(tasks_) - 1
    BY <1>1, <1>5 DEF WorkerTake
  <2>2. TypeOK'  BY <1>5, <2>1 DEF WorkerTake, TypeOK
  <2>3. Waiting' = Waiting  BY <1>5 DEF WorkerTake, Waiting, TypeOK
  <2>4. Cardinality(Ready') = Cardinality(Ready) - 1  BY <1>5, ReadyLeaves DEF WorkerTake
  <2>5. ASSUME Waiting # {} PROVE Len(tasks_') <= Cardinality(Ready')
    <3>1. Len(tasks_) <= Cardinality(Ready)  BY <2>5 DEF WorkConserving
    <3> QED  BY <1>1, <2>1, <2>4, <3>1, ReadyFinite
  <2> QED  BY <2>2, <2>3, <2>5 DEF WorkConserving
<1>6. ASSUME TypeOK', worker_pc[w] # "ready", tasks_' = tasks_,
             worker_pc' = [worker_pc EXCEPT ![w] = "ready"]
      PROVE  PInv'
  <2>1. Waiting' \subseteq Waiting  BY <1>6 DEF Waiting, TypeOK
  <2>2. Cardinality(Ready') = Cardinality(Ready) + 1  BY <1>6, ReadyChange
  <2>3. ASSUME Waiting # {} PROVE Len(tasks_') <= Cardinality(Ready')
    <3>1. Len(tasks_) <= Cardinality(Ready)  BY <2>3 DEF WorkConserving
    <3> QED  BY <1>1, <1>6, <2>2, <3>1, ReadyFinite
  <2> QED  BY <1>6, <2>1, <2>3 DEF WorkConserving
<1>7. CASE WorkerReturn(w)
  <2>1. TypeOK'  BY <1>7 DEF WorkerReturn, TypeOK
  <2> QED  BY <1>6, <1>7, <2>1 DEF WorkerReturn
<1>8. CASE SpuriousWakeup(w)
  <2>1. TypeOK'  BY <1>8 DEF SpuriousWakeup, TypeOK
  <2> QED  BY <1>6, <1>8, <2>1 DEF SpuriousWakeup
<1> QED  BY <1>3, <1>4, <1>5, <1>7, <1>8 DEF Worker

\* The rest moves no worker, except that notify_all leaves nobody asleep.
LEMMA OtherPInv ==
    ASSUME PInv, (\E u \in Units : EnqueueStopped(u)) \/ StopFlag \/ StopStep \/ UNCHANGED vars
    PROVE  PInv'
<1> USE DEF PInv
<1>1. ASSUME TypeOK', worker_pc' = worker_pc, tasks_' = tasks_ PROVE PInv'
  BY <1>1 DEF WorkConserving, Waiting, Ready
<1>2. CASE StopNotify
  <2>1. TypeOK'  BY <1>2 DEF StopNotify, TypeOK, Waiting
  <2>2. Waiting' = {}  BY <1>2 DEF StopNotify, Waiting, TypeOK
  <2> QED  BY <2>1, <2>2 DEF WorkConserving
<1>3. CASE \E u \in Units : EnqueueStopped(u)  BY <1>1, <1>3 DEF EnqueueStopped, TypeOK
<1>4. CASE StopFlag  BY <1>1, <1>4 DEF StopFlag, TypeOK
<1>5. CASE \E w \in Workers : StopJoin(w)  BY <1>1, <1>5 DEF StopJoin, TypeOK
<1>6. CASE StopReturn  BY <1>1, <1>6 DEF StopReturn, TypeOK
<1>7. CASE UNCHANGED vars  BY <1>1, <1>7 DEF vars, TypeOK
<1> QED  BY <1>2, <1>3, <1>4, <1>5, <1>6, <1>7 DEF StopStep

LEMMA NextPInv == PInv /\ [Next]_vars => PInv'
<1> SUFFICES ASSUME PInv, [Next]_vars PROVE PInv'  OBVIOUS
<1>1. ASSUME NEW u \in Units, Enqueue(u) PROVE PInv'  BY <1>1, EnqueuePInv
<1>2. ASSUME NEW w \in Workers, Worker(w) \/ SpuriousWakeup(w) PROVE PInv'
  BY <1>2, WorkerPInv
<1> QED  BY <1>1, <1>2, OtherPInv DEF Next

(***************************************************************************)
(* The pool's variables keep their types: in particular a worker runs a    *)
(* unit that was enqueued, never an empty function.                        *)
(***************************************************************************)
THEOREM PoolTypeCorrect == Spec => []TypeOK
<1>1. PInv => TypeOK  BY DEF PInv
<1> QED  BY <1>1, InitPInv, NextPInv, PTL DEF Spec

(***************************************************************************)
(* One notify_one per unit is enough: no worker sleeps while a unit waits  *)
(* that no awake worker is on its way to.                                  *)
(***************************************************************************)
THEOREM NoWakeupIsLost == Spec => []WorkConserving
<1>1. PInv => WorkConserving  BY DEF PInv
<1> QED  BY <1>1, InitPInv, NextPInv, PTL DEF Spec

-----------------------------------------------------------------------------
(***************************************************************************)
(* What relates the pool to Executor: a unit is in one place, only what    *)
(* enqueue accepted is anywhere, and who has left found the queue empty.   *)
(***************************************************************************)
Once ==
    /\ \A i, j \in DOMAIN tasks_ : tasks_[i] = tasks_[j] => i = j
    /\ \A v, w \in Running : task[v] = task[w] => v = w
    /\ \A w \in Running : \A i \in DOMAIN tasks_ : tasks_[i] # task[w]

OnlyAccepted ==
    /\ \A i \in DOMAIN tasks_ : answer[tasks_[i]] = "accepted"
    /\ \A w \in Running : answer[task[w]] = "accepted"

Drained ==
    /\ \A w \in Workers : worker_pc[w] = "exited" => stop_ /\ tasks_ = <<>>
    /\ \A w \in joined : worker_pc[w] = "exited"

RInv == TypeOK /\ Once /\ OnlyAccepted /\ Drained

LEMMA InitRInv == Init => RInv
<1> SUFFICES ASSUME Init PROVE RInv  OBVIOUS
<1>1. TypeOK  BY InitPInv DEF PInv
<1>2. Running = {} /\ DOMAIN tasks_ = {}  BY DEF Init, Running
<1>3. Drained  BY DEF Init, Drained
<1> QED  BY <1>1, <1>2, <1>3 DEF RInv, Once, OnlyAccepted

LEMMA EnqueueRInv ==
    ASSUME RInv, TypeOK', NEW u \in Units, Enqueue(u)
    PROVE  RInv'
<1>1. /\ tasks_ \in Seq(Units) /\ tasks_' = Append(tasks_, u)
      /\ DOMAIN tasks_ = 1 .. Len(tasks_) /\ Len(tasks_) \in Nat
      /\ DOMAIN tasks_' = 1 .. (Len(tasks_) + 1)
      /\ \A i \in DOMAIN tasks_ : tasks_'[i] = tasks_[i]
      /\ tasks_'[Len(tasks_) + 1] = u
  BY DEF RInv, TypeOK, Enqueue
<1>2. Running' = Running /\ task' = task /\ stop_' = stop_ /\ ~ stop_ /\ joined' = joined
  BY DEF Enqueue, NotifyOne, Running, Waiting, RInv, TypeOK
<1>3. \A w \in Workers : worker_pc'[w] = "exited" <=> worker_pc[w] = "exited"
  BY DEF Enqueue, NotifyOne, Waiting, RInv, TypeOK
<1>4. /\ answer[u] = "none" /\ answer'[u] = "accepted"
      /\ \A x \in Units : answer[x] = "accepted" => answer'[x] = "accepted"
  BY DEF Enqueue, RInv, TypeOK
<1>5. /\ \A i \in DOMAIN tasks_ : tasks_[i] # u /\ tasks_[i] \in Units
      /\ \A w \in Running : task[w] # u /\ task[w] \in Units
  BY <1>1, <1>4 DEF RInv, OnlyAccepted, TypeOK, Running
<1>6. \A i \in DOMAIN tasks_' : i \in DOMAIN tasks_ \/ i = Len(tasks_) + 1  BY <1>1
<1>7. Once'
  <2>1. \A i, j \in DOMAIN tasks_' : tasks_'[i] = tasks_'[j] => i = j
    BY <1>1, <1>5, <1>6 DEF RInv, Once
  <2>2. \A w \in Running : \A i \in DOMAIN tasks_' : tasks_'[i] # task[w]
    BY <1>1, <1>5, <1>6 DEF RInv, Once
  <2> QED  BY <1>2, <2>1, <2>2 DEF RInv, Once
<1>8. OnlyAccepted'
  BY <1>1, <1>2, <1>4, <1>5, <1>6 DEF RInv, OnlyAccepted
<1>9. Drained'  BY <1>2, <1>3 DEF RInv, Drained, TypeOK
<1> QED  BY <1>7, <1>8, <1>9 DEF RInv

LEMMA TakeRInv ==
    ASSUME RInv, TypeOK', NEW w \in Workers, WorkerTake(w)
    PROVE  RInv'
<1>1. /\ tasks_ \in Seq(Units) /\ tasks_ # <<>> /\ tasks_' = Tail(tasks_)
      /\ Len(tasks_) \in Nat \ {0} /\ DOMAIN tasks_ = 1 .. Len(tasks_)
      /\ DOMAIN tasks_' = 1 .. (Len(tasks_) - 1)
      /\ \A i \in DOMAIN tasks_' : tasks_'[i] = tasks_[i + 1]
      /\ Head(tasks_) = tasks_[1]
  BY DEF RInv, TypeOK, WorkerTake
<1>2. \A i \in DOMAIN tasks_' : i + 1 \in DOMAIN tasks_ /\ i + 1 # 1 /\ i \in Nat  BY <1>1
<1>3. 1 \in DOMAIN tasks_  BY <1>1
<1>4. /\ Running' = Running \cup {w} /\ w \notin Running
      /\ task'[w] = tasks_[1] /\ \A v \in Running : task'[v] = task[v]
  BY <1>1 DEF WorkerTake, Running, RInv, TypeOK
<1>5. answer' = answer /\ stop_' = stop_ /\ joined' = joined  BY DEF WorkerTake
<1>6. Once'
  <2>1. \A i, j \in DOMAIN tasks_' : tasks_'[i] = tasks_'[j] => i = j
    <3> SUFFICES ASSUME NEW i \in DOMAIN tasks_', NEW j \in DOMAIN tasks_',
                        tasks_'[i] = tasks_'[j]
                 PROVE  i = j
      OBVIOUS
    <3>1. i + 1 = j + 1  BY <1>1, <1>2 DEF RInv, Once
    <3> QED  BY <1>2, <3>1
  <2>2. \A i \in DOMAIN tasks_' : tasks_'[i] # tasks_[1]
    BY <1>1, <1>2, <1>3 DEF RInv, Once
  <2>3. \A v \in Running : task[v] # tasks_[1]
    BY <1>3 DEF RInv, Once
  <2>4. \A v \in Running : \A i \in DOMAIN tasks_' : tasks_'[i] # task[v]
    BY <1>1, <1>2 DEF RInv, Once
  <2>5. \A v, x \in Running' : task'[v] = task'[x] => v = x
    BY <1>4, <2>3 DEF RInv, Once
  <2>6. \A v \in Running' : \A i \in DOMAIN tasks_' : tasks_'[i] # task'[v]
    BY <1>4, <2>2, <2>4
  <2> QED  BY <2>1, <2>5, <2>6 DEF Once
<1>7. OnlyAccepted'
  BY <1>1, <1>2, <1>3, <1>4, <1>5 DEF RInv, OnlyAccepted
<1>8. Drained'
  <2>1. \A v \in Workers : worker_pc[v] # "exited"  BY <1>1 DEF RInv, Drained
  <2>2. \A v \in Workers : worker_pc'[v] # "exited"
    BY <2>1 DEF WorkerTake, RInv, TypeOK
  <2>3. joined' = {}  BY <1>5, <2>1 DEF RInv, Drained, TypeOK
  <2> QED  BY <2>2, <2>3 DEF Drained
<1> QED  BY <1>6, <1>7, <1>8 DEF RInv

\* Every other step leaves the queue alone and starts no unit.
LEMMA OtherRInv ==
    ASSUME RInv, TypeOK', [Next]_vars,
           \A u \in Units : ~ Enqueue(u), \A w \in Workers : ~ WorkerTake(w)
    PROVE  RInv'
<1>1. ASSUME tasks_' = tasks_, Running' \subseteq Running,
             \A w \in Running' : task'[w] = task[w],
             \A u \in Units : answer[u] = "accepted" => answer'[u] = "accepted", Drained'
      PROVE  RInv'
  <2>1. Once'  BY <1>1 DEF RInv, Once
  <2>2. \A i \in DOMAIN tasks_ : tasks_[i] \in Units  BY DEF RInv, TypeOK
  <2>3. \A w \in Running : task[w] \in Units  BY DEF RInv, TypeOK, Running
  <2>4. OnlyAccepted'  BY <1>1, <2>2, <2>3 DEF RInv, OnlyAccepted
  <2> QED  BY <1>1, <2>1, <2>4 DEF RInv
<1> USE DEF RInv, TypeOK, Running, Drained
<1>2. ASSUME NEW w \in Workers, WorkerWait(w) PROVE RInv'  BY <1>1, <1>2 DEF WorkerWait
<1>3. ASSUME NEW w \in Workers, WorkerExit(w) PROVE RInv'  BY <1>1, <1>3 DEF WorkerExit
<1>4. ASSUME NEW w \in Workers, WorkerReturn(w) PROVE RInv'  BY <1>1, <1>4 DEF WorkerReturn
<1>5. ASSUME NEW w \in Workers, SpuriousWakeup(w) PROVE RInv'
  BY <1>1, <1>5 DEF SpuriousWakeup
<1>6. ASSUME NEW u \in Units, EnqueueStopped(u) PROVE RInv'  BY <1>1, <1>6 DEF EnqueueStopped
<1>7. CASE StopFlag  BY <1>1, <1>7 DEF StopFlag
<1>8. CASE StopNotify  BY <1>1, <1>8 DEF StopNotify, Waiting
<1>9. ASSUME NEW w \in Workers, StopJoin(w) PROVE RInv'  BY <1>1, <1>9 DEF StopJoin
<1>10. CASE StopReturn  BY <1>1, <1>10 DEF StopReturn
<1>11. CASE UNCHANGED vars  BY <1>1, <1>11 DEF vars
<1> QED
  BY <1>2, <1>3, <1>4, <1>5, <1>6, <1>7, <1>8, <1>9, <1>10, <1>11 DEF Next, Worker, StopStep

LEMMA NextRInv == RInv /\ TypeOK' /\ [Next]_vars => RInv'
BY EnqueueRInv, TakeRInv, OtherRInv

-----------------------------------------------------------------------------
\* The refinement: initial states, and one step of Executor for each of ours.
LEMMA InitExecutor == Init => Promise!Init
<1> SUFFICES ASSUME Init PROVE Promise!Init  OBVIOUS
<1>1. Running = {}  BY DEF Init, Running
<1>2. {u \in Units : answer[u] = "accepted"} = {}  BY DEF Init
<1>3. joined # Workers  BY WorkersAssumption DEF Init
<1> QED  BY <1>1, <1>2, <1>3 DEF Init, Promise!Init

LEMMA StepExecutor ==
    ASSUME RInv, TypeOK', [Next]_vars
    PROVE  [Promise!Next]_(Promise!executorVars)
<1> DEFINE accepted == {u \in Units : answer[u] = "accepted"}
           running  == {task[w] : w \in Running}
           stopped  == (joined = Workers)
<1>1. ASSUME accepted' = accepted, tasks_' = tasks_, running' = running, stop_' = stop_,
             stopped' = stopped
      PROVE  UNCHANGED Promise!executorVars
  BY <1>1 DEF Promise!executorVars
<1>2. ASSUME NEW u \in Units, Enqueue(u) PROVE Promise!Accept(u)
  <2>1. accepted' = accepted \cup {u} /\ u \notin accepted
    BY <1>2 DEF Enqueue, RInv, TypeOK
  <2>2. Running' = Running /\ task' = task
    BY <1>2 DEF Enqueue, NotifyOne, Running, Waiting, RInv, TypeOK
  <2>3. running' = running  BY <2>2
  <2> QED  BY <1>2, <2>1, <2>3 DEF Enqueue, Promise!Accept
<1>3. ASSUME NEW w \in Workers, WorkerTake(w) PROVE Promise!Start
  <2>1. /\ Running' = Running \cup {w} /\ task'[w] = Head(tasks_)
        /\ \A v \in Running : task'[v] = task[v]
    BY <1>3 DEF WorkerTake, Running, RInv, TypeOK
  <2>2. running' = running \cup {Head(tasks_)}  BY <2>1
  <2> QED  BY <1>3, <2>2 DEF WorkerTake, Promise!Start
<1>4. ASSUME NEW w \in Workers, WorkerReturn(w) PROVE Promise!Finish(task[w])
  <2>1. /\ w \in Running /\ Running' = Running \ {w}
        /\ \A v \in Running' : task'[v] = task[v]
    BY <1>4 DEF WorkerReturn, Running, RInv, TypeOK
  <2>2. \A v \in Running' : task[v] # task[w]  BY <2>1 DEF RInv, Once
  <2>3. task[w] \in running /\ running' = running \ {task[w]}  BY <2>1, <2>2
  <2> QED  BY <1>4, <2>3 DEF WorkerReturn, Promise!Finish
<1>5. CASE StopFlag  BY <1>5 DEF StopFlag, Promise!Stop, Promise!Next, Running
<1>6. ASSUME NEW w \in Workers, StopJoin(w)
      PROVE  Promise!StopReturns \/ UNCHANGED Promise!executorVars
  <2>1. /\ joined' = joined \cup {w} /\ w \notin joined
        /\ UNCHANGED <<stop_, tasks_, worker_pc, task, answer>>
    BY <1>6 DEF StopJoin
  <2>2. accepted' = accepted /\ running' = running  BY <2>1 DEF Running
  <2>3. CASE joined' = Workers
    <3>1. \A v \in Workers : worker_pc[v] = "exited"
      BY <1>6, <2>1, <2>3 DEF StopJoin, RInv, Drained
    <3>2. stop_ /\ tasks_ = <<>> /\ running = {}
      BY <3>1 DEF RInv, Drained, Running
    <3> QED  BY <2>1, <2>2, <2>3, <3>2 DEF Promise!StopReturns
  <2>4. CASE joined' # Workers
    <3>1. stopped' = stopped  BY <2>1, <2>4
    <3> QED  BY <1>1, <2>1, <2>2, <3>1
  <2> QED  BY <2>3, <2>4
<1>7. ASSUME Running' = Running, UNCHANGED <<task, tasks_, stop_, joined>>, accepted' = accepted
      PROVE  UNCHANGED Promise!executorVars
  <2>1. running' = running  BY <1>7
  <2> QED  BY <1>1, <1>7, <2>1
<1>8. ASSUME NEW w \in Workers, WorkerWait(w) \/ WorkerExit(w) \/ SpuriousWakeup(w)
      PROVE  UNCHANGED Promise!executorVars
  <2>1. Running' = Running
    BY <1>8 DEF WorkerWait, WorkerExit, SpuriousWakeup, Running, RInv, TypeOK
  <2> QED  BY <1>7, <1>8, <2>1 DEF WorkerWait, WorkerExit, SpuriousWakeup
<1>9. ASSUME NEW u \in Units, EnqueueStopped(u) PROVE UNCHANGED Promise!executorVars
  <2>1. accepted' = accepted  BY <1>9 DEF EnqueueStopped, RInv, TypeOK
  <2> QED  BY <1>7, <1>9, <2>1 DEF EnqueueStopped, Running
<1>10. CASE StopNotify
  <2>1. Running' = Running  BY <1>10 DEF StopNotify, Running, Waiting, RInv, TypeOK
  <2> QED  BY <1>7, <1>10, <2>1 DEF StopNotify
<1>11. CASE StopReturn  BY <1>7, <1>11 DEF StopReturn, Running
<1>12. CASE UNCHANGED vars  BY <1>7, <1>12 DEF vars, Running
<1>13. \A w \in Running : task[w] \in Units  BY DEF RInv, TypeOK, Running
<1>14. ASSUME NEW w \in Workers, WorkerReturn(w) PROVE Promise!Next
  <2>1. w \in Running  BY <1>14 DEF WorkerReturn, Running
  <2>2. task[w] \in Units  BY <1>13, <2>1
  <2>3. Promise!Finish(task[w])  BY <1>4, <1>14
  <2> QED  BY <2>2, <2>3 DEF Promise!Next, Promise!Finish
<1> HIDE DEF accepted, running, stopped
<1> QED
  BY <1>2, <1>3, <1>5, <1>6, <1>8, <1>9, <1>10, <1>11, <1>12, <1>14
  DEF Next, Worker, StopStep, Promise!Next

(***************************************************************************)
(* The pool is an Executor as far as safety goes: what it accepts it       *)
(* starts in order and once, and stop() does not return before every unit  *)
(* accepted has been run.  (That it returns, and that units are started,   *)
(* is the liveness half of ImplementsExecutor, which TLC checks.)          *)
(***************************************************************************)
THEOREM PoolImplementsExecutor ==
    Spec => Promise!Init /\ [][Promise!Next]_(Promise!executorVars)
<1>1. Init => RInv /\ PInv  BY InitRInv, InitPInv
<1>2. RInv /\ PInv /\ [Next]_vars => (RInv /\ PInv)'
  <2>1. PInv => TypeOK  BY DEF PInv
  <2>2. PInv' => TypeOK'  BY DEF PInv
  <2> QED  BY <2>1, <2>2, NextPInv, NextRInv
<1>3. RInv /\ PInv /\ PInv' /\ [Next]_vars => [Promise!Next]_(Promise!executorVars)
  BY StepExecutor DEF PInv
<1> QED  BY <1>1, <1>2, <1>3, InitExecutor, PTL DEF Spec
=============================================================================
