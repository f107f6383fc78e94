------------------------ MODULE SchedulerCustodyProofs ------------------------
(***************************************************************************)
(* Where a task is: theorems about the hands a task passes through, from   *)
(* the waiting sets to the workers, for any number of tasks, models,       *)
(* clients and workers.                                                    *)
(***************************************************************************)
EXTENDS SchedulerProofs

(***************************************************************************)
(* The invariant behind it.  No sequence holds a task twice and no task is *)
(* with two holders; the queue of a model holds tasks of that model; what  *)
(* is held has been submitted; and a thread holds nothing unless it is     *)
(* between taking over and handing on, so that what it takes over is all   *)
(* it holds.  (The converse of the last is HandsFull.)                     *)
(***************************************************************************)
Submitted(t) == submit_pc[t] \in {"stat", "notify", "accepted"}

NoneTwice ==
    /\ IsInjective(pending_tasks) /\ IsInjective(unit)
    /\ \A m \in Models : IsInjective(queues[m].tasks)
    /\ \A i \in DOMAIN pool : IsInjective(pool[i])
    /\ \A w \in Workers : IsInjective(work[w])

OneHolder(t) ==
    /\ \A m, n \in Models : Among(t, queues[m].tasks) /\ Among(t, queues[n].tasks) => m = n
    /\ \A i, j \in DOMAIN pool : Among(t, pool[i]) /\ Among(t, pool[j]) => i = j
    /\ \A v, w \in Workers : Among(t, work[v]) /\ Among(t, work[w]) => v = w
    /\ Fifo!Holds(t) => ~ (Batch!Holds(t) \/ Among(t, unit) \/ Pooled(t) \/ AtWorker(t))
    /\ Batch!Holds(t) => ~ (Among(t, unit) \/ Pooled(t) \/ AtWorker(t))
    /\ Among(t, unit) => ~ (Pooled(t) \/ AtWorker(t))
    /\ Pooled(t) => ~ AtWorker(t)

HandsEmpty ==
    /\ dispatch_pc # "dispatch" => unit = <<>>
    /\ \A w \in Workers : ~ Busy(w) => work[w] = <<>>

CustodyInv ==
    /\ NoneTwice
    /\ \A t \in Tasks : OneHolder(t)
    /\ \A t \in Tasks, m \in Models : Among(t, queues[m].tasks) => ModelOf[t] = m
    /\ \A t \in Tasks : InCustody(t) => Submitted(t)
    /\ HandsEmpty

-----------------------------------------------------------------------------
\* Sequences without repetition: what Append, RemoveAt, Tail and a cut do to
\* the elements.

LEMMA AppendMembers ==
    ASSUME NEW S, NEW s \in Seq(S), NEW e \in S
    PROVE  /\ \A t : Among(t, Append(s, e)) <=> Among(t, s) \/ t = e
           /\ IsInjective(s) /\ ~ Among(e, s) => IsInjective(Append(s, e))
  BY AppendProperties DEF Among, IsInjective

\* Without the entry erased by a revocation.
LEMMA RemoveAtMembers ==
    ASSUME NEW S, NEW s \in Seq(S), IsInjective(s), NEW i \in DOMAIN s
    PROVE  LET rest == SubSeq(s, 1, i - 1) \o SubSeq(s, i + 1, Len(s))
           IN  /\ \A t : Among(t, rest) <=> Among(t, s) /\ t # s[i]
               /\ IsInjective(rest)
<1> DEFINE front == SubSeq(s, 1, i - 1)
           back  == SubSeq(s, i + 1, Len(s))
           rest  == front \o back
<1>1. i \in 1 .. Len(s) /\ Len(s) \in Nat /\ DOMAIN s = 1 .. Len(s)  OBVIOUS
<1>2. /\ front \in Seq(S) /\ Len(front) = i - 1
      /\ \A j \in 1 .. i - 1 : front[j] = s[j]
  BY <1>1, SubSeqProperties, ElementOfSeq
<1>3. /\ back \in Seq(S) /\ Len(back) = Len(s) - i
      /\ \A j \in 1 .. Len(s) - i : back[j] = s[i + j]
  BY <1>1, SubSeqProperties, ElementOfSeq
<1>4. /\ rest \in Seq(S) /\ DOMAIN rest = 1 .. Len(s) - 1
      /\ \A j \in 1 .. Len(s) - 1 : rest[j] = IF j < i THEN s[j] ELSE s[j + 1]
  <2> HIDE DEF front, back
  <2>1. /\ rest \in Seq(S) /\ Len(rest) = (i - 1) + (Len(s) - i)
        /\ \A j \in 1 .. (i - 1) + (Len(s) - i) :
              rest[j] = IF j <= i - 1 THEN front[j] ELSE back[j - (i - 1)]
    <3>1. /\ rest \in Seq(S) /\ Len(rest) = Len(front) + Len(back)
          /\ \A j \in 1 .. Len(front) + Len(back) :
                rest[j] = IF j <= Len(front) THEN front[j] ELSE back[j - Len(front)]
      BY <1>2, <1>3, ConcatProperties
    <3> HIDE DEF rest
    <3> QED  BY <1>2, <1>3, <3>1
  <2> HIDE DEF rest
  <2>2. (i - 1) + (Len(s) - i) = Len(s) - 1  BY <1>1
  <2>3. rest \in Seq(S) /\ DOMAIN rest = 1 .. Len(s) - 1  BY <2>1, <2>2
  <2>4. ASSUME NEW j \in 1 .. Len(s) - 1
        PROVE  rest[j] = IF j < i THEN s[j] ELSE s[j + 1]
    <3>1. rest[j] = IF j <= i - 1 THEN front[j] ELSE back[j - (i - 1)]  BY <2>1, <2>2
    <3>2. CASE j < i  BY <1>1, <1>2, <3>1, <3>2
    <3>3. CASE ~ (j < i)
      <4>1. j - (i - 1) \in 1 .. Len(s) - i /\ i + (j - (i - 1)) = j + 1  BY <1>1, <3>3
      <4> QED  BY <1>1, <1>3, <3>1, <3>3, <4>1
    <3> QED  BY <3>2, <3>3
  <2> QED  BY <2>3, <2>4
<1> HIDE DEF rest
<1>5. IsInjective(rest)
  <2> SUFFICES ASSUME NEW a \in 1 .. Len(s) - 1, NEW b \in 1 .. Len(s) - 1, rest[a] = rest[b]
               PROVE  a = b
    BY <1>4 DEF IsInjective
  <2> DEFINE old(j) == IF j < i THEN j ELSE j + 1
  <2>1. /\ old(a) \in 1 .. Len(s) /\ old(b) \in 1 .. Len(s)
        /\ rest[a] = s[old(a)] /\ rest[b] = s[old(b)]
    BY <1>1, <1>4
  <2>2. old(a) = old(b)
    <3> HIDE DEF old
    <3> QED  BY <1>1, <2>1 DEF IsInjective
  <2> QED  BY <1>1, <2>2
<1>6. ASSUME NEW t, Among(t, rest) PROVE Among(t, s) /\ t # s[i]
  BY <1>1, <1>4, <1>6 DEF Among, IsInjective
<1>7. ASSUME NEW t, Among(t, s), t # s[i] PROVE Among(t, rest)
  <2>1. PICK j \in 1 .. Len(s) : s[j] = t /\ j # i  BY <1>1, <1>7 DEF Among
  <2>2. CASE j < i  BY <1>1, <1>4, <2>1, <2>2 DEF Among
  <2>3. CASE j > i
    <3>1. j - 1 \in 1 .. Len(s) - 1 /\ ~ (j - 1 < i) /\ (j - 1) + 1 = j  BY <1>1, <2>1, <2>3
    <3> QED  BY <1>4, <2>1, <3>1 DEF Among
  <2> QED  BY <1>1, <2>1, <2>2, <2>3
<1> QED  BY <1>5, <1>6, <1>7 DEF rest

\* Without the entry popped, or the task a worker is done with.
LEMMA TailMembers ==
    ASSUME NEW S, NEW s \in Seq(S), s # <<>>
    PROVE  /\ Among(Head(s), s)
           /\ IsInjective(s) => /\ \A t : Among(t, Tail(s)) <=> Among(t, s) /\ t # Head(s)
                                /\ IsInjective(Tail(s))
<1>1. Len(s) \in Nat \ {0} /\ DOMAIN s = 1 .. Len(s) /\ Head(s) = s[1]  BY EmptySeq
<1>2. /\ DOMAIN Tail(s) = 1 .. Len(s) - 1
      /\ \A i \in 1 .. Len(s) - 1 : Tail(s)[i] = s[i + 1]
  BY <1>1, HeadTailProperties
<1>3. Among(Head(s), s)  BY <1>1 DEF Among
<1>4. ASSUME IsInjective(s) PROVE IsInjective(Tail(s))
  BY <1>1, <1>2, <1>4 DEF IsInjective
<1>5. ASSUME IsInjective(s), NEW t, Among(t, Tail(s)) PROVE Among(t, s) /\ t # Head(s)
  BY <1>1, <1>2, <1>5 DEF Among, IsInjective
<1>6. ASSUME NEW t, Among(t, s), t # Head(s) PROVE Among(t, Tail(s))
  <2>1. PICK j \in 1 .. Len(s) : s[j] = t /\ j # 1  BY <1>1, <1>6 DEF Among
  <2>2. j - 1 \in 1 .. Len(s) - 1 /\ (j - 1) + 1 = j  BY <1>1, <2>1
  <2> QED  BY <1>2, <2>1, <2>2 DEF Among
<1> QED  BY <1>3, <1>4, <1>5, <1>6

\* A batch and what it leaves in the queue.
LEMMA CutMembers ==
    ASSUME NEW S, NEW s \in Seq(S), IsInjective(s), NEW n \in 1 .. Len(s)
    PROVE  LET front == SubSeq(s, 1, n)
               back  == SubSeq(s, n + 1, Len(s))
           IN  /\ \A t : Among(t, s) <=> Among(t, front) \/ Among(t, back)
               /\ \A t : ~ (Among(t, front) /\ Among(t, back))
               /\ IsInjective(front) /\ IsInjective(back)
               /\ Len(front) = n
<1> DEFINE front == SubSeq(s, 1, n)
           back  == SubSeq(s, n + 1, Len(s))
<1>1. Len(s) \in Nat /\ DOMAIN s = 1 .. Len(s)  OBVIOUS
<1>2. /\ Len(front) = n /\ DOMAIN front = 1 .. n
      /\ \A j \in 1 .. n : front[j] = s[j]
  BY <1>1, SubSeqProperties, ElementOfSeq
<1>3. /\ DOMAIN back = 1 .. Len(s) - n
      /\ \A j \in 1 .. Len(s) - n : back[j] = s[n + j]
  BY <1>1, SubSeqProperties, ElementOfSeq
<1> HIDE DEF front, back
<1>4. IsInjective(front)  BY <1>1, <1>2 DEF IsInjective
<1>5. IsInjective(back)
  <2> SUFFICES ASSUME NEW a \in 1 .. Len(s) - n, NEW b \in 1 .. Len(s) - n, back[a] = back[b]
               PROVE  a = b
    BY <1>3 DEF IsInjective
  <2>1. n + a \in DOMAIN s /\ n + b \in DOMAIN s /\ s[n + a] = s[n + b]  BY <1>1, <1>3
  <2>2. n + a = n + b  BY <2>1 DEF IsInjective
  <2> QED  BY <2>2
<1>6. ASSUME NEW t PROVE ~ (Among(t, front) /\ Among(t, back))
  BY <1>1, <1>2, <1>3 DEF Among, IsInjective
<1>7. ASSUME NEW t, Among(t, front) \/ Among(t, back) PROVE Among(t, s)
  BY <1>1, <1>2, <1>3, <1>7 DEF Among
<1>8. ASSUME NEW t, Among(t, s) PROVE Among(t, front) \/ Among(t, back)
  <2>1. PICK j \in 1 .. Len(s) : s[j] = t  BY <1>1, <1>8 DEF Among
  <2>2. CASE j <= n  BY <1>2, <2>1, <2>2 DEF Among
  <2>3. CASE j > n
    <3>1. j - n \in 1 .. Len(s) - n /\ n + (j - n) = j  BY <1>1, <2>1, <2>3
    <3> QED  BY <1>3, <2>1, <3>1 DEF Among
  <2> QED  BY <1>1, <2>1, <2>2, <2>3
<1> QED  BY <1>2, <1>4, <1>6, <1>7, <1>8, <1>5 DEF front, back

-----------------------------------------------------------------------------
\* What each step does to the places, and so to CustodyInv and to InCustody.

placeVars == <<pending_tasks, queues, unit, pool, work>>

\* A step that hands nothing over.
Still ==
    /\ CustodyInv'
    /\ \A t \in Tasks : /\ InCustody(t)' <=> InCustody(t)
                        /\ Queued(t)' <=> Queued(t)

\* Being held by a strategy is being an element of a sequence of it.
LEMMA HoldsIsAmong ==
    ASSUME NEW t
    PROVE  /\ Fifo!Holds(t) <=> Among(t, pending_tasks)
           /\ Batch!Holds(t) <=> \E m \in Models : Among(t, queues[m].tasks)
           /\ Fifo!Holds(t)' <=> Among(t, pending_tasks)'
           /\ Batch!Holds(t)' <=> \E m \in Models : Among(t, queues[m].tasks)'
  BY DEF Fifo!Holds, Batch!Holds, Among

\* One queue of the batch strategy is given other tasks.
LEMMA QueueChange ==
    ASSUME TypeOK, NEW m \in Models, NEW tasks,
           queues' = [queues EXCEPT ![m].tasks = tasks]
    PROVE  /\ queues'[m].tasks = tasks
           /\ \A n \in Models \ {m} : queues'[n] = queues[n]
           /\ \A n \in Models : queues'[n].max_batch_size = queues[n].max_batch_size
<1>1. queues \in [Models -> [tasks : Seq(Tasks), max_batch_size : Nat \ {0}]]  BY DEF TypeOK
<1> QED  BY <1>1

\* Most steps hand nothing over.
LEMMA StillCustody ==
    ASSUME CustodyInv, UNCHANGED placeVars,
           \A t \in Tasks : Submitted(t) => Submitted(t)',
           dispatch_pc = "dispatch" => dispatch_pc' = "dispatch" \/ unit = <<>>,
           \A w \in Workers : Busy(w) => Busy(w)' \/ work[w] = <<>>
    PROVE  Still
<1>1. \A t \in Tasks : /\ OneHolder(t)' = OneHolder(t) /\ InCustody(t)' = InCustody(t)
                       /\ Queued(t)' = Queued(t)
  BY DEF placeVars, OneHolder, InCustody, Queued, Pooled, AtWorker, Among, Fifo!Holds, Batch!Holds
<1>2. NoneTwice'  BY DEF CustodyInv, NoneTwice, placeVars
<1>3. HandsEmpty'  BY DEF CustodyInv, HandsEmpty, placeVars
<1>4. \A t \in Tasks, m \in Models : Among(t, queues[m].tasks)' => ModelOf[t] = m
  BY DEF CustodyInv, placeVars
<1> QED  BY <1>1, <1>2, <1>3, <1>4 DEF CustodyInv, Still

\* An admission puts its task, which nobody held, at the end of one queue.
LEMMA AdmitCustody ==
    ASSUME TypeOK, CustodyInv, NEW t \in Tasks, AdmitFIFO(t) \/ AdmitBatch(t)
    PROVE  /\ CustodyInv'
           /\ ~ InCustody(t)
           /\ \A u \in Tasks : /\ InCustody(u)' <=> InCustody(u) \/ u = t
                               /\ Queued(u)' <=> Queued(u) \/ u = t
<1>1. /\ UNCHANGED <<unit, pool, work, dispatch_pc, worker_pc>>
      /\ submit_pc[t] = "enqueue"
      /\ submit_pc' = [submit_pc EXCEPT ![t] = "stat"]
  BY DEF AdmitFIFO, AdmitBatch, SubmitGoto, submitElse, workerVars
<1>2. ~ Submitted(t) /\ \A u \in Tasks : Submitted(u)' <=> Submitted(u) \/ u = t
  BY <1>1 DEF Submitted, TypeOK
<1>3. ~ InCustody(t)  BY <1>2 DEF CustodyInv
<1>4. \A u \in Tasks : /\ Among(u, unit)' = Among(u, unit)
                       /\ Pooled(u)' = Pooled(u) /\ AtWorker(u)' = AtWorker(u)
  BY <1>1 DEF Pooled, AtWorker
<1>5. HandsEmpty'  BY <1>1 DEF CustodyInv, HandsEmpty, Busy
<1>6. CASE AdmitFIFO(t)
  <2>1. pending_tasks' = Append(pending_tasks, t) /\ queues' = queues
    BY <1>6 DEF AdmitFIFO, Fifo!Admit
  <2>2. /\ \A u \in Tasks : Among(u, pending_tasks)' <=> Among(u, pending_tasks) \/ u = t
        /\ IsInjective(pending_tasks')
    BY <1>3, <2>1, AppendMembers, HoldsIsAmong DEF TypeOK, CustodyInv, NoneTwice, InCustody, Queued
  <2>3. \A u \in Tasks : /\ Fifo!Holds(u)' <=> Fifo!Holds(u) \/ u = t
                         /\ Batch!Holds(u)' <=> Batch!Holds(u)
    BY <2>1, <2>2, HoldsIsAmong
  <2>4. NoneTwice'  BY <1>1, <2>1, <2>2 DEF CustodyInv, NoneTwice
  <2>5. \A u \in Tasks : OneHolder(u)'
    BY <1>1, <1>3, <1>4, <2>1, <2>3 DEF CustodyInv, OneHolder, InCustody, Queued
  <2> QED  BY <1>2, <1>3, <1>4, <1>5, <2>1, <2>3, <2>4, <2>5 DEF CustodyInv, InCustody, Queued
<1>7. CASE AdmitBatch(t)
  <2> DEFINE m == ModelOf[t]
  <2>1. /\ pending_tasks' = pending_tasks /\ m \in Models
        /\ queues'[m].tasks = Append(queues[m].tasks, t)
        /\ \A n \in Models \ {m} : queues'[n] = queues[n]
    BY <1>7, ModelsAssumption DEF AdmitBatch, Batch!Admit, TypeOK
  <2> HIDE DEF m
  <2>2. /\ \A u \in Tasks : Among(u, queues[m].tasks)' <=> Among(u, queues[m].tasks) \/ u = t
        /\ IsInjective(queues'[m].tasks)
    BY <1>3, <2>1, AppendMembers, HoldsIsAmong DEF TypeOK, CustodyInv, NoneTwice, InCustody, Queued
  <2>3. \A u \in Tasks, n \in Models :
           Among(u, queues[n].tasks)' <=> Among(u, queues[n].tasks) \/ (u = t /\ n = m)
    BY <2>1, <2>2
  <2>4. \A u \in Tasks : /\ Batch!Holds(u)' <=> Batch!Holds(u) \/ u = t
                         /\ Fifo!Holds(u)' <=> Fifo!Holds(u)
    BY <2>1, <2>3, HoldsIsAmong
  <2>5. NoneTwice'  BY <1>1, <2>1, <2>2 DEF CustodyInv, NoneTwice
  <2>6. \A n \in Models : ~ Among(t, queues[n].tasks)
    BY <1>3, HoldsIsAmong DEF InCustody, Queued
  <2>7. \A u \in Tasks : OneHolder(u)'
    BY <1>1, <1>3, <1>4, <2>3, <2>4, <2>6 DEF CustodyInv, OneHolder, InCustody, Queued
  <2>8. \A u \in Tasks, n \in Models : Among(u, queues[n].tasks)' => ModelOf[u] = n
    BY <2>3 DEF m, CustodyInv
  <2> QED  BY <1>2, <1>3, <1>4, <1>5, <2>4, <2>5, <2>7, <2>8 DEF CustodyInv, InCustody, Queued
<1> QED  BY <1>6, <1>7

-----------------------------------------------------------------------------
\* A revocation takes its task out of the one queue that holds it.
LEMMA RevokeCustody ==
    ASSUME TypeOK, CustodyInv, NEW c \in Cancelers, cancel_task[c] \in Tasks,
           CancelRevokeFIFO(c) \/ CancelRevokeBatch(c)
    PROVE  /\ CustodyInv'
           /\ Queued(cancel_task[c])
           /\ \A u \in Tasks : /\ InCustody(u)' <=> InCustody(u) /\ u # cancel_task[c]
                               /\ Queued(u)' <=> Queued(u) /\ u # cancel_task[c]
<1> DEFINE t == cancel_task[c]
<1>1. UNCHANGED <<unit, pool, work, dispatch_pc, worker_pc, submit_pc>>
  BY DEF CancelRevokeFIFO, CancelRevokeBatch, cancelElse, submitVars, dispatchVars, workerVars
<1>2. t \in Tasks /\ \A u \in Tasks : Submitted(u)' = Submitted(u)
  BY <1>1 DEF Submitted
<1>3. \A u \in Tasks : /\ Among(u, unit)' = Among(u, unit)
                       /\ Pooled(u)' = Pooled(u) /\ AtWorker(u)' = AtWorker(u)
  BY <1>1 DEF Pooled, AtWorker
<1>4. HandsEmpty'  BY <1>1 DEF CustodyInv, HandsEmpty, Busy
<1> HIDE DEF t
<1>5. CASE CancelRevokeFIFO(c)
  <2>1. PICK i \in DOMAIN pending_tasks :
          /\ pending_tasks[i] = t /\ queues' = queues
          /\ pending_tasks' = SubSeq(pending_tasks, 1, i - 1)
                                 \o SubSeq(pending_tasks, i + 1, Len(pending_tasks))
    BY <1>5 DEF CancelRevokeFIFO, Fifo!Revoke, Fifo!RemoveAt, t
  <2>2. /\ \A u \in Tasks : Among(u, pending_tasks)' <=> Among(u, pending_tasks) /\ u # t
        /\ IsInjective(pending_tasks')
    BY <2>1, RemoveAtMembers DEF TypeOK, CustodyInv, NoneTwice
  <2>3. Fifo!Holds(t)  BY <2>1 DEF Fifo!Holds
  <2>4. \A u \in Tasks : /\ Fifo!Holds(u)' <=> Fifo!Holds(u) /\ u # t
                         /\ Batch!Holds(u)' <=> Batch!Holds(u)
    BY <2>1, <2>2, HoldsIsAmong
  <2>5. NoneTwice'  BY <1>1, <2>1, <2>2 DEF CustodyInv, NoneTwice
  <2>6. \A u \in Tasks : OneHolder(u)'
    BY <1>1, <1>3, <2>1, <2>4 DEF CustodyInv, OneHolder
  <2>7. ~ (Batch!Holds(t) \/ Among(t, unit) \/ Pooled(t) \/ AtWorker(t))
    BY <1>2, <2>3 DEF CustodyInv, OneHolder
  <2> QED
    BY <1>2, <1>3, <1>4, <2>1, <2>3, <2>4, <2>5, <2>6, <2>7 DEF CustodyInv, InCustody, Queued, t
<1>6. CASE CancelRevokeBatch(c)
  <2>1. PICK m \in Models : \E i \in DOMAIN queues[m].tasks :
          /\ queues[m].tasks[i] = t /\ pending_tasks' = pending_tasks
          /\ queues' = [queues EXCEPT ![m].tasks = Batch!RemoveAt(queues[m].tasks, i)]
    BY <1>6 DEF CancelRevokeBatch, Batch!Revoke, t
  <2>2. PICK i \in DOMAIN queues[m].tasks :
          /\ queues[m].tasks[i] = t /\ pending_tasks' = pending_tasks
          /\ queues'[m].tasks = SubSeq(queues[m].tasks, 1, i - 1)
                                   \o SubSeq(queues[m].tasks, i + 1, Len(queues[m].tasks))
          /\ \A n \in Models \ {m} : queues'[n] = queues[n]
    BY <2>1, QueueChange DEF Batch!RemoveAt
  <2>3. /\ \A u \in Tasks : Among(u, queues[m].tasks)' <=> Among(u, queues[m].tasks) /\ u # t
        /\ IsInjective(queues'[m].tasks)
    <3>1. queues[m].tasks \in Seq(Tasks) /\ IsInjective(queues[m].tasks)
      BY DEF TypeOK, CustodyInv, NoneTwice
    <3> QED  BY <2>2, <3>1, RemoveAtMembers
  <2>4. Among(t, queues[m].tasks)  BY <2>2 DEF Among
  <2>5. \A u \in Tasks, n \in Models :
           Among(u, queues[n].tasks)' <=> Among(u, queues[n].tasks) /\ u # t
    <3>1. \A n \in Models \ {m} : ~ Among(t, queues[n].tasks)
      BY <1>2, <2>4 DEF CustodyInv, OneHolder
    <3> QED  BY <2>2, <2>3, <3>1
  <2>6. \A u \in Tasks : /\ Batch!Holds(u)' <=> Batch!Holds(u) /\ u # t
                         /\ Fifo!Holds(u)' <=> Fifo!Holds(u)
    BY <2>2, <2>5, HoldsIsAmong
  <2>7. NoneTwice'  BY <1>1, <2>2, <2>3 DEF CustodyInv, NoneTwice
  <2>8. \A u \in Tasks : OneHolder(u)'
    BY <1>1, <1>3, <2>5, <2>6 DEF CustodyInv, OneHolder
  <2>9. Batch!Holds(t)  BY <2>4, HoldsIsAmong
  <2>10. ~ (Fifo!Holds(t) \/ Among(t, unit) \/ Pooled(t) \/ AtWorker(t))
    BY <1>2, <2>9 DEF CustodyInv, OneHolder
  <2>11. \A u \in Tasks, n \in Models : Among(u, queues[n].tasks)' => ModelOf[u] = n
    BY <2>5 DEF CustodyInv
  <2> QED
    BY <1>2, <1>3, <1>4, <2>6, <2>7, <2>8, <2>9, <2>10, <2>11 DEF CustodyInv, InCustody, Queued, t
<1> QED  BY <1>5, <1>6

\* A selection moves the front of one queue into the dispatcher's hands.
LEMMA SelectCustody ==
    ASSUME TypeOK, CustodyInv, SelectFIFO \/ \E m \in Models : SelectBatch(m)
    PROVE  /\ CustodyInv'
           /\ \A u \in Tasks : InCustody(u)' = InCustody(u)
           /\ \A u \in Tasks : Queued(u)' => Queued(u)
<1>1. /\ UNCHANGED <<pool, work, worker_pc, submit_pc>>
      /\ dispatch_pc = "decide" /\ dispatch_pc' = "dispatch" /\ unit = <<>>
  BY DEF SelectFIFO, SelectBatch, DispatchGoto, dispatchElse, submitVars, workerVars,
         CustodyInv, HandsEmpty
<1>2. \A u \in Tasks : /\ Submitted(u)' = Submitted(u) /\ ~ Among(u, unit)
                       /\ Pooled(u)' = Pooled(u) /\ AtWorker(u)' = AtWorker(u)
  BY <1>1 DEF Submitted, Pooled, AtWorker, Among
<1>3. HandsEmpty'  BY <1>1 DEF CustodyInv, HandsEmpty, Busy
<1>4. CASE SelectFIFO
  <2>1. /\ queues' = queues /\ pending_tasks # <<>>
        /\ unit' = <<Head(pending_tasks)>> /\ pending_tasks' = Tail(pending_tasks)
    BY <1>4 DEF SelectFIFO, Fifo!Select, Fifo!Ready
  <2> DEFINE h == Head(pending_tasks)
  <2>2. /\ \A u \in Tasks : Among(u, pending_tasks)' <=> Among(u, pending_tasks) /\ u # h
        /\ IsInjective(pending_tasks') /\ Among(h, pending_tasks)
    BY <2>1, TailMembers DEF TypeOK, CustodyInv, NoneTwice
  <2>3. /\ \A u \in Tasks : Among(u, unit)' <=> u = h
        /\ IsInjective(unit')
    BY <2>1 DEF Among, IsInjective
  <2> HIDE DEF h
  <2>4. \A u \in Tasks : /\ Fifo!Holds(u) <=> Fifo!Holds(u)' \/ Among(u, unit)'
                         /\ Among(u, unit)' => ~ Fifo!Holds(u)'
                         /\ Batch!Holds(u)' <=> Batch!Holds(u)
    BY <2>1, <2>2, <2>3, HoldsIsAmong
  <2>5. NoneTwice'  BY <1>1, <2>1, <2>2, <2>3 DEF CustodyInv, NoneTwice
  <2>6. \A u \in Tasks : OneHolder(u)'
    BY <1>1, <1>2, <2>1, <2>4 DEF CustodyInv, OneHolder
  <2>7. \A u \in Tasks : InCustody(u)' = InCustody(u)
    BY <1>2, <2>4 DEF InCustody, Queued
  <2> QED  BY <1>2, <1>3, <2>1, <2>4, <2>5, <2>6, <2>7 DEF CustodyInv, Queued
<1>5. ASSUME NEW m \in Models, SelectBatch(m)
      PROVE  /\ CustodyInv'
             /\ \A u \in Tasks : InCustody(u)' = InCustody(u)
             /\ \A u \in Tasks : Queued(u)' => Queued(u)
  <2> DEFINE tasks == queues[m].tasks
             size  == IF Batch!SizeReady(m) THEN queues[m].max_batch_size ELSE Len(tasks)
  <2>1. tasks \in Seq(Tasks) /\ size \in 1 .. Len(tasks) /\ IsInjective(tasks)
    BY <1>5 DEF SelectBatch, Batch!Select, Batch!Ready, Batch!SizeReady, TypeOK, CustodyInv,
           NoneTwice
  <2>2. /\ unit' = SubSeq(tasks, 1, size)
        /\ queues'[m].tasks = SubSeq(tasks, size + 1, Len(tasks))
        /\ \A n \in Models \ {m} : queues'[n] = queues[n]
        /\ pending_tasks' = pending_tasks
    <3>1. /\ unit' = SubSeq(tasks, 1, size) /\ pending_tasks' = pending_tasks
          /\ queues' = [queues EXCEPT ![m].tasks = SubSeq(tasks, size + 1, Len(tasks))]
      BY <1>5 DEF SelectBatch, Batch!Select
    <3> HIDE DEF tasks, size
    <3> QED  BY <3>1, QueueChange
  <2> HIDE DEF size
  <2>3. /\ \A u \in Tasks : /\ Among(u, tasks) <=> Among(u, unit)' \/ Among(u, queues[m].tasks)'
                            /\ ~ (Among(u, unit)' /\ Among(u, queues[m].tasks)')
        /\ IsInjective(unit') /\ IsInjective(queues'[m].tasks)
    BY <2>1, <2>2, CutMembers
  <2> HIDE DEF tasks
  <2>4. \A u \in Tasks, n \in Models :
          /\ Among(u, queues[n].tasks)' <=> Among(u, queues[n].tasks) /\ ~ Among(u, unit)'
          /\ Among(u, unit)' => Among(u, queues[m].tasks)
    <3>1. ASSUME NEW u \in Tasks, NEW n \in Models, n # m
          PROVE  Among(u, queues[n].tasks)' <=> Among(u, queues[n].tasks) /\ ~ Among(u, unit)'
      BY <2>2, <2>3, <3>1 DEF CustodyInv, OneHolder, tasks
    <3> QED  BY <2>3, <3>1 DEF tasks
  <2>5. \A u \in Tasks : /\ Batch!Holds(u) <=> Batch!Holds(u)' \/ Among(u, unit)'
                         /\ Among(u, unit)' => ~ Batch!Holds(u)'
                         /\ Fifo!Holds(u)' <=> Fifo!Holds(u)
    BY <2>2, <2>4, HoldsIsAmong
  <2>6. NoneTwice'  BY <1>1, <2>2, <2>3 DEF CustodyInv, NoneTwice
  <2>7. \A u \in Tasks : OneHolder(u)'
    BY <1>1, <1>2, <2>4, <2>5 DEF CustodyInv, OneHolder
  <2>8. \A u \in Tasks : InCustody(u)' = InCustody(u)
    BY <1>2, <2>5 DEF InCustody, Queued
  <2>9. \A u \in Tasks, n \in Models : Among(u, queues[n].tasks)' => ModelOf[u] = n
    BY <2>4 DEF CustodyInv
  <2> QED  BY <1>2, <1>3, <2>5, <2>6, <2>7, <2>8, <2>9 DEF CustodyInv, Queued
<1> QED  BY <1>4, <1>5

\* The unit goes to the end of the pool's queue.
LEMMA DispatchCustody ==
    ASSUME TypeOK, CustodyInv, Dispatch, ~ pool_stop
    PROVE  Still
<1>1. /\ UNCHANGED <<pending_tasks, queues, work, worker_pc, submit_pc>>
      /\ pool' = Append(pool, unit) /\ unit' = <<>> /\ dispatch_pc' = "top"
  BY DEF Dispatch, DispatchGoto, dispatchElse, submitVars, queueVars, workerVars
<1>2. /\ DOMAIN pool = 1 .. Len(pool) /\ DOMAIN pool' = 1 .. Len(pool) + 1 /\ Len(pool) \in Nat
      /\ pool'[Len(pool) + 1] = unit
      /\ \A i \in DOMAIN pool : pool'[i] = pool[i]
  BY <1>1, AppendProperties DEF TypeOK
<1>3. \A u \in Tasks : /\ Fifo!Holds(u)' <=> Fifo!Holds(u)
                       /\ Batch!Holds(u)' <=> Batch!Holds(u)
                       /\ Submitted(u)' <=> Submitted(u)
                       /\ AtWorker(u)' <=> AtWorker(u)
                       /\ ~ Among(u, unit)'
  BY <1>1 DEF Fifo!Holds, Batch!Holds, Submitted, AtWorker, Among
<1>4. \A u \in Tasks : Pooled(u)' <=> Pooled(u) \/ Among(u, unit)
  <2> SUFFICES ASSUME NEW u \in Tasks PROVE Pooled(u)' <=> Pooled(u) \/ Among(u, unit)
    OBVIOUS
  <2>1. Pooled(u)' <=> \E i \in 1 .. Len(pool) + 1 : Among(u, pool'[i])
    BY <1>2 DEF Pooled
  <2>2. Pooled(u) <=> \E i \in 1 .. Len(pool) : Among(u, pool[i])
    BY <1>2 DEF Pooled
  <2> QED  BY <1>2, <2>1, <2>2
<1>5. NoneTwice'
  <2>1. IsInjective(unit') /\ IsInjective(unit)
    BY <1>1 DEF CustodyInv, NoneTwice, IsInjective
  <2> QED  BY <1>1, <1>2, <2>1 DEF CustodyInv, NoneTwice
<1>6. ASSUME NEW u \in Tasks PROVE OneHolder(u)'
  <2>1. OneHolder(u)  BY DEF CustodyInv
  <2>2. ASSUME NEW i \in DOMAIN pool', NEW j \in DOMAIN pool',
               Among(u, pool'[i]), Among(u, pool'[j])
        PROVE  i = j
    BY <1>2, <2>1, <2>2 DEF OneHolder, Pooled
  <2> QED  BY <1>1, <1>3, <1>4, <2>1, <2>2 DEF OneHolder
<1>7. HandsEmpty'  BY <1>1 DEF CustodyInv, HandsEmpty, Busy
<1>8. \A u \in Tasks : /\ InCustody(u)' <=> InCustody(u)
                       /\ Queued(u)' <=> Queued(u)
  BY <1>3, <1>4 DEF InCustody, Queued
<1> QED  BY <1>1, <1>3, <1>5, <1>6, <1>7, <1>8 DEF CustodyInv, Still

\* The first unit of the pool's queue goes to a worker that held nothing.
LEMMA TakeCustody ==
    ASSUME TypeOK, CustodyInv, NEW w \in Workers, TakeUnit(w)
    PROVE  Still
<1>1. /\ UNCHANGED <<pending_tasks, queues, unit, dispatch_pc, submit_pc>>
      /\ pool # <<>> /\ pool' = Tail(pool)
      /\ work' = [work EXCEPT ![w] = Head(pool)]
      /\ worker_pc[w] = "idle" /\ worker_pc' = [worker_pc EXCEPT ![w] = "check"]
  BY DEF TakeUnit, WorkerGoto, workerElse, submitVars, queueVars, dispatchVars
<1>2. /\ work[w] = <<>> /\ work'[w] = pool[1] /\ worker_pc'[w] = "check"
      /\ \A v \in Workers \ {w} : work'[v] = work[v] /\ worker_pc'[v] = worker_pc[v]
  BY <1>1 DEF TypeOK, CustodyInv, HandsEmpty, Busy
<1>3. /\ Len(pool) \in Nat \ {0} /\ DOMAIN pool = 1 .. Len(pool)
      /\ DOMAIN pool' = 1 .. Len(pool) - 1
      /\ \A i \in 1 .. Len(pool) - 1 : i + 1 \in DOMAIN pool /\ pool'[i] = pool[i + 1]
  BY <1>1, HeadTailProperties, EmptySeq DEF TypeOK
<1>4. \A u \in Tasks : /\ Fifo!Holds(u)' <=> Fifo!Holds(u)
                       /\ Batch!Holds(u)' <=> Batch!Holds(u)
                       /\ Submitted(u)' <=> Submitted(u)
                       /\ ~ Among(u, work[w])
  BY <1>1, <1>2 DEF Fifo!Holds, Batch!Holds, Submitted, Among
<1>5. ASSUME NEW u \in Tasks
      PROVE  /\ AtWorker(u)' <=> AtWorker(u) \/ Among(u, pool[1])
             /\ Pooled(u)' <=> Pooled(u) /\ ~ Among(u, pool[1])
             /\ Among(u, pool[1]) => Pooled(u)
  <2>1. AtWorker(u)' <=> AtWorker(u) \/ Among(u, pool[1])  BY <1>2, <1>4 DEF AtWorker
  <2>2. OneHolder(u)  BY DEF CustodyInv
  <2>3. 1 \in DOMAIN pool  BY <1>3
  <2>4. ASSUME Pooled(u)' PROVE Pooled(u) /\ ~ Among(u, pool[1])
    <3>1. PICK i \in 1 .. Len(pool) - 1 : Among(u, pool[i + 1])  BY <1>3, <2>4 DEF Pooled
    <3>2. i + 1 \in DOMAIN pool /\ i + 1 # 1  BY <1>3
    <3> QED  BY <2>2, <2>3, <3>1, <3>2 DEF OneHolder, Pooled
  <2>5. ASSUME Pooled(u), ~ Among(u, pool[1]) PROVE Pooled(u)'
    <3>1. PICK i \in 1 .. Len(pool) : Among(u, pool[i]) /\ i # 1  BY <1>3, <2>5 DEF Pooled
    <3>2. i - 1 \in 1 .. Len(pool) - 1 /\ (i - 1) + 1 = i  BY <1>3, <3>1
    <3> QED  BY <1>3, <3>1, <3>2 DEF Pooled
  <2>6. Among(u, pool[1]) => Pooled(u)  BY <2>3 DEF Pooled
  <2> QED  BY <2>1, <2>4, <2>5, <2>6
<1>6. NoneTwice'
  <2>1. IsInjective(pool[1])  BY <1>3 DEF CustodyInv, NoneTwice
  <2> QED  BY <1>1, <1>2, <1>3, <2>1 DEF CustodyInv, NoneTwice
<1>7. ASSUME NEW u \in Tasks PROVE OneHolder(u)'
  <2>1. OneHolder(u)  BY DEF CustodyInv
  <2>2. ASSUME NEW i \in DOMAIN pool', NEW j \in DOMAIN pool',
               Among(u, pool'[i]), Among(u, pool'[j])
        PROVE  i = j
    <3>1. i + 1 = j + 1  BY <1>3, <2>1, <2>2 DEF OneHolder
    <3> QED  BY <1>3, <3>1
  <2>3. ASSUME NEW x \in Workers, NEW y \in Workers, Among(u, work'[x]), Among(u, work'[y])
        PROVE  x = y
    <3>1. Among(u, pool[1]) => \A v \in Workers : ~ Among(u, work[v])
      BY <1>5, <2>1 DEF OneHolder, AtWorker
    <3> QED  BY <1>2, <2>1, <2>3, <3>1 DEF OneHolder
  <2> QED  BY <1>1, <1>4, <1>5, <2>1, <2>2, <2>3 DEF OneHolder
<1>8. HandsEmpty'  BY <1>1, <1>2 DEF CustodyInv, HandsEmpty, Busy
<1>9. \A u \in Tasks : /\ InCustody(u)' <=> InCustody(u)
                       /\ Queued(u)' <=> Queued(u)
  BY <1>1, <1>4, <1>5 DEF InCustody, Queued
<1> QED  BY <1>1, <1>4, <1>6, <1>7, <1>8, <1>9 DEF CustodyInv, Still

\* A worker lets go of the task it has dealt with, or of its whole unit.
LEMMA LetGoCustody ==
    ASSUME TypeOK, CustodyInv, NEW w \in Workers, work[w] # <<>>,
           UNCHANGED <<pending_tasks, queues, unit, pool, dispatch_pc, submit_pc>>,
           NEW rest, work' = [work EXCEPT ![w] = rest],
           rest = <<>> \/ rest = Tail(work[w]),
           NEW to, worker_pc' = [worker_pc EXCEPT ![w] = to],
           to \in {"idle", "exited"} => rest = <<>>
    PROVE  /\ CustodyInv'
           /\ \A u \in Tasks :
                 /\ InCustody(u)' <=> InCustody(u) /\ ~ (Among(u, work[w]) /\ ~ Among(u, rest))
                 /\ Queued(u)' <=> Queued(u)
           /\ \A u : Among(u, rest) => Among(u, work[w])
           /\ rest = Tail(work[w]) =>
                 \A u : Among(u, work[w]) /\ ~ Among(u, rest) <=> u = Head(work[w])
<1>1. /\ work'[w] = rest /\ worker_pc'[w] = to
      /\ \A v \in Workers \ {w} : work'[v] = work[v] /\ worker_pc'[v] = worker_pc[v]
  BY DEF TypeOK
<1>2. work[w] \in Seq(Tasks) /\ IsInjective(work[w])  BY DEF TypeOK, CustodyInv, NoneTwice
<1>3. /\ \A u : Among(u, rest) => Among(u, work[w])
      /\ IsInjective(rest)
      /\ rest = Tail(work[w]) =>
            \A u : Among(u, work[w]) /\ ~ Among(u, rest) <=> u = Head(work[w])
  <2>1. CASE rest = <<>> /\ rest # Tail(work[w])  BY <2>1 DEF Among, IsInjective
  <2>2. CASE rest = Tail(work[w])  BY <1>2, <2>2, TailMembers
  <2> QED  BY <2>1, <2>2
<1>4. \A u \in Tasks : /\ Fifo!Holds(u)' <=> Fifo!Holds(u)
                       /\ Batch!Holds(u)' <=> Batch!Holds(u)
                       /\ Submitted(u)' <=> Submitted(u)
                       /\ Pooled(u)' <=> Pooled(u)
                       /\ Among(u, unit)' <=> Among(u, unit)
  BY DEF Fifo!Holds, Batch!Holds, Submitted, Pooled
<1>5. ASSUME NEW u \in Tasks
      PROVE  /\ OneHolder(u)'
             /\ AtWorker(u)' <=> AtWorker(u) /\ ~ (Among(u, work[w]) /\ ~ Among(u, rest))
             /\ Among(u, work[w]) => ~ (Queued(u) \/ Among(u, unit) \/ Pooled(u))
  <2>1. OneHolder(u)  BY DEF CustodyInv
  <2>2. \A x, y \in Workers : Among(u, work'[x]) /\ Among(u, work'[y]) => x = y
    BY <1>1, <1>3, <2>1 DEF OneHolder
  <2>3. AtWorker(u)' <=> AtWorker(u) /\ ~ (Among(u, work[w]) /\ ~ Among(u, rest))
    <3>1. \A x, y \in Workers : Among(u, work[x]) /\ Among(u, work[y]) => x = y
      BY <2>1 DEF OneHolder
    <3> QED  BY <1>1, <1>3, <3>1 DEF AtWorker
  <2>4. Among(u, work[w]) => AtWorker(u)  BY DEF AtWorker
  <2>5. Among(u, work[w]) => ~ (Queued(u) \/ Among(u, unit) \/ Pooled(u))
    BY <2>1, <2>4 DEF OneHolder, Queued
  <2> QED  BY <1>4, <2>1, <2>2, <2>3, <2>5 DEF OneHolder
<1>6. NoneTwice'  BY <1>1, <1>3 DEF CustodyInv, NoneTwice
<1>7. HandsEmpty'  BY <1>1 DEF CustodyInv, HandsEmpty, Busy
<1>8. \A u \in Tasks :
         /\ InCustody(u)' <=> InCustody(u) /\ ~ (Among(u, work[w]) /\ ~ Among(u, rest))
         /\ Queued(u)' <=> Queued(u)
  BY <1>4, <1>5 DEF InCustody, Queued
<1> QED  BY <1>3, <1>4, <1>5, <1>6, <1>7, <1>8 DEF CustodyInv

\* Of the task it has recorded the result of ...
LEMMA RecordCustody ==
    ASSUME TypeOK, HandsFull, CustodyInv, NEW w \in Workers, ExecuteRecord(w)
    PROVE  /\ CustodyInv'
           /\ Among(Head(work[w]), work[w])
           /\ \A u \in Tasks : /\ InCustody(u)' <=> InCustody(u) /\ u # Head(work[w])
                               /\ Queued(u)' <=> Queued(u)
<1>1. /\ UNCHANGED <<pending_tasks, queues, unit, pool, dispatch_pc, submit_pc>>
      /\ work' = [work EXCEPT ![w] = Tail(work[w])]
  BY DEF ExecuteRecord, workerElse, submitVars, queueVars, dispatchVars
<1>2. work[w] # <<>> /\ work[w] \in Seq(Tasks)
  BY DEF ExecuteRecord, WorkerGoto, HandsFull, Busy, TypeOK
<1>3. PICK to : /\ worker_pc' = [worker_pc EXCEPT ![w] = to]
                /\ to = IF Len(work[w]) = 1 THEN "idle" ELSE "check"
  BY DEF ExecuteRecord, WorkerGoto
<1>4. to \in {"idle", "exited"} => Tail(work[w]) = <<>>
  <2>1. ASSUME Len(work[w]) = 1 PROVE Tail(work[w]) = <<>>
    <3>1. Tail(work[w]) \in Seq(Tasks) /\ Len(Tail(work[w])) = 0  BY <1>2, <2>1, TailTyped
    <3> QED  BY <3>1, EmptySeq
  <2> QED  BY <1>3, <2>1
<1> DEFINE rest == Tail(work[w])
<1>5. rest = Tail(work[w])  OBVIOUS
<1> HIDE DEF rest
<1>6. /\ CustodyInv'
      /\ \A u \in Tasks :
            /\ InCustody(u)' <=> InCustody(u) /\ ~ (Among(u, work[w]) /\ ~ Among(u, rest))
            /\ Queued(u)' <=> Queued(u)
      /\ \A u : Among(u, work[w]) /\ ~ Among(u, rest) <=> u = Head(work[w])
  BY <1>1, <1>2, <1>3, <1>4, <1>5, LetGoCustody
<1> QED  BY <1>6

\* ... or, when infer() throws, of all it has left.
LEMMA ThrowCustody ==
    ASSUME TypeOK, HandsFull, CustodyInv, NEW w \in Workers, ExecuteThrow(w)
    PROVE  /\ CustodyInv'
           /\ \A u \in Tasks : /\ InCustody(u)' <=> InCustody(u) /\ ~ Among(u, work[w])
                               /\ Queued(u)' <=> Queued(u)
<1>1. /\ UNCHANGED <<pending_tasks, queues, unit, pool, dispatch_pc, submit_pc>>
      /\ work' = [work EXCEPT ![w] = <<>>]
      /\ worker_pc' = [worker_pc EXCEPT ![w] = "idle"]
  BY DEF ExecuteThrow, WorkerGoto, workerElse, submitVars, queueVars, dispatchVars
<1>2. work[w] # <<>>  BY DEF ExecuteThrow, WorkerGoto, HandsFull, Busy
<1>3. /\ CustodyInv'
      /\ \A u \in Tasks :
            /\ InCustody(u)' <=> InCustody(u) /\ ~ (Among(u, work[w]) /\ ~ Among(u, <<>>))
            /\ Queued(u)' <=> Queued(u)
  BY <1>1, <1>2, LetGoCustody
<1>4. \A u : ~ Among(u, <<>>)  BY DEF Among
<1> QED  BY <1>3, <1>4

\* The steps that hand nothing over, thread by thread.

LEMMA SubmitterStill ==
    ASSUME TypeOK, CustodyInv, NEW t \in Tasks, Submitter(t), ~ AdmitFIFO(t), ~ AdmitBatch(t)
    PROVE  Still
<1>1. /\ UNCHANGED <<placeVars, worker_pc>>
      /\ dispatch_pc = "dispatch" => dispatch_pc' = "dispatch"
      /\ \A u \in Tasks : Submitted(u) => Submitted(u)'
  BY DEF Submitter, SubmitUnavailableModel, SubmitInferenceRequest, AdmitCheckStop, AdmitContext,
         AdmitSnapshot, AdmitQueueFull, AdmitWithinLimit, TrackTask, AdmitModelStat, AdmitNotify,
         SubmitFailed, SubmitGoto, WakeDispatcher, submitElse, submitRest, placeVars, queueVars,
         workerVars, Submitted, TypeOK
<1> QED  BY <1>1, StillCustody DEF Still, Busy

\* Of the cancelers' steps all but the two revocations,
LEMMA CancelStill ==
    ASSUME TypeOK, CustodyInv, NEW c \in Cancelers,
           CancelStep(c) \/ \E t \in Cancelable : CancelBegin(c, t),
           ~ CancelRevokeFIFO(c), ~ CancelRevokeBatch(c)
    PROVE  Still
<1>1. UNCHANGED <<placeVars, worker_pc, dispatch_pc, submit_pc>>
  BY DEF CancelStep, CancelBegin, CancelUntracked, CancelLookup, CancelFlag, CancelNotQueued,
         CancelFinalize, CancelForget, CancelRequest, cancelElse, cancelRest, placeVars, queueVars,
         submitVars, dispatchVars, workerVars
<1> QED  BY <1>1, StillCustody DEF Still, Busy, Submitted

\* of the dispatcher's all but the selections and the hand-over,
LEMMA DispatcherStill ==
    ASSUME TypeOK, CustodyInv, Dispatcher, ~ SelectFIFO, ~ \E m \in Models : SelectBatch(m),
           ~ Dispatch
    PROVE  Still
<1>1. UNCHANGED <<placeVars, worker_pc, submit_pc>> /\ dispatch_pc # "dispatch"
  BY DEF Dispatcher, DispatchLock, DispatchBlock, DispatchTimeout, DispatchDayTimeout, DispatchWake,
         DispatchExit, SelectNothing, DispatchGoto, dispatchElse, dispatchRest, placeVars,
         queueVars, submitVars, workerVars
<1> QED  BY <1>1, StillCustody DEF Still, Busy, Submitted

\* of a worker's all but taking a unit and letting go,
LEMMA WorkerStill ==
    ASSUME TypeOK, CustodyInv, NEW w \in Workers, Worker(w),
           ~ TakeUnit(w), ~ ExecuteRecord(w), ~ ExecuteThrow(w)
    PROVE  Still
<1>1. UNCHANGED <<placeVars, dispatch_pc, submit_pc>>
  BY DEF Worker, WorkerExit, ExecuteSkip, ExecuteStart, ExecuteOngoing, ExecuteUnavailableModel,
         ExecuteInfer, ExecuteRecheck, ExecuteSettle, ExecuteForget, workerElse, workerRest,
         placeVars, queueVars, submitVars, dispatchVars
<1>2. PICK to : /\ worker_pc' = [worker_pc EXCEPT ![w] = to]
                /\ to \in {"idle", "exited"} => worker_pc[w] = "idle"
  BY DEF Worker, WorkerExit, ExecuteSkip, ExecuteStart, ExecuteOngoing, ExecuteUnavailableModel,
         ExecuteInfer, ExecuteRecheck, ExecuteSettle, ExecuteForget, WorkerGoto
<1>3. \A v \in Workers : Busy(v) => Busy(v)'  BY <1>2 DEF Busy, TypeOK
<1> QED  BY <1>1, <1>3, StillCustody DEF Still, Submitted

\* and all of the clock's, of stop()'s and of a deletion.
LEMMA OthersStill ==
    ASSUME TypeOK, CustodyInv,
           \/ \E t \in Tasks : WindowElapses(t)
           \/ \E t \in Deletable : DeleteOperation(t)
           \/ StopRequest \/ StopStep
           \/ UNCHANGED vars
    PROVE  Still
<1>1. /\ UNCHANGED <<placeVars, worker_pc, submit_pc>>
      /\ dispatch_pc = "dispatch" => dispatch_pc' = "dispatch"
  BY DEF WindowElapses, Batch!WindowElapses, DeleteOperation, StopRequest, StopStep, StopNotify,
         StopJoinDispatcher, StopJoinWorkers, WakeDispatcher, stopElse, stopRest, placeVars, vars,
         queueVars, submitVars, dispatchVars, workerVars
<1> QED  BY <1>1, StillCustody DEF Still, Busy, Submitted

-----------------------------------------------------------------------------
\* stop() joins the dispatcher before it stops the pool, so the pool refuses
\* no unit.
NeverRefused == pool_stop => dispatch_pc = "exited"

\* No step stops the pool before the dispatcher has left.
LEMMA NextNeverRefused == NeverRefused /\ [Next]_vars => NeverRefused'
<1> SUFFICES ASSUME NeverRefused, [Next]_vars PROVE NeverRefused'  OBVIOUS
<1>1. CASE stop_pc' = stop_pc
  <2>1. dispatch_pc = "exited" => dispatch_pc' = "exited"
    BY DEF Next, Submitter, SubmitUnavailableModel, SubmitInferenceRequest, AdmitCheckStop,
           AdmitContext, AdmitSnapshot, AdmitQueueFull, AdmitWithinLimit, TrackTask, AdmitFIFO,
           AdmitBatch, AdmitModelStat, AdmitNotify, SubmitFailed, WakeDispatcher, WindowElapses,
           CancelStep, CancelBegin, CancelUntracked, CancelLookup, CancelFlag, CancelRevokeFIFO,
           CancelRevokeBatch, CancelNotQueued, CancelFinalize, CancelForget, CancelRequest,
           DeleteOperation, Dispatcher, DispatchLock, DispatchBlock, DispatchTimeout,
           DispatchDayTimeout, DispatchWake, DispatchExit, SelectFIFO, SelectBatch, SelectNothing,
           Dispatch, DispatchGoto, Worker, TakeUnit, WorkerExit, ExecuteSkip, ExecuteStart,
           ExecuteOngoing, ExecuteUnavailableModel, ExecuteInfer, ExecuteThrow, ExecuteRecheck,
           ExecuteSettle, ExecuteForget, ExecuteRecord, StopRequest, StopStep, StopNotify,
           StopJoinDispatcher, StopJoinWorkers, Terminating, vars, submitRest, cancelElse,
           workerElse, dispatchVars, stopRest
  <2> QED  BY <1>1, <2>1 DEF NeverRefused, pool_stop
<1>2. CASE stop_pc' # stop_pc
  <2>1. StopRequest \/ StopStep
    BY <1>2 DEF Next, Submitter, SubmitUnavailableModel, SubmitInferenceRequest, AdmitCheckStop,
           AdmitContext, AdmitSnapshot, AdmitQueueFull, AdmitWithinLimit, TrackTask, AdmitFIFO,
           AdmitBatch, AdmitModelStat, AdmitNotify, SubmitFailed, WindowElapses,
           CancelStep, CancelBegin, CancelUntracked, CancelLookup, CancelFlag, CancelRevokeFIFO,
           CancelRevokeBatch, CancelNotQueued, CancelFinalize, CancelForget, CancelRequest,
           DeleteOperation, Dispatcher, DispatchLock, DispatchBlock, DispatchTimeout,
           DispatchDayTimeout, DispatchWake, DispatchExit, SelectFIFO, SelectBatch, SelectNothing,
           Dispatch, Worker, TakeUnit, WorkerExit, ExecuteSkip, ExecuteStart,
           ExecuteOngoing, ExecuteUnavailableModel, ExecuteInfer, ExecuteThrow, ExecuteRecheck,
           ExecuteSettle, ExecuteForget, ExecuteRecord, Terminating, vars, submitElse, cancelElse,
           dispatchElse, workerElse, stopVars
  <2> QED
    BY <2>1 DEF StopRequest, StopStep, StopNotify, StopJoinDispatcher, StopJoinWorkers, StopGoto,
           WakeDispatcher, stopRest, NeverRefused, pool_stop
<1> QED  BY <1>1, <1>2

\* Nobody holds anything at the start ...
LEMMA InitCustody == Init => CustodyInv /\ NeverRefused
<1> SUFFICES ASSUME Init PROVE CustodyInv /\ NeverRefused  OBVIOUS
<1>1. /\ pending_tasks = <<>> /\ unit = <<>> /\ pool = <<>>
      /\ \A m \in Models : queues[m].tasks = <<>>
      /\ \A w \in Workers : work[w] = <<>>
  BY DEF Init, Batch!EmptyQueue
<1>2. NoneTwice  BY <1>1 DEF NoneTwice, IsInjective
<1>3. \A t \in Tasks : OneHolder(t) /\ ~ InCustody(t)
  BY <1>1 DEF OneHolder, InCustody, Queued, Pooled, AtWorker, Among, Fifo!Holds, Batch!Holds
<1>4. HandsEmpty  BY <1>1 DEF HandsEmpty
<1>5. \A t \in Tasks, m \in Models : ~ Among(t, queues[m].tasks)  BY <1>1 DEF Among
<1>6. NeverRefused  BY DEF Init, NeverRefused, pool_stop
<1> QED  BY <1>2, <1>3, <1>4, <1>5, <1>6 DEF CustodyInv

\* ... and every step keeps the custody invariant.
LEMMA NextCustody ==
    ASSUME IInv, NeverRefused, CustodyInv, [Next]_vars
    PROVE  CustodyInv'
<1>1. TypeOK /\ HandsFull  BY DEF IInv
<1>2. ASSUME NEW t \in Tasks, Submitter(t) PROVE CustodyInv'
  BY <1>1, <1>2, AdmitCustody, SubmitterStill DEF Still
<1>3. ASSUME NEW c \in Cancelers, CancelStep(c) \/ \E t \in Cancelable : CancelBegin(c, t)
      PROVE  CustodyInv'
  <2>1. CASE CancelRevokeFIFO(c) \/ CancelRevokeBatch(c)
    <3>1. cancel_task[c] \in Tasks
      BY <1>1, <2>1 DEF CancelRevokeFIFO, CancelRevokeBatch, CancelGoto, HandsFull
    <3> QED  BY <1>1, <2>1, <3>1, RevokeCustody
  <2> QED  BY <1>1, <1>3, <2>1, CancelStill DEF Still
<1>4. CASE Dispatcher
  <2>1. ~ (Dispatch /\ pool_stop)  BY DEF Dispatch, DispatchGoto, NeverRefused
  <2> QED  BY <1>1, <1>4, <2>1, SelectCustody, DispatchCustody, DispatcherStill DEF Still
<1>5. ASSUME NEW w \in Workers, Worker(w) PROVE CustodyInv'
  BY <1>1, <1>5, TakeCustody, RecordCustody, ThrowCustody, WorkerStill DEF Still
<1> QED  BY <1>1, <1>2, <1>3, <1>4, <1>5, OthersStill DEF Next, Terminating, Still

\* In every reachable state of any instance: typed, and in one pair of hands.
THEOREM CustodyHolds == Spec => [](IInv /\ NeverRefused /\ CustodyInv)
  BY InvariantHolds, InitCustody, NextNeverRefused, NextCustody, PTL DEF Spec

\* The positions of a task in a sequence without repetition.
LEMMA PositionsInProperties ==
    ASSUME NEW t, NEW place, NEW seq
    PROVE  /\ \A p \in PositionsIn(t, place, seq) : Among(t, seq)
           /\ IsInjective(seq) => \A p, q \in PositionsIn(t, place, seq) : p = q
  BY DEF PositionsIn, Among, IsInjective

(***************************************************************************)
(* A task is never in two places: every hand-over in the code pops, erases *)
(* or moves, for any number of threads and whatever they interleave.       *)
(***************************************************************************)
THEOREM TaskInOnePlace == Spec => []OnePlace
<1>1. CustodyInv => OnePlace
  <2> SUFFICES ASSUME CustodyInv, NEW t \in Tasks,
                      NEW p \in Positions(t), NEW q \in Positions(t)
               PROVE  p = q
    BY DEF OnePlace
  <2> DEFINE InFifo(r)      == r \in PositionsIn(t, <<"fifo">>, pending_tasks)
             InUnit(r)      == r \in PositionsIn(t, <<"unit">>, unit)
             InQueue(r, m)  == r \in PositionsIn(t, <<"batch", m>>, queues[m].tasks)
             InPool(r, i)   == r \in PositionsIn(t, <<"pool", i>>, pool[i])
             InHands(r, w)  == r \in PositionsIn(t, <<"worker", w>>, work[w])
  <2>1. OneHolder(t) /\ NoneTwice  BY DEF CustodyInv
  <2>2. \A r \in Positions(t) :
           \/ InFifo(r) \/ InUnit(r) \/ \E m \in Models : InQueue(r, m)
           \/ \E i \in DOMAIN pool : InPool(r, i)
           \/ \E w \in Workers : InHands(r, w)
    <3> TAKE r \in Positions(t)
    <3>1. CASE r \in UNION {PositionsIn(t, <<"batch", m>>, queues[m].tasks) : m \in Models}
      BY <3>1
    <3>2. CASE r \in UNION {PositionsIn(t, <<"pool", i>>, pool[i]) : i \in DOMAIN pool}
      BY <3>2
    <3>3. CASE r \in UNION {PositionsIn(t, <<"worker", w>>, work[w]) : w \in Workers}
      BY <3>3
    <3>4. CASE r \in PositionsIn(t, <<"fifo">>, pending_tasks)  BY <3>4
    <3>5. CASE r \in PositionsIn(t, <<"unit">>, unit)  BY <3>5
    <3> HIDE DEF InFifo, InUnit, InQueue, InPool, InHands
    <3> QED  BY <3>1, <3>2, <3>3, <3>4, <3>5 DEF Positions
  <2>3. \A r : /\ InFifo(r) => Fifo!Holds(t)
               /\ InUnit(r) => Among(t, unit)
               /\ \A m \in Models : InQueue(r, m) => Among(t, queues[m].tasks) /\ Batch!Holds(t)
               /\ \A i \in DOMAIN pool : InPool(r, i) => Among(t, pool[i]) /\ Pooled(t)
               /\ \A w \in Workers : InHands(r, w) => Among(t, work[w]) /\ AtWorker(t)
    BY PositionsInProperties, HoldsIsAmong DEF Pooled, AtWorker
  <2>4. /\ InFifo(p) /\ InFifo(q) => p = q
        /\ InUnit(p) /\ InUnit(q) => p = q
        /\ \A m \in Models : InQueue(p, m) /\ InQueue(q, m) => p = q
        /\ \A i \in DOMAIN pool : InPool(p, i) /\ InPool(q, i) => p = q
        /\ \A w \in Workers : InHands(p, w) /\ InHands(q, w) => p = q
    BY <2>1, PositionsInProperties DEF NoneTwice
  <2> HIDE DEF InFifo, InUnit, InQueue, InPool, InHands
  <2> QED  BY <2>1, <2>2, <2>3, <2>4 DEF OneHolder
<1> QED  BY CustodyHolds, <1>1, PTL

-----------------------------------------------------------------------------
(***************************************************************************)
(* Units.  Well-formedness rests on what is queued: the tasks of a queue   *)
(* are of its model (CustodyInv), and the batch size captured when it was  *)
(* empty is the one configured, or 1.                                      *)
(***************************************************************************)
UnitsInv ==
    /\ \A m \in Models : \/ queues[m].max_batch_size <= 1
                         \/ queues[m].max_batch_size <= Conf[m].max_batch_size
    /\ WellFormedUnit(unit)
    /\ \A i \in DOMAIN pool : WellFormedUnit(pool[i])
    /\ \A w \in Workers : WellFormedUnit(work[w])

\* What a worker has left of a well-formed unit is well formed.
LEMMA WellFormedTail ==
    ASSUME NEW u \in Seq(Tasks), u # <<>>, WellFormedUnit(u)
    PROVE  WellFormedUnit(Tail(u))
<1>1. /\ Len(u) \in Nat \ {0} /\ DOMAIN u = 1 .. Len(u)
      /\ Len(Tail(u)) = Len(u) - 1 /\ DOMAIN Tail(u) = 1 .. Len(u) - 1
      /\ \A i \in 1 .. Len(u) - 1 : i + 1 \in 1 .. Len(u) /\ Tail(u)[i] = u[i + 1]
  BY HeadTailProperties, EmptySeq
<1>2. \A i \in DOMAIN u : Conf[ModelOf[u[i]]].max_batch_size \in Nat
  BY ModelsAssumption DEF ModelConf
<1> SUFFICES ASSUME NEW i \in 1 .. Len(u) - 1, NEW j \in 1 .. Len(u) - 1
             PROVE  /\ ModelOf[Tail(u)[i]] = ModelOf[Tail(u)[j]]
                    /\ \/ Len(Tail(u)) <= 1
                       \/ Len(Tail(u)) <= Conf[ModelOf[Tail(u)[i]]].max_batch_size
  BY <1>1 DEF WellFormedUnit
<1>3. /\ ModelOf[u[i + 1]] = ModelOf[u[j + 1]]
      /\ Len(u) <= 1 \/ Len(u) <= Conf[ModelOf[u[i + 1]]].max_batch_size
  BY <1>1 DEF WellFormedUnit
<1> QED  BY <1>1, <1>2, <1>3

\* So is nothing.
LEMMA WellFormedEmpty == WellFormedUnit(<<>>)
  BY DEF WellFormedUnit

\* There is no unit at the start ...
LEMMA InitUnits == Init => UnitsInv
<1> SUFFICES ASSUME Init PROVE UnitsInv  OBVIOUS
<1>1. /\ unit = <<>> /\ pool = <<>> /\ \A w \in Workers : work[w] = <<>>
      /\ \A m \in Models : queues[m].max_batch_size = 1
  BY DEF Init, Batch!EmptyQueue
<1> QED  BY <1>1, WellFormedEmpty DEF UnitsInv

\* ... what is selected is one task, or tasks of one queue up to its batch size ...
LEMMA SelectUnits ==
    ASSUME TypeOK, CustodyInv, UnitsInv, SelectFIFO \/ \E m \in Models : SelectBatch(m)
    PROVE  UnitsInv'
<1>1. UNCHANGED <<pool, work>>
  BY DEF SelectFIFO, SelectBatch, dispatchElse, workerVars
<1>2. CASE SelectFIFO
  <2>1. queues' = queues /\ unit' = <<Head(pending_tasks)>>
    BY <1>2 DEF SelectFIFO, Fifo!Select
  <2>2. WellFormedUnit(unit)'  BY <2>1 DEF WellFormedUnit
  <2> QED  BY <1>1, <2>1, <2>2 DEF UnitsInv
<1>3. ASSUME NEW m \in Models, SelectBatch(m) PROVE UnitsInv'
  <2> DEFINE tasks == queues[m].tasks
             limit == queues[m].max_batch_size
             size  == IF Batch!SizeReady(m) THEN limit ELSE Len(tasks)
  <2>1. /\ tasks \in Seq(Tasks) /\ size \in 1 .. Len(tasks) /\ size <= limit
        /\ limit \in Nat /\ Len(tasks) \in Nat
    BY <1>3 DEF SelectBatch, Batch!Select, Batch!Ready, Batch!SizeReady, TypeOK
  <2>2. /\ unit' = SubSeq(tasks, 1, size)
        /\ queues' = [queues EXCEPT ![m].tasks = SubSeq(tasks, size + 1, Len(tasks))]
    BY <1>3 DEF SelectBatch, Batch!Select
  <2> HIDE DEF size
  <2>3. /\ Len(unit') = size /\ DOMAIN unit' = 1 .. size
        /\ \A i \in 1 .. size : unit'[i] = tasks[i] /\ tasks[i] \in Tasks
    BY <2>1, <2>2, SubSeqProperties, ElementOfSeq
  <2>4. \A i \in 1 .. size : ModelOf[unit'[i]] = m
    BY <2>1, <2>3 DEF CustodyInv, Among
  <2>5. limit <= 1 \/ limit <= Conf[m].max_batch_size  BY DEF UnitsInv
  <2>6. Conf[m].max_batch_size \in Nat  BY ModelsAssumption DEF ModelConf
  <2>7. WellFormedUnit(unit)'
    <3> HIDE DEF tasks, limit
    <3> QED  BY <2>1, <2>3, <2>4, <2>5, <2>6 DEF WellFormedUnit
  <2>8. \A n \in Models : queues'[n].max_batch_size = queues[n].max_batch_size
    <3> HIDE DEF tasks
    <3> QED  BY <2>2, QueueChange
  <2> QED  BY <1>1, <2>7, <2>8 DEF UnitsInv
<1> QED  BY <1>2, <1>3

\* ... a worker takes a unit as it is, and shortens it ...
LEMMA WorkerUnits ==
    ASSUME TypeOK, HandsFull, UnitsInv, NEW w \in Workers, Worker(w)
    PROVE  UnitsInv'
<1>1. UNCHANGED <<unit, queues>>
  BY DEF Worker, TakeUnit, WorkerExit, ExecuteSkip, ExecuteStart, ExecuteOngoing,
         ExecuteUnavailableModel, ExecuteInfer, ExecuteThrow, ExecuteRecheck, ExecuteSettle,
         ExecuteForget, ExecuteRecord, workerElse, queueVars, dispatchVars
<1>2. CASE TakeUnit(w)
  <2>1. pool # <<>> /\ pool' = Tail(pool) /\ work' = [work EXCEPT ![w] = Head(pool)]
    BY <1>2 DEF TakeUnit
  <2>2. WellFormedUnit(Head(pool)) /\ \A i \in DOMAIN pool' : WellFormedUnit(pool'[i])
    BY <2>1, TailTyped, EmptySeq DEF TypeOK, UnitsInv
  <2> QED  BY <1>1, <2>1, <2>2 DEF UnitsInv, TypeOK
<1>3. CASE ExecuteRecord(w)
  <2>1. pool' = pool /\ work' = [work EXCEPT ![w] = Tail(work[w])]
    BY <1>3 DEF ExecuteRecord
  <2>2. WellFormedUnit(Tail(work[w]))
    BY <1>3, WellFormedTail DEF ExecuteRecord, WorkerGoto, HandsFull, Busy, TypeOK, UnitsInv
  <2> QED  BY <1>1, <2>1, <2>2 DEF UnitsInv, TypeOK
<1>4. CASE ExecuteThrow(w)
  <2>1. pool' = pool /\ work' = [work EXCEPT ![w] = <<>>]  BY <1>4 DEF ExecuteThrow
  <2> QED  BY <1>1, <2>1, WellFormedEmpty DEF UnitsInv, TypeOK
<1>5. CASE ~ TakeUnit(w) /\ ~ ExecuteRecord(w) /\ ~ ExecuteThrow(w)
  <2>1. UNCHANGED <<pool, work>>
    BY <1>5 DEF Worker, WorkerExit, ExecuteSkip, ExecuteStart, ExecuteOngoing,
           ExecuteUnavailableModel, ExecuteInfer, ExecuteRecheck, ExecuteSettle, ExecuteForget,
           workerRest
  <2> QED  BY <1>1, <2>1 DEF UnitsInv
<1> QED  BY <1>2, <1>3, <1>4, <1>5

\* ... and no other step makes a unit.
LEMMA NextUnits ==
    ASSUME IInv, NeverRefused, CustodyInv, UnitsInv, [Next]_vars
    PROVE  UnitsInv'
<1>1. TypeOK /\ HandsFull  BY DEF IInv
<1>2. ASSUME UNCHANGED <<unit, pool, work>>,
             \A m \in Models : \/ queues'[m].max_batch_size = queues[m].max_batch_size
                              \/ queues'[m].max_batch_size <= 1
                              \/ queues'[m].max_batch_size <= Conf[m].max_batch_size
      PROVE  UnitsInv'
  BY <1>2 DEF UnitsInv
<1>3. ASSUME NEW t \in Tasks, Submitter(t) PROVE UnitsInv'
  <2>1. UNCHANGED <<unit, pool, work>>
    BY <1>3 DEF Submitter, SubmitUnavailableModel, SubmitInferenceRequest, AdmitCheckStop,
           AdmitContext, AdmitSnapshot, AdmitQueueFull, AdmitWithinLimit, TrackTask, AdmitFIFO,
           AdmitBatch, AdmitModelStat, AdmitNotify, SubmitFailed, submitElse, workerVars
  <2>2. CASE AdmitBatch(t)
    <3> DEFINE m == ModelOf[t]
    <3>1. m \in Models /\ Conf[m].max_batch_size \in Nat  BY ModelsAssumption DEF ModelConf
    <3>2. /\ \A n \in Models \ {m} : queues'[n] = queues[n]
          /\ queues'[m].max_batch_size =
                IF queues[m].tasks = <<>> /\ conf_found[t]
                  THEN IF Conf[m].max_batch_size > 0 THEN Conf[m].max_batch_size ELSE 1
                  ELSE queues[m].max_batch_size
      BY <1>1, <2>2, <3>1 DEF AdmitBatch, Batch!Admit, TypeOK
    <3> QED  BY <1>2, <2>1, <3>1, <3>2
  <2>3. CASE ~ AdmitBatch(t)
    <3>1. queues' = queues
      BY <1>3, <2>3 DEF Submitter, SubmitUnavailableModel, SubmitInferenceRequest, AdmitCheckStop,
             AdmitContext, AdmitSnapshot, AdmitQueueFull, AdmitWithinLimit, TrackTask, AdmitFIFO,
             AdmitModelStat, AdmitNotify, SubmitFailed, submitRest, queueVars
    <3> QED  BY <1>2, <2>1, <3>1
  <2> QED  BY <2>2, <2>3
<1>4. ASSUME NEW c \in Cancelers, CancelStep(c) \/ \E t \in Cancelable : CancelBegin(c, t)
      PROVE  UnitsInv'
  <2>1. UNCHANGED <<unit, pool, work>>
    BY <1>4 DEF CancelStep, CancelBegin, CancelUntracked, CancelLookup, CancelFlag,
           CancelRevokeFIFO, CancelRevokeBatch, CancelNotQueued, CancelFinalize, CancelForget,
           CancelRequest, cancelElse, dispatchVars, workerVars
  <2>2. CASE CancelRevokeBatch(c)
    <3>1. PICK m \in Models : \E i \in DOMAIN queues[m].tasks :
             queues' = [queues EXCEPT ![m].tasks = Batch!RemoveAt(queues[m].tasks, i)]
      BY <2>2 DEF CancelRevokeBatch, Batch!Revoke
    <3>2. \A n \in Models : queues'[n].max_batch_size = queues[n].max_batch_size
      BY <1>1, <3>1, QueueChange
    <3> QED  BY <1>2, <2>1, <3>2
  <2>3. CASE ~ CancelRevokeBatch(c)
    <3>1. queues' = queues
      BY <1>4, <2>3 DEF CancelStep, CancelBegin, CancelUntracked, CancelLookup, CancelFlag,
             CancelRevokeFIFO, CancelNotQueued, CancelFinalize, CancelForget, CancelRequest,
             cancelRest, queueVars
    <3> QED  BY <1>2, <2>1, <3>1
  <2> QED  BY <2>2, <2>3
<1>5. CASE SelectFIFO \/ \E m \in Models : SelectBatch(m)  BY <1>1, <1>5, SelectUnits
<1>6. CASE Dispatch
  <2>1. pool' = Append(pool, unit) /\ unit' = <<>> /\ UNCHANGED <<work, queues>>
    BY <1>6 DEF Dispatch, DispatchGoto, NeverRefused, dispatchElse, workerVars, queueVars
  <2>2. \A i \in DOMAIN pool' : \/ i \in DOMAIN pool /\ pool'[i] = pool[i]
                              \/ pool'[i] = unit
    BY <1>1, <2>1, AppendProperties DEF TypeOK
  <2> QED  BY <2>1, <2>2, WellFormedEmpty DEF UnitsInv
<1>7. CASE Dispatcher /\ ~ (SelectFIFO \/ \E m \in Models : SelectBatch(m)) /\ ~ Dispatch
  <2>1. UNCHANGED <<unit, pool, work, queues>>
    BY <1>7 DEF Dispatcher, DispatchLock, DispatchBlock, DispatchTimeout, DispatchDayTimeout,
           DispatchWake, DispatchExit, SelectNothing, dispatchElse, dispatchRest, queueVars,
           workerVars
  <2> QED  BY <1>2, <2>1
<1>8. CASE \E w \in Workers : Worker(w)  BY <1>1, <1>8, WorkerUnits
<1>9. CASE \/ \E t \in Tasks : WindowElapses(t)
           \/ \E t \in Deletable : DeleteOperation(t)
           \/ StopRequest \/ StopStep \/ UNCHANGED vars
  <2>1. UNCHANGED <<unit, pool, work, queues>>
    BY <1>9 DEF WindowElapses, Batch!WindowElapses, DeleteOperation, StopRequest, StopStep,
           StopNotify, StopJoinDispatcher, StopJoinWorkers, vars, stopElse, queueVars,
           dispatchVars, workerVars
  <2> QED  BY <1>2, <2>1
<1> QED  BY <1>3, <1>4, <1>5, <1>6, <1>7, <1>8, <1>9 DEF Next, Terminating

(***************************************************************************)
(* A unit holds tasks of one model, no more than the batch size that model *)
(* is configured with, and the pool's queue holds no empty unit.           *)
(***************************************************************************)
THEOREM UnitsAreWellFormed == Spec => []UnitsWellFormed
<1>1. IInv /\ UnitsInv => UnitsWellFormed  BY DEF IInv, HandsFull, UnitsInv, UnitsWellFormed
<1> QED  BY CustodyHolds, InitUnits, NextUnits, <1>1, PTL DEF Spec

-----------------------------------------------------------------------------
(***************************************************************************)
(* The statistics of a model.  The number of tasks held is not bounded by  *)
(* current_inflight alone (a task is queued before it is counted), but it  *)
(* is when the admissions between the two are added.                       *)
(***************************************************************************)
Held(m) == {t \in Tasks : ModelOf[t] = m /\ InCustody(t)}

Uncounted(m) == {t \in Tasks : ModelOf[t] = m /\ submit_pc[t] = "stat"}

Covered(m) == Cardinality(Held(m)) <= current_inflight[m] + Cardinality(Uncounted(m))

StatsInv == \A m \in Models : Covered(m)

\* What a model has in custody and what it has not counted are finite sets of tasks.
LEMMA HeldFinite ==
    ASSUME NEW m
    PROVE  /\ IsFiniteSet(Held(m)) /\ Cardinality(Held(m)) \in Nat
           /\ IsFiniteSet(Uncounted(m)) /\ Cardinality(Uncounted(m)) \in Nat
           /\ IsFiniteSet(Held(m)') /\ Cardinality(Held(m)') \in Nat
           /\ IsFiniteSet(Uncounted(m)') /\ Cardinality(Uncounted(m)') \in Nat
<1>1. /\ Held(m) \in SUBSET Tasks /\ Uncounted(m) \in SUBSET Tasks
      /\ Held(m)' \in SUBSET Tasks /\ Uncounted(m)' \in SUBSET Tasks
  BY DEF Held, Uncounted
<1> QED  BY <1>1, TasksAssumption, FS_Subset, FS_CardinalityType

\* Letting go of tasks keeps the bound.
LEMMA CoveredShrinks ==
    ASSUME TypeOK, NEW m \in Models, Covered(m), Held(m)' \subseteq Held(m),
           Uncounted(m)' = Uncounted(m), current_inflight'[m] = current_inflight[m]
    PROVE  Covered(m)'
<1>1. Cardinality(Held(m)') <= Cardinality(Held(m))  BY HeldFinite, FS_Subset
<1> QED  BY <1>1, HeldFinite DEF Covered, TypeOK

\* Nothing is held at the start.
LEMMA InitStats == Init => StatsInv
<1> SUFFICES ASSUME Init, NEW m \in Models PROVE Covered(m)  BY DEF StatsInv
<1>1. \A t \in Tasks : ~ InCustody(t)
  BY InitCustody DEF Init, CustodyInv, Submitted
<1>2. Held(m) = {} /\ Uncounted(m) = {}  BY <1>1 DEF Held, Uncounted, Init
<1> QED  BY <1>2, FS_EmptySet DEF Covered, Init

\* An admission is held and uncounted from the same step on.
LEMMA AdmitStats ==
    ASSUME TypeOK, CustodyInv, StatsInv, NEW t \in Tasks, AdmitFIFO(t) \/ AdmitBatch(t)
    PROVE  StatsInv'
<1> SUFFICES ASSUME NEW m \in Models PROVE Covered(m)'  BY DEF StatsInv
<1>1. /\ current_inflight' = current_inflight
      /\ submit_pc[t] = "enqueue" /\ submit_pc' = [submit_pc EXCEPT ![t] = "stat"]
  BY DEF AdmitFIFO, AdmitBatch, SubmitGoto
<1>2. ~ InCustody(t) /\ \A u \in Tasks : InCustody(u)' <=> InCustody(u) \/ u = t
  BY AdmitCustody
<1>3. CASE ModelOf[t] = m
  <2>1. Held(m)' = Held(m) \cup {t} /\ t \notin Held(m)  BY <1>2, <1>3 DEF Held
  <2>2. Uncounted(m)' = Uncounted(m) \cup {t} /\ t \notin Uncounted(m)
    BY <1>1, <1>3 DEF Uncounted, TypeOK
  <2>3. Cardinality(Held(m)') = Cardinality(Held(m)) + 1
        /\ Cardinality(Uncounted(m)') = Cardinality(Uncounted(m)) + 1
    BY <2>1, <2>2, HeldFinite, FS_AddElement
  <2> QED  BY <1>1, <2>3, HeldFinite DEF Covered, StatsInv, TypeOK
<1>4. CASE ModelOf[t] # m
  <2>1. Held(m)' = Held(m) /\ Uncounted(m)' = Uncounted(m)
    BY <1>1, <1>2, <1>4 DEF Held, Uncounted, TypeOK
  <2> QED  BY <1>1, <2>1, CoveredShrinks DEF StatsInv
<1> QED  BY <1>3, <1>4

\* admitModelStat counts the task: one more in the counter, one fewer uncounted.
LEMMA CountStats ==
    ASSUME TypeOK, CustodyInv, StatsInv, NEW t \in Tasks, AdmitModelStat(t)
    PROVE  StatsInv'
<1> SUFFICES ASSUME NEW m \in Models PROVE Covered(m)'  BY DEF StatsInv
<1>1. /\ current_inflight' = [current_inflight EXCEPT ![ModelOf[t]] = @ + 1]
      /\ submit_pc[t] = "stat" /\ submit_pc' = [submit_pc EXCEPT ![t] = "notify"]
  BY DEF AdmitModelStat, SubmitGoto
<1>2. Still
  BY SubmitterStill DEF Submitter, AdmitModelStat, AdmitFIFO, AdmitBatch, SubmitGoto
<1>3. Held(m)' = Held(m)  BY <1>2 DEF Held, Still
<1>4. CASE ModelOf[t] = m
  <2>1. Uncounted(m)' = Uncounted(m) \ {t} /\ t \in Uncounted(m)
    BY <1>1, <1>4 DEF Uncounted, TypeOK
  <2>2. Cardinality(Uncounted(m)') = Cardinality(Uncounted(m)) - 1
    BY <2>1, HeldFinite, FS_RemoveElement
  <2>3. current_inflight'[m] = current_inflight[m] + 1  BY <1>1, <1>4 DEF TypeOK
  <2> QED  BY <1>3, <2>2, <2>3, HeldFinite DEF Covered, StatsInv, TypeOK
<1>5. CASE ModelOf[t] # m
  <2>1. Uncounted(m)' = Uncounted(m) /\ current_inflight'[m] = current_inflight[m]
    BY <1>1, <1>5 DEF Uncounted, TypeOK
  <2> QED  BY <1>3, <2>1, CoveredShrinks DEF StatsInv
<1> QED  BY <1>4, <1>5

\* The result of a task is recorded as it is let go of; the decrement that
\* saturates does so only when the bound leaves room for it.
LEMMA RecordStats ==
    ASSUME TypeOK, HandsFull, CustodyInv, StatsInv, NEW w \in Workers, ExecuteRecord(w)
    PROVE  StatsInv'
<1> SUFFICES ASSUME NEW m \in Models PROVE Covered(m)'  BY DEF StatsInv
<1> DEFINE t == Head(work[w])
<1>1. /\ submit_pc' = submit_pc
      /\ current_inflight' = [current_inflight EXCEPT ![ModelOf[t]] = IF @ > 0 THEN @ - 1 ELSE 0]
  BY DEF ExecuteRecord, workerElse, submitVars
<1>2. /\ t \in Tasks /\ InCustody(t)
      /\ \A u \in Tasks : InCustody(u)' <=> InCustody(u) /\ u # t
  <2>1. work[w] # <<>> /\ work[w] \in Seq(Tasks)
    BY DEF ExecuteRecord, WorkerGoto, HandsFull, Busy, TypeOK
  <2>2. t \in Tasks  BY <2>1, TailTyped
  <2>3. InCustody(t)  BY RecordCustody DEF InCustody, AtWorker
  <2> QED  BY <2>2, <2>3, RecordCustody
<1> HIDE DEF t
<1>3. Uncounted(m)' = Uncounted(m)  BY <1>1 DEF Uncounted
<1>4. CASE ModelOf[t] = m
  <2>1. Held(m)' = Held(m) \ {t} /\ t \in Held(m)  BY <1>2, <1>4 DEF Held
  <2>2. Cardinality(Held(m)') = Cardinality(Held(m)) - 1
    BY <2>1, HeldFinite, FS_RemoveElement
  <2>3. current_inflight[m] \in Nat
        /\ current_inflight'[m] = IF current_inflight[m] > 0 THEN current_inflight[m] - 1 ELSE 0
    BY <1>1, <1>4 DEF TypeOK
  <2> QED  BY <1>3, <2>2, <2>3, HeldFinite DEF Covered, StatsInv
<1>5. CASE ModelOf[t] # m
  <2>1. Held(m)' \subseteq Held(m) /\ current_inflight'[m] = current_inflight[m]
    BY <1>1, <1>2, <1>5 DEF Held, TypeOK
  <2> QED  BY <1>3, <2>1, CoveredShrinks DEF StatsInv
<1> QED  BY <1>4, <1>5

\* All other steps let go of tasks or leave the bound alone.
LEMMA NextStats ==
    ASSUME IInv, NeverRefused, CustodyInv, StatsInv, [Next]_vars
    PROVE  StatsInv'
<1>1. TypeOK /\ HandsFull  BY DEF IInv
<1>2. ASSUME \A u \in Tasks : InCustody(u)' => InCustody(u),
             \A u \in Tasks : submit_pc'[u] = "stat" <=> submit_pc[u] = "stat",
             current_inflight' = current_inflight
      PROVE  StatsInv'
  <2>1. \A m \in Models : Held(m)' \subseteq Held(m) /\ Uncounted(m)' = Uncounted(m)
    BY <1>2 DEF Held, Uncounted
  <2> QED  BY <1>1, <1>2, <2>1, CoveredShrinks DEF StatsInv
<1>3. ASSUME NEW t \in Tasks, Submitter(t) PROVE StatsInv'
  <2>1. CASE AdmitFIFO(t) \/ AdmitBatch(t)  BY <1>1, <2>1, AdmitStats
  <2>2. CASE AdmitModelStat(t)  BY <1>1, <2>2, CountStats
  <2>3. CASE ~ AdmitFIFO(t) /\ ~ AdmitBatch(t) /\ ~ AdmitModelStat(t)
    <3>1. Still  BY <1>1, <1>3, <2>3, SubmitterStill
    <3>2. /\ current_inflight' = current_inflight
          /\ \A u \in Tasks : submit_pc'[u] = "stat" <=> submit_pc[u] = "stat"
      BY <1>1, <1>3, <2>3 DEF Submitter, SubmitUnavailableModel, SubmitInferenceRequest,
             AdmitCheckStop, AdmitContext, AdmitSnapshot, AdmitQueueFull, AdmitWithinLimit,
             TrackTask, AdmitNotify, SubmitFailed, SubmitGoto, submitRest, TypeOK
    <3> QED  BY <1>2, <3>1, <3>2 DEF Still
  <2> QED  BY <2>1, <2>2, <2>3
<1>4. ASSUME NEW c \in Cancelers, CancelStep(c) \/ \E t \in Cancelable : CancelBegin(c, t)
      PROVE  StatsInv'
  <2>1. UNCHANGED <<current_inflight, submit_pc>>
    BY <1>4 DEF CancelStep, CancelBegin, CancelUntracked, CancelLookup, CancelFlag,
           CancelRevokeFIFO, CancelRevokeBatch, CancelNotQueued, CancelFinalize, CancelForget,
           CancelRequest, cancelElse, statVars, submitVars
  <2>2. CASE CancelRevokeFIFO(c) \/ CancelRevokeBatch(c)
    <3>1. cancel_task[c] \in Tasks
      BY <1>1, <2>2 DEF CancelRevokeFIFO, CancelRevokeBatch, CancelGoto, HandsFull
    <3> QED  BY <1>1, <1>2, <2>1, <2>2, <3>1, RevokeCustody
  <2>3. CASE ~ CancelRevokeFIFO(c) /\ ~ CancelRevokeBatch(c)
    BY <1>1, <1>2, <1>4, <2>1, <2>3, CancelStill DEF Still
  <2> QED  BY <2>2, <2>3
<1>5. CASE Dispatcher
  <2>1. UNCHANGED <<current_inflight, submit_pc>>
    BY <1>5 DEF Dispatcher, DispatchLock, DispatchBlock, DispatchTimeout, DispatchDayTimeout,
           DispatchWake, DispatchExit, SelectFIFO, SelectBatch, SelectNothing, Dispatch,
           dispatchElse, submitVars
  <2>2. ~ (Dispatch /\ pool_stop)  BY DEF Dispatch, DispatchGoto, NeverRefused
  <2>3. \A u \in Tasks : InCustody(u)' => InCustody(u)
    BY <1>1, <1>5, <2>2, SelectCustody, DispatchCustody, DispatcherStill DEF Still
  <2> QED  BY <1>2, <2>1, <2>3
<1>6. ASSUME NEW w \in Workers, Worker(w) PROVE StatsInv'
  <2>1. CASE ExecuteRecord(w)  BY <1>1, <2>1, RecordStats
  <2>2. CASE ~ ExecuteRecord(w)
    <3>1. UNCHANGED <<current_inflight, submit_pc>>
      BY <1>6, <2>2 DEF Worker, TakeUnit, WorkerExit, ExecuteSkip, ExecuteStart, ExecuteOngoing,
             ExecuteUnavailableModel, ExecuteInfer, ExecuteThrow, ExecuteRecheck, ExecuteSettle,
             ExecuteForget, workerElse, workerRest, statVars, submitVars
    <3>2. \A u \in Tasks : InCustody(u)' => InCustody(u)
      BY <1>1, <1>6, <2>2, TakeCustody, ThrowCustody, WorkerStill DEF Still
    <3> QED  BY <1>2, <3>1, <3>2
  <2> QED  BY <2>1, <2>2
<1>7. CASE \/ \E t \in Tasks : WindowElapses(t)
           \/ \E t \in Deletable : DeleteOperation(t)
           \/ StopRequest \/ StopStep \/ UNCHANGED vars
  <2>1. UNCHANGED <<current_inflight, submit_pc>>
    BY <1>7 DEF WindowElapses, DeleteOperation, StopRequest, StopStep, StopNotify,
           StopJoinDispatcher, StopJoinWorkers, vars, stopElse, statVars, submitVars
  <2> QED  BY <1>1, <1>2, <1>7, <2>1, OthersStill DEF Still
<1> QED  BY <1>3, <1>4, <1>5, <1>6, <1>7 DEF Next, Terminating

(***************************************************************************)
(* While no admission for a model is between the queue and admitModelStat, *)
(* every task that a worker has taken is in current_inflight, although the *)
(* decrement in recordModelResult saturates at 0 and may come before the   *)
(* increment.                                                              *)
(***************************************************************************)
THEOREM ExecutingIsAlwaysCounted == Spec => []ExecutingIsCounted
<1>1. StatsInv /\ TypeOK => ExecutingIsCounted
  <2> SUFFICES ASSUME StatsInv, TypeOK, NEW m \in Models,
                      \A t \in Tasks : ModelOf[t] = m => submit_pc[t] # "stat"
               PROVE  current_inflight[m] >= Cardinality(ExecutingTasks(m))
    BY DEF ExecutingIsCounted
  <2>1. Uncounted(m) = {}  BY DEF Uncounted
  <2>2. Cardinality(Uncounted(m)) = 0  BY <2>1, FS_EmptySet
  <2>3. ExecutingTasks(m) \subseteq Held(m)  BY DEF ExecutingTasks, Held, InCustody
  <2>4. /\ Cardinality(ExecutingTasks(m)) \in Nat
        /\ Cardinality(ExecutingTasks(m)) <= Cardinality(Held(m))
    BY <2>3, HeldFinite, FS_Subset, FS_CardinalityType
  <2>5. current_inflight[m] >= Cardinality(Held(m))
    BY <2>2, HeldFinite DEF StatsInv, Covered, TypeOK
  <2> QED  BY <2>4, <2>5, HeldFinite DEF TypeOK
<1>2. IInv => TypeOK  BY DEF IInv
<1> QED  BY CustodyHolds, InitStats, NextStats, <1>1, <1>2, PTL DEF Spec

-----------------------------------------------------------------------------
(***************************************************************************)
(* The drain of stop(), in the order of its joins: the dispatcher leaves   *)
(* when nothing is queued, so no task accepted before the call is, then or *)
(* later; the pool is stopped after that; a worker leaves when the pool's  *)
(* queue is empty, and nothing can enter it any more.                      *)
(***************************************************************************)
StopInv ==
    /\ accepted_at_stop \subseteq Accepted
    /\ dispatch_pc = "exited" => stop_requested /\ \A t \in accepted_at_stop : ~ Queued(t)
    /\ \A w \in Workers : worker_pc[w] = "exited" => pool_stop /\ pool = <<>>
    /\ stop_pc = "stopped" => pool_stop /\ \A w \in Workers : worker_pc[w] = "exited"

\* The sizes of the queues add up to 0 when every queue is empty, and only then.
LEMMA NothingQueued ==
    ASSUME TypeOK, QueuedTaskCount = 0, NEW t
    PROVE  ~ Queued(t)
<1> DEFINE slots == UNION {{m} \X (DOMAIN queues[m].tasks) : m \in Models}
<1>1. Len(pending_tasks) \in Nat  BY DEF TypeOK
<1>2. IsFiniteSet(slots)
  <2>1. ASSUME NEW m \in Models PROVE IsFiniteSet({m} \X (DOMAIN queues[m].tasks))
    <3>1. DOMAIN queues[m].tasks = 1 .. Len(queues[m].tasks) /\ Len(queues[m].tasks) \in Nat
      BY DEF TypeOK
    <3>2. IsFiniteSet(DOMAIN queues[m].tasks)  BY <3>1, FS_Interval
    <3> QED  BY <3>2, FS_Singleton, FS_Product
  <2>2. IsFiniteSet({{m} \X (DOMAIN queues[m].tasks) : m \in Models})
    <3> DEFINE f == [m \in Models |-> {m} \X (DOMAIN queues[m].tasks)]
               T == {{m} \X (DOMAIN queues[m].tasks) : m \in Models}
    <3>1. f \in Surjection(Models, T)  BY DEF Surjection
    <3> HIDE DEF f, T
    <3>2. IsFiniteSet(T)  BY <3>1, ModelsAssumption, FS_Surjection
    <3> QED  BY <3>2 DEF T
  <2> QED  BY <2>1, <2>2, FS_UNION
<1>3. Cardinality(slots) \in Nat  BY <1>2, FS_CardinalityType
<1>4. Len(pending_tasks) = 0 /\ Cardinality(slots) = 0
  <2>1. Batch!PendingTaskCount = Cardinality(slots)
    BY DEF Batch!PendingTaskCount, Batch!Cardinality, Cardinality
  <2> HIDE DEF slots
  <2> QED  BY <1>1, <1>3, <2>1 DEF QueuedTaskCount, Fifo!PendingTaskCount
<1>5. pending_tasks = <<>>  BY <1>4, EmptySeq DEF TypeOK
<1>6. slots = {}  BY <1>2, <1>4, FS_EmptySet
<1>7. ASSUME NEW m \in Models, NEW i \in DOMAIN queues[m].tasks PROVE FALSE
  <2>1. <<m, i>> \in {m} \X (DOMAIN queues[m].tasks)  OBVIOUS
  <2>2. <<m, i>> \in slots  BY <2>1
  <2> HIDE DEF slots
  <2> QED  BY <1>6, <2>2
<1>8. \A i \in DOMAIN pending_tasks : FALSE  BY <1>5
<1> QED  BY <1>7, <1>8 DEF Queued, Fifo!Holds, Batch!Holds

\* Nobody has left at the start ...
LEMMA InitStop == Init => StopInv
  BY DEF Init, StopInv, pool_stop, stop_requested

\* ... and whoever leaves does so with its queues empty for good.
LEMMA NextStop ==
    ASSUME IInv, NeverRefused, CustodyInv, StopInv, [Next]_vars
    PROVE  StopInv'
<1>1. TypeOK /\ HandsFull  BY DEF IInv
<1>2. ASSUME UNCHANGED <<dispatch_pc, worker_pc, stop_pc, pool, accepted_at_stop, submit_pc>>,
             \A t \in Tasks : Queued(t)' => Queued(t)
      PROVE  StopInv'
  BY <1>1, <1>2 DEF StopInv, Accepted, stop_requested, pool_stop, TypeOK
<1>3. ASSUME NEW t \in Tasks, Submitter(t) PROVE StopInv'
  <2>1. /\ UNCHANGED <<worker_pc, stop_pc, pool, accepted_at_stop>>
        /\ Accepted \subseteq Accepted'
        /\ dispatch_pc' = "exited" => dispatch_pc = "exited"
    BY <1>1, <1>3 DEF Submitter, SubmitUnavailableModel, SubmitInferenceRequest, AdmitCheckStop,
           AdmitContext, AdmitSnapshot, AdmitQueueFull, AdmitWithinLimit, TrackTask, AdmitFIFO,
           AdmitBatch, AdmitModelStat, AdmitNotify, SubmitFailed, WakeDispatcher, SubmitGoto,
           submitElse, submitRest, workerVars, stopVars, Accepted, TypeOK
  <2>2. \A u \in accepted_at_stop : Queued(u)' => Queued(u)
    <3>1. CASE AdmitFIFO(t) \/ AdmitBatch(t)
      <4>1. t \notin accepted_at_stop
        BY <3>1 DEF AdmitFIFO, AdmitBatch, SubmitGoto, StopInv, Accepted
      <4> QED  BY <1>1, <3>1, <4>1, AdmitCustody DEF TypeOK
    <3>2. CASE ~ AdmitFIFO(t) /\ ~ AdmitBatch(t)
      BY <1>1, <1>3, <3>2, SubmitterStill DEF Still, TypeOK
    <3> QED  BY <3>1, <3>2
  <2> QED  BY <2>1, <2>2 DEF StopInv, stop_requested, pool_stop
<1>4. ASSUME NEW c \in Cancelers, CancelStep(c) \/ \E t \in Cancelable : CancelBegin(c, t)
      PROVE  StopInv'
  <2>1. UNCHANGED <<dispatch_pc, worker_pc, stop_pc, pool, accepted_at_stop, submit_pc>>
    BY <1>4 DEF CancelStep, CancelBegin, CancelUntracked, CancelLookup, CancelFlag,
           CancelRevokeFIFO, CancelRevokeBatch, CancelNotQueued, CancelFinalize, CancelForget,
           CancelRequest, cancelElse, submitVars, dispatchVars, workerVars, stopVars
  <2>2. CASE CancelRevokeFIFO(c) \/ CancelRevokeBatch(c)
    <3>1. cancel_task[c] \in Tasks
      BY <1>1, <2>2 DEF CancelRevokeFIFO, CancelRevokeBatch, CancelGoto, HandsFull
    <3> QED  BY <1>1, <1>2, <2>1, <2>2, <3>1, RevokeCustody
  <2>3. CASE ~ CancelRevokeFIFO(c) /\ ~ CancelRevokeBatch(c)
    BY <1>1, <1>2, <1>4, <2>1, <2>3, CancelStill DEF Still
  <2> QED  BY <2>2, <2>3
<1>5. CASE Dispatcher
  <2>1. UNCHANGED <<worker_pc, stop_pc, accepted_at_stop, submit_pc>>
    BY <1>5 DEF Dispatcher, DispatchLock, DispatchBlock, DispatchTimeout, DispatchDayTimeout,
           DispatchWake, DispatchExit, SelectFIFO, SelectBatch, SelectNothing, Dispatch,
           dispatchElse, submitVars, workerVars, stopVars
  <2>2. dispatch_pc # "exited" /\ ~ pool_stop
    BY <1>5 DEF Dispatcher, DispatchLock, DispatchBlock, DispatchTimeout, DispatchDayTimeout,
           DispatchWake, DispatchExit, SelectFIFO, SelectBatch, SelectNothing, Dispatch,
           DispatchGoto, NeverRefused
  <2>3. dispatch_pc' = "exited" => stop_requested /\ \A t \in Tasks : ~ Queued(t)'
    <3>1. CASE DispatchExit
      <4>1. stop_requested /\ \A t \in Tasks : ~ Queued(t)
        BY <1>1, <3>1, NothingQueued DEF DispatchExit
      <4>2. Still
        BY <1>1, <1>5, <3>1, DispatcherStill
           DEF DispatchExit, SelectFIFO, SelectBatch, Dispatch, DispatchGoto
      <4> QED  BY <4>1, <4>2 DEF Still
    <3>2. CASE ~ DispatchExit
      BY <1>5, <3>2 DEF Dispatcher, DispatchLock, DispatchBlock, DispatchTimeout,
             DispatchDayTimeout, DispatchWake, SelectFIFO, SelectBatch, SelectNothing, Dispatch,
             DispatchGoto
    <3> QED  BY <3>1, <3>2
  <2> QED  BY <1>1, <2>1, <2>2, <2>3 DEF StopInv, Accepted, stop_requested, pool_stop, TypeOK
<1>6. ASSUME NEW w \in Workers, Worker(w) PROVE StopInv'
  <2>1. UNCHANGED <<dispatch_pc, stop_pc, accepted_at_stop, submit_pc>>
    BY <1>6 DEF Worker, TakeUnit, WorkerExit, ExecuteSkip, ExecuteStart, ExecuteOngoing,
           ExecuteUnavailableModel, ExecuteInfer, ExecuteThrow, ExecuteRecheck, ExecuteSettle,
           ExecuteForget, ExecuteRecord, workerElse, dispatchVars, submitVars, stopVars
  <2>2. /\ pool = <<>> => pool' = <<>>
        /\ worker_pc[w] # "exited"
        /\ \A v \in Workers \ {w} : worker_pc'[v] = worker_pc[v]
        /\ worker_pc'[w] = "exited" => pool_stop /\ pool' = <<>>
    BY <1>1, <1>6 DEF Worker, TakeUnit, WorkerExit, ExecuteSkip, ExecuteStart, ExecuteOngoing,
           ExecuteUnavailableModel, ExecuteInfer, ExecuteThrow, ExecuteRecheck, ExecuteSettle,
           ExecuteForget, ExecuteRecord, WorkerGoto, workerRest, TypeOK
  <2>3. \A t \in Tasks : Queued(t)' <=> Queued(t)
    BY <1>1, <1>6, TakeCustody, RecordCustody, ThrowCustody, WorkerStill DEF Still
  <2> QED  BY <1>1, <2>1, <2>2, <2>3 DEF StopInv, Accepted, stop_requested, pool_stop, TypeOK
<1>7. CASE StopRequest \/ StopStep
  <2>1. /\ UNCHANGED <<worker_pc, pool, submit_pc>>
        /\ dispatch_pc' = "exited" <=> dispatch_pc = "exited"
    BY <1>7 DEF StopRequest, StopStep, StopNotify, StopJoinDispatcher, StopJoinWorkers,
           WakeDispatcher, stopElse, stopRest, submitVars, workerVars
  <2>2. \A t \in Tasks : Queued(t)' <=> Queued(t)  BY <1>1, <1>7, OthersStill DEF Still
  <2>3. CASE StopRequest
    BY <1>1, <2>1, <2>2, <2>3
       DEF StopRequest, StopGoto, StopInv, Accepted, stop_requested, pool_stop, TypeOK
  <2>4. CASE StopStep
    BY <1>1, <2>1, <2>2, <2>4
       DEF StopStep, StopNotify, StopJoinDispatcher, StopJoinWorkers, StopGoto, stopRest,
           StopInv, Accepted, stop_requested, pool_stop, TypeOK
  <2> QED  BY <1>7, <2>3, <2>4
<1>8. CASE \/ \E t \in Tasks : WindowElapses(t)
           \/ \E t \in Deletable : DeleteOperation(t)
           \/ UNCHANGED vars
  <2>1. UNCHANGED <<dispatch_pc, worker_pc, stop_pc, pool, accepted_at_stop, submit_pc>>
    BY <1>8 DEF WindowElapses, DeleteOperation, vars, submitVars, dispatchVars, workerVars, stopVars
  <2> QED  BY <1>1, <1>2, <1>8, <2>1, OthersStill DEF Still
<1> QED  BY <1>3, <1>4, <1>5, <1>6, <1>7, <1>8 DEF Next, Terminating

(***************************************************************************)
(* stop() drains, whatever is submitted or canceled while it waits: when   *)
(* it returns, no task accepted before the call is left anywhere and no    *)
(* unit is inflight.  It takes a worker: a pool without threads is joined  *)
(* at once, with what is in its queue.                                     *)
(***************************************************************************)
THEOREM StopDrainsAccepted ==
    ASSUME Workers # {}
    PROVE  Spec => []StopDrains
<1>1. IInv /\ NeverRefused /\ CustodyInv /\ StopInv => StopDrains
  <2> SUFFICES ASSUME IInv, NeverRefused, CustodyInv, StopInv, stop_pc = "stopped"
               PROVE  /\ inflight_task_count = 0
                      /\ \A t \in accepted_at_stop : ~ InCustody(t)
    BY DEF StopDrains
  <2>1. /\ \A w \in Workers : worker_pc[w] = "exited"
        /\ pool = <<>> /\ pool_stop /\ dispatch_pc = "exited"
    BY DEF StopInv, NeverRefused
  <2>2. BusyWorkers = {}  BY <2>1 DEF BusyWorkers, Busy
  <2>3. inflight_task_count = 0  BY <2>1, <2>2, FS_EmptySet DEF IInv, InflightExact
  <2>4. unit = <<>> /\ \A w \in Workers : work[w] = <<>>
    BY <2>1 DEF CustodyInv, HandsEmpty, Busy
  <2>5. \A t \in accepted_at_stop : ~ InCustody(t)
    BY <2>1, <2>4 DEF StopInv, InCustody, Pooled, AtWorker, Among
  <2> QED  BY <2>3, <2>5
<1> QED  BY CustodyHolds, InitStop, NextStop, <1>1, PTL DEF Spec
=============================================================================
