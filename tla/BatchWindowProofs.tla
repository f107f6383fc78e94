-------------------------- MODULE BatchWindowProofs --------------------------
(***************************************************************************)
(* Theorems about the clock of the batching set, for any number of tasks   *)
(* and models, any configurations, any tick and any bound on the clock.    *)
(***************************************************************************)
EXTENDS BatchWindow, FiniteSetTheorems, SequenceTheorems, TLAPS

-----------------------------------------------------------------------------
\* Milliseconds and ticks.

\* A longer duration has more ticks.
LEMMA TimesMonotone ==
    ASSUME NEW a \in Int, NEW b \in Int, NEW n \in Nat, a <= b
    PROVE  a * n \in Int /\ b * n \in Int /\ a * n <= b * n
  OBVIOUS

\* The truncated quotient, by what is left over.
LEMMA DivBounds ==
    ASSUME NEW a \in Nat, NEW n \in Nat \ {0}
    PROVE  /\ a \div n \in Nat
           /\ (a \div n) * n <= a
           /\ a < (a \div n) * n + n
  OBVIOUS

\* Whole milliseconds fit.
LEMMA DivAtLeast ==
    ASSUME NEW a \in Nat, NEW w \in Int, NEW n \in Nat \ {0}
    PROVE  a >= w * n <=> a \div n >= w
<1> DEFINE q == a \div n
<1>1. q \in Nat /\ q * n <= a /\ a < q * n + n  BY DivBounds
<1> HIDE DEF q
<1>2. ASSUME q >= w PROVE a >= w * n  BY <1>1, <1>2, TimesMonotone
<1>3. ASSUME a >= w * n PROVE q >= w
  <2> SUFFICES ASSUME q + 1 <= w PROVE FALSE  BY <1>1
  <2>1. (q + 1) * n <= w * n  BY <1>1, TimesMonotone
  <2>2. (q + 1) * n = q * n + n  BY <1>1
  <2> QED  BY <1>1, <1>3, <2>1, <2>2
<1> QED  BY <1>2, <1>3 DEF q

\* Truncation keeps the order of durations.
LEMMA DivMonotone ==
    ASSUME NEW a \in Nat, NEW b \in Nat, NEW n \in Nat \ {0}, a <= b
    PROVE  a \div n <= b \div n
<1> DEFINE q == a \div n
<1>1. q \in Nat /\ q * n <= a  BY DivBounds
<1> HIDE DEF q
<1>2. b >= q * n  BY <1>1
<1> QED  BY <1>1, <1>2, DivAtLeast DEF q

\* Truncation towards zero keeps the order on both sides of it.
LEMMA MillisecondsMonotone ==
    ASSUME NEW a \in Int, NEW b \in Int
    PROVE  /\ Milliseconds(a) \in Int
           /\ a >= 0 => Milliseconds(a) \in Nat
           /\ a <= 0 => - Milliseconds(a) \in Nat
           /\ a <= b => Milliseconds(a) <= Milliseconds(b)
<1>1. TicksPerMs \in Nat \ {0}  BY WindowAssumption
<1>2. \A x \in Nat : x \div TicksPerMs \in Nat  BY <1>1, DivBounds
<1>3. 0 \div TicksPerMs = 0
  <2>1. 0 \div TicksPerMs \in Nat /\ (0 \div TicksPerMs) * TicksPerMs <= 0  BY <1>1, DivBounds
  <2>2. ~ (0 \div TicksPerMs >= 1)
    <3>1. ~ (0 >= 1 * TicksPerMs)  BY <1>1
    <3> QED  BY <1>1, <3>1, DivAtLeast
  <2> QED  BY <2>1, <2>2
<1>4. \A x, y \in Nat : x <= y => x \div TicksPerMs <= y \div TicksPerMs  BY <1>1, DivMonotone
<1>5. ASSUME NEW x \in Int
      PROVE  /\ x >= 0 => Milliseconds(x) = x \div TicksPerMs /\ Milliseconds(x) \in Nat
             /\ x < 0 => /\ - x \in Nat /\ (- x) \div TicksPerMs \in Nat
                         /\ Milliseconds(x) = - ((- x) \div TicksPerMs)
  BY <1>2 DEF Milliseconds
<1>6. CASE a >= 0 /\ b >= 0  BY <1>3, <1>4, <1>5, <1>6
<1>7. CASE a < 0 /\ b >= 0  BY <1>5, <1>7
<1>8. CASE a >= 0 /\ b < 0  BY <1>3, <1>5, <1>8
<1>9. CASE a < 0 /\ b < 0
  <2>1. a <= b => (- b) \div TicksPerMs <= (- a) \div TicksPerMs
    <3> DEFINE x == - a
               y == - b
    <3>1. x \in Nat /\ y \in Nat /\ (a <= b => y <= x)  BY <1>9
    <3> QED  BY <1>4, <3>1
  <2> QED  BY <1>5, <1>9, <2>1
<1> QED  BY <1>6, <1>7, <1>8, <1>9

\* An age reaches a window when the ticks of the window are over.
LEMMA MillisecondsAtLeast ==
    ASSUME NEW a \in Int, NEW w \in Nat, a >= w * TicksPerMs
    PROVE  Milliseconds(a) >= w
<1>1. TicksPerMs \in Nat \ {0}  BY WindowAssumption
<1>2. w * TicksPerMs \in Nat  BY <1>1
<1>3. a \in Nat  BY <1>2
<1> QED  BY <1>1, <1>3, DivAtLeast DEF Milliseconds

-----------------------------------------------------------------------------
\* The smallest of some numbers.

\* A set of naturals has a least element: the initial segments up to its
\* elements are finite, so one of them has no smaller one.
LEMMA MinIsLeast ==
    ASSUME NEW S \in SUBSET Nat, S # {}
    PROVE  Min(S) \in S /\ \A x \in S : Min(S) <= x
<1> DEFINE Upto == {0 .. x : x \in S}
<1>1. Upto \subseteq FiniteSubsetsOf(Nat) /\ Upto # {}
  <2>1. \A x \in S : 0 .. x \in SUBSET Nat /\ IsFiniteSet(0 .. x)  BY FS_Interval
  <2>2. \A x \in S : 0 .. x \in FiniteSubsetsOf(Nat)  BY <2>1 DEF FiniteSubsetsOf
  <2> QED  BY <2>2
<1>2. PICK A \in Upto : \A B \in Upto : ~ (<<B, A>> \in StrictSubsetOrdering(Nat))
  <2> HIDE DEF Upto
  <2> QED  BY <1>1, FS_StrictSubsetOrderingWellFounded, WFMin
<1>3. PICK x \in S : A = 0 .. x  BY <1>2
<1>4. ASSUME NEW y \in S, y < x PROVE FALSE
  <2> DEFINE B == 0 .. y
  <2>1. B \in Upto /\ B \in SUBSET Nat /\ A \in SUBSET Nat  BY <1>3
  <2>2. B \subseteq A  BY <1>3, <1>4
  <2>3. x \in A /\ x \notin B  BY <1>3, <1>4
  <2> HIDE DEF Upto, B
  <2>4. <<B, A>> \in StrictSubsetOrdering(Nat)  BY <2>1, <2>2, <2>3 DEF StrictSubsetOrdering
  <2> QED  BY <1>2, <2>1, <2>4
<1>5. \A y \in S : x <= y  BY <1>4
<1> QED  BY <1>5 DEF Min

\* std::min of the length of a queue and its batch size.
LEMMA MinOfTwo ==
    ASSUME NEW a \in Nat, NEW b \in Nat
    PROVE  Min({a, b}) = IF a <= b THEN a ELSE b
<1>1. Min({a, b}) \in {a, b} /\ \A x \in {a, b} : Min({a, b}) <= x  BY MinIsLeast
<1> QED  BY <1>1

-----------------------------------------------------------------------------
\* A queue: what an admission, an erasure and a cut do to it.  The last two
\* thin it out: what is left is what was at certain places, in that order.

Among(t, seq) == \E i \in DOMAIN seq : seq[i] = t

Thinned(s, r, kept) ==
    /\ kept \in [DOMAIN r -> DOMAIN s]
    /\ \A i \in DOMAIN r : r[i] = s[kept[i]]
    /\ \A i, j \in DOMAIN r : i < j => kept[i] < kept[j]

\* Without the entry a revocation erases.
LEMMA ErasedIsThinned ==
    ASSUME NEW S, NEW s \in Seq(S), NEW i \in DOMAIN s
    PROVE  /\ RemoveAt(s, i) \in Seq(S)
           /\ \E kept : /\ Thinned(s, RemoveAt(s, i), kept)
                        /\ \A k \in DOMAIN s :
                              k # i <=> \E j \in DOMAIN RemoveAt(s, i) : kept[j] = k
<1> DEFINE front == SubSeq(s, 1, i - 1)
           back  == SubSeq(s, i + 1, Len(s))
           rest  == front \o back
           kept  == [j \in 1 .. Len(s) - 1 |-> IF j < i THEN j ELSE j + 1]
<1>1. i \in 1 .. Len(s) /\ Len(s) \in Nat /\ DOMAIN s = 1 .. Len(s)  OBVIOUS
<1>2. /\ front \in Seq(S) /\ Len(front) = i - 1
      /\ \A j \in 1 .. i - 1 : front[j] = s[j]
  BY <1>1, SubSeqProperties, ElementOfSeq
<1>3. /\ back \in Seq(S) /\ Len(back) = Len(s) - i
      /\ \A j \in 1 .. Len(s) - i : back[j] = s[i + j]
  BY <1>1, SubSeqProperties, ElementOfSeq
<1>4. /\ rest \in Seq(S) /\ DOMAIN rest = 1 .. Len(s) - 1
      /\ \A j \in 1 .. Len(s) - 1 : rest[j] = s[kept[j]]
  <2> HIDE DEF front, back
  <2>1. /\ rest \in Seq(S) /\ Len(rest) = Len(front) + Len(back)
        /\ \A j \in 1 .. Len(front) + Len(back) :
              rest[j] = IF j <= Len(front) THEN front[j] ELSE back[j - Len(front)]
    BY <1>2, <1>3, ConcatProperties
  <2> HIDE DEF rest
  <2>2. Len(front) + Len(back) = Len(s) - 1  BY <1>1, <1>2, <1>3
  <2>3. rest \in Seq(S) /\ DOMAIN rest = 1 .. Len(s) - 1  BY <2>1, <2>2
  <2>4. ASSUME NEW j \in 1 .. Len(s) - 1 PROVE rest[j] = s[kept[j]]
    <3>1. rest[j] = IF j <= i - 1 THEN front[j] ELSE back[j - (i - 1)]  BY <1>2, <2>1, <2>2
    <3>2. CASE j < i  BY <1>1, <1>2, <3>1, <3>2
    <3>3. CASE ~ (j < i)
      <4>1. j - (i - 1) \in 1 .. Len(s) - i /\ i + (j - (i - 1)) = j + 1  BY <1>1, <3>3
      <4> QED  BY <1>1, <1>3, <3>1, <3>3, <4>1
    <3> QED  BY <3>2, <3>3
  <2> QED  BY <2>3, <2>4
<1> HIDE DEF rest
<1>5. Thinned(s, rest, kept)  BY <1>1, <1>4 DEF Thinned
<1>6. ASSUME NEW k \in DOMAIN s PROVE k # i <=> \E j \in DOMAIN rest : kept[j] = k
  <2>1. CASE k < i  BY <1>1, <1>4, <2>1
  <2>2. CASE k > i
    <3>1. k - 1 \in DOMAIN rest /\ kept[k - 1] = k  BY <1>1, <1>4, <2>2
    <3> QED  BY <2>2, <3>1
  <2>3. CASE k = i  BY <1>1, <1>4, <2>3
  <2> QED  BY <1>1, <2>1, <2>2, <2>3
<1>7. rest = RemoveAt(s, i)  BY DEF rest, RemoveAt
<1> HIDE DEF kept
<1> QED  BY <1>4, <1>5, <1>6, <1>7

\* What a selection leaves.
LEMMA CutIsThinned ==
    ASSUME NEW S, NEW s \in Seq(S), NEW n \in 0 .. Len(s)
    PROVE  LET rest == SubSeq(s, n + 1, Len(s))
           IN  /\ rest \in Seq(S)
               /\ \E kept : /\ Thinned(s, rest, kept)
                            /\ \A k \in DOMAIN s :
                                  k > n <=> \E j \in DOMAIN rest : kept[j] = k
<1> DEFINE rest == SubSeq(s, n + 1, Len(s))
           kept == [j \in 1 .. Len(s) - n |-> n + j]
<1>1. Len(s) \in Nat /\ DOMAIN s = 1 .. Len(s)  OBVIOUS
<1>2. /\ rest \in Seq(S) /\ DOMAIN rest = 1 .. Len(s) - n
      /\ \A j \in 1 .. Len(s) - n : rest[j] = s[n + j]
  BY <1>1, SubSeqProperties, ElementOfSeq
<1> HIDE DEF rest
<1>3. Thinned(s, rest, kept)  BY <1>1, <1>2 DEF Thinned
<1>4. ASSUME NEW k \in DOMAIN s PROVE k > n <=> \E j \in DOMAIN rest : kept[j] = k
  <2>1. CASE k > n
    <3>1. k - n \in DOMAIN rest /\ kept[k - n] = k  BY <1>1, <1>2, <2>1
    <3> QED  BY <2>1, <3>1
  <2>2. CASE ~ (k > n)  BY <1>1, <1>2, <2>2
  <2> QED  BY <2>1, <2>2
<1> HIDE DEF kept
<1> QED  BY <1>2, <1>3, <1>4 DEF rest

-----------------------------------------------------------------------------
(***************************************************************************)
(* The inductive invariant.  A queue holds each of its tasks once and in   *)
(* the order in which they were pushed; nobody is stamped or pushed in the *)
(* future, and nobody is pushed before being stamped; and a sleep that     *)
(* nothing has disturbed ends when some queue is due.                      *)
(***************************************************************************)
Types ==
    /\ clock \in 0 .. MaxClock
    /\ queues \in [Models -> [tasks : Seq(Tasks), max_batch_size : Nat \ {0},
                              batch_timeout_ms : Nat]]
    /\ stage \in [Tasks -> {"new", "stamped", "queued", "gone"}]
    /\ enqueued_at \in [Tasks -> Nat] /\ pushed_at \in [Tasks -> Nat]
    /\ pc \in {"nextReadyIn", "nextReadyInLocks", "sleeping", "selectLocks"}
    /\ now \in Nat /\ now <= clock
    /\ deadline \in Nat /\ undisturbed \in BOOLEAN

InLine(m) ==
    LET tasks == queues[m].tasks
    IN  /\ IsInjective(tasks)
        /\ \A t \in Tasks : Among(t, tasks) <=> stage[t] = "queued" /\ ModelOf[t] = m
        /\ \A i, j \in DOMAIN tasks : i <= j => pushed_at[tasks[i]] <= pushed_at[tasks[j]]

Stamped(t) ==
    /\ enqueued_at[t] <= clock /\ pushed_at[t] <= clock
    /\ stage[t] = "queued" => enqueued_at[t] <= pushed_at[t]

DueAt(m, at) ==
    /\ m \in Nonempty
    /\ SizeReady(m) \/ at >= enqueued_at[FrontTask(m)] + queues[m].batch_timeout_ms * TicksPerMs

WakesToWork ==
    undisturbed => /\ pc = "sleeping" => \E m \in Models : DueAt(m, deadline)
                   /\ pc = "selectLocks" => \E m \in Models : DueAt(m, now)

WInv ==
    /\ Types
    /\ \A m \in Models : InLine(m)
    /\ \A t \in Tasks : Stamped(t)
    /\ WakesToWork

-----------------------------------------------------------------------------
\* The queues.

\* A queue, its captured values, and its front if it has one.
LEMMA QueueType ==
    ASSUME Types, NEW m \in Models
    PROVE  /\ queues[m].tasks \in Seq(Tasks)
           /\ Len(queues[m].tasks) \in Nat
           /\ DOMAIN queues[m].tasks = 1 .. Len(queues[m].tasks)
           /\ queues[m].max_batch_size \in Nat \ {0}
           /\ queues[m].batch_timeout_ms \in Nat
           /\ m \in Nonempty => /\ Len(queues[m].tasks) \in Nat \ {0}
                                /\ FrontTask(m) = queues[m].tasks[1]
                                /\ FrontTask(m) \in Tasks
<1>1. /\ queues[m].tasks \in Seq(Tasks)
      /\ queues[m].max_batch_size \in Nat \ {0} /\ queues[m].batch_timeout_ms \in Nat
  BY DEF Types
<1> DEFINE tasks == queues[m].tasks
<1> HIDE DEF tasks
<1>2. Len(tasks) \in Nat /\ DOMAIN tasks = 1 .. Len(tasks)  BY <1>1, LenProperties DEF tasks
<1>3. tasks # <<>> => Len(tasks) \in Nat \ {0}  BY <1>1, EmptySeq DEF tasks
<1>4. ASSUME tasks # <<>> PROVE Head(tasks) = tasks[1] /\ tasks[1] \in Tasks
  BY <1>1, <1>3, <1>4, ElementOfSeq DEF tasks
<1> QED  BY <1>1, <1>2, <1>3, <1>4 DEF tasks, Nonempty, FrontTask

\* What stays in a queue, r, when the tasks of a set leave it.
Remainder(m, r, gone) ==
    /\ r \in Seq(Tasks)
    /\ \E kept : /\ Thinned(queues[m].tasks, r, kept)
                 /\ \A k \in DOMAIN queues[m].tasks :
                       queues[m].tasks[k] \notin gone <=> \E j \in DOMAIN r : kept[j] = k

\* When tasks leave a queue, what it keeps stays in line.
LEMMA LeaveQueue ==
    ASSUME WInv, NEW m \in Models, NEW r, NEW gone \in SUBSET Tasks,
           Remainder(m, r, gone),
           \A t \in gone : stage[t] = "queued" /\ ModelOf[t] = m,
           queues' = [queues EXCEPT ![m].tasks = r],
           Leave(gone), clock' = clock,
           pc' \in {"nextReadyIn", "nextReadyInLocks", "sleeping", "selectLocks"},
           now' \in Nat, now' <= clock, deadline' \in Nat, undisturbed' = FALSE
    PROVE  WInv'
<1>0. r \in Seq(Tasks)  BY DEF Remainder
<1> PICK kept : /\ Thinned(queues[m].tasks, r, kept)
                /\ \A k \in DOMAIN queues[m].tasks :
                      queues[m].tasks[k] \notin gone <=> \E j \in DOMAIN r : kept[j] = k
  BY DEF Remainder
<1> DEFINE s == queues[m].tasks
<1>1. s \in Seq(Tasks) /\ \A n \in Models : InLine(n)  BY QueueType DEF WInv
<1>2. Types'
  <2>1. stage' \in [Tasks -> {"new", "stamped", "queued", "gone"}]  BY DEF WInv, Types, Leave
  <2>2. enqueued_at' \in [Tasks -> Nat] /\ pushed_at' \in [Tasks -> Nat]
    BY DEF WInv, Types, Leave
  <2>3. queues' \in [Models -> [tasks : Seq(Tasks), max_batch_size : Nat \ {0},
                                batch_timeout_ms : Nat]]
    <3> DEFINE Q == [tasks : Seq(Tasks), max_batch_size : Nat \ {0}, batch_timeout_ms : Nat]
    <3>1. queues \in [Models -> Q]  BY DEF WInv, Types
    <3>2. [queues[m] EXCEPT !.tasks = r] \in Q  BY <1>0, <3>1
    <3> HIDE DEF Q
    <3> QED  BY <3>1, <3>2 DEF Q
  <2> QED  BY <2>1, <2>2, <2>3 DEF WInv, Types
<1>3. /\ \A t \in Tasks \ gone : /\ stage'[t] = stage[t] /\ pushed_at'[t] = pushed_at[t]
                                 /\ enqueued_at'[t] = enqueued_at[t]
      /\ \A t \in gone : stage'[t] = "gone" /\ pushed_at'[t] = 0 /\ enqueued_at'[t] = 0
  BY DEF Leave
<1>4. \A n \in Models : queues'[n].tasks = IF n = m THEN r ELSE queues[n].tasks
  BY DEF WInv, Types
<1>5. ASSUME NEW n \in Models PROVE InLine(n)'
  <2>1. CASE n # m
    <3>1. queues'[n].tasks = queues[n].tasks  BY <1>4, <2>1
    <3>2. ASSUME NEW i \in DOMAIN queues[n].tasks
          PROVE  queues[n].tasks[i] \in Tasks \ gone
      <4>1. queues[n].tasks[i] \in Tasks  BY QueueType, ElementOfSeq DEF WInv
      <4>2. Among(queues[n].tasks[i], queues[n].tasks)  BY DEF Among
      <4>3. ModelOf[queues[n].tasks[i]] = n  BY <1>1, <4>1, <4>2 DEF InLine
      <4> QED  BY <2>1, <4>1, <4>3
    <3>3. \A i \in DOMAIN queues[n].tasks :
             pushed_at'[queues[n].tasks[i]] = pushed_at[queues[n].tasks[i]]
      BY <1>3, <3>2
    <3>4. \A t \in Tasks : ModelOf[t] = n =>
             (stage'[t] = "queued" <=> stage[t] = "queued")
      BY <1>3, <2>1
    <3>5. \A t \in Tasks :
             Among(t, queues[n].tasks) <=> stage'[t] = "queued" /\ ModelOf[t] = n
      BY <1>1, <3>4 DEF InLine
    <3>6. \A i, j \in DOMAIN queues[n].tasks : i <= j =>
             pushed_at'[queues[n].tasks[i]] <= pushed_at'[queues[n].tasks[j]]
      BY <1>1, <3>3 DEF InLine
    <3> QED  BY <1>1, <3>1, <3>5, <3>6 DEF InLine
  <2>2. CASE n = m
    <3>1. queues'[n].tasks = r  BY <1>4, <2>2
    <3> HIDE DEF s
    <3>2. IsInjective(s) /\ DOMAIN s = 1 .. Len(s) /\ Len(s) \in Nat
      BY <1>1, QueueType DEF s, WInv, InLine
    <3>3. DOMAIN r = 1 .. Len(r) /\ Len(r) \in Nat  BY <1>0, LenProperties
    <3>4. /\ kept \in [DOMAIN r -> DOMAIN s]
          /\ \A i \in DOMAIN r : r[i] = s[kept[i]]
          /\ \A i, j \in DOMAIN r : i < j => kept[i] < kept[j]
      BY DEF Thinned, s
    <3>5. IsInjective(r)
      <4> SUFFICES ASSUME NEW i \in DOMAIN r, NEW j \in DOMAIN r, r[i] = r[j] PROVE i = j
        BY DEF IsInjective
      <4>1. kept[i] \in 1 .. Len(s) /\ kept[j] \in 1 .. Len(s) /\ kept[i] = kept[j]
        BY <3>2, <3>4 DEF IsInjective
      <4> QED  BY <3>3, <3>4, <4>1
    <3>6. \A i \in DOMAIN r : r[i] \in Tasks \ gone
      BY <1>1, <3>2, <3>3, <3>4, ElementOfSeq DEF s
    <3>7. ASSUME NEW t \in Tasks
          PROVE  Among(t, r) <=> stage'[t] = "queued" /\ ModelOf[t] = m
      <4>1. Among(t, s) <=> stage[t] = "queued" /\ ModelOf[t] = m  BY <1>1 DEF InLine, s
      <4>2. ASSUME Among(t, r) PROVE Among(t, s) /\ t \notin gone
        BY <3>4, <3>6, <4>2 DEF Among
      <4>3. ASSUME Among(t, s), t \notin gone PROVE Among(t, r)
        <5>1. PICK k \in DOMAIN s : s[k] = t  BY <4>3 DEF Among
        <5>2. PICK j \in DOMAIN r : kept[j] = k  BY <4>3, <5>1 DEF s
        <5> QED  BY <3>4, <5>1, <5>2 DEF Among
      <4> QED  BY <1>3, <4>1, <4>2, <4>3
    <3>8. ASSUME NEW i \in DOMAIN r, NEW j \in DOMAIN r, i <= j
          PROVE  pushed_at'[r[i]] <= pushed_at'[r[j]]
      <4>1. kept[i] <= kept[j] /\ kept[i] \in DOMAIN s /\ kept[j] \in DOMAIN s
        <5>1. kept[i] \in 1 .. Len(s) /\ kept[j] \in 1 .. Len(s)  BY <3>2, <3>4
        <5>2. i = j \/ i < j  BY <3>3, <3>8
        <5>3. i < j => kept[i] < kept[j]  BY <3>4
        <5> QED  BY <3>2, <5>1, <5>2, <5>3
      <4>2. pushed_at[s[kept[i]]] <= pushed_at[s[kept[j]]]  BY <1>1, <4>1 DEF InLine, s
      <4> QED  BY <1>3, <3>4, <3>6, <4>2
    <3> QED  BY <2>2, <3>1, <3>5, <3>7, <3>8 DEF InLine
  <2> QED  BY <2>1, <2>2
<1>6. ASSUME NEW t \in Tasks PROVE Stamped(t)'
  <2>1. Stamped(t) /\ clock \in Nat  BY DEF WInv, Types
  <2>2. CASE t \in gone  BY <1>3, <2>1, <2>2 DEF Stamped
  <2>3. CASE t \notin gone  BY <1>3, <2>1, <2>3 DEF Stamped
  <2> QED  BY <2>2, <2>3
<1>7. WakesToWork'  BY DEF WakesToWork
<1> QED  BY <1>2, <1>5, <1>6, <1>7 DEF WInv

\* revoke erases one entry, which is the only one of that task.
LEMMA RevokeWindow ==
    ASSUME WInv, NEW t \in Tasks, Revoke(t)
    PROVE  WInv'
<1>0. PICK m \in Models : \E i \in DOMAIN queues[m].tasks :
          /\ queues[m].tasks[i] = t
          /\ queues' = [queues EXCEPT ![m].tasks = RemoveAt(@, i)]
  BY DEF Revoke
<1>1. PICK i \in DOMAIN queues[m].tasks :
          /\ queues[m].tasks[i] = t
          /\ queues' = [queues EXCEPT ![m].tasks = RemoveAt(@, i)]
  BY <1>0
<1> DEFINE s == queues[m].tasks
           r == RemoveAt(s, i)
<1>2. s \in Seq(Tasks) /\ IsInjective(s) /\ InLine(m)  BY QueueType DEF WInv, InLine
<1>3. PICK kept : /\ Thinned(s, r, kept)
                  /\ \A k \in DOMAIN s : k # i <=> \E j \in DOMAIN r : kept[j] = k
  BY <1>2, ErasedIsThinned
<1>4. r \in Seq(Tasks)  BY <1>2, ErasedIsThinned
<1>5. \A k \in DOMAIN s : s[k] \notin {t} <=> k # i  BY <1>1, <1>2 DEF IsInjective
<1>6. stage[t] = "queued" /\ ModelOf[t] = m  BY <1>1, <1>2 DEF InLine, Among
<1>7. queues' = [queues EXCEPT ![m].tasks = r]  BY <1>1
<1> HIDE DEF r
<1>8. \A k \in DOMAIN queues[m].tasks :
         queues[m].tasks[k] \notin {t} <=> \E j \in DOMAIN r : kept[j] = k
  BY <1>3, <1>5
<1>9. /\ Leave({t}) /\ clock' = clock /\ pc' = pc /\ now' = now /\ deadline' = deadline
      /\ undisturbed' = FALSE
  BY DEF Revoke
<1>10. /\ pc \in {"nextReadyIn", "nextReadyInLocks", "sleeping", "selectLocks"}
       /\ now \in Nat /\ now <= clock /\ deadline \in Nat
  BY DEF WInv, Types
<1>11. /\ {t} \in SUBSET Tasks
       /\ \A u \in {t} : stage[u] = "queued" /\ ModelOf[u] = m
       /\ pc' \in {"nextReadyIn", "nextReadyInLocks", "sleeping", "selectLocks"}
       /\ now' \in Nat /\ now' <= clock /\ deadline' \in Nat
  BY <1>6, <1>9, <1>10
<1>12. Remainder(m, r, {t})  BY <1>3, <1>4, <1>8 DEF Remainder
<1> HIDE DEF s
<1> QED  BY <1>7, <1>9, <1>11, <1>12, LeaveQueue

\* select takes the first tasks of one queue.
LEMMA SelectWindow ==
    ASSUME WInv, NEW m \in Models, Select(m)
    PROVE  WInv'
<1> DEFINE s == queues[m].tasks
           size == Min({Len(s), queues[m].max_batch_size})
           r == SubSeq(s, size + 1, Len(s))
           gone == {s[i] : i \in 1 .. size}
<1>1. s \in Seq(Tasks) /\ IsInjective(s) /\ InLine(m)  BY QueueType DEF WInv, InLine
<1>2. Len(s) \in Nat /\ DOMAIN s = 1 .. Len(s) /\ queues[m].max_batch_size \in Nat
  BY QueueType DEF WInv
<1>3. size \in 0 .. Len(s)
  <2> DEFINE a == Len(s)
             b == queues[m].max_batch_size
  <2>1. a \in Nat /\ b \in Nat  BY <1>2
  <2>2. size = Min({a, b})  OBVIOUS
  <2> HIDE DEF a, b, size
  <2>3. size \in 0 .. a  BY <2>1, <2>2, MinOfTwo
  <2> QED  BY <2>3 DEF a
<1>4. PICK kept : /\ Thinned(s, r, kept)
                  /\ \A k \in DOMAIN s : k > size <=> \E j \in DOMAIN r : kept[j] = k
  BY <1>1, <1>3, CutIsThinned
<1>5. r \in Seq(Tasks)  BY <1>1, <1>3, CutIsThinned
<1>6. /\ queues' = [queues EXCEPT ![m].tasks = r] /\ Leave(gone)
      /\ clock' = clock /\ pc' = "nextReadyIn" /\ now' = 0 /\ deadline' = deadline
      /\ undisturbed' = FALSE
  BY DEF Select
<1> HIDE DEF size, r
<1>7. \A k \in DOMAIN s : s[k] \notin gone <=> k > size
  BY <1>1, <1>2, <1>3 DEF IsInjective
<1>8. \A t \in gone : t \in Tasks /\ stage[t] = "queued" /\ ModelOf[t] = m
  <2> SUFFICES ASSUME NEW i \in 1 .. size
               PROVE  s[i] \in Tasks /\ stage[s[i]] = "queued" /\ ModelOf[s[i]] = m
    OBVIOUS
  <2>1. i \in DOMAIN s /\ s[i] \in Tasks  BY <1>1, <1>2, <1>3, ElementOfSeq
  <2>2. Among(s[i], s)  BY <2>1 DEF Among
  <2> QED  BY <1>1, <2>1, <2>2 DEF InLine
<1>9. gone \in SUBSET Tasks  BY <1>8
<1> HIDE DEF gone
<1>10. \A k \in DOMAIN queues[m].tasks :
          queues[m].tasks[k] \notin gone <=> \E j \in DOMAIN r : kept[j] = k
  BY <1>4, <1>7
<1>11. clock \in Nat /\ deadline \in Nat  BY DEF WInv, Types
<1>12. Remainder(m, r, gone)  BY <1>4, <1>5, <1>10 DEF Remainder
<1>13. /\ pc' \in {"nextReadyIn", "nextReadyInLocks", "sleeping", "selectLocks"}
       /\ now' \in Nat /\ now' <= clock /\ deadline' \in Nat
  BY <1>6, <1>11
<1> HIDE DEF s
<1> QED  BY <1>6, <1>8, <1>9, <1>12, <1>13, LeaveQueue

\* clear leaves no task queued.
LEMMA ClearWindow ==
    ASSUME WInv, Clear
    PROVE  WInv'
<1>1. DefaultTimeoutMs \in Nat  BY WindowAssumption
<1>2. Types'
  <2>1. queues' \in [Models -> [tasks : Seq(Tasks), max_batch_size : Nat \ {0},
                                batch_timeout_ms : Nat]]
    BY <1>1, EmptySeq DEF Clear, EmptyQueue
  <2>2. /\ stage' \in [Tasks -> {"new", "stamped", "queued", "gone"}]
        /\ enqueued_at' \in [Tasks -> Nat] /\ pushed_at' \in [Tasks -> Nat]
    BY DEF WInv, Types, Clear, Leave
  <2> QED  BY <2>1, <2>2 DEF WInv, Types, Clear
<1>3. \A t \in Tasks : stage'[t] # "queued"  BY DEF Clear, Leave
<1>4. ASSUME NEW m \in Models PROVE InLine(m)'
  <2>1. queues'[m].tasks = <<>>  BY DEF Clear, EmptyQueue
  <2>2. DOMAIN queues'[m].tasks = {}  BY <2>1
  <2> QED  BY <1>3, <2>2 DEF InLine, IsInjective, Among
<1>5. ASSUME NEW t \in Tasks PROVE Stamped(t)'
  <2>1. Stamped(t) /\ clock \in Nat /\ clock' = clock  BY DEF WInv, Types, Clear
  <2>2. enqueued_at'[t] \in {0, enqueued_at[t]} /\ pushed_at'[t] \in {0, pushed_at[t]}
    BY DEF Clear, Leave
  <2> QED  BY <1>3, <2>1, <2>2 DEF Stamped
<1> QED  BY <1>2, <1>4, <1>5 DEF WInv, Clear, WakesToWork

-----------------------------------------------------------------------------
\* Time passes, and tasks are stamped and pushed: what is due stays due.

\* Stamps grow old.
LEMMA TickWindow ==
    ASSUME WInv, Tick
    PROVE  WInv'
<1>1. MaxClock \in Nat  BY WindowAssumption
<1>2. /\ clock' = clock + 1 /\ clock \in Nat
      /\ Types'
  BY <1>1 DEF WInv, Types, Tick, dispatcherVars
<1>3. \A m \in Models : InLine(m)'  BY DEF WInv, InLine, Tick
<1>4. ASSUME NEW t \in Tasks PROVE Stamped(t)'
  <2>1. Stamped(t) /\ enqueued_at[t] \in Nat /\ pushed_at[t] \in Nat  BY DEF WInv, Types
  <2> QED  BY <1>2, <2>1 DEF Stamped, Tick
<1>5. WakesToWork'
  BY DEF WInv, WakesToWork, DueAt, Nonempty, SizeReady, FrontTask, Tick, dispatcherVars
<1> QED  BY <1>2, <1>3, <1>4, <1>5 DEF WInv

\* A task that is only stamped is in no queue, so no front changes its age.
LEMMA ConstructWindow ==
    ASSUME WInv, NEW t \in Tasks, Construct(t)
    PROVE  WInv'
<1>1. Types'  BY DEF WInv, Types, Construct, dispatcherVars
<1>2. ASSUME NEW m \in Models PROVE InLine(m)'
  <2>1. \A u \in Tasks : stage'[u] = "queued" <=> stage[u] = "queued"
    BY DEF WInv, Types, Construct
  <2>2. queues' = queues /\ pushed_at' = pushed_at /\ InLine(m)  BY DEF Construct, WInv
  <2> QED  BY <2>1, <2>2 DEF InLine
<1>3. ASSUME NEW u \in Tasks PROVE Stamped(u)'
  <2>1. Stamped(u) /\ clock \in Nat /\ clock' = clock /\ pushed_at' = pushed_at
    BY DEF WInv, Types, Construct
  <2>2. CASE u = t  BY <2>1, <2>2 DEF WInv, Types, Construct, Stamped
  <2>3. CASE u # t  BY <2>1, <2>3 DEF WInv, Types, Construct, Stamped
  <2> QED  BY <2>2, <2>3
<1>4. ASSUME NEW m \in Models, NEW at \in Nat, DueAt(m, at) PROVE DueAt(m, at)'
  <2>1. FrontTask(m) \in Tasks /\ queues' = queues /\ m \in Nonempty
    BY <1>4, QueueType DEF WInv, DueAt, Construct
  <2>2. stage[FrontTask(m)] = "queued"
    <3>1. Among(FrontTask(m), queues[m].tasks)
      BY <2>1, QueueType DEF WInv, Among
    <3> QED  BY <2>1, <3>1 DEF WInv, InLine
  <2>3. FrontTask(m) # t  BY <2>2 DEF Construct
  <2>4. enqueued_at'[FrontTask(m)] = enqueued_at[FrontTask(m)]
    BY <2>1, <2>3 DEF Construct, WInv, Types
  <2> QED  BY <1>4, <2>1, <2>4 DEF DueAt, Nonempty, SizeReady, FrontTask
<1>5. WakesToWork'
  <2>1. PICK d \in Nat, n \in Nat : d = deadline /\ n = now  BY DEF WInv, Types
  <2>2. d = deadline' /\ n = now' /\ pc' = pc /\ undisturbed' = undisturbed
    BY <2>1 DEF Construct, dispatcherVars
  <2> QED  BY <1>4, <2>1, <2>2 DEF WInv, WakesToWork
<1> QED  BY <1>1, <1>2, <1>3, <1>5 DEF WInv

\* The queue an admission pushes to: its window is new only if it is empty.
LEMMA QueueToPush ==
    ASSUME Types, NEW m \in Models,
           NEW queue \in {queues[m]} \cup {Captured(queues[m], conf) : conf \in Confs}
    PROVE  /\ queue \in [tasks : Seq(Tasks), max_batch_size : Nat \ {0}, batch_timeout_ms : Nat]
           /\ queue.tasks = queues[m].tasks
           /\ m \in Nonempty => queue = queues[m]
<1> DEFINE Q == [tasks : Seq(Tasks), max_batch_size : Nat \ {0}, batch_timeout_ms : Nat]
<1>1. queues[m] \in Q  BY DEF Types
<1>2. CASE queue = queues[m]  BY <1>1, <1>2
<1>3. CASE \E conf \in Confs : queue = Captured(queues[m], conf)
  <2>1. PICK conf \in Confs : queue = Captured(queues[m], conf)  BY <1>3
  <2>2. conf.max_batch_size \in Nat /\ conf.batch_timeout_ms \in Nat  BY WindowAssumption
  <2>3. CASE queues[m].tasks # <<>>  BY <1>1, <2>1, <2>3 DEF Captured
  <2>4. CASE queues[m].tasks = <<>>
    <3> DEFINE size == IF conf.max_batch_size > 0 THEN conf.max_batch_size ELSE 1
    <3>1. queue = [queues[m] EXCEPT !.max_batch_size = size,
                                    !.batch_timeout_ms = conf.batch_timeout_ms]
      BY <2>1, <2>4 DEF Captured
    <3>2. size \in Nat \ {0}  BY <2>2
    <3> HIDE DEF size
    <3> QED  BY <1>1, <2>2, <2>4, <3>1, <3>2 DEF Nonempty
  <2> QED  BY <2>3, <2>4
<1> QED  BY <1>2, <1>3

\* The pushed task is the last and the youngest by its push; a queue that had
\* a front keeps it, and its window.
LEMMA AdmitWindow ==
    ASSUME WInv, NEW t \in Tasks, Admit(t)
    PROVE  WInv'
<1> DEFINE m == ModelOf[t]
           s == queues[m].tasks
           r == Append(s, t)
           Q == [tasks : Seq(Tasks), max_batch_size : Nat \ {0}, batch_timeout_ms : Nat]
<1>1. m \in Models /\ stage[t] = "stamped"  BY WindowAssumption DEF Admit
<1>2. PICK queue \in {queues[m]} \cup {Captured(queues[m], conf) : conf \in Confs} :
          queues' = [queues EXCEPT ![m] = [queue EXCEPT !.tasks = Append(@, t)]]
  BY DEF Admit
<1>3. /\ queue \in Q /\ queue.tasks = s
      /\ m \in Nonempty => queue = queues[m]
  BY <1>1, QueueToPush DEF WInv
<1>4. /\ s \in Seq(Tasks) /\ Len(s) \in Nat /\ DOMAIN s = 1 .. Len(s)
      /\ InLine(m)
  BY <1>1, QueueType DEF WInv
<1>5. /\ r \in Seq(Tasks) /\ DOMAIN r = 1 .. Len(s) + 1
      /\ \A i \in 1 .. Len(s) : r[i] = s[i]
      /\ r[Len(s) + 1] = t
  BY <1>4, AppendProperties, LenProperties
<1> HIDE DEF r, s
<1>6. queues' = [queues EXCEPT ![m] = [queue EXCEPT !.tasks = r]]  BY <1>2, <1>3 DEF r
<1>7. queues \in [Models -> Q]  BY DEF WInv, Types
<1>8. /\ queues' \in [Models -> Q]
      /\ queues'[m].tasks = r
      /\ queues'[m].max_batch_size = queue.max_batch_size
      /\ queues'[m].batch_timeout_ms = queue.batch_timeout_ms
      /\ \A n \in Models : n # m => queues'[n] = queues[n]
  BY <1>1, <1>3, <1>5, <1>6, <1>7
<1>9. /\ clock' = clock /\ enqueued_at' = enqueued_at
      /\ pc' = pc /\ now' = now /\ deadline' = deadline /\ undisturbed' = undisturbed
      /\ \A u \in Tasks : u # t => stage'[u] = stage[u] /\ pushed_at'[u] = pushed_at[u]
      /\ stage'[t] = "queued" /\ pushed_at'[t] = clock
  BY DEF WInv, Types, Admit, dispatcherVars
<1>10. Types'
  <2>1. stage' \in [Tasks -> {"new", "stamped", "queued", "gone"}]  BY DEF WInv, Types, Admit
  <2>2. pushed_at' \in [Tasks -> Nat]  BY DEF WInv, Types, Admit
  <2> QED  BY <1>8, <1>9, <2>1, <2>2 DEF WInv, Types
<1>11. \A n \in Models : ~ Among(t, queues[n].tasks)  BY <1>1 DEF WInv, InLine
<1>12. \A i \in 1 .. Len(s) : s[i] \in Tasks /\ s[i] # t
  BY <1>1, <1>4, <1>11, ElementOfSeq DEF Among, s
<1>13. ASSUME NEW n \in Models PROVE InLine(n)'
  <2>1. InLine(n)  BY DEF WInv
  <2>2. CASE n # m
    <3> DEFINE tasks == queues[n].tasks
    <3>1. queues'[n].tasks = tasks  BY <1>8, <2>2
    <3>2. \A i \in DOMAIN tasks : tasks[i] \in Tasks /\ tasks[i] # t
      BY <1>11, QueueType, ElementOfSeq DEF Among, WInv
    <3>3. \A i \in DOMAIN tasks : pushed_at'[tasks[i]] = pushed_at[tasks[i]]  BY <1>9, <3>2
    <3>4. \A u \in Tasks : ModelOf[u] = n => (stage'[u] = "queued" <=> stage[u] = "queued")
      BY <1>9, <2>2
    <3>5. \A u \in Tasks : Among(u, tasks) <=> stage'[u] = "queued" /\ ModelOf[u] = n
      BY <2>1, <3>4 DEF InLine
    <3>6. \A i, j \in DOMAIN tasks : i <= j => pushed_at'[tasks[i]] <= pushed_at'[tasks[j]]
      BY <2>1, <3>3 DEF InLine
    <3> QED  BY <2>1, <3>1, <3>5, <3>6 DEF InLine
  <2>3. CASE n = m
    <3>1. /\ IsInjective(s)
          /\ \A u \in Tasks : Among(u, s) <=> stage[u] = "queued" /\ ModelOf[u] = m
          /\ \A i, j \in DOMAIN s : i <= j => pushed_at[s[i]] <= pushed_at[s[j]]
      BY <1>4 DEF InLine, s
    <3>2. IsInjective(r)
      <4> SUFFICES ASSUME NEW i \in 1 .. Len(s) + 1, NEW j \in 1 .. Len(s) + 1, r[i] = r[j]
                   PROVE  i = j
        BY <1>5 DEF IsInjective
      <4>1. CASE i \in 1 .. Len(s) /\ j \in 1 .. Len(s)
        BY <1>4, <1>5, <3>1, <4>1 DEF IsInjective
      <4>2. CASE i = Len(s) + 1 /\ j \in 1 .. Len(s)  BY <1>5, <1>12, <4>2
      <4>3. CASE i \in 1 .. Len(s) /\ j = Len(s) + 1  BY <1>5, <1>12, <4>3
      <4>4. CASE i = Len(s) + 1 /\ j = Len(s) + 1  BY <4>4
      <4> QED  BY <1>4, <4>1, <4>2, <4>3, <4>4
    <3>3. ASSUME NEW u \in Tasks
          PROVE  Among(u, r) <=> stage'[u] = "queued" /\ ModelOf[u] = m
      <4>1. Among(u, r) <=> Among(u, s) \/ u = t  BY <1>4, <1>5 DEF Among
      <4> QED  BY <1>9, <3>1, <4>1
    <3>4. ASSUME NEW i \in 1 .. Len(s) + 1, NEW j \in 1 .. Len(s) + 1, i <= j
          PROVE  pushed_at'[r[i]] <= pushed_at'[r[j]]
      <4>1. clock \in Nat  BY DEF WInv, Types
      <4>2. \A k \in 1 .. Len(s) : /\ pushed_at'[r[k]] = pushed_at[s[k]]
                                   /\ pushed_at[s[k]] <= clock
        BY <1>5, <1>9, <1>12 DEF WInv, Stamped
      <4>3. CASE j \in 1 .. Len(s)
        <5>1. i \in 1 .. Len(s)  BY <1>4, <3>4, <4>3
        <5> QED  BY <1>4, <3>1, <3>4, <4>2, <4>3, <5>1
      <4>4. CASE i \in 1 .. Len(s) /\ j = Len(s) + 1  BY <1>5, <1>9, <4>2, <4>4
      <4>5. CASE i = Len(s) + 1 /\ j = Len(s) + 1  BY <1>5, <1>9, <4>1, <4>5
      <4> QED  BY <1>4, <3>4, <4>3, <4>4, <4>5
    <3> QED  BY <1>5, <1>8, <2>3, <3>2, <3>3, <3>4 DEF InLine
  <2> QED  BY <2>2, <2>3
<1>14. ASSUME NEW u \in Tasks PROVE Stamped(u)'
  <2>1. Stamped(u) /\ clock \in Nat  BY DEF WInv, Types
  <2> QED  BY <1>9, <2>1 DEF Stamped
<1>15. ASSUME NEW n \in Models, NEW at \in Nat, DueAt(n, at) PROVE DueAt(n, at)'
  <2>1. CASE n # m
    BY <1>8, <1>9, <1>15, <2>1 DEF DueAt, Nonempty, SizeReady, FrontTask
  <2>2. CASE n = m
    <3>1. m \in Nonempty /\ queue = queues[m] /\ s # <<>>
      BY <1>3, <1>15, <2>2 DEF DueAt, Nonempty, s
    <3>2. Len(s) \in Nat \ {0} /\ FrontTask(m) = s[1]
      BY <1>1, <3>1, QueueType DEF WInv, s
    <3>3. r # <<>> /\ Head(r) = r[1] /\ r[1] = s[1] /\ Len(r) = Len(s) + 1
      BY <1>4, <1>5, <3>2, AppendProperties DEF r
    <3>4. m \in Nonempty' /\ FrontTask(m)' = FrontTask(m)
      BY <1>1, <1>8, <3>2, <3>3 DEF Nonempty, FrontTask
    <3>5. SizeReady(m) => SizeReady(m)'
      <4>1. queues[m].max_batch_size \in Nat  BY <1>1, QueueType DEF WInv
      <4> QED  BY <1>8, <3>1, <3>2, <3>3, <4>1 DEF SizeReady, s
    <3> QED  BY <1>8, <1>9, <1>15, <2>2, <3>1, <3>4, <3>5 DEF DueAt
  <2> QED  BY <2>1, <2>2
<1>16. WakesToWork'
  <2>1. PICK d \in Nat, n \in Nat : d = deadline /\ n = now  BY DEF WInv, Types
  <2>2. d = deadline' /\ n = now' /\ pc' = pc /\ undisturbed' = undisturbed  BY <1>9, <2>1
  <2> QED  BY <1>15, <2>1, <2>2 DEF WInv, WakesToWork
<1> QED  BY <1>10, <1>13, <1>14, <1>16 DEF WInv

-----------------------------------------------------------------------------
\* The dispatcher.

\* The front is queued and stamped no later than anything behind it was pushed.
LEMMA FrontStamp ==
    ASSUME WInv, NEW m \in Nonempty
    PROVE  /\ FrontTask(m) \in Tasks /\ stage[FrontTask(m)] = "queued"
           /\ enqueued_at[FrontTask(m)] \in Nat /\ enqueued_at[FrontTask(m)] <= clock
           /\ \A i \in DOMAIN queues[m].tasks :
                 /\ pushed_at[queues[m].tasks[i]] \in Nat
                 /\ enqueued_at[FrontTask(m)] <= pushed_at[queues[m].tasks[i]]
<1> DEFINE s == queues[m].tasks
<1>1. m \in Models  BY DEF Nonempty
<1>2. /\ s \in Seq(Tasks) /\ Len(s) \in Nat \ {0} /\ DOMAIN s = 1 .. Len(s)
      /\ FrontTask(m) = s[1] /\ s[1] \in Tasks /\ InLine(m)
  BY <1>1, QueueType DEF WInv
<1> HIDE DEF s
<1>3. stage[s[1]] = "queued"
  <2>1. Among(s[1], s)  BY <1>2 DEF Among
  <2> QED  BY <1>2, <2>1 DEF InLine, s
<1>4. /\ enqueued_at[s[1]] \in Nat /\ pushed_at[s[1]] \in Nat
      /\ enqueued_at[s[1]] <= clock /\ enqueued_at[s[1]] <= pushed_at[s[1]]
  BY <1>2, <1>3 DEF WInv, Types, Stamped
<1>5. ASSUME NEW i \in DOMAIN s
      PROVE  pushed_at[s[i]] \in Nat /\ enqueued_at[s[1]] <= pushed_at[s[i]]
  <2>1. s[i] \in Tasks  BY <1>2, ElementOfSeq
  <2>2. pushed_at[s[i]] \in Nat  BY <2>1 DEF WInv, Types
  <2>3. pushed_at[s[1]] <= pushed_at[s[i]]
    <3>1. 1 \in DOMAIN s /\ 1 <= i  BY <1>2
    <3> QED  BY <1>2, <3>1 DEF InLine, s
  <2> QED  BY <1>4, <2>2, <2>3
<1> QED  BY <1>2, <1>3, <1>4, <1>5 DEF s

\* A queue that is due is one select would take.
LEMMA DueIsReady ==
    ASSUME WInv, NEW m \in Models, NEW at \in Nat, DueAt(m, at)
    PROVE  Ready(m, at)
<1>1. m \in Nonempty  BY DEF DueAt
<1>2. CASE SizeReady(m)  BY <1>1, <1>2 DEF Ready
<1>3. CASE at >= enqueued_at[FrontTask(m)] + queues[m].batch_timeout_ms * TicksPerMs
  <2> DEFINE age == at - enqueued_at[FrontTask(m)]
             span == queues[m].batch_timeout_ms * TicksPerMs
  <2>1. enqueued_at[FrontTask(m)] \in Nat /\ queues[m].batch_timeout_ms \in Nat
    BY <1>1, FrontStamp, QueueType DEF WInv
  <2>2. span \in Nat  BY <2>1, WindowAssumption
  <2>3. at >= enqueued_at[FrontTask(m)] + span  BY <1>3
  <2>4. age \in Int /\ age >= span
    <3> HIDE DEF span
    <3> QED  BY <2>1, <2>2, <2>3
  <2> HIDE DEF age
  <2>5. Milliseconds(age) >= queues[m].batch_timeout_ms  BY <2>1, <2>4, MillisecondsAtLeast
  <2> QED  BY <1>1, <2>5 DEF Ready, Age, age
<1> QED  BY <1>2, <1>3 DEF DueAt

\* What nextReadyIn answers is a duration, and less than a day only for the
\* sake of some queue.
LEMMA NextReadyInReaches ==
    ASSUME WInv
    PROVE  /\ NextReadyIn \in Nat
           /\ NextReadyIn < DayMs =>
                 \E m \in Nonempty : SizeReady(m) \/ Remaining(m) <= NextReadyIn
<1>1. DayMs \in Nat  BY WindowAssumption
<1>2. \A m \in Nonempty : Remaining(m) \in Int
  <2> SUFFICES ASSUME NEW m \in Nonempty PROVE Remaining(m) \in Int  OBVIOUS
  <2>1. queues[m].batch_timeout_ms \in Nat  BY QueueType DEF WInv, Nonempty
  <2>2. now - enqueued_at[FrontTask(m)] \in Int  BY FrontStamp DEF WInv, Types
  <2>3. Age(m, now) \in Int  BY <2>2, MillisecondsMonotone DEF Age
  <2> QED  BY <2>1, <2>3 DEF Remaining
<1>3. CASE \E m \in Nonempty : SizeReady(m) \/ Remaining(m) <= 0
  <2>1. NextReadyIn = 0  BY <1>3 DEF NextReadyIn
  <2> QED  BY <1>3, <2>1
<1>4. CASE ~ \E m \in Nonempty : SizeReady(m) \/ Remaining(m) <= 0
  <2> DEFINE candidates == {DayMs} \cup {Remaining(m) : m \in Nonempty}
  <2>1. NextReadyIn = Min(candidates)  BY <1>4 DEF NextReadyIn
  <2>2. \A m \in Nonempty : Remaining(m) \in Nat  BY <1>2, <1>4
  <2>3. candidates \in SUBSET Nat /\ candidates # {}  BY <1>1, <2>2
  <2>4. NextReadyIn \in candidates
    <3> HIDE DEF candidates
    <3> QED  BY <2>1, <2>3, MinIsLeast
  <2>5. NextReadyIn \in Nat  BY <2>3, <2>4
  <2>6. NextReadyIn = DayMs \/ \E m \in Nonempty : NextReadyIn = Remaining(m)  BY <2>4
  <2> QED  BY <1>1, <2>5, <2>6
<1> QED  BY <1>3, <1>4

\* A step of the dispatcher's that touches no queue.
DispatcherOnly == UNCHANGED <<clock, queues, stage, enqueued_at, pushed_at>>

\* Such a step has only to say what the dispatcher will wake to.
LEMMA DispatcherMoves ==
    ASSUME WInv, DispatcherOnly,
           pc' \in {"nextReadyIn", "nextReadyInLocks", "sleeping", "selectLocks"},
           now' \in Nat, now' <= clock, deadline' \in Nat, undisturbed' \in BOOLEAN,
           WakesToWork'
    PROVE  WInv'
<1>1. Types'  BY DEF WInv, Types, DispatcherOnly
<1>2. \A m \in Models : InLine(m)'  BY DEF WInv, InLine, DispatcherOnly
<1>3. \A t \in Tasks : Stamped(t)'  BY DEF WInv, Stamped, DispatcherOnly
<1> QED  BY <1>1, <1>2, <1>3 DEF WInv

\* The sleep ends no sooner than the window of some front: an answer computed
\* from a clock read before the mutex errs on the late side, and so does one
\* computed from a truncated age.
LEMMA SleepWindow ==
    ASSUME WInv, Sleep
    PROVE  WInv'
<1>1. PICK n \in Nat : n = NextReadyIn  BY NextReadyInReaches
<1>2. /\ TicksPerMs \in Nat \ {0} /\ clock \in Nat /\ now \in Nat /\ now <= clock
      /\ n * TicksPerMs \in Nat
  BY <1>1, WindowAssumption DEF WInv, Types
<1>3. /\ DispatcherOnly /\ pc' = "sleeping" /\ now' = 0
      /\ deadline' = clock + n * TicksPerMs
      /\ undisturbed' = (n < DayMs)
  BY <1>1 DEF Sleep, DispatcherOnly
<1>4. ASSUME n < DayMs PROVE \E m \in Models : DueAt(m, deadline)'
  <2>1. PICK m \in Nonempty : SizeReady(m) \/ Remaining(m) <= n
    BY <1>1, <1>4, NextReadyInReaches
  <2>2. m \in Models  BY DEF Nonempty
  <2> DEFINE w == queues[m].batch_timeout_ms
             e == enqueued_at[FrontTask(m)]
  <2>3. w \in Nat /\ e \in Nat /\ e <= clock  BY <2>2, QueueType, FrontStamp DEF WInv
  <2>4. ASSUME Remaining(m) <= n PROVE clock + n * TicksPerMs >= e + w * TicksPerMs
    <3>1. w - Milliseconds(now - e) <= n  BY <2>4 DEF Remaining, Age
    <3> HIDE DEF w, e
    <3>2. CASE now >= e
      <4> DEFINE q == (now - e) \div TicksPerMs
      <4>1. now - e \in Nat  BY <1>2, <2>3, <3>2
      <4>2. q \in Nat /\ q * TicksPerMs <= now - e  BY <1>2, <4>1, DivBounds
      <4>3. w - q <= n  BY <3>1, <4>1 DEF Milliseconds
      <4> HIDE DEF q
      <4>4. w <= n + q  BY <2>3, <4>2, <4>3
      <4>5. w * TicksPerMs <= (n + q) * TicksPerMs /\ w * TicksPerMs \in Int
        BY <1>2, <2>3, <4>2, <4>4, TimesMonotone
      <4>6. (n + q) * TicksPerMs = n * TicksPerMs + q * TicksPerMs  BY <1>2, <4>2
      <4>7. q * TicksPerMs \in Nat  BY <1>2, <4>2
      <4> QED  BY <1>2, <2>3, <4>2, <4>5, <4>6, <4>7
    <3>3. CASE now < e
      <4>1. now - e \in Int /\ now - e <= 0  BY <1>2, <2>3, <3>3
      <4>2. - Milliseconds(now - e) \in Nat /\ Milliseconds(now - e) \in Int
        BY <4>1, MillisecondsMonotone
      <4>3. w <= n  BY <2>3, <3>1, <4>2
      <4>4. w * TicksPerMs <= n * TicksPerMs /\ w * TicksPerMs \in Int
        BY <1>2, <2>3, <4>3, TimesMonotone
      <4> QED  BY <1>2, <2>3, <4>4
    <3> QED  BY <1>2, <2>3, <3>2, <3>3
  <2>5. DueAt(m, deadline)'
    BY <1>3, <2>1, <2>4 DEF DueAt, DispatcherOnly, Nonempty, SizeReady, FrontTask
  <2> QED  BY <2>2, <2>5
<1>5. WakesToWork'  BY <1>3, <1>4 DEF WakesToWork
<1> QED  BY <1>2, <1>3, <1>5, DispatcherMoves

\* Time has not made the queue less due.
LEMMA WakeWindow ==
    ASSUME WInv, Wake \/ WakeEarly
    PROVE  WInv'
<1>1. /\ DispatcherOnly /\ pc = "sleeping" /\ pc' = "selectLocks"
      /\ now' = clock /\ deadline' = 0 /\ clock \in Nat
      /\ undisturbed' = FALSE \/ (undisturbed' = undisturbed /\ clock >= deadline)
  BY DEF WInv, Types, Wake, WakeEarly, DispatcherOnly
<1>2. undisturbed' \in BOOLEAN  BY <1>1 DEF WInv, Types
<1>3. ASSUME undisturbed' PROVE \E m \in Models : DueAt(m, now)'
  <2>1. undisturbed /\ clock >= deadline  BY <1>1, <1>3
  <2>2. PICK m \in Models : DueAt(m, deadline)  BY <1>1, <2>1 DEF WInv, WakesToWork
  <2> DEFINE due == enqueued_at[FrontTask(m)] + queues[m].batch_timeout_ms * TicksPerMs
  <2>3. due \in Nat
    <3>1. m \in Nonempty  BY <2>2 DEF DueAt
    <3>2. enqueued_at[FrontTask(m)] \in Nat /\ queues[m].batch_timeout_ms \in Nat
      BY <3>1, FrontStamp, QueueType DEF WInv
    <3>3. queues[m].batch_timeout_ms * TicksPerMs \in Nat  BY <3>2, WindowAssumption
    <3> QED  BY <3>2, <3>3
  <2>4. m \in Nonempty /\ (SizeReady(m) \/ deadline >= due)  BY <2>2 DEF DueAt
  <2>5. deadline >= due => clock >= due
    <3> HIDE DEF due
    <3> QED  BY <1>1, <2>1, <2>3 DEF WInv, Types
  <2>6. DueAt(m, now)'
    BY <1>1, <2>4, <2>5 DEF DueAt, DispatcherOnly, Nonempty, SizeReady, FrontTask
  <2> QED  BY <2>6
<1>4. WakesToWork'  BY <1>1, <1>3 DEF WakesToWork
<1> QED  BY <1>1, <1>2, <1>4, DispatcherMoves

\* Before the sleep and after a selection of nothing there is nothing to wake to.
LEMMA OtherDispatcherSteps ==
    ASSUME WInv, NextReadyInReadsClock \/ SelectNothing
    PROVE  WInv'
<1>1. clock \in Nat /\ deadline \in Nat /\ undisturbed \in BOOLEAN  BY DEF WInv, Types
<1>2. CASE NextReadyInReadsClock
  <2>1. /\ DispatcherOnly /\ pc' = "nextReadyInLocks" /\ now' = clock
        /\ deadline' = deadline /\ undisturbed' = undisturbed
    BY <1>2 DEF NextReadyInReadsClock, DispatcherOnly
  <2>2. WakesToWork'  BY <2>1 DEF WakesToWork
  <2>3. now' \in Nat /\ now' <= clock /\ deadline' \in Nat  BY <1>1, <2>1
  <2>4. undisturbed' \in BOOLEAN  BY <1>1, <2>1
  <2> QED  BY <2>1, <2>2, <2>3, <2>4, DispatcherMoves
<1>3. CASE SelectNothing
  <2>1. /\ DispatcherOnly /\ pc' = "nextReadyIn" /\ now' = 0
        /\ deadline' = deadline /\ undisturbed' = FALSE
    BY <1>3 DEF SelectNothing, DispatcherOnly
  <2>2. WakesToWork'  BY <2>1 DEF WakesToWork
  <2>3. now' \in Nat /\ now' <= clock /\ deadline' \in Nat  BY <1>1, <2>1
  <2>4. undisturbed' \in BOOLEAN  BY <1>1, <2>1
  <2> QED  BY <2>1, <2>2, <2>3, <2>4, DispatcherMoves
<1> QED  BY <1>2, <1>3

\* No task, no queue, no sleep.
LEMMA InitWindow == Init => WInv
<1> SUFFICES ASSUME Init PROVE WInv  OBVIOUS
<1>1. Types
  <2>1. queues \in [Models -> [tasks : Seq(Tasks), max_batch_size : Nat \ {0},
                               batch_timeout_ms : Nat]]
    BY WindowAssumption, EmptySeq DEF Init, EmptyQueue
  <2>2. /\ stage \in [Tasks -> {"new", "stamped", "queued", "gone"}]
        /\ enqueued_at \in [Tasks -> Nat] /\ pushed_at \in [Tasks -> Nat]
        /\ pc = "nextReadyIn"
        /\ now = 0 /\ clock = 0 /\ deadline = 0 /\ undisturbed = FALSE
    BY DEF Init
  <2>3. clock \in 0 .. MaxClock /\ now \in Nat /\ deadline \in Nat /\ now <= clock
    BY <2>2, WindowAssumption
  <2>4. undisturbed \in BOOLEAN  BY <2>2
  <2>5. pc \in {"nextReadyIn", "nextReadyInLocks", "sleeping", "selectLocks"}  BY <2>2
  <2> QED  BY <2>1, <2>2, <2>3, <2>4, <2>5 DEF Types
<1>2. ASSUME NEW m \in Models PROVE InLine(m)
  <2>1. queues[m].tasks = <<>>  BY DEF Init, EmptyQueue
  <2>2. DOMAIN queues[m].tasks = {}  BY <2>1
  <2>3. \A t \in Tasks : stage[t] # "queued"  BY DEF Init
  <2> QED  BY <2>2, <2>3 DEF InLine, IsInjective, Among
<1>3. \A t \in Tasks : Stamped(t)  BY DEF Init, Stamped
<1> QED  BY <1>1, <1>2, <1>3 DEF Init, WInv, WakesToWork

\* One lemma per action.
LEMMA NextWindow == WInv /\ [Next]_vars => WInv'
<1> SUFFICES ASSUME WInv, [Next]_vars PROVE WInv'  OBVIOUS
<1>1. CASE Tick  BY <1>1, TickWindow
<1>2. CASE Clear  BY <1>2, ClearWindow
<1>3. ASSUME NEW t \in Tasks, Construct(t) PROVE WInv'  BY <1>3, ConstructWindow
<1>4. ASSUME NEW t \in Tasks, Admit(t) PROVE WInv'  BY <1>4, AdmitWindow
<1>5. ASSUME NEW t \in Tasks, Revoke(t) PROVE WInv'  BY <1>5, RevokeWindow
<1>6. CASE NextReadyInReadsClock \/ SelectNothing  BY <1>6, OtherDispatcherSteps
<1>7. CASE Sleep  BY <1>7, SleepWindow
<1>8. CASE Wake \/ WakeEarly  BY <1>8, WakeWindow
<1>9. ASSUME NEW m \in Models, Select(m) PROVE WInv'  BY <1>9, SelectWindow
<1>10. CASE UNCHANGED vars
  BY <1>10 DEF vars, WInv, Types, InLine, Stamped, WakesToWork, DueAt, Nonempty, SizeReady,
               FrontTask
<1> QED  BY <1>1, <1>2, <1>3, <1>4, <1>5, <1>6, <1>7, <1>8, <1>9, <1>10 DEF Next

(***************************************************************************)
(* Queues in the order of pushing, stamps of the past, and sleeps that end *)
(* when a queue is due: admit, select, revoke, clear and nextReadyIn keep  *)
(* them, whenever they read the clock.                                     *)
(***************************************************************************)
THEOREM WindowHolds == Spec => []WInv
  BY InitWindow, NextWindow, PTL DEF Spec

-----------------------------------------------------------------------------
(***************************************************************************)
(* Types, and a task is in the queue of its model exactly while it is      *)
(* queued, once: revoke erases what it finds, select takes what it cuts.   *)
(***************************************************************************)
THEOREM WindowTypeCorrect == Spec => []TypeOK
<1>1. WInv => TypeOK
  <2> SUFFICES ASSUME WInv, NEW t \in Tasks
               PROVE  Cardinality({i \in DOMAIN queues[ModelOf[t]].tasks :
                                      queues[ModelOf[t]].tasks[i] = t})
                         = IF stage[t] = "queued" THEN 1 ELSE 0
    BY DEF WInv, Types, TypeOK
  <2> DEFINE s == queues[ModelOf[t]].tasks
             places == {i \in DOMAIN s : s[i] = t}
  <2>1. ModelOf[t] \in Models  BY WindowAssumption
  <2>2. IsInjective(s) /\ (Among(t, s) <=> stage[t] = "queued")
    BY <2>1 DEF WInv, InLine
  <2>3. CASE stage[t] = "queued"
    <3>1. PICK i \in DOMAIN s : s[i] = t  BY <2>2, <2>3 DEF Among
    <3>2. places = {i}  BY <2>2, <3>1 DEF IsInjective
    <3>3. Cardinality(places) = 1  BY <3>2, FS_Singleton
    <3> QED  BY <2>3, <3>3
  <2>4. CASE stage[t] # "queued"
    <3>1. places = {}  BY <2>2, <2>4 DEF Among
    <3>2. Cardinality(places) = 0  BY <3>1, FS_EmptySet
    <3> QED  BY <2>4, <3>2
  <2> QED  BY <2>3, <2>4
<1> QED  BY WindowHolds, <1>1, PTL

(***************************************************************************)
(* Nobody is kept past a window by those in front: the front was pushed no *)
(* later and stamped before it was pushed, so it is at least as old.       *)
(***************************************************************************)
THEOREM WindowCountsFromPush == Spec => []WindowFromPush
<1>1. WInv => WindowFromPush
  <2> SUFFICES ASSUME WInv, NEW m \in Nonempty, NEW i \in DOMAIN queues[m].tasks,
                      clock - pushed_at[queues[m].tasks[i]]
                         >= queues[m].batch_timeout_ms * TicksPerMs
               PROVE  Ready(m, clock)
    BY DEF WindowFromPush
  <2>1. m \in Models /\ clock \in Nat  BY DEF Nonempty, WInv, Types
  <2>2. PICK span \in Nat : span = queues[m].batch_timeout_ms * TicksPerMs
    <3>1. queues[m].batch_timeout_ms \in Nat  BY <2>1, QueueType DEF WInv
    <3> QED  BY <3>1, WindowAssumption
  <2>3. clock >= enqueued_at[FrontTask(m)] + span
    <3>1. /\ enqueued_at[FrontTask(m)] \in Nat /\ pushed_at[queues[m].tasks[i]] \in Nat
          /\ enqueued_at[FrontTask(m)] <= pushed_at[queues[m].tasks[i]]
      BY FrontStamp
    <3>2. clock - pushed_at[queues[m].tasks[i]] >= span  BY <2>2
    <3> QED  BY <2>1, <2>2, <3>1, <3>2
  <2>4. PICK at \in Nat : at = clock  BY <2>1
  <2>5. DueAt(m, at)  BY <2>2, <2>3, <2>4 DEF DueAt
  <2> QED  BY <2>1, <2>4, <2>5, DueIsReady
<1> QED  BY WindowHolds, <1>1, PTL

(***************************************************************************)
(* A dispatcher that has slept for what nextReadyIn answered, with no task *)
(* taken away meanwhile, finds a unit.                                     *)
(***************************************************************************)
THEOREM SleepIsEnough == Spec => []SleepSuffices
<1>1. WInv => SleepSuffices
  <2> SUFFICES ASSUME WInv, pc = "selectLocks", undisturbed
               PROVE  \E m \in Models : Ready(m, now)
    BY DEF SleepSuffices
  <2>1. PICK m \in Models : DueAt(m, now)  BY DEF WInv, WakesToWork
  <2>2. PICK at \in Nat : at = now  BY DEF WInv, Types
  <2> QED  BY <2>1, <2>2, DueIsReady
<1> QED  BY WindowHolds, <1>1, PTL

(***************************************************************************)
(* oldest_wait_ms never says less than any task of the window has waited,  *)
(* whenever the clock was read: ages within the clock do not wrap, and the *)
(* wrapped age of a front stamped later is no less than the nothing the    *)
(* others had waited by then.                                              *)
(***************************************************************************)
THEOREM WaitIsNotUnderReported == Spec => []WaitNotUnderReported
<1>1. WInv => WaitNotUnderReported
  <2> SUFFICES ASSUME WInv, NEW m \in Nonempty, NEW at \in 0 .. clock,
                      NEW i \in DOMAIN queues[m].tasks
               PROVE  OldestWaitMs(m, at) >= Milliseconds(at - pushed_at[queues[m].tasks[i]])
    BY DEF WaitNotUnderReported
  <2>1. PICK e \in Nat, p \in Nat :
           e = enqueued_at[FrontTask(m)] /\ p = pushed_at[queues[m].tasks[i]] /\ e <= p
    BY FrontStamp
  <2>2. /\ at \in Nat /\ at <= MaxClock /\ MaxClock \in Nat
        /\ UInt32s \in Nat \ {0} /\ MaxClock < UInt32s /\ TicksPerMs \in Nat \ {0}
    BY WindowAssumption DEF WInv, Types
  <2>3. /\ Milliseconds(at - e) \in Int /\ Milliseconds(at - p) \in Int
        /\ Milliseconds(at - p) <= Milliseconds(at - e)
        /\ at - p <= 0 => - Milliseconds(at - p) \in Nat
    <3>1. at - p \in Int /\ at - e \in Int /\ at - p <= at - e  BY <2>1, <2>2
    <3> QED  BY <3>1, MillisecondsMonotone
  <2>4. OldestWaitMs(m, at) = Milliseconds(at - e) % UInt32s  BY <2>1 DEF OldestWaitMs, Age
  <2>5. CASE at >= e
    <3> DEFINE q == (at - e) \div TicksPerMs
    <3>1. at - e \in Nat  BY <2>1, <2>2, <2>5
    <3>2. q \in Nat /\ q * TicksPerMs <= at - e  BY <2>2, <3>1, DivBounds
    <3>3. Milliseconds(at - e) = q  BY <3>1 DEF Milliseconds
    <3> HIDE DEF q
    <3>4. q <= q * TicksPerMs  BY <2>2, <3>2
    <3>5. q < UInt32s  BY <2>1, <2>2, <3>1, <3>2, <3>4
    <3>6. q % UInt32s = q  BY <2>2, <3>2, <3>5
    <3> QED  BY <2>1, <2>3, <2>4, <3>3, <3>6
  <2>6. CASE at < e
    <3>1. at - p <= 0  BY <2>1, <2>2, <2>6
    <3>2. Milliseconds(at - e) % UInt32s \in Nat  BY <2>2, <2>3
    <3> QED  BY <2>1, <2>3, <2>4, <3>1, <3>2
  <2> QED  BY <2>1, <2>2, <2>5, <2>6
<1> QED  BY WindowHolds, <1>1, PTL
=============================================================================
