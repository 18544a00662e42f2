---------------------------- MODULE KernelProofs ----------------------------
(***************************************************************************)
(* Proofs about the scheduler on its own, and about Kernel, which composes *)
(* it with the boot, the interrupts and the panic handler: for every       *)
(* quantum, tick counter, number of processes and, but for NominalOrder    *)
(* and KernelImplementsScheduler, every set of faults.                     *)
(*                                                                         *)
(* The argument is about the code that is left, todo, and is put together  *)
(* from facts about the pieces of code the boot and the handlers are made  *)
(* of. What the code owes is what it gives back before it takes it: todo   *)
(* owes whatever the kernel owns.                                          *)
(***************************************************************************)
EXTENDS Kernel, SchedulerHistory, CommonLemmas

-----------------------------------------------------------------------------
(***************************************************************************)
(* The scheduler.                                                          *)
(***************************************************************************)


\* What schedule() does to the queue, place by place: ids move one place
\* forward and the first goes last; the first process runs, the last is
\* stopped, the others keep their state.
LEMMA ScheduleRotates ==
  ASSUME NEW q \in Seq(Process), Len(q) >= 2
  PROVE  /\ schedule(q) \in Seq(Process)
         /\ Len(schedule(q)) = Len(q)
         /\ \A i \in 1..Len(q) - 1 : schedule(q)[i].id = q[i + 1].id
         /\ schedule(q)[Len(q)].id = q[1].id
         /\ schedule(q)[1].state = Running
         /\ schedule(q)[Len(q)].state = Stopped
         /\ \A i \in 2..Len(q) - 1 : schedule(q)[i].state = q[i + 1].state
<1> DEFINE r == Append(Tail(q), Head(q))
           t == [r EXCEPT ![Len(q)] = set_state(r[Len(q)], Stopped)]
           s == [t EXCEPT ![1] = set_state(t[1], Running)]
<1>1. /\ r \in Seq(Process)
      /\ Len(r) = Len(q)
      /\ \A i \in 1..Len(q) - 1 : r[i] = q[i + 1]
      /\ r[Len(q)] = q[1]
  OBVIOUS
<1>2. s = schedule(q)
  BY DEF schedule
<1> HIDE DEF r
<1>3. ASSUME NEW p \in Process, NEW st \in State
      PROVE  /\ set_state(p, st) \in Process
             /\ set_state(p, st).id = p.id
             /\ set_state(p, st).state = st
  BY DEF set_state, Process
<1>4. Running \in State /\ Stopped \in State
  BY DEF State
<1>5. \A i \in 1..Len(q) : r[i] \in Process
  BY <1>1
<1>6. /\ t \in Seq(Process)
      /\ Len(t) = Len(q)
      /\ \A i \in 1..Len(q) - 1 : t[i] = r[i]
      /\ t[Len(q)] = set_state(r[Len(q)], Stopped)
  BY <1>1, <1>3, <1>4, <1>5
<1> HIDE DEF t
<1>7. \A i \in 1..Len(q) : t[i] \in Process
  BY <1>6
<1>8. /\ s \in Seq(Process)
      /\ Len(s) = Len(q)
      /\ s[1] = set_state(t[1], Running)
      /\ \A i \in 2..Len(q) : s[i] = t[i]
  BY <1>3, <1>4, <1>6, <1>7
<1> HIDE DEF s
<1>9. /\ s[1].id = q[2].id
      /\ s[1].state = Running
      /\ s[Len(q)].id = q[1].id
      /\ s[Len(q)].state = Stopped
  <2>1. Len(q) \in Nat /\ 1 \in 1..Len(q) - 1 /\ Len(q) \in 2..Len(q)
    OBVIOUS
  <2>2. t[1] = q[2] /\ s[1] = set_state(t[1], Running)
    BY <1>1, <1>6, <1>8, <2>1
  <2>3. s[Len(q)] = set_state(q[1], Stopped)
    BY <1>1, <1>6, <1>8, <2>1
  <2>4. t[1] \in Process /\ q[1] \in Process
    BY <1>7, <2>1
  <2>5. s[1].id = t[1].id /\ s[1].state = Running
    BY <1>3, <1>4, <2>2, <2>4
  <2>6. s[Len(q)].id = q[1].id /\ s[Len(q)].state = Stopped
    BY <1>3, <1>4, <2>3, <2>4
  <2>7. QED
    BY <2>2, <2>5, <2>6
<1>10. \A i \in 2..Len(q) - 1 : s[i] = q[i + 1]
  BY <1>1, <1>6, <1>8
<1>11. \A i \in 1..Len(q) - 1 : s[i].id = q[i + 1].id
  BY <1>9, <1>10
<1>12. QED
  BY <1>2, <1>8, <1>9, <1>10, <1>11

\* What fork appends.
LEMMA ForkAppends ==
  ASSUME NEW q \in Seq(Process), Len(q) >= 1
  PROVE  /\ add(q, forked(q)) \in Seq(Process)
         /\ Len(add(q, forked(q))) = Len(q) + 1
         /\ \A i \in 1..Len(q) : add(q, forked(q))[i] = q[i]
         /\ add(q, forked(q))[Len(q) + 1].id = Len(q) + 1
         /\ add(q, forked(q))[Len(q) + 1].state = q[1].state
<1>1. q[1] \in Process
  OBVIOUS
<1>2. /\ forked(q) \in Process
      /\ forked(q).id = Len(q) + 1
      /\ forked(q).state = q[1].state
  BY <1>1 DEF forked, set_id, Process
<1>3. QED
  BY <1>2 DEF add

-----------------------------------------------------------------------------

\* Scheduler states stay well formed under timer_handler and fork.
THEOREM TypeCorrect == Spec => []TypeOK
<1> USE SchedulerAssumption
<1>1. Init => TypeOK
  BY DEF Init, TypeOK, Process, State, Running
<1>2. TypeOK /\ [Next]_vars => TypeOK'
  <2> SUFFICES ASSUME TypeOK, [Next]_vars PROVE TypeOK'
    OBVIOUS
  <2> USE DEF TypeOK
  <2>1. CASE TimerInterrupt
    <3>1. elapsed' \in 0..TickModulus - 1
      BY <2>1 DEF TimerInterrupt, increment
    <3>2. CASE Countdown
      BY <3>1, <3>2 DEF Countdown
    <3>3. CASE Swap
      BY <3>1, <3>3, ScheduleRotates DEF Swap
    <3>4. CASE NoSwap
      BY <3>1, <3>4 DEF NoSwap
    <3>5. QED
      BY <2>1, <3>2, <3>3, <3>4 DEF TimerInterrupt, tick
  <2>2. CASE fork
    BY <2>2, ForkAppends DEF fork
  <2>3. CASE UNCHANGED vars
    BY <2>3 DEF vars
  <2>4. QED
    BY <2>1, <2>2, <2>3 DEF Next
<1>3. QED
  BY <1>1, <1>2, PTL DEF Spec

\* Dense, in the form the two lemmas below establish it.
LEMMA DenseIntro ==
  ASSUME NEW q,
         \A i \in 1..Len(q) : q[i].id \in 1..Len(q),
         \A p \in 1..Len(q) : \E i \in 1..Len(q) : q[i].id = p,
         \A i, j \in 1..Len(q) : q[i].id = q[j].id => i = j
  PROVE  Dense(q)
<1>1. Ids(q) \subseteq 1..Len(q)
  BY DEF Ids
<1>2. 1..Len(q) \subseteq Ids(q)
  <2> SUFFICES ASSUME NEW p \in 1..Len(q) PROVE p \in Ids(q)
    OBVIOUS
  <2> PICK i \in 1..Len(q) : q[i].id = p
    OBVIOUS
  <2> QED
    BY DEF Ids
<1>3. Ids(q) = 1..Len(q)
  BY <1>1, <1>2
<1>4. QED
  BY <1>3 DEF Dense

\* What dense pids mean.
LEMMA DenseElim ==
  ASSUME NEW q, Dense(q)
  PROVE  /\ \A i \in 1..Len(q) : q[i].id \in 1..Len(q)
         /\ \A p \in 1..Len(q) : \E i \in 1..Len(q) : q[i].id = p
         /\ \A i, j \in 1..Len(q) : q[i].id = q[j].id => i = j
  BY DEF Dense, Ids

\* A rotation permutes the ids.
LEMMA ScheduleKeepsDense ==
  ASSUME NEW q \in Seq(Process), Len(q) >= 2, Dense(q)
  PROVE  Dense(schedule(q))
<1> DEFINE n == Len(q)
           s == schedule(q)
           src(k) == IF k = n THEN 1 ELSE k + 1
<1>1. n \in Nat /\ n >= 2 /\ Len(s) = n
  BY ScheduleRotates
<1>2. \A k \in 1..n : src(k) \in 1..n /\ s[k].id = q[src(k)].id
  BY <1>1, ScheduleRotates
<1>3. \A m \in 1..n : \E k \in 1..n : src(k) = m
  <2> SUFFICES ASSUME NEW m \in 1..n PROVE \E k \in 1..n : src(k) = m
    OBVIOUS
  <2>1. CASE m = 1
    <3>1. n \in 1..n /\ src(n) = m
      BY <1>1, <2>1
    <3>2. QED
      BY <3>1
  <2>2. CASE m # 1
    <3>1. m - 1 \in 1..n /\ src(m - 1) = m
      BY <1>1, <2>2
    <3>2. QED
      BY <3>1
  <2>3. QED
    BY <2>1, <2>2
<1>4. \A k, l \in 1..n : src(k) = src(l) => k = l
  BY <1>1
<1> HIDE DEF src, n, s
<1>5. /\ \A i \in 1..n : q[i].id \in 1..n
      /\ \A p \in 1..n : \E i \in 1..n : q[i].id = p
      /\ \A i, j \in 1..n : q[i].id = q[j].id => i = j
  BY DenseElim DEF n
<1>6. \A i \in 1..n : s[i].id \in 1..n
  BY <1>2, <1>5
<1>7. \A p \in 1..n : \E i \in 1..n : s[i].id = p
  <2> SUFFICES ASSUME NEW p \in 1..n PROVE \E i \in 1..n : s[i].id = p
    OBVIOUS
  <2>1. PICK k \in 1..n : q[k].id = p
    BY <1>5
  <2>2. PICK l \in 1..n : src(l) = k
    BY <1>3
  <2>3. s[l].id = p
    BY <1>2, <2>1, <2>2
  <2>4. QED
    BY <2>3
<1>8. \A i, j \in 1..n : s[i].id = s[j].id => i = j
  <2> SUFFICES ASSUME NEW i \in 1..n, NEW j \in 1..n, s[i].id = s[j].id
               PROVE  i = j
    OBVIOUS
  <2>1. src(i) \in 1..n /\ src(j) \in 1..n /\ q[src(i)].id = q[src(j)].id
    BY <1>2
  <2>2. src(i) = src(j)
    BY <2>1, <1>5
  <2>3. QED
    BY <2>2, <1>4
<1>9. Dense(s)
  BY <1>1, <1>6, <1>7, <1>8, DenseIntro
<1>10. QED
  BY <1>9 DEF s

\* The child's id, len + 1, is the one id missing from 1..len + 1.
LEMMA ForkKeepsDense ==
  ASSUME NEW q \in Seq(Process), Len(q) >= 1, Dense(q)
  PROVE  Dense(add(q, forked(q)))
<1> DEFINE n == Len(q)
           s == add(q, forked(q))
<1>1. /\ n \in Nat
      /\ Len(s) = n + 1
      /\ \A i \in 1..n : s[i].id = q[i].id
      /\ s[n + 1].id = n + 1
  BY ForkAppends
<1> HIDE DEF n, s
<1>0. /\ \A i \in 1..n : q[i].id \in 1..n
      /\ \A p \in 1..n : \E i \in 1..n : q[i].id = p
      /\ \A i, j \in 1..n : q[i].id = q[j].id => i = j
  BY DenseElim DEF n
<1>2. /\ \A i \in 1..n : s[i].id \in 1..n
      /\ \A p \in 1..n : \E i \in 1..n : s[i].id = p
      /\ \A i, j \in 1..n : s[i].id = s[j].id => i = j
  BY <1>0, <1>1
<1>3. \A i \in 1..n + 1 : i \in 1..n \/ i = n + 1
  BY <1>1
<1>4. \A i \in 1..n + 1 : s[i].id \in 1..n + 1
  BY <1>1, <1>2, <1>3
<1>5. \A p \in 1..n + 1 : \E i \in 1..n + 1 : s[i].id = p
  BY <1>1, <1>2, <1>3
<1>6. \A i, j \in 1..n + 1 : s[i].id = s[j].id => i = j
  BY <1>1, <1>2, <1>3
<1>7. Dense(s)
  BY <1>1, <1>4, <1>5, <1>6, DenseIntro
<1>8. QED
  BY <1>7 DEF s

\* Scheduler::fork never reuses the id of a live process, for any sequence of
\* forks and rotations.
THEOREM PidsStayDense == Spec => []PidsDense
<1>1. Init => PidsDense
  BY DEF Init, PidsDense, Dense, Ids
<1>2. TypeOK /\ PidsDense /\ [Next]_vars => PidsDense'
  <2> SUFFICES ASSUME TypeOK, PidsDense, [Next]_vars PROVE PidsDense'
    OBVIOUS
  <2>1. CASE Swap
    BY <2>1, ScheduleKeepsDense DEF Swap, PidsDense, TypeOK
  <2>2. CASE fork
    BY <2>2, ForkKeepsDense DEF fork, PidsDense, TypeOK
  <2>3. CASE UNCHANGED queue
    BY <2>3 DEF PidsDense
  <2>4. QED
    BY <2>1, <2>2, <2>3
    DEF Next, TimerInterrupt, tick, Countdown, NoSwap, vars
<1>3. QED
  BY <1>1, <1>2, TypeCorrect, PTL DEF Spec

-----------------------------------------------------------------------------

\* schedule() starts the process it brings to the front, and fork leaves the
\* front alone.
THEOREM FrontStaysRunning == Spec => []FrontRunning
<1>1. Init => FrontRunning
  BY DEF Init, FrontRunning
<1>2. TypeOK /\ FrontRunning /\ [Next]_vars => FrontRunning'
  <2> SUFFICES ASSUME TypeOK, FrontRunning, [Next]_vars PROVE FrontRunning'
    OBVIOUS
  <2> USE DEF FrontRunning
  <2>1. CASE Swap
    BY <2>1, ScheduleRotates DEF Swap, TypeOK
  <2>2. CASE fork
    <3>1. queue'[1] = queue[1]
      BY <2>2, ForkAppends DEF fork, TypeOK
    <3>2. QED
      BY <3>1
  <2>3. CASE UNCHANGED queue
    BY <2>3
  <2>4. QED
    BY <2>1, <2>2, <2>3
    DEF Next, TimerInterrupt, tick, Countdown, NoSwap, vars
<1>3. QED
  BY <1>1, <1>2, TypeCorrect, PTL DEF Spec

\* Neither timer_handler nor fork lets a process overtake another in line.
THEOREM FirstComeFirstServed == Spec => NoOvertaking
<1>1. ASSUME NEW q \in Seq(Process), Len(q) >= 2
      PROVE  InOrder(q, schedule(q))
  <2> SUFFICES ASSUME NEW i \in 1..Len(q), NEW j \in 1..Len(q), 1 < i, i < j
               PROVE  \E k, l \in 1..Len(schedule(q)) :
                        /\ k < l
                        /\ schedule(q)[k].id = q[i].id
                        /\ schedule(q)[l].id = q[j].id
    BY DEF InOrder
  <2>1. /\ i - 1 \in 1..Len(schedule(q)) /\ j - 1 \in 1..Len(schedule(q))
        /\ i - 1 \in 1..Len(q) - 1 /\ j - 1 \in 1..Len(q) - 1
        /\ i - 1 < j - 1 /\ (i - 1) + 1 = i /\ (j - 1) + 1 = j
    BY <1>1, ScheduleRotates
  <2>2. schedule(q)[i - 1].id = q[i].id /\ schedule(q)[j - 1].id = q[j].id
    BY <1>1, <2>1, ScheduleRotates
  <2>3. QED
    BY <2>1, <2>2
<1>2. ASSUME NEW q \in Seq(Process), NEW r \in Seq(Process), Len(r) >= Len(q),
             \A i \in 1..Len(q) : r[i] = q[i]
      PROVE  InOrder(q, r)
  BY <1>2 DEF InOrder
<1>3. TypeOK /\ [Next]_vars => InOrder(queue, queue')
  <2> SUFFICES ASSUME TypeOK, [Next]_vars PROVE InOrder(queue, queue')
    OBVIOUS
  <2>1. CASE Swap
    BY <2>1, <1>1 DEF Swap, TypeOK
  <2>2. CASE fork
    <3> DEFINE s == add(queue, forked(queue))
    <3>1. /\ s \in Seq(Process)
          /\ Len(s) >= Len(queue)
          /\ \A i \in 1..Len(queue) : s[i] = queue[i]
      BY <2>2, ForkAppends DEF fork, TypeOK
    <3> HIDE DEF s
    <3>2. InOrder(queue, s)
      BY <1>2, <3>1 DEF TypeOK
    <3>3. QED
      BY <2>2, <3>2 DEF fork, s
  <2>3. CASE UNCHANGED queue
    BY <2>3, <1>2 DEF TypeOK
  <2>4. QED
    BY <2>1, <2>2, <2>3
    DEF Next, TimerInterrupt, tick, Countdown, NoSwap, vars
<1>4. QED
  BY <1>3, TypeCorrect, PTL DEF Spec, NoOvertaking

-----------------------------------------------------------------------------

\* Two sequences of the same length with the same elements are the same.
LEMMA SameElements ==
  ASSUME NEW S, NEW s \in Seq(S), NEW t \in Seq(S), Len(s) = Len(t),
         \A i \in 1..Len(s) : s[i] = t[i]
  PROVE  s = t
  OBVIOUS

\* What the mapping makes of a queue.
LEMMA LineIsSeq ==
  ASSUME NEW q \in Seq(Process), Len(q) >= 1
  PROVE  /\ Line(q) \in Seq(Nat)
         /\ Len(Line(q)) = Len(q) - 1
         /\ \A i \in 1..Len(q) - 1 : Line(q)[i] = q[i + 1].id
         /\ \A i \in 1..Len(q) : q[i].id \in Nat
<1>1. \A i \in 1..Len(q) : q[i].id \in Nat
  <2>1. \A i \in 1..Len(q) : q[i] \in Process
    OBVIOUS
  <2>2. \A p \in Process : p.id \in Nat
    BY DEF Process
  <2>3. QED
    BY <2>1, <2>2
<1>2. QED
  BY <1>1 DEF Line

\* schedule() hands the CPU to the head of the line.
LEMMA ScheduleSwitches ==
  ASSUME NEW q \in Seq(Process), Len(q) >= 2
  PROVE  /\ Line(q) # <<>>
         /\ schedule(q)[1].id = Head(Line(q))
         /\ Line(schedule(q)) = Append(Tail(Line(q)), q[1].id)
<1> DEFINE s == schedule(q)
           w == Line(q)
           v == Append(Tail(w), q[1].id)
<1>1. /\ s \in Seq(Process)
      /\ Len(s) = Len(q)
      /\ \A i \in 1..Len(q) - 1 : s[i].id = q[i + 1].id
      /\ s[Len(q)].id = q[1].id
  BY ScheduleRotates
<1> HIDE DEF s
<1>2. /\ w \in Seq(Nat)
      /\ Len(w) = Len(q) - 1
      /\ \A i \in 1..Len(q) - 1 : w[i] = q[i + 1].id
      /\ q[1].id \in Nat
  BY LineIsSeq
<1>3. /\ Line(s) \in Seq(Nat)
      /\ Len(Line(s)) = Len(q) - 1
      /\ \A i \in 1..Len(q) - 1 : Line(s)[i] = s[i + 1].id
  BY <1>1, LineIsSeq
<1> HIDE DEF w
<1>4. w # <<>> /\ s[1].id = Head(w)
  BY <1>1, <1>2
<1>5. /\ v \in Seq(Nat)
      /\ Len(v) = Len(q) - 1
      /\ \A i \in 1..Len(q) - 2 : v[i] = w[i + 1]
      /\ v[Len(q) - 1] = q[1].id
  BY <1>2
<1> HIDE DEF v
<1>6. \A i \in 1..Len(q) - 1 : v[i] = Line(s)[i]
  <2> SUFFICES ASSUME NEW i \in 1..Len(q) - 1 PROVE v[i] = Line(s)[i]
    OBVIOUS
  <2>1. CASE i = Len(q) - 1
    BY <1>1, <1>3, <1>5, <2>1
  <2>2. CASE i # Len(q) - 1
    <3>1. i \in 1..Len(q) - 2 /\ i + 1 \in 1..Len(q) - 1
      BY <2>2
    <3>2. v[i] = q[(i + 1) + 1].id
      BY <1>2, <1>5, <3>1
    <3>3. Line(s)[i] = q[(i + 1) + 1].id
      BY <1>1, <1>3, <3>1
    <3>4. QED
      BY <3>2, <3>3
  <2>3. QED
    BY <2>1, <2>2
<1>7. Line(s) = v
  BY <1>3, <1>5, <1>6, SameElements
<1>8. QED
  BY <1>4, <1>7 DEF s, w, v

\* fork puts a name nobody has at the end of the line.
LEMMA ForkSpawns ==
  ASSUME NEW q \in Seq(Process), Len(q) >= 1, Dense(q)
  PROVE  /\ Line(add(q, forked(q))) = Append(Line(q), Len(q) + 1)
         /\ add(q, forked(q))[1].id = q[1].id
         /\ Len(q) + 1 # q[1].id
         /\ \A i \in 1..Len(Line(q)) : Line(q)[i] # Len(q) + 1
<1> DEFINE s == add(q, forked(q))
           v == Append(Line(q), Len(q) + 1)
<1>1. /\ s \in Seq(Process)
      /\ Len(s) = Len(q) + 1
      /\ \A i \in 1..Len(q) : s[i] = q[i]
      /\ s[Len(q) + 1].id = Len(q) + 1
  BY ForkAppends
<1> HIDE DEF s
<1>2. /\ Line(q) \in Seq(Nat)
      /\ Len(Line(q)) = Len(q) - 1
      /\ \A i \in 1..Len(q) - 1 : Line(q)[i] = q[i + 1].id
  BY LineIsSeq
<1>3. /\ Line(s) \in Seq(Nat)
      /\ Len(Line(s)) = Len(q)
      /\ \A i \in 1..Len(q) : Line(s)[i] = s[i + 1].id
  <2>1. Len(s) >= 1 /\ Len(s) - 1 = Len(q)
    BY <1>1
  <2>2. QED
    BY <1>1, <2>1, LineIsSeq
<1>4. /\ v \in Seq(Nat)
      /\ Len(v) = Len(q)
      /\ \A i \in 1..Len(q) - 1 : v[i] = Line(q)[i]
      /\ v[Len(q)] = Len(q) + 1
  BY <1>2
<1> HIDE DEF v
<1>5. \A i \in 1..Len(q) : v[i] = Line(s)[i]
  <2> SUFFICES ASSUME NEW i \in 1..Len(q) PROVE v[i] = Line(s)[i]
    OBVIOUS
  <2>1. CASE i = Len(q)
    BY <1>1, <1>3, <1>4, <2>1
  <2>2. CASE i # Len(q)
    <3>1. i \in 1..Len(q) - 1 /\ i + 1 \in 1..Len(q)
      BY <2>2
    <3>2. QED
      BY <1>1, <1>2, <1>3, <1>4, <3>1
  <2>3. QED
    BY <2>1, <2>2
<1>6. Line(s) = v
  BY <1>3, <1>4, <1>5, SameElements
<1>7. \A i \in 1..Len(q) : q[i].id # Len(q) + 1
  <2>1. \A i \in 1..Len(q) : q[i].id \in 1..Len(q)
    BY DenseElim, Zenon
  <2>2. Len(q) \in Nat
    OBVIOUS
  <2>3. QED
    BY <2>1, <2>2
<1>8. \A i \in 1..Len(Line(q)) : Line(q)[i] # Len(q) + 1
  <2> SUFFICES ASSUME NEW i \in 1..Len(q) - 1
               PROVE  Line(q)[i] # Len(q) + 1
    BY <1>2
  <2>1. i + 1 \in 1..Len(q)
    OBVIOUS
  <2>2. Line(q)[i] = q[i + 1].id
    BY <1>2
  <2>3. QED
    BY <1>7, <2>1, <2>2
<1>9. QED
  BY <1>1, <1>6, <1>7, <1>8 DEF s, v

\* The scheduler implements round robin: the queue's front is the process
\* with the CPU, the rest of it is the line. Ticks inside a quantum change
\* nothing that RoundRobin can see.
THEOREM SchedulerImplementsRoundRobin == Spec => ImplementsRoundRobin
<1> USE SchedulerAssumption
<1>1. Init => RR!Init
  BY DEF Init, RR!Init, Line
<1>2. TypeOK /\ PidsDense /\ [Next]_vars => [RR!Next]_(RR!vars)
  <2> SUFFICES ASSUME TypeOK, PidsDense, [Next]_vars PROVE [RR!Next]_(RR!vars)
    OBVIOUS
  <2>1. CASE Swap
    <3>1. RR!Switch
      BY <2>1, ScheduleSwitches DEF Swap, TypeOK, RR!Switch
    <3>2. QED
      BY <3>1 DEF RR!Next
  <2>2. CASE fork
    <3>1. /\ Line(queue') = Append(Line(queue), Len(queue) + 1)
          /\ queue'[1].id = queue[1].id
          /\ Len(queue) + 1 # queue[1].id
          /\ \A i \in 1..Len(Line(queue)) : Line(queue)[i] # Len(queue) + 1
      BY <2>2, ForkSpawns DEF fork, TypeOK, PidsDense
    <3>2. Len(queue) + 1 \in 1..MaxProcesses
      BY <2>2 DEF fork, TypeOK
    <3>3. Len(queue) + 1 \notin RR!Present
      BY <3>1 DEF RR!Present
    <3>4. RR!Spawn
      BY <3>1, <3>2, <3>3 DEF RR!Spawn
    <3>5. QED
      BY <3>4 DEF RR!Next
  <2>3. CASE UNCHANGED queue
    BY <2>3 DEF RR!vars
  <2>4. QED
    BY <2>1, <2>2, <2>3
    DEF Next, TimerInterrupt, tick, Countdown, NoSwap, vars
<1>3. QED
  BY <1>1, <1>2, TypeCorrect, PidsStayDense, PTL DEF Spec, ImplementsRoundRobin, RR!Spec

-----------------------------------------------------------------------------

\* The history variables record and do not restrict.
LEMMA HistoryStep == [HNext]_hvars => [Next]_vars
  BY DEF HNext, HTimerInterrupt, HFork, Next, hvars, vars

\* The history adds nothing to the behaviours of the scheduler.
LEMMA HistoryTypes == HSpec => [](TypeOK /\ PidsDense)
<1>1. HSpec => Spec
  BY HistoryStep, PTL DEF HSpec, HInit, Spec
<1>2. QED
  BY <1>1, TypeCorrect, PidsStayDense, PTL

\* The ids that have run are ids of the queue, so the id fork gives to a
\* child has never run; the front process has.
RanKnown ==
  /\ ran \subseteq 1..Len(queue)
  /\ queue[1].id \in ran

\* What has run is in the queue, and what was preempted is stopped.
LEMMA RanIsKnown == HSpec => [](RanKnown /\ PreemptedStopped)
<1> DEFINE IInv == RanKnown /\ PreemptedStopped
<1>1. HInit => IInv
  BY DEF HInit, Init, RanKnown, PreemptedStopped
<1>2. TypeOK /\ PidsDense /\ IInv /\ [HNext]_hvars => IInv'
  <2> SUFFICES ASSUME TypeOK, PidsDense, IInv, [HNext]_hvars PROVE IInv'
    OBVIOUS
  <2> DEFINE n == Len(queue)
  <2>0. /\ queue \in Seq(Process) /\ n \in Nat /\ n >= 1
        /\ \A i \in 1..n : queue[i].id \in 1..n
    BY DenseElim DEF TypeOK, PidsDense
  <2>1. CASE HTimerInterrupt /\ Swap
    <3> DEFINE s == schedule(queue)
    <3>1. /\ n >= 2 /\ queue' = s /\ Len(s) = n
          /\ \A i \in 1..n - 1 : s[i].id = queue[i + 1].id
          /\ s[n].state = Stopped
          /\ \A i \in 2..n - 1 : s[i].state = queue[i + 1].state
      BY <2>0, <2>1, ScheduleRotates DEF Swap
    <3> HIDE DEF s
    <3>2. s[1].id \in 1..n /\ ran' = ran \cup {s[1].id}
      BY <2>0, <2>1, <3>1 DEF HTimerInterrupt
    <3>3. RanKnown'
      BY <3>1, <3>2 DEF RanKnown
    <3>4. ASSUME NEW i \in 2..n, s[i].id \in ran' PROVE s[i].state = Stopped
      <4>1. CASE i = n
        BY <3>1, <4>1
      <4>2. CASE i # n
        <5>1. i \in 2..n - 1 /\ i + 1 \in 2..n /\ i \in 1..n - 1 /\ 1 \in 1..n - 1
          BY <2>0, <3>1, <4>2
        <5>2. s[i].id = queue[i + 1].id /\ s[1].id = queue[1 + 1].id
          BY <3>1, <5>1
        <5>3. i + 1 \in 1..n /\ 1 + 1 \in 1..n /\ i + 1 # 1 + 1
          BY <5>1, <3>1
        <5>4. queue[i + 1].id # queue[1 + 1].id
          BY <5>3 DEF PidsDense, Dense
        <5>5. queue[i + 1].id \in ran
          BY <3>2, <3>4, <5>2, <5>4
        <5>6. queue[i + 1].state = Stopped
          BY <5>1, <5>5 DEF PreemptedStopped
        <5>7. QED
          BY <3>1, <5>1, <5>6
      <4>3. QED
        BY <4>1, <4>2
    <3>5. PreemptedStopped'
      BY <3>1, <3>4 DEF PreemptedStopped
    <3>6. QED
      BY <3>3, <3>5
  <2>2. CASE HFork
    <3> DEFINE s == add(queue, forked(queue))
    <3>1. /\ queue' = s /\ ran' = ran /\ Len(s) = n + 1
          /\ \A i \in 1..n : s[i] = queue[i]
          /\ s[n + 1].id = n + 1
      BY <2>0, <2>2, ForkAppends DEF HFork, fork
    <3> HIDE DEF s
    <3>2. RanKnown'
      BY <2>0, <3>1 DEF RanKnown
    <3>3. ASSUME NEW i \in 2..n + 1, s[i].id \in ran PROVE s[i].state = Stopped
      <4>1. i # n + 1
        BY <2>0, <3>1, <3>3 DEF RanKnown
      <4>2. i \in 2..n /\ i \in 1..n
        BY <2>0, <4>1
      <4>3. QED
        BY <3>1, <3>3, <4>2 DEF PreemptedStopped
    <3>4. PreemptedStopped'
      BY <3>1, <3>3 DEF PreemptedStopped
    <3>5. QED
      BY <3>2, <3>4
  <2>3. CASE UNCHANGED <<queue, ran>>
    BY <2>3 DEF RanKnown, PreemptedStopped
  <2>4. CASE HTimerInterrupt /\ UNCHANGED queue
    <3>1. ran' = ran
      BY <2>4 DEF HTimerInterrupt, RanKnown
    <3>2. QED
      BY <2>3, <2>4, <3>1
  <2>5. QED
    BY <2>1, <2>2, <2>3, <2>4
    DEF HNext, HTimerInterrupt, TimerInterrupt, tick, Countdown, NoSwap, hvars, vars
<1>3. QED
  BY <1>1, <1>2, HistoryTypes, PTL DEF HSpec

\* Once preempted a process is never Running again until it is back at the
\* front, whatever it forked meanwhile.
THEOREM PreemptedStaysStopped == HSpec => []PreemptedStopped
  BY RanIsKnown, PTL

\* The tick that ends a slice and the tick counter that announces it agree:
\* the ticks of the slice and those left of the quantum always sum to it.
SliceBalanced == slice \in Nat /\ slice + remaining = Quantum

\* The ticks of a slice are its quantum's, counted down.
LEMMA SliceStaysBalanced == HSpec => []SliceBalanced
<1> USE SchedulerAssumption
<1>1. HInit => SliceBalanced
  BY DEF HInit, Init, SliceBalanced
<1>2. TypeOK /\ SliceBalanced /\ [HNext]_hvars => SliceBalanced'
  BY DEF TypeOK, SliceBalanced, HNext, HTimerInterrupt, HFork, TimerInterrupt,
         tick, Countdown, Swap, NoSwap, fork, hvars, vars
<1>3. QED
  BY <1>1, <1>2, HistoryTypes, PTL DEF HSpec

\* Every time slice lasts exactly Quantum + 1 ticks of timer_handler.
THEOREM SliceLength == HSpec => SliceIsQuantumPlusOne
<1> USE SchedulerAssumption
<1>1. TypeOK /\ SliceBalanced /\ [HNext]_hvars
        => [elapsed' # elapsed => (remaining' = Quantum <=> slice = Quantum)]_hvars
  BY DEF TypeOK, SliceBalanced, HNext, HTimerInterrupt, HFork, TimerInterrupt,
         tick, Countdown, Swap, NoSwap, fork, hvars, vars
<1>2. QED
  BY <1>1, SliceStaysBalanced, HistoryTypes, PTL DEF HSpec, SliceIsQuantumPlusOne

\* With any number of processes the types hold, a slice is never longer than
\* the quantum, and only ids that the scheduler gave out ever had the CPU.
THEOREM HistoryTypeCorrect == HSpec => []HTypeOK
<1>1. TypeOK /\ SliceBalanced /\ RanKnown => HTypeOK
  BY SchedulerAssumption DEF TypeOK, SliceBalanced, RanKnown, HTypeOK
<1>2. QED
  BY <1>1, HistoryTypes, SliceStaysBalanced, RanIsKnown, PTL

-----------------------------------------------------------------------------
(***************************************************************************)
(* Instructions.                                                           *)
(***************************************************************************)

Instruction ==
  ({"lock", "unlock"} \X Locks) \cup ({"force", "ready"} \X Lazies) \cup
  ({"alloc", "heap"} \X {"HEAP"}) \cup ({"eoi"} \X Irq) \cup ({"iret"} \X BOOLEAN) \cup
  ({"may", "idt", "lgdt", "set_reg", "star", "add", "sti", "cli", "hlt", "halt",
    "increment", "tick", "fork", "trap"} \X
   {"panic", "IDT", "GDT", "CS", "STAR", "kernel", "IF", "CPU", "TIMER", "SCHEDULER"})

\* What can be owned: a lock, a static that is being initialised, and an
\* interrupt request that is in service
Resource == ({"lock"} \X Locks) \cup ({"lazy"} \X Lazies)
Request == {"irq"} \X Irq

Takes(ins, r) == ins[1] = "lock" /\ r = <<"lock", ins[2]>>

Gives(ins, r) ==
  \/ ins[1] \in {"unlock", "alloc", "heap"} /\ r = <<"lock", ins[2]>>
  \/ ins[1] = "ready" /\ r = <<"lazy", ins[2]>>
  \/ ins[1] = "eoi" /\ r = <<"irq", ins[2]>>

\* The resource of the lowest rank that an instruction, or what it puts in
\* front of the code, waits for
Asks(ins) == ins[1] \in {"lock", "force", "tick", "trap"}
Wanted(ins) == IF ins[1] \in {"tick", "trap"} THEN "LOGGER" ELSE ins[2]

Enables(ins) == ins[1] = "sti" \/ (ins[1] = "iret" /\ ins[2] = TRUE)

\* From its i-th instruction on, s gives r back before it takes it.
Owes(s, i, r) ==
  \E k \in i..Len(s) : Gives(s[k], r) /\ \A j \in i..k - 1 : ~Takes(s[j], r)

\* Whatever is taken is given back before it is taken again.
Matched(s) ==
  \A i \in 1..Len(s) : \A r \in Resource : Takes(s[i], r) => Owes(s, i + 1, r)

\* And whatever is given back is taken again before it is given back again.
Even(s) ==
  \A i \in 1..Len(s) : \A r \in Resource : Gives(s[i], r) => ~Owes(s, i + 1, r)

\* Nothing is asked for while something of its rank or above is owed.
Ranked(s) ==
  \A i \in 1..Len(s) : Asks(s[i]) =>
    \A r \in Resource : Owes(s, i, r) => Rank[r[2]] < Rank[Wanted(s[i])]

\* All that s takes, gives back and asks for has rank b or above.
From(s, b) ==
  \A i \in 1..Len(s) :
    /\ Asks(s[i]) => b <= Rank[Wanted(s[i])]
    /\ \A r \in Resource : Gives(s[i], r) => b <= Rank[r[2]]

\* It leaves the interrupt flag off.
Quiet(s) == \A i \in 1..Len(s) : ~Enables(s[i])

\* A piece of code that is complete in itself
Code(s, b) ==
  /\ s \in Seq(Instruction)
  /\ Matched(s) /\ Even(s) /\ Ranked(s) /\ From(s, b) /\ Quiet(s)
  /\ \A r \in Resource : ~Owes(s, 1, r)

\* The ranks of the locks, and that everything lockable has one.
LEMMA RankIs ==
  /\ Rank["VIRTUAL_MANAGER"] = 1 /\ Rank["PHYSICAL_MANAGER"] = 2 /\ Rank["KEYBOARD"] = 3
  /\ Rank["VGA_CONSOLE"] = 4 /\ Rank["VGA"] = 5 /\ Rank["SERIAL_CONSOLE"] = 6
  /\ Rank["SERIAL"] = 7 /\ Rank["INITRD"] = 8 /\ Rank["SCHEDULER"] = 9
  /\ Rank["TIMER"] = 10 /\ Rank["LOGGER"] = 12 /\ Rank["HEAP"] = 13 /\ Rank["PICS"] = 11
  /\ \A x \in Locks \cup Lazies : Rank[x] \in Nat
  BY DEF Rank, Locks, Lazies

-----------------------------------------------------------------------------
(***************************************************************************)
(* One piece of code in front of another.                                  *)
(***************************************************************************)

\* The same, element by element
IsConcat(s, c, t) ==
  /\ s \in Seq(Instruction) /\ c \in Seq(Instruction) /\ t \in Seq(Instruction)
  /\ Len(s) \in Nat /\ Len(c) \in Nat /\ Len(t) \in Nat
  /\ Len(s) = Len(c) + Len(t)
  /\ \A i \in 1..Len(c) : s[i] = c[i]
  /\ \A i \in 1..Len(t) : s[i + Len(c)] = t[i]

\* Code put together is code.
LEMMA Concat ==
  ASSUME NEW c \in Seq(Instruction), NEW t \in Seq(Instruction)
  PROVE  IsConcat(c \o t, c, t)
<1>1. PICK s : s = c \o t
  OBVIOUS
<1>2. /\ s \in Seq(Instruction) /\ Len(s) = Len(c) + Len(t)
      /\ \A i \in 1..Len(c) + Len(t) : s[i] = IF i <= Len(c) THEN c[i] ELSE t[i - Len(c)]
  BY <1>1, ConcatProperties
<1>3. Len(c) \in Nat /\ Len(t) \in Nat
  BY LenProperties
<1>4. ASSUME NEW i \in 1..Len(c) PROVE s[i] = c[i]
  <2>1. i \in 1..Len(c) + Len(t) /\ i <= Len(c)
    BY <1>3
  <2> QED
    BY <1>2, <2>1
<1>5. ASSUME NEW i \in 1..Len(t) PROVE s[i + Len(c)] = t[i]
  <2>1. i + Len(c) \in 1..Len(c) + Len(t) /\ ~(i + Len(c) <= Len(c)) /\ i + Len(c) - Len(c) = i
    BY <1>3
  <2> QED
    BY <1>2, <2>1
<1> QED
  BY <1>1, <1>2, <1>3, <1>4, <1>5 DEF IsConcat

\* What the first part of two owes.
LEMMA OwesFront ==
  ASSUME NEW s, NEW c, NEW t, IsConcat(s, c, t), NEW i \in 1..Len(c) + 1, NEW r
  PROVE  /\ Owes(s, i, r) => Owes(c, i, r) \/ Owes(t, 1, r)
         /\ Owes(c, i, r) => Owes(s, i, r)
<1> USE DEF IsConcat
<1>1. ASSUME Owes(s, i, r) PROVE Owes(c, i, r) \/ Owes(t, 1, r)
  <2>1. PICK k \in i..Len(s) : Gives(s[k], r) /\ \A j \in i..k - 1 : ~Takes(s[j], r)
    BY <1>1 DEF Owes
  <2>2. CASE k <= Len(c)
    <3>1. k \in i..Len(c) /\ k \in 1..Len(c)
      BY <2>2
    <3>2. \A j \in i..k - 1 : j \in 1..Len(c)
      BY <3>1
    <3> QED
      BY <2>1, <3>1, <3>2 DEF Owes
  <2>3. CASE ~(k <= Len(c))
    <3>1. k - Len(c) \in 1..Len(t) /\ (k - Len(c)) + Len(c) = k
      BY <2>3
    <3>2. Gives(t[k - Len(c)], r)
      BY <2>1, <3>1
    <3>3. ASSUME NEW j \in 1..k - Len(c) - 1 PROVE ~Takes(t[j], r)
      <4>1. j \in 1..Len(t) /\ j + Len(c) \in i..k - 1
        BY <3>1
      <4> QED
        BY <2>1, <4>1
    <3> QED
      BY <3>1, <3>2, <3>3 DEF Owes
  <2> QED
    BY <2>2, <2>3
<1>2. ASSUME Owes(c, i, r) PROVE Owes(s, i, r)
  <2>1. PICK k \in i..Len(c) : Gives(c[k], r) /\ \A j \in i..k - 1 : ~Takes(c[j], r)
    BY <1>2 DEF Owes
  <2>2. k \in 1..Len(c) /\ k \in i..Len(s) /\ \A j \in i..k - 1 : j \in 1..Len(c)
    OBVIOUS
  <2> QED
    BY <2>1, <2>2 DEF Owes
<1> QED
  BY <1>1, <1>2

\* What the second part of two owes.
LEMMA OwesBack ==
  ASSUME NEW s, NEW c, NEW t, IsConcat(s, c, t), NEW i \in 1..Len(t) + 1, NEW r
  PROVE  Owes(s, i + Len(c), r) <=> Owes(t, i, r)
<1> USE DEF IsConcat
<1>1. ASSUME Owes(s, i + Len(c), r) PROVE Owes(t, i, r)
  <2>1. PICK k \in i + Len(c)..Len(s) :
          Gives(s[k], r) /\ \A j \in i + Len(c)..k - 1 : ~Takes(s[j], r)
    BY <1>1 DEF Owes
  <2>2. k - Len(c) \in i..Len(t) /\ k - Len(c) \in 1..Len(t) /\ (k - Len(c)) + Len(c) = k
    OBVIOUS
  <2>3. ASSUME NEW j \in i..k - Len(c) - 1 PROVE ~Takes(t[j], r)
    <3>1. j \in 1..Len(t) /\ j + Len(c) \in i + Len(c)..k - 1
      BY <2>2
    <3> QED
      BY <2>1, <3>1
  <2>4. Gives(t[k - Len(c)], r)
    BY <2>1, <2>2
  <2> QED
    BY <2>2, <2>3, <2>4 DEF Owes
<1>2. ASSUME Owes(t, i, r) PROVE Owes(s, i + Len(c), r)
  <2>1. PICK k \in i..Len(t) : Gives(t[k], r) /\ \A j \in i..k - 1 : ~Takes(t[j], r)
    BY <1>2 DEF Owes
  <2>2. k \in 1..Len(t) /\ k + Len(c) \in i + Len(c)..Len(s) /\ Gives(s[k + Len(c)], r)
    BY <2>1
  <2>3. ASSUME NEW j \in i + Len(c)..k + Len(c) - 1 PROVE ~Takes(s[j], r)
    <3>1. j - Len(c) \in i..k - 1 /\ j - Len(c) \in 1..Len(t) /\ (j - Len(c)) + Len(c) = j
      OBVIOUS
    <3> QED
      BY <2>1, <3>1
  <2> QED
    BY <2>2, <2>3 DEF Owes
<1> QED
  BY <1>1, <1>2

\* What the code behind owes is still owed if the code in front does not
\* take it.
LEMMA OwesThrough ==
  ASSUME NEW s, NEW c, NEW t, IsConcat(s, c, t), NEW r, Owes(t, 1, r),
         \A i \in 1..Len(c) : ~Takes(c[i], r)
  PROVE  Owes(s, 1, r)
<1> USE DEF IsConcat
<1>1. PICK k \in 1..Len(t) : Gives(t[k], r) /\ \A j \in 1..k - 1 : ~Takes(t[j], r)
  BY DEF Owes
<1>0. PICK m : m = k + Len(c)
  OBVIOUS
<1>2. m \in 1..Len(s) /\ Gives(s[m], r)
  BY <1>0, <1>1
<1>3. ASSUME NEW j \in 1..m - 1 PROVE ~Takes(s[j], r)
  <2>1. CASE j \in 1..Len(c)
    BY <2>1
  <2>2. CASE ~(j \in 1..Len(c))
    <3>1. j - Len(c) \in 1..k - 1 /\ j - Len(c) \in 1..Len(t) /\ (j - Len(c)) + Len(c) = j
      BY <1>0, <2>2
    <3> QED
      BY <1>1, <3>1
  <2> QED
    BY <2>1, <2>2
<1> QED
  BY <1>2, <1>3 DEF Owes

\* An instruction of s is one of c or one of t.
LEMMA ConcatIndex ==
  ASSUME NEW s, NEW c, NEW t, IsConcat(s, c, t), NEW i \in 1..Len(s)
  PROVE  \/ i \in 1..Len(c) /\ s[i] = c[i]
         \/ /\ i - Len(c) \in 1..Len(t) /\ s[i] = t[i - Len(c)]
            /\ (i - Len(c)) + Len(c) = i /\ (i - Len(c) + 1) + Len(c) = i + 1
<1> USE DEF IsConcat
<1>1. CASE i <= Len(c)
  BY <1>1
<1>2. CASE ~(i <= Len(c))
  <2>1. /\ i - Len(c) \in 1..Len(t)
        /\ (i - Len(c)) + Len(c) = i /\ (i - Len(c) + 1) + Len(c) = i + 1
    BY <1>2
  <2> QED
    BY <2>1
<1> QED
  BY <1>1, <1>2

\* Two parts that give back what they take do so together.
LEMMA MatchedConcat ==
  ASSUME NEW s, NEW c, NEW t, IsConcat(s, c, t), Matched(c), Matched(t)
  PROVE  Matched(s)
<1> SUFFICES ASSUME NEW i \in 1..Len(s), NEW r \in Resource, Takes(s[i], r)
             PROVE  Owes(s, i + 1, r)
  BY DEF Matched
<1>1. CASE i \in 1..Len(c) /\ s[i] = c[i]
  <2>1. Owes(c, i + 1, r)
    BY <1>1 DEF Matched
  <2>2. i + 1 \in 1..Len(c) + 1
    BY <1>1 DEF IsConcat
  <2> QED
    BY <2>1, <2>2, OwesFront
<1>2. CASE /\ i - Len(c) \in 1..Len(t) /\ s[i] = t[i - Len(c)]
           /\ (i - Len(c) + 1) + Len(c) = i + 1
  <2>0. PICK n : n = i - Len(c)
    OBVIOUS
  <2>1. Owes(t, n + 1, r)
    BY <1>2, <2>0 DEF Matched
  <2>2. n + 1 \in 1..Len(t) + 1
    BY <1>2, <2>0 DEF IsConcat
  <2>3. Owes(s, (n + 1) + Len(c), r)
    BY <2>1, <2>2, OwesBack
  <2> QED
    BY <1>2, <2>0, <2>3
<1> QED
  BY <1>1, <1>2, ConcatIndex

\* Two parts of which the first gives back nothing that the second owes
LEMMA EvenConcat ==
  ASSUME NEW s, NEW c, NEW t, IsConcat(s, c, t), Even(c), Even(t),
         \A r \in Resource : Owes(t, 1, r) => \A i \in 1..Len(c) : ~Gives(c[i], r)
  PROVE  Even(s)
<1> SUFFICES ASSUME NEW i \in 1..Len(s), NEW r \in Resource, Gives(s[i], r), Owes(s, i + 1, r)
             PROVE  FALSE
  BY DEF Even
<1>1. CASE i \in 1..Len(c) /\ s[i] = c[i]
  <2>1. i + 1 \in 1..Len(c) + 1
    BY <1>1 DEF IsConcat
  <2>2. Owes(c, i + 1, r) \/ Owes(t, 1, r)
    BY <2>1, OwesFront
  <2> QED
    BY <1>1, <2>2 DEF Even
<1>2. CASE /\ i - Len(c) \in 1..Len(t) /\ s[i] = t[i - Len(c)]
           /\ (i - Len(c) + 1) + Len(c) = i + 1
  <2>0. PICK n : n = i - Len(c)
    OBVIOUS
  <2>1. n \in 1..Len(t) /\ n + 1 \in 1..Len(t) + 1
    BY <1>2, <2>0 DEF IsConcat
  <2>2. Owes(s, (n + 1) + Len(c), r)
    BY <1>2, <2>0
  <2>3. Owes(t, n + 1, r)
    BY <2>1, <2>2, OwesBack
  <2> QED
    BY <1>2, <2>0, <2>1, <2>3 DEF Even
<1> QED
  BY <1>1, <1>2, ConcatIndex

\* In particular if it starts above all that is owed behind it
LEMMA EvenAbove ==
  ASSUME NEW s, NEW c, NEW t, IsConcat(s, c, t), NEW b \in Nat, Even(c), Even(t), From(c, b),
         \A r \in Resource : Owes(t, 1, r) => Rank[r[2]] < b
  PROVE  Even(s)
<1>1. ASSUME NEW r \in Resource, Owes(t, 1, r), NEW i \in 1..Len(c), Gives(c[i], r) PROVE FALSE
  <2>1. b <= Rank[r[2]] /\ Rank[r[2]] < b
    BY <1>1 DEF From
  <2>2. Rank[r[2]] \in Nat
    BY RankIs DEF Resource
  <2> QED
    BY <2>1, <2>2
<1> QED
  BY <1>1, EvenConcat

\* Code whose ranks are above all that is owed behind it can go in front.
LEMMA RankedConcat ==
  ASSUME NEW s, NEW c, NEW t, IsConcat(s, c, t), NEW b \in Nat,
         Ranked(c), Ranked(t), From(c, b),
         \A r \in Resource : Owes(t, 1, r) => Rank[r[2]] < b
  PROVE  Ranked(s)
<1> SUFFICES ASSUME NEW i \in 1..Len(s), Asks(s[i]), NEW r \in Resource, Owes(s, i, r)
             PROVE  Rank[r[2]] < Rank[Wanted(s[i])]
  BY DEF Ranked
<1>1. CASE i \in 1..Len(c) /\ s[i] = c[i]
  <2>1. Owes(c, i, r) \/ Owes(t, 1, r)
    <3>1. i \in 1..Len(c) + 1
      BY <1>1 DEF IsConcat
    <3> QED
      BY <3>1, OwesFront
  <2>2. CASE Owes(c, i, r)
    BY <1>1, <2>2 DEF Ranked
  <2>3. CASE Owes(t, 1, r)
    <3>1. Rank[r[2]] < b /\ b <= Rank[Wanted(s[i])]
      BY <1>1, <2>3 DEF From
    <3>2. Rank[r[2]] \in Nat
      BY RankIs DEF Resource
    <3>3. Rank[Wanted(s[i])] \in Nat
      <4>1. s[i] \in Instruction
        BY DEF IsConcat
      <4> QED
        BY <4>1, RankIs DEF Instruction, Asks, Wanted
    <3> QED
      BY <3>1, <3>2, <3>3
  <2> QED
    BY <2>1, <2>2, <2>3
<1>2. CASE /\ i - Len(c) \in 1..Len(t) /\ s[i] = t[i - Len(c)]
           /\ (i - Len(c)) + Len(c) = i
  <2>0. PICK n : n = i - Len(c)
    OBVIOUS
  <2>1. n \in 1..Len(t) + 1
    BY <1>2, <2>0 DEF IsConcat
  <2>2. Owes(s, n + Len(c), r)
    BY <1>2, <2>0
  <2>3. Owes(t, n, r)
    BY <2>1, <2>2, OwesBack
  <2> QED
    BY <1>2, <2>0, <2>3 DEF Ranked
<1> QED
  BY <1>1, <1>2, ConcatIndex

\* Two parts that leave interrupts alone do so together.
LEMMA QuietConcat ==
  ASSUME NEW s, NEW c, NEW t, IsConcat(s, c, t), Quiet(c), Quiet(t)
  PROVE  Quiet(s)
  BY ConcatIndex DEF Quiet

\* Two parts that ask for nothing below a rank do so together.
LEMMA FromConcat ==
  ASSUME NEW s, NEW c, NEW t, IsConcat(s, c, t), NEW b, From(c, b), From(t, b)
  PROVE  From(s, b)
<1> SUFFICES ASSUME NEW i \in 1..Len(s)
             PROVE  /\ Asks(s[i]) => b <= Rank[Wanted(s[i])]
                    /\ \A r \in Resource : Gives(s[i], r) => b <= Rank[r[2]]
  BY DEF From
<1>1. CASE i \in 1..Len(c) /\ s[i] = c[i]
  BY <1>1 DEF From
<1>2. CASE i - Len(c) \in 1..Len(t) /\ s[i] = t[i - Len(c)]
  BY <1>2 DEF From
<1> QED
  BY <1>1, <1>2, ConcatIndex

\* So well-behaved code can be put together.
LEMMA CodeConcat ==
  ASSUME NEW c, NEW t, NEW b \in Nat, Code(c, b), Code(t, b)
  PROVE  Code(c \o t, b)
<1>1. PICK s : s = c \o t
  OBVIOUS
<1>2. IsConcat(s, c, t)
  BY <1>1, Concat DEF Code
<1>3. Matched(s)
  BY <1>2, MatchedConcat DEF Code
<1>4. Ranked(s) /\ Even(s)
  BY <1>2, RankedConcat, EvenConcat DEF Code
<1>5. From(s, b) /\ Quiet(s)
  BY <1>2, FromConcat, QuietConcat DEF Code
<1>6. ASSUME NEW r \in Resource PROVE ~Owes(s, 1, r)
  <2>1. 1 \in 1..Len(c) + 1
    BY <1>2 DEF IsConcat
  <2> QED
    BY <1>2, <2>1, OwesFront DEF Code
<1>7. s \in Seq(Instruction)
  BY <1>2 DEF IsConcat
<1> QED
  BY <1>1, <1>3, <1>4, <1>5, <1>6, <1>7 DEF Code

\* Code that starts at a rank starts at a lower one.
LEMMA CodeWeaken ==
  ASSUME NEW s, NEW a \in Nat, NEW b \in Nat, a <= b, Code(s, b)
  PROVE  Code(s, a)
<1>1. ASSUME NEW i \in 1..Len(s)
      PROVE  /\ Asks(s[i]) => a <= Rank[Wanted(s[i])]
             /\ \A r \in Resource : Gives(s[i], r) => a <= Rank[r[2]]
  <2>1. s[i] \in Instruction
    BY DEF Code
  <2>2. Asks(s[i]) => Rank[Wanted(s[i])] \in Nat
    BY <2>1, RankIs DEF Instruction, Asks, Wanted
  <2>3. \A r \in Resource : Rank[r[2]] \in Nat
    BY RankIs DEF Resource
  <2> QED
    BY <2>2, <2>3 DEF Code, From
<1>2. From(s, a)
  BY <1>1 DEF From
<1> QED
  BY <1>2 DEF Code

\* No code is well-behaved.
LEMMA CodeEmpty == ASSUME NEW b \in Nat PROVE Code(<<>>, b)
<1>1. PICK s : s = <<>>
  OBVIOUS
<1>2. s \in Seq(Instruction) /\ Len(s) = 0
  BY <1>1
<1>3. Matched(s) /\ Even(s) /\ Ranked(s) /\ From(s, b) /\ Quiet(s)
  BY <1>2 DEF Matched, Even, Ranked, From, Quiet
<1>4. \A r \in Resource : ~Owes(s, 1, r)
  BY <1>2 DEF Owes
<1> QED
  BY <1>1, <1>2, <1>3, <1>4 DEF Code

\* A single instruction that takes and gives nothing of a rank
Single == {"may", "idt", "lgdt", "set_reg", "star", "add", "cli", "halt",
           "increment", "fork", "trap", "eoi", "tick", "force"}

\* An instruction by itself is well-behaved.
LEMMA CodeOne ==
  ASSUME NEW ins \in Instruction, ins[1] \in Single, NEW b \in Nat,
         Asks(ins) => b <= Rank[Wanted(ins)]
  PROVE  Code(<<ins>>, b)
<1>1. PICK s : s = <<ins>>
  OBVIOUS
<1>2. s \in Seq(Instruction) /\ Len(s) = 1 /\ s[1] = ins
  BY <1>1
<1>3. \A r \in Resource : ~Takes(ins, r) /\ ~Gives(ins, r)
  BY DEF Takes, Gives, Single, Resource
<1>4. \A r \in Resource : ~Owes(s, 1, r)
  <2> SUFFICES ASSUME NEW r \in Resource, Owes(s, 1, r) PROVE FALSE
    OBVIOUS
  <2>1. PICK k \in 1..Len(s) : Gives(s[k], r)
    BY DEF Owes
  <2>2. k = 1
    BY <1>2
  <2> QED
    BY <1>2, <1>3, <2>1, <2>2
<1>5. \A i \in 1..Len(s) : i = 1
  BY <1>2
<1>6. Matched(s) /\ Even(s)
  BY <1>2, <1>3, <1>5 DEF Matched, Even
<1>7. Ranked(s)
  BY <1>4, <1>5 DEF Ranked
<1>8. From(s, b)
  BY <1>2, <1>3, <1>5 DEF From
<1>9. Quiet(s)
  <2>1. ~Enables(ins)
    BY DEF Single, Enables
  <2> QED
    BY <1>2, <1>5, <2>1 DEF Quiet
<1> QED
  BY <1>1, <1>2, <1>4, <1>6, <1>7, <1>8, <1>9 DEF Code

\* A lock taken, a body, and the lock given back: what is taken, then given
LEMMA CodeBracket ==
  ASSUME NEW x \in Locks, NEW body, NEW b \in Nat, Code(body, b), Rank[x] < b,
         NEW give \in Instruction, give[1] \in {"unlock", "alloc", "heap"}, give[2] = x
  PROVE  Code(<< <<"lock", x>> >> \o (body \o <<give>>), Rank[x])
<1>0. Rank[x] \in Nat /\ <<"lock", x>> \in Resource /\ \A r \in Resource : Rank[r[2]] \in Nat
  BY RankIs DEF Resource
<1>1. PICK last : last = <<give>>
  OBVIOUS
<1>2. last \in Seq(Instruction) /\ Len(last) = 1 /\ last[1] = give
  BY <1>1
<1>3. \A r \in Resource : Gives(give, r) <=> r = <<"lock", x>>
  BY <1>0 DEF Gives, Resource
<1>4. \A r \in Resource : Owes(last, 1, r) <=> r = <<"lock", x>>
  <2>1. \A k \in 1..Len(last) : k = 1
    BY <1>2
  <2>2. 1 \in 1..Len(last) /\ 1..0 = {}
    BY <1>2
  <2>3. ASSUME NEW r \in Resource, Owes(last, 1, r) PROVE r = <<"lock", x>>
    BY <1>2, <1>3, <2>1, <2>3 DEF Owes
  <2>4. Owes(last, 1, <<"lock", x>>)
    <3>1. Gives(last[1], <<"lock", x>>)
      BY <1>0, <1>2, <1>3
    <3>2. \A j \in 1..1 - 1 : FALSE
      OBVIOUS
    <3> QED
      BY <2>2, <3>1, <3>2 DEF Owes
  <2> QED
    BY <2>3, <2>4
<1>5. ~Asks(give) /\ ~Enables(give) /\ \A r : ~Takes(give, r)
  BY DEF Asks, Enables, Takes
<1>6. /\ Matched(last) /\ Even(last) /\ Ranked(last) /\ Quiet(last)
      /\ From(last, Rank[x])
  <2>1. \A k \in 1..Len(last) : last[k] = give
    BY <1>2
  <2>3. Even(last)
    <3>1. \A k \in 1..Len(last) : \A j \in k + 1..Len(last) : FALSE
      BY <1>2
    <3> QED
      BY <3>1 DEF Even, Owes
  <2>2. From(last, Rank[x])
    BY <1>0, <1>3, <1>5, <2>1 DEF From
  <2> QED
    BY <1>5, <2>1, <2>2, <2>3 DEF Matched, Ranked, Quiet
<1>7. PICK rest : rest = body \o last
  OBVIOUS
<1>8. IsConcat(rest, body, last)
  BY <1>2, <1>7, Concat DEF Code
<1>9. Matched(rest) /\ Quiet(rest)
  BY <1>6, <1>8, MatchedConcat, QuietConcat DEF Code
<1>10. Ranked(rest) /\ Even(rest)
  <2>1. \A r \in Resource : Owes(last, 1, r) => Rank[r[2]] < b
    BY <1>4
  <2> QED
    BY <1>6, <1>8, <2>1, RankedConcat, EvenAbove DEF Code
<1>11. From(rest, Rank[x])
  <2>1. Code(body, Rank[x])
    BY <1>0, CodeWeaken
  <2> QED
    BY <1>6, <1>8, <2>1, FromConcat DEF Code
<1>12. \A r \in Resource : Owes(rest, 1, r) <=> r = <<"lock", x>>
  <2>1. 1 \in 1..Len(body) + 1
    BY <1>8 DEF IsConcat
  <2>2. ASSUME NEW r \in Resource, Owes(rest, 1, r) PROVE r = <<"lock", x>>
    BY <1>4, <1>8, <2>1, <2>2, OwesFront DEF Code
  <2>3. \A i \in 1..Len(body) : ~Takes(body[i], <<"lock", x>>)
    <3> SUFFICES ASSUME NEW i \in 1..Len(body), Takes(body[i], <<"lock", x>>) PROVE FALSE
      OBVIOUS
    <3>1. Asks(body[i]) /\ Wanted(body[i]) = x
      BY DEF Takes, Asks, Wanted
    <3>2. b <= Rank[x]
      BY <3>1 DEF Code, From
    <3> QED
      BY <1>0, <3>2
  <2>4. Owes(rest, 1, <<"lock", x>>)
    BY <1>0, <1>4, <1>8, <2>3, OwesThrough
  <2> QED
    BY <2>2, <2>4
<1>13. PICK first : first = << <<"lock", x>> >>
  OBVIOUS
<1>14. first \in Seq(Instruction) /\ Len(first) = 1 /\ first[1] = <<"lock", x>>
  BY <1>13 DEF Instruction
<1>15. PICK s : s = first \o rest
  OBVIOUS
<1>16. IsConcat(s, first, rest)
  <2>1. rest \in Seq(Instruction)
    BY <1>8 DEF IsConcat
  <2> QED
    BY <1>14, <1>15, <2>1, Concat
<1>17. /\ s \in Seq(Instruction) /\ Len(rest) \in Nat /\ Len(s) = Len(rest) + 1
       /\ s[1] = <<"lock", x>> /\ 1 \in 1..Len(s)
  BY <1>14, <1>16 DEF IsConcat
<1>18. \A i \in 2..Len(s) : i - 1 \in 1..Len(rest) /\ s[i] = rest[i - 1]
  <2> SUFFICES ASSUME NEW i \in 2..Len(s) PROVE i - 1 \in 1..Len(rest) /\ s[i] = rest[i - 1]
    OBVIOUS
  <2>1. i - 1 \in 1..Len(rest) /\ (i - 1) + 1 = i
    BY <1>17
  <2> QED
    BY <1>14, <1>16, <2>1 DEF IsConcat
<1>19. \A i \in 1..Len(rest) + 1 : \A r : Owes(s, i + 1, r) <=> Owes(rest, i, r)
  BY <1>14, <1>16, OwesBack
<1>20. ASSUME NEW r \in Resource PROVE ~Owes(s, 1, r)
  <2> SUFFICES ASSUME Owes(s, 1, r) PROVE FALSE
    OBVIOUS
  <2>1. PICK k \in 1..Len(s) : Gives(s[k], r) /\ \A j \in 1..k - 1 : ~Takes(s[j], r)
    BY DEF Owes
  <2>2. k # 1
    BY <1>17, <2>1 DEF Gives
  <2>3. 1 \in 1..k - 1
    BY <1>17, <2>2
  <2>4. r # <<"lock", x>>
    BY <1>17, <2>1, <2>3 DEF Takes
  <2>5. \A j \in 2..k - 1 : j \in 1..k - 1
    OBVIOUS
  <2>6. Owes(s, 2, r)
    BY <1>17, <2>1, <2>2, <2>5 DEF Owes
  <2>7. Owes(rest, 1, r)
    <3>1. 1 \in 1..Len(rest) + 1 /\ 1 + 1 = 2
      BY <1>17
    <3> QED
      BY <1>19, <2>6, <3>1
  <2> QED
    BY <1>12, <2>4, <2>7
<1>21. Matched(s)
  <2> SUFFICES ASSUME NEW i \in 1..Len(s), NEW r \in Resource, Takes(s[i], r)
               PROVE  Owes(s, i + 1, r)
    BY DEF Matched
  <2>1. CASE i = 1
    <3>1. r = <<"lock", x>> /\ Owes(rest, 1, r) /\ 1 \in 1..Len(rest) + 1
      BY <1>12, <1>17, <2>1 DEF Takes
    <3> QED
      BY <1>19, <2>1, <3>1
  <2>2. CASE i # 1
    <3>1. i \in 2..Len(s) /\ i - 1 \in 1..Len(rest) /\ i \in 1..Len(rest) + 1 /\ (i - 1) + 1 = i
      BY <1>17, <2>2
    <3>2. Takes(rest[i - 1], r)
      BY <1>18, <3>1
    <3>3. Owes(rest, (i - 1) + 1, r)
      BY <1>9, <3>1, <3>2 DEF Matched
    <3> QED
      BY <1>19, <3>1, <3>3
  <2> QED
    BY <2>1, <2>2
<1>22. Ranked(s)
  <2> SUFFICES ASSUME NEW i \in 1..Len(s), Asks(s[i]), NEW r \in Resource, Owes(s, i, r)
               PROVE  Rank[r[2]] < Rank[Wanted(s[i])]
    BY DEF Ranked
  <2>1. i # 1
    BY <1>20
  <2>2. i \in 2..Len(s) /\ i - 1 \in 1..Len(rest) /\ i - 1 \in 1..Len(rest) + 1 /\ (i - 1) + 1 = i
    BY <1>17, <2>1
  <2>3. s[i] = rest[i - 1]
    BY <1>18, <2>2
  <2>4. Owes(rest, i - 1, r)
    BY <1>19, <2>2
  <2> QED
    BY <1>10, <2>2, <2>3, <2>4 DEF Ranked
<1>23. From(s, Rank[x]) /\ Quiet(s)
  <2>1. \A i \in 1..Len(first) : first[i] = <<"lock", x>>
    BY <1>14
  <2>2. From(first, Rank[x]) /\ Quiet(first)
    BY <1>0, <2>1 DEF From, Quiet, Asks, Wanted, Gives, Enables
  <2> QED
    BY <1>9, <1>11, <1>16, <2>2, FromConcat, QuietConcat
<1>24. Even(s)
  <2>1. \A i \in 1..Len(first) : \A r : ~Gives(first[i], r)
    BY <1>14 DEF Gives
  <2>2. Even(first)
    BY <2>1 DEF Even
  <2> QED
    BY <1>10, <1>16, <2>1, <2>2, EvenConcat
<1>25. Code(s, Rank[x])
  BY <1>17, <1>20, <1>21, <1>22, <1>23, <1>24 DEF Code
<1> QED
  BY <1>1, <1>7, <1>13, <1>15, <1>25

\* Dereferencing a lazy static is well-behaved.
LEMMA CodeForce ==
  ASSUME NEW x \in Lazies, NEW b \in Nat, b <= Rank[x]
  PROVE  Code(Deref(x), b)
<1>1. PICK ins : ins = <<"force", x>>
  OBVIOUS
<1>2. ins \in Instruction /\ ins[1] \in Single /\ Wanted(ins) = x
  BY <1>1 DEF Instruction, Single, Wanted
<1>3. Code(<<ins>>, b)
  BY <1>2, CodeOne
<1> QED
  BY <1>1, <1>3 DEF Deref

\* Putting code together is associative.
LEMMA Assoc ==
  ASSUME NEW c \in Seq(Instruction), NEW d \in Seq(Instruction), NEW e \in Seq(Instruction)
  PROVE  (c \o d) \o e = c \o (d \o e)
  BY ConcatAssociative

\* Using a lock around well-behaved code that asks for higher ranks only is
\* well-behaved.
LEMMA CodeUse ==
  ASSUME NEW x \in Locks, x \in Lazies, NEW body, NEW b \in Nat, Code(body, b), Rank[x] < b
  PROVE  Code(Use(x, body), Rank[x])
<1>1. Rank[x] \in Nat /\ Rank[x] <= Rank[x]
  BY RankIs
<1>2. PICK f, l, u : f = Deref(x) /\ l = << <<"lock", x>> >> /\ u = << <<"unlock", x>> >>
  OBVIOUS
<1>3. PICK give : give = <<"unlock", x>>
  OBVIOUS
<1>4. give \in Instruction /\ give[1] \in {"unlock", "alloc", "heap"} /\ give[2] = x
  BY <1>3 DEF Instruction
<1>5. Code(l \o (body \o u), Rank[x])
  BY <1>2, <1>3, <1>4, CodeBracket
<1>6. Code(f, Rank[x])
  BY <1>1, <1>2, CodeForce
<1>7. Code(f \o (l \o (body \o u)), Rank[x])
  BY <1>1, <1>5, <1>6, CodeConcat
<1>8. f \in Seq(Instruction) /\ body \in Seq(Instruction)
  BY <1>6 DEF Code
<1>9. l \in Seq(Instruction) /\ u \in Seq(Instruction)
  BY <1>2 DEF Instruction
<1>10. Use(x, body) = ((f \o l) \o body) \o u
  BY <1>2 DEF Use
<1>11. ((f \o l) \o body) \o u = f \o (l \o (body \o u))
  <2>1. f \o l \in Seq(Instruction) /\ body \o u \in Seq(Instruction)
    BY <1>8, <1>9, ConcatProperties
  <2>2. ((f \o l) \o body) \o u = (f \o l) \o (body \o u)
    BY <1>8, <1>9, <2>1, ConcatAssociative
  <2>3. PICK rest \in Seq(Instruction) : rest = body \o u
    BY <2>1
  <2>4. (f \o l) \o rest = f \o (l \o rest)
    BY <1>8, <1>9, Assoc
  <2> QED
    BY <2>2, <2>3, <2>4, Zenon
<1> QED
  BY <1>7, <1>10, <1>11

-----------------------------------------------------------------------------
(***************************************************************************)
(* The pieces of the kernel's code, each with the lowest rank it asks for. *)
(***************************************************************************)

\* What may fail is well-behaved.
LEMMA CodeMay == ASSUME NEW b \in Nat PROVE Code(May, b)
<1>1. PICK ins : ins = <<"may", "panic">>
  OBVIOUS
<1>2. ins \in Instruction /\ ins[1] \in Single /\ ~Asks(ins)
  BY <1>1 DEF Instruction, Single, Asks
<1> QED
  BY <1>1, <1>2, CodeOne DEF May

\* An instruction is a piece of code.
LEMMA OnesIn == \A ins \in Instruction : <<ins>> \in Seq(Instruction)
  OBVIOUS

\* Two instructions, one after the other.
LEMMA PairOfOnes == \A a, b : <<a>> \o <<b>> = <<a, b>>
<1> SUFFICES ASSUME NEW a, NEW b PROVE <<a>> \o <<b>> = <<a, b>>
  OBVIOUS
<1> DEFINE S == {a, b}
<1>1. PICK s, t, u : s = <<a>> /\ t = <<b>> /\ u = <<a, b>>
  OBVIOUS
<1>2. /\ s \in Seq(S) /\ t \in Seq(S) /\ u \in Seq(S)
      /\ Len(s) = 1 /\ Len(t) = 1 /\ Len(u) = 2
      /\ s[1] = a /\ t[1] = b /\ u[1] = a /\ u[2] = b
  BY <1>1
<1>3. s \o t \in Seq(S) /\ Len(s \o t) = 2 /\ (s \o t)[1] = a /\ (s \o t)[2] = b
  <2>1. PICK st : st = s \o t
    OBVIOUS
  <2>2. st \in Seq(S) /\ Len(st) = 2
        /\ \A i \in 1..2 : st[i] = IF i <= 1 THEN s[i] ELSE t[i - 1]
    BY <1>2, <2>1, ConcatProperties
  <2> QED
    BY <1>2, <2>1, <2>2
<1>4. \A i \in 1..2 : i = 1 \/ i = 2
  OBVIOUS
<1>5. s \o t = u
  BY <1>2, <1>3, <1>4, SeqEqual
<1> QED
  BY <1>1, <1>5

\* Allocating asks for the heap and nothing below it.
LEMMA CodeAlloc == Code(Alloc, 13)
<1>1. PICK give : give = <<"alloc", "HEAP">>
  OBVIOUS
<1>2. give \in Instruction /\ give[1] \in {"unlock", "alloc", "heap"} /\ give[2] = "HEAP"
  BY <1>1 DEF Instruction
<1>3. PICK body : body = <<>>
  OBVIOUS
<1>4. "HEAP" \in Locks /\ Rank["HEAP"] = 13 /\ Code(body, 14)
  BY <1>3, RankIs, CodeEmpty DEF Locks
<1>5. Code(<< <<"lock", "HEAP">> >> \o (body \o <<give>>), Rank["HEAP"])
  BY <1>2, <1>4, CodeBracket
<1>6. body \o <<give>> = <<give>>
  BY <1>2, <1>3
<1>7. << <<"lock", "HEAP">> >> \o <<give>> = Alloc
  BY <1>1, PairOfOnes DEF Alloc
<1> QED
  BY <1>4, <1>5, <1>6, <1>7

\* Logging asks for the logger and nothing below it.
LEMMA CodeLog == Code(Log, 12)
<1>1. "LOGGER" \in Locks /\ "LOGGER" \in Lazies /\ Rank["LOGGER"] = 12
  BY RankIs DEF Locks, Lazies
<1>2. Code(Use("LOGGER", Alloc), 12)
  BY <1>1, CodeAlloc, CodeUse
<1>3. Code(Alloc, 12)
  BY CodeAlloc, CodeWeaken
<1> QED
  BY <1>2, <1>3, CodeConcat DEF Log

\* Code that only takes memory and logs may run with anything but those held.
LEMMA CodeSmall ==
  ASSUME NEW b \in Nat, b <= 8
  PROVE  /\ Code(Alloc, b) /\ Code(Log, b) /\ Code(May, b) /\ Code(Deref("INITRD"), b)
         /\ Code(Font_new, b) /\ Code(VgaWrite, b) /\ Code(Write, b)
         /\ Code(Shell_new, b) /\ Code(Image_new, b) /\ Code(Elf_new, b)
         /\ Code(display(Write), b) /\ Code(display(VgaWrite), b)
<1>1. Code(Alloc, b) /\ Code(Log, b) /\ Code(May, b)
  BY CodeAlloc, CodeLog, CodeMay, CodeWeaken
<1>2. Code(Deref("INITRD"), b)
  BY RankIs, CodeForce DEF Lazies
<1>3. Code(Font_new, b)
  BY <1>1, <1>2, CodeConcat DEF Font_new
<1>4. Code(VgaWrite, b) /\ Code(Write, b)
  BY <1>1, <1>3, CodeConcat DEF VgaWrite, Write
<1>5. Code(Deref("INITRD") \o May, b)
  BY <1>1, <1>2, CodeConcat
<1>6. Code(Shell_new, b) /\ Code(Image_new, b) /\ Code(Elf_new, b)
  BY <1>1, <1>5, CodeConcat DEF Shell_new, Image_new, Elf_new
<1>7. ASSUME NEW write, Code(write, b) PROVE Code(display(write), b)
  <2>1. Code(Deref("INITRD") \o May \o write, b)
    BY <1>5, <1>7, CodeConcat
  <2> QED
    BY <1>7, <2>1, CodeConcat DEF display
<1> QED
  BY <1>1, <1>2, <1>3, <1>4, <1>6, <1>7

\* What initialises a lazy static asks for higher ranks only.
LEMMA CodeInit ==
  ASSUME NEW x \in Lazies
  PROVE  Code(InitCode(x), Rank[x] + 1)
<1> USE RankIs
<1>1. CASE x = "INITRD"
  <2>1. Code(May, 9) /\ Code(Alloc, 9) /\ Code(Log, 9)
    BY CodeMay, CodeAlloc, CodeLog, CodeWeaken
  <2>2. Code(May \o Alloc, 9)
    BY <2>1, CodeConcat
  <2>3. Code(Initrd_new, 9)
    BY <2>1, <2>2, CodeConcat DEF Initrd_new
  <2> QED
    BY <1>1, <2>3 DEF InitCode
<1>2. CASE x = "VGA"
  <2>1. Code(Font_new \o Vga_new, 6)
    BY CodeSmall, CodeConcat DEF Vga_new
  <2> QED
    BY <1>2, <2>1 DEF InitCode
<1>3. CASE x = "SCHEDULER"
  <2>1. Code(Log, 10)
    BY CodeLog, CodeWeaken
  <2> QED
    BY <1>3, <2>1 DEF InitCode
<1>4. CASE x = "SERIAL"
  BY <1>4, CodeMay DEF InitCode
<1>5. CASE x = "SERIAL_CONSOLE"
  <2>1. Code(Shell_new, 7)
    BY CodeSmall
  <2> QED
    BY <1>5, <2>1 DEF InitCode
<1>6. CASE x = "VGA_CONSOLE"
  <2>1. Code(Shell_new, 6) /\ "VGA" \in Locks /\ "VGA" \in Lazies
    BY CodeSmall DEF Locks, Lazies
  <2>2. Code(Use("VGA", Shell_new), 5)
    BY <2>1, CodeUse
  <2> QED
    BY <1>6, <2>2 DEF InitCode
<1>7. CASE x \in {"PHYSICAL_MANAGER", "VIRTUAL_MANAGER"}
  BY <1>7, CodeMay DEF InitCode
<1>8. CASE x \in {"KEYBOARD", "TIMER", "LOGGER"}
  <2>1. InitCode(x) = <<>>
    BY <1>8 DEF InitCode
  <2>2. Rank[x] + 1 \in Nat
    BY <1>8
  <2> QED
    BY <2>1, <2>2, CodeEmpty
<1> QED
  BY <1>1, <1>2, <1>3, <1>4, <1>5, <1>6, <1>7, <1>8 DEF Lazies

\* Three instructions, one after the other.
LEMMA TripleOfOnes ==
  ASSUME NEW a \in Instruction, NEW b \in Instruction, NEW c \in Instruction
  PROVE  <<a>> \o (<<b>> \o <<c>>) = <<a, b, c>>
<1>1. PICK s, t, u : s = <<a>> /\ t = <<b>> \o <<c>> /\ u = <<a, b, c>>
  OBVIOUS
<1>2. t = <<b, c>>
  BY <1>1, PairOfOnes
<1>3. /\ s \in Seq(Instruction) /\ t \in Seq(Instruction) /\ u \in Seq(Instruction)
      /\ Len(s) = 1 /\ Len(t) = 2 /\ Len(u) = 3
      /\ s[1] = a /\ t[1] = b /\ t[2] = c /\ u[1] = a /\ u[2] = b /\ u[3] = c
  BY <1>1, <1>2
<1>4. PICK st : st = s \o t
  OBVIOUS
<1>5. /\ st \in Seq(Instruction) /\ Len(st) = 3
      /\ \A i \in 1..3 : st[i] = IF i <= 1 THEN s[i] ELSE t[i - 1]
  BY <1>3, <1>4, ConcatProperties
<1>6. st[1] = a /\ st[2] = b /\ st[3] = c
  BY <1>3, <1>5
<1>7. \A i \in 1..3 : i = 1 \/ i = 2 \/ i = 3
  OBVIOUS
<1>8. st = u
  BY <1>3, <1>5, <1>6, <1>7, SeqEqual
<1> QED
  BY <1>1, <1>4, <1>8

\* An instruction that asks for nothing
LEMMA CodeFree ==
  ASSUME NEW op \in Single \ {"force", "tick", "eoi", "trap"}, NEW arg, <<op, arg>> \in Instruction,
         NEW b \in Nat
  PROVE  Code(<< <<op, arg>> >>, b)
<1>1. PICK ins : ins = <<op, arg>>
  OBVIOUS
<1>2. ins \in Instruction /\ ins[1] \in Single /\ ~Asks(ins)
  BY <1>1 DEF Asks, Single
<1>3. Code(<<ins>>, b)
  BY <1>2, CodeOne
<1> QED
  BY <1>1, <1>3

\* The end of an interrupt is well-behaved.
LEMMA CodeEoi ==
  ASSUME NEW irq \in Irq
  PROVE  Code(Eoi(irq), 1)
<1>1. PICK take, ins, give : take = <<"lock", "PICS">> /\ ins = <<"eoi", irq>> /\ give = <<"unlock", "PICS">>
  OBVIOUS
<1>2. /\ take \in Instruction /\ ins \in Instruction /\ ins[1] \in Single /\ ~Asks(ins)
      /\ give \in Instruction /\ give[1] \in {"unlock", "alloc", "heap"} /\ give[2] = "PICS"
  BY <1>1 DEF Instruction, Single, Asks, Locks
<1>3. Code(<<ins>>, 12)
  BY <1>2, CodeOne
<1>4. "PICS" \in Locks /\ Rank["PICS"] = 11
  BY RankIs DEF Locks
<1>5. Code(<< <<"lock", "PICS">> >> \o (<<ins>> \o <<give>>), Rank["PICS"])
  BY <1>2, <1>3, <1>4, CodeBracket
<1>6. Code(<<take>> \o (<<ins>> \o <<give>>), 11)
  BY <1>1, <1>4, <1>5
<1>7. <<take>> \o (<<ins>> \o <<give>>) = Eoi(irq)
  BY <1>1, <1>2, TripleOfOnes DEF Eoi
<1>8. Code(Eoi(irq), 11)
  BY <1>6, <1>7
<1> QED
  BY <1>8, CodeWeaken

Given(s, r) == \E k \in 1..Len(s) : Gives(s[k], r)

\* The code of an interrupt handler: it gives back what it takes, and tells
\* the PIC that it is done.
Handles(s, irq) == Code(s, 1) /\ Given(s, <<"irq", irq>>)

\* Well-behaved code that ends an interrupt handles it.
LEMMA HandlesEoi ==
  ASSUME NEW c, Code(c, 1), NEW irq \in Irq
  PROVE  Handles(c \o Eoi(irq), irq)
<1>1. PICK e, s : e = Eoi(irq) /\ s = c \o e
  OBVIOUS
<1>2. Code(e, 1)
  BY <1>1, CodeEoi
<1>3. Code(s, 1)
  BY <1>1, <1>2, CodeConcat
<1>4. IsConcat(s, c, e)
  BY <1>1, <1>2, Concat DEF Code
<1>5. Len(e) = 3 /\ Gives(e[2], <<"irq", irq>>)
  <2>1. PICK take, ins, give : take = <<"lock", "PICS">> /\ ins = <<"eoi", irq>> /\ give = <<"unlock", "PICS">>
    OBVIOUS
  <2>2. e = <<take, ins, give>>
    BY <1>1, <2>1 DEF Eoi
  <2>3. Len(e) = 3 /\ e[2] = ins
    BY <2>2
  <2> QED
    BY <2>1, <2>3 DEF Gives
<1>6. 2 \in 1..Len(e) /\ 2 + Len(c) \in 1..Len(s)
  BY <1>4, <1>5 DEF IsConcat
<1>7. s[2 + Len(c)] = e[2]
  BY <1>4, <1>6 DEF IsConcat
<1>8. Given(s, <<"irq", irq>>)
  BY <1>5, <1>6, <1>7 DEF Given
<1> QED
  BY <1>1, <1>3, <1>8 DEF Handles

\* The timer's handler is well-behaved and ends with its EOI.
LEMMA CodeTimer == Handles(timer_handler, "timer")
<1>1. Code(Deref("TIMER"), 1)
  BY RankIs, CodeForce DEF Lazies
<1>2. Code(<< <<"increment", "TIMER">> >>, 1)
  BY CodeFree DEF Single, Instruction
<1>3. Code(<< <<"tick", "SCHEDULER">> >>, 10)
  <2>1. PICK ins : ins = <<"tick", "SCHEDULER">>
    OBVIOUS
  <2>2. ins \in Instruction /\ ins[1] \in Single /\ 10 <= Rank[Wanted(ins)]
    BY <2>1, RankIs DEF Instruction, Single, Wanted
  <2>3. Code(<<ins>>, 10)
    BY <2>2, CodeOne
  <2> QED
    BY <2>1, <2>3
<1>4. Code(Use("SCHEDULER", << <<"tick", "SCHEDULER">> >>), 9)
  BY <1>3, RankIs, CodeUse DEF Locks, Lazies
<1>5. Code(Use("SCHEDULER", << <<"tick", "SCHEDULER">> >>), 1)
  BY <1>4, CodeWeaken
<1>6. Code(Deref("TIMER") \o << <<"increment", "TIMER">> >>, 1)
  BY <1>1, <1>2, CodeConcat
<1>7. Code(Deref("TIMER") \o << <<"increment", "TIMER">> >> \o
           Use("SCHEDULER", << <<"tick", "SCHEDULER">> >>), 1)
  BY <1>5, <1>6, CodeConcat
<1> QED
  BY <1>7, HandlesEoi DEF timer_handler, Irq

\* So is the keyboard's, for every scan code.
LEMMA CodeKeyboard ==
  ASSUME NEW scan \in Scan
  PROVE  Handles(keyboard_handler(scan), "keyboard")
<1> DEFINE shown == Use("VGA_CONSOLE", Use("VGA", display(VgaWrite)))
           body == Log \o IF scan = "enter" THEN shown ELSE <<>>
<1>1. Code(Use("VGA", display(VgaWrite)), 5)
  <2>1. Code(display(VgaWrite), 6)
    BY CodeSmall
  <2> QED
    BY <2>1, RankIs, CodeUse DEF Locks, Lazies
<1>2. Code(shown, 4)
  BY <1>1, RankIs, CodeUse DEF Locks, Lazies
<1>3. Code(Log, 4) /\ Code(<<>>, 4)
  BY CodeSmall, CodeEmpty
<1>4. Code(body, 4)
  <2>1. CASE scan = "enter"
    <3>1. body = Log \o shown
      BY <2>1
    <3> QED
      BY <1>2, <1>3, <3>1, CodeConcat
  <2>2. CASE scan # "enter"
    <3>1. body = Log \o <<>>
      BY <2>2
    <3> QED
      BY <1>3, <3>1, CodeConcat
  <2> QED
    BY <2>1, <2>2
<1>5. Code(Use("KEYBOARD", body), 3)
  <2> HIDE DEF body
  <2> QED
    BY <1>4, RankIs, CodeUse DEF Locks, Lazies
<1>6. Code(Use("KEYBOARD", body), 1)
  BY <1>5, CodeWeaken
<1>7. keyboard_handler(scan) = Use("KEYBOARD", body) \o Eoi("keyboard")
  BY DEF keyboard_handler
<1> HIDE DEF body
<1> QED
  BY <1>6, <1>7, HandlesEoi DEF Irq

\* So is the serial port's, for every key.
LEMMA CodeSerial ==
  ASSUME NEW key \in Key
  PROVE  Handles(serial_handler(key), "serial")
<1>1. /\ Code(Alloc, 8) /\ Code(Write, 8) /\ Code(Elf_new, 8) /\ Code(<<>>, 8)
  BY CodeSmall, CodeEmpty
<1>2. ASSUME NEW command \in Command PROVE Code(Run(command), 8)
  <2>1. CASE command = "text"
    BY <1>1, <2>1 DEF Run
  <2>2. CASE command = "time"
    <3>1. Code(Deref("TIMER"), 8)
      BY RankIs, CodeForce DEF Lazies
    <3>2. Code(Deref("TIMER") \o Write, 8)
      BY <1>1, <3>1, CodeConcat
    <3> QED
      BY <2>2, <3>2 DEF Run
  <2>3. CASE command = "fork"
    <3>1. Code(<< <<"fork", "SCHEDULER">> >>, 10)
      BY CodeFree DEF Single, Instruction
    <3>2. Code(Alloc, 10)
      BY CodeAlloc, CodeWeaken
    <3>3. Code(Alloc \o << <<"fork", "SCHEDULER">> >>, 10)
      BY <3>1, <3>2, CodeConcat
    <3>4. Code(Use("SCHEDULER", Alloc \o << <<"fork", "SCHEDULER">> >>), 9)
      BY <3>3, RankIs, CodeUse DEF Locks, Lazies
    <3>5. Code(Use("SCHEDULER", Alloc \o << <<"fork", "SCHEDULER">> >>), 8)
      BY <3>4, CodeWeaken
    <3>6. Code(Use("SCHEDULER", Alloc \o << <<"fork", "SCHEDULER">> >>) \o Write, 8)
      BY <1>1, <3>5, CodeConcat
    <3> QED
      BY <2>3, <3>6 DEF Run
  <2>4. CASE command = "logs"
    <3>1. Code(Write, 13)
      BY CodeAlloc DEF Write
    <3>2. Code(Use("LOGGER", Write), 12)
      BY <3>1, RankIs, CodeUse DEF Locks, Lazies
    <3>3. Code(Use("LOGGER", Write), 8)
      BY <3>2, CodeWeaken
    <3> QED
      BY <2>4, <3>3 DEF Run
  <2>5. CASE command = "readelf"
    <3>1. Code(Elf_new \o Write, 8)
      BY <1>1, CodeConcat
    <3> QED
      BY <2>5, <3>1 DEF Run
  <2> QED
    BY <2>1, <2>2, <2>3, <2>4, <2>5 DEF Command
<1>3. Code(Alloc \o Write, 8)
  BY <1>1, CodeConcat
<1>4. Code(interpret(key), 8)
  <2>1. CASE key = "character"
    BY <1>3, <2>1 DEF interpret
  <2>2. CASE key = "ignored"
    BY <1>1, <2>2 DEF interpret
  <2>3. CASE key = "backspace"
    BY <1>1, <2>3 DEF interpret
  <2>4. CASE key \in Command
    <3>1. Code(Run(key), 8)
      BY <1>2, <2>4
    <3>2. Code((Alloc \o Write) \o Run(key), 8)
      BY <1>3, <3>1, CodeConcat
    <3>3. Code(((Alloc \o Write) \o Run(key)) \o Write, 8)
      BY <1>1, <3>2, CodeConcat
    <3>4. interpret(key) = ((Alloc \o Write) \o Run(key)) \o Write
      BY <2>4 DEF interpret, Command
    <3> QED
      BY <3>3, <3>4
  <2> QED
    BY <2>1, <2>2, <2>3, <2>4 DEF Key
<1>5. Code(Use("SERIAL", interpret(key)), 7)
  BY <1>4, RankIs, CodeUse DEF Locks, Lazies
<1>6. Code(Use("SERIAL_CONSOLE", Use("SERIAL", interpret(key))), 6)
  BY <1>5, RankIs, CodeUse DEF Locks, Lazies
<1>7. Code(Use("SERIAL_CONSOLE", Use("SERIAL", interpret(key))), 1)
  BY <1>6, CodeWeaken
<1> QED
  BY <1>7, HandlesEoi DEF serial_handler, Irq

\* Stopping is well-behaved.
LEMMA CodeHalt == Code(Halt, 12)
<1>1. Code(<< <<"cli", "IF">> >>, 12) /\ Code(<< <<"halt", "CPU">> >>, 12)
  BY CodeFree DEF Single, Instruction
<1>2. << <<"cli", "IF">> >> \o << <<"halt", "CPU">> >> = Halt
  BY PairOfOnes DEF Halt
<1> QED
  BY <1>1, <1>2, CodeConcat

\* The handlers of exceptions are well-behaved.
LEMMA CodeException ==
  ASSUME NEW kind
  PROVE  Code(exception_handler(kind), 12)
<1>1. Code(Log, 12)
  BY CodeLog
<1>2. Code(Log \o Halt, 12)
  BY <1>1, CodeHalt, CodeConcat
<1> QED
  BY <1>1, <1>2 DEF exception_handler

-----------------------------------------------------------------------------
(***************************************************************************)
(* The inductive invariant.                                                *)
(***************************************************************************)

\* Everything the kernel is in the middle of
Has == {<<"lock", x>> : x \in held} \cup
       {<<"lazy", x>> : x \in {y \in Lazies : lazy[y] = "running"}} \cup
       {<<"irq", q>> : q \in isr}

\* s ends by enabling interrupts and halting, and does not enable them before.
hlt == <<"hlt", "CPU">>
Ends(s) ==
  /\ Len(s) >= 2 /\ s[Len(s)] = hlt /\ Enables(s[Len(s) - 1])
  /\ \A i \in 1..Len(s) - 2 : ~Enables(s[i])

\* With H owned, s gives all of it back before it enables interrupts, if it
\* ever does.
Fine(s, H) == Quiet(s) \/ (Ends(s) /\ Matched(s) /\ \A r \in H : Given(s, r))

\* And it asks for nothing out of order, and gives back exactly what is owned.
Sound(s, H) ==
  /\ Matched(s) /\ Even(s) /\ Ranked(s)
  /\ \A r \in Resource : r \in H <=> Owes(s, 1, r)

\* s sets the heap up before it takes memory from it.
BeforeHeap(ins) ==
  /\ ins[1] \notin {"alloc", "tick", "trap", "sti", "hlt", "iret", "idt"}
  /\ ins[1] = "force" => ins[2] \in {"VIRTUAL_MANAGER", "PHYSICAL_MANAGER"}
HeapFirst(s) ==
  \E k \in 1..Len(s) : s[k][1] = "heap" /\ \A j \in 1..k - 1 : BeforeHeap(s[j])

KTypeOK ==
  /\ todo \in Seq(Instruction)
  /\ held \subseteq Locks
  /\ lazy \in [Lazies -> {"no", "running", "ready"}]
  /\ enabled \in BOOLEAN
  /\ isr \subseteq Irq
  /\ cpu \in [gdt : {"limine", "kernel"}, cs : {"limine", "kernel"},
               idt : {"none", "limine", "kernel"}]

Masked ==
  /\ enabled => todo = <<hlt>> /\ Has = {}
  /\ ~enabled => Fine(todo, Has)

\* No fault, or an interrupt or a machine check whose handler finds the logger
\* and the allocator free
Unhurt ==
  \/ fault.kind = "none"
  \/ /\ fault.kind \in {"nmi", "machine_check"}
     /\ fault.owned \cap {"LOGGER", "HEAP"} = {}

Faultless ==
  Unhurt => /\ Sound(todo, Has)
            /\ heap = "ready" \/ (HeapFirst(todo) /\ cpu.idt = "none")

\* The segments are set up by the first two instructions of the boot.
Segments ==
  \/ cpu.gdt = "limine" /\ cpu.cs = "limine" /\ cpu.idt = "none" /\ todo = kmain
  \/ cpu.gdt = "kernel" /\ cpu.cs = "limine" /\ cpu.idt = "none" /\ todo = Tail(kmain)
  \/ cpu.gdt = "kernel" /\ cpu.cs = "kernel" /\ cpu.idt \in {"none", "kernel"}

-----------------------------------------------------------------------------
(***************************************************************************)
(* An instruction is executed: the rest of the code is left.               *)
(***************************************************************************)

\* The next instruction and the rest.
LEMMA HeadTail ==
  ASSUME NEW s \in Seq(Instruction), s # <<>>
  PROVE  /\ IsConcat(s, <<Head(s)>>, Tail(s)) /\ Head(s) \in Instruction
         /\ Head(s) = s[1] /\ Len(s) \in Nat /\ Len(s) >= 1
         /\ Tail(s) \in Seq(Instruction) /\ Len(Tail(s)) = Len(s) - 1
         /\ \A i \in 1..Len(Tail(s)) : Tail(s)[i] = s[i + 1]
<1>1. PICK h, t : h = Head(s) /\ t = Tail(s)
  OBVIOUS
<1>2. /\ Len(s) \in Nat /\ Len(s) >= 1 /\ h = s[1] /\ h \in Instruction
      /\ t \in Seq(Instruction) /\ Len(t) = Len(s) - 1
      /\ \A i \in 1..Len(t) : t[i] = s[i + 1]
  BY <1>1
<1>3. PICK c : c = <<h>>
  OBVIOUS
<1>4. c \in Seq(Instruction) /\ Len(c) = 1 /\ c[1] = h
  BY <1>2, <1>3
<1>5. IsConcat(s, c, t)
  BY <1>2, <1>4 DEF IsConcat
<1> QED
  BY <1>1, <1>2, <1>3, <1>5

\* What is owed after the first instruction
LEMMA OwesTail ==
  ASSUME NEW s \in Seq(Instruction), s # <<>>, NEW i \in 1..Len(Tail(s)) + 1, NEW r
  PROVE  Owes(s, i + 1, r) <=> Owes(Tail(s), i, r)
<1>1. IsConcat(s, <<Head(s)>>, Tail(s)) /\ Len(<<Head(s)>>) = 1
  BY HeadTail
<1> QED
  BY <1>1, OwesBack

\* What is owed before the next instruction and after it.
LEMMA OwesNext ==
  ASSUME NEW s \in Seq(Instruction), s # <<>>, NEW r
  PROVE  /\ Owes(s, 1, r) /\ ~Gives(Head(s), r) => Owes(Tail(s), 1, r)
         /\ Owes(Tail(s), 1, r) /\ ~Takes(Head(s), r) => Owes(s, 1, r)
<1>1. /\ Head(s) = s[1] /\ Len(s) \in Nat /\ Len(s) >= 1 /\ Len(Tail(s)) = Len(s) - 1
      /\ 1 \in 1..Len(Tail(s)) + 1
  BY HeadTail
<1>2. Owes(s, 1 + 1, r) <=> Owes(Tail(s), 1, r)
  BY <1>1, OwesTail
<1>3. ASSUME Owes(s, 1, r), ~Gives(Head(s), r) PROVE Owes(s, 2, r)
  <2>1. PICK k \in 1..Len(s) : Gives(s[k], r) /\ \A j \in 1..k - 1 : ~Takes(s[j], r)
    BY <1>3 DEF Owes
  <2>2. k \in 2..Len(s) /\ \A j \in 2..k - 1 : j \in 1..k - 1
    BY <1>1, <1>3, <2>1
  <2> QED
    BY <2>1, <2>2 DEF Owes
<1>4. ASSUME Owes(s, 2, r), ~Takes(Head(s), r) PROVE Owes(s, 1, r)
  <2>1. PICK k \in 2..Len(s) : Gives(s[k], r) /\ \A j \in 2..k - 1 : ~Takes(s[j], r)
    BY <1>4 DEF Owes
  <2>2. k \in 1..Len(s) /\ \A j \in 1..k - 1 : j = 1 \/ j \in 2..k - 1
    OBVIOUS
  <2> QED
    BY <1>1, <1>4, <2>1, <2>2 DEF Owes
<1> QED
  BY <1>2, <1>3, <1>4

\* The rest of matched code is matched.
LEMMA MatchedTail ==
  ASSUME NEW s \in Seq(Instruction), s # <<>>, Matched(s)
  PROVE  Matched(Tail(s))
<1> SUFFICES ASSUME NEW i \in 1..Len(Tail(s)), NEW r \in Resource, Takes(Tail(s)[i], r)
             PROVE  Owes(Tail(s), i + 1, r)
  BY DEF Matched
<1>1. /\ i + 1 \in 1..Len(s) /\ i + 1 \in 1..Len(Tail(s)) + 1 /\ Tail(s)[i] = s[i + 1]
  BY HeadTail
<1>2. Owes(s, (i + 1) + 1, r)
  BY <1>1 DEF Matched
<1> QED
  BY <1>1, <1>2, OwesTail

\* The rest of code that gives nothing back twice gives nothing back twice.
LEMMA EvenTail ==
  ASSUME NEW s \in Seq(Instruction), s # <<>>, Even(s)
  PROVE  Even(Tail(s))
<1> SUFFICES ASSUME NEW i \in 1..Len(Tail(s)), NEW r \in Resource, Gives(Tail(s)[i], r)
             PROVE  ~Owes(Tail(s), i + 1, r)
  BY DEF Even
<1>1. /\ i + 1 \in 1..Len(s) /\ i + 1 \in 1..Len(Tail(s)) + 1 /\ Tail(s)[i] = s[i + 1]
  BY HeadTail
<1>2. ~Owes(s, (i + 1) + 1, r)
  BY <1>1 DEF Even
<1> QED
  BY <1>1, <1>2, OwesTail

\* The rest of code in the order of ranks is in that order.
LEMMA RankedTail ==
  ASSUME NEW s \in Seq(Instruction), s # <<>>, Ranked(s)
  PROVE  Ranked(Tail(s))
<1> SUFFICES ASSUME NEW i \in 1..Len(Tail(s)), Asks(Tail(s)[i]), NEW r \in Resource,
                    Owes(Tail(s), i, r)
             PROVE  Rank[r[2]] < Rank[Wanted(Tail(s)[i])]
  BY DEF Ranked
<1>1. /\ i + 1 \in 1..Len(s) /\ i \in 1..Len(Tail(s)) + 1 /\ Tail(s)[i] = s[i + 1]
  BY HeadTail
<1>2. Owes(s, i + 1, r)
  BY <1>1, OwesTail
<1> QED
  BY <1>1, <1>2 DEF Ranked

\* The rest of quiet code is quiet.
LEMMA QuietTail ==
  ASSUME NEW s \in Seq(Instruction), s # <<>>, Quiet(s)
  PROVE  Quiet(Tail(s))
<1> SUFFICES ASSUME NEW i \in 1..Len(Tail(s)) PROVE ~Enables(Tail(s)[i])
  BY DEF Quiet
<1>1. i + 1 \in 1..Len(s) /\ Tail(s)[i] = s[i + 1]
  BY HeadTail
<1> QED
  BY <1>1 DEF Quiet

\* What the instruction at the head leaves owned, of what was owned or taken
Leaves(ins, H, K) ==
  /\ \A r \in K : (r \in H \/ (r \in Resource /\ Takes(ins, r))) /\ ~Gives(ins, r)
  /\ \A r \in Resource : (r \in H \/ Takes(ins, r)) /\ ~Gives(ins, r) => r \in K

\* What is left gives back what is held, after an instruction that changes what
\* is held.
LEMMA FineTail ==
  ASSUME NEW s \in Seq(Instruction), s # <<>>, NEW H, NEW K, Fine(s, H),
         ~Enables(Head(s)), Leaves(Head(s), H, K)
  PROVE  Fine(Tail(s), K)
<1>1. CASE Quiet(s)
  BY <1>1, QuietTail DEF Fine
<1>2. CASE Ends(s) /\ Matched(s) /\ \A r \in H : Given(s, r)
  <2>0. PICK t : t = Tail(s)
    OBVIOUS
  <2>1. /\ Head(s) = s[1] /\ Len(s) \in Nat /\ Len(s) >= 1 /\ Len(t) = Len(s) - 1
        /\ \A i \in 1..Len(t) : t[i] = s[i + 1]
    BY <2>0, HeadTail
  <2>2. Len(s) >= 2 /\ s[Len(s)] = hlt /\ Enables(s[Len(s) - 1])
    BY <1>2 DEF Ends
  <2>3. Len(s) # 2
    BY <2>1, <2>2
  <2>4. /\ Len(t) >= 2 /\ Len(t) \in 1..Len(t) /\ Len(t) - 1 \in 1..Len(t)
        /\ Len(t) + 1 = Len(s) /\ (Len(t) - 1) + 1 = Len(s) - 1
    BY <2>1, <2>2, <2>3
  <2>5. t[Len(t)] = hlt /\ Enables(t[Len(t) - 1])
    BY <2>1, <2>2, <2>4
  <2>6. ASSUME NEW i \in 1..Len(t) - 2 PROVE ~Enables(t[i])
    <3>1. i \in 1..Len(t) /\ i + 1 \in 1..Len(s) - 2
      BY <2>1, <2>4
    <3> QED
      BY <1>2, <2>1, <3>1 DEF Ends
  <2>7. Ends(t)
    BY <2>4, <2>5, <2>6 DEF Ends
  <2>8. ASSUME NEW r \in K PROVE Given(t, r)
    <3>1. CASE r \in H
      <4>1. PICK k \in 1..Len(s) : Gives(s[k], r)
        BY <1>2, <3>1 DEF Given
      <4>2. k # 1
        BY <2>1, <4>1 DEF Leaves
      <4>3. k - 1 \in 1..Len(t) /\ (k - 1) + 1 = k
        BY <2>1, <4>2
      <4> QED
        BY <2>1, <4>1, <4>3 DEF Given
    <3>2. CASE r \in Resource /\ Takes(Head(s), r)
      <4>1. Owes(s, 1 + 1, r)
        <5>1. 1 \in 1..Len(s)
          BY <2>1
        <5> QED
          BY <1>2, <2>1, <3>2, <5>1 DEF Matched
      <4>2. 1 \in 1..Len(t) + 1
        BY <2>4
      <4>3. Owes(t, 1, r)
        BY <2>0, <4>1, <4>2, OwesTail
      <4> QED
        BY <4>3 DEF Owes, Given
    <3> QED
      BY <3>1, <3>2 DEF Leaves
  <2> QED
    BY <1>2, <2>0, <2>7, <2>8, MatchedTail DEF Fine
<1> QED
  BY <1>1, <1>2 DEF Fine

\* And stays in the order of ranks.
LEMMA SoundTail ==
  ASSUME NEW s \in Seq(Instruction), s # <<>>, NEW H, NEW K, Sound(s, H),
         Leaves(Head(s), H, K)
  PROVE  Sound(Tail(s), K)
<1>1. Matched(Tail(s)) /\ Even(Tail(s)) /\ Ranked(Tail(s))
  BY MatchedTail, EvenTail, RankedTail DEF Sound
<1>2. ASSUME NEW r \in K, r \in Resource PROVE Owes(Tail(s), 1, r)
  <2>1. CASE r \in H
    BY <1>2, <2>1, OwesNext DEF Sound, Leaves
  <2>2. CASE Takes(Head(s), r)
    <3>1. 1 \in 1..Len(s) /\ 1 \in 1..Len(Tail(s)) + 1 /\ Head(s) = s[1]
      BY HeadTail
    <3>2. Owes(s, 1 + 1, r)
      BY <1>2, <2>2, <3>1 DEF Sound, Matched
    <3> QED
      BY <3>1, <3>2, OwesTail
  <2> QED
    BY <1>2, <2>1, <2>2 DEF Leaves
<1>3. ASSUME NEW r \in Resource, Owes(Tail(s), 1, r) PROVE r \in K
  <2>1. 1 \in 1..Len(s) /\ 1 \in 1..Len(Tail(s)) + 1 /\ Head(s) = s[1]
    BY HeadTail
  <2>2. Owes(s, 1 + 1, r)
    BY <1>3, <2>1, OwesTail
  <2>3. ~Gives(Head(s), r)
    BY <2>1, <2>2 DEF Sound, Even
  <2>4. Takes(Head(s), r) \/ r \in H
    BY <1>3, OwesNext DEF Sound
  <2> QED
    BY <2>3, <2>4 DEF Leaves
<1> QED
  BY <1>1, <1>2, <1>3 DEF Sound

\* Until there is a heap, the rest of the boot does without it.
LEMMA HeapFirstTail ==
  ASSUME NEW s \in Seq(Instruction), s # <<>>, HeapFirst(s), Head(s)[1] # "heap"
  PROVE  HeapFirst(Tail(s)) /\ BeforeHeap(Head(s))
<1>1. /\ Head(s) = s[1] /\ Len(s) \in Nat /\ Len(s) >= 1 /\ Len(Tail(s)) = Len(s) - 1
      /\ \A i \in 1..Len(Tail(s)) : Tail(s)[i] = s[i + 1]
  BY HeadTail
<1>2. PICK k \in 1..Len(s) : s[k][1] = "heap" /\ \A j \in 1..k - 1 : BeforeHeap(s[j])
  BY DEF HeapFirst
<1>3. k # 1
  BY <1>1, <1>2
<1>4. k - 1 \in 1..Len(Tail(s)) /\ (k - 1) + 1 = k /\ 1 \in 1..k - 1
  BY <1>1, <1>3
<1>5. \A j \in 1..(k - 1) - 1 : j \in 1..Len(Tail(s)) /\ j + 1 \in 1..k - 1
  BY <1>1, <1>4
<1> QED
  BY <1>1, <1>2, <1>4, <1>5 DEF HeapFirst

-----------------------------------------------------------------------------
(***************************************************************************)
(* Code is put in front: a static is initialised, the scheduler logs, a    *)
(* handler is entered.                                                     *)
(***************************************************************************)

\* Code that a step puts in front keeps that what is held is given back.
LEMMA FinePush ==
  ASSUME NEW s, NEW c, NEW t, IsConcat(s, c, t), NEW H, NEW K, Fine(t, H),
         Quiet(c), Matched(c), \A r \in K : r \in H \/ Given(c, r)
  PROVE  Fine(s, K)
<1> USE DEF IsConcat
<1>1. CASE Quiet(t)
  BY <1>1, QuietConcat DEF Fine
<1>2. CASE Ends(t) /\ Matched(t) /\ \A r \in H : Given(t, r)
  <2>1. Len(t) >= 2 /\ t[Len(t)] = hlt /\ Enables(t[Len(t) - 1])
    BY <1>2 DEF Ends
  <2>2. /\ Len(t) \in 1..Len(t) /\ Len(t) - 1 \in 1..Len(t) /\ Len(s) >= 2
        /\ Len(t) + Len(c) = Len(s) /\ (Len(t) - 1) + Len(c) = Len(s) - 1
    BY <2>1
  <2>3. s[Len(s)] = hlt /\ Enables(s[Len(s) - 1])
    BY <2>1, <2>2
  <2>4. ASSUME NEW i \in 1..Len(s) - 2 PROVE ~Enables(s[i])
    <3>1. CASE i \in 1..Len(c)
      BY <3>1 DEF Quiet
    <3>2. CASE ~(i \in 1..Len(c))
      <4>1. i - Len(c) \in 1..Len(t) - 2 /\ i - Len(c) \in 1..Len(t) /\ (i - Len(c)) + Len(c) = i
        BY <3>2
      <4> QED
        BY <1>2, <4>1 DEF Ends
    <3> QED
      BY <3>1, <3>2
  <2>5. Ends(s)
    BY <2>2, <2>3, <2>4 DEF Ends
  <2>6. ASSUME NEW r \in K PROVE Given(s, r)
    <3>1. CASE r \in H
      <4>1. PICK k \in 1..Len(t) : Gives(t[k], r)
        BY <1>2, <3>1 DEF Given
      <4>2. k + Len(c) \in 1..Len(s) /\ Gives(s[k + Len(c)], r)
        BY <4>1
      <4> QED
        BY <4>2 DEF Given
    <3>2. CASE Given(c, r)
      <4>1. PICK k \in 1..Len(c) : Gives(c[k], r)
        BY <3>2 DEF Given
      <4>2. k \in 1..Len(s) /\ Gives(s[k], r)
        BY <4>1
      <4> QED
        BY <4>2 DEF Given
    <3> QED
      BY <3>1, <3>2
  <2>7. Matched(s)
    BY <1>2, MatchedConcat
  <2> QED
    BY <2>5, <2>6, <2>7 DEF Fine
<1> QED
  BY <1>1, <1>2 DEF Fine

\* And the order of ranks, when it starts above all that is held.
LEMMA SoundPush ==
  ASSUME NEW s, NEW c, NEW t, IsConcat(s, c, t), NEW H, NEW K, NEW b \in Nat,
         Sound(t, H), Matched(c), Even(c), Ranked(c), From(c, b),
         \A r \in Resource : Owes(t, 1, r) => Rank[r[2]] < b,
         \A r \in Resource : r \in K <=> r \in H \/ Owes(c, 1, r)
  PROVE  Sound(s, K)
<1>1. Matched(s) /\ Even(s) /\ Ranked(s)
  BY MatchedConcat, EvenAbove, RankedConcat DEF Sound
<1>2. ASSUME NEW r \in K, r \in Resource PROVE Owes(s, 1, r)
  <2>1. CASE Owes(c, 1, r)
    <3>1. 1 \in 1..Len(c) + 1
      BY DEF IsConcat
    <3> QED
      BY <2>1, <3>1, OwesFront
  <2>2. CASE r \in H
    <3>1. Owes(t, 1, r) /\ Rank[r[2]] < b
      BY <1>2, <2>2 DEF Sound
    <3>2. \A i \in 1..Len(c) : ~Takes(c[i], r)
      <4> SUFFICES ASSUME NEW i \in 1..Len(c), Takes(c[i], r) PROVE FALSE
        OBVIOUS
      <4>1. Asks(c[i]) /\ Wanted(c[i]) = r[2]
        BY DEF Takes, Asks, Wanted
      <4>2. b <= Rank[r[2]] /\ Rank[r[2]] \in Nat
        BY <1>2, <4>1, RankIs DEF From, Resource
      <4> QED
        BY <3>1, <4>2
    <3> QED
      BY <3>1, <3>2, OwesThrough
  <2> QED
    BY <1>2, <2>1, <2>2
<1>3. ASSUME NEW r \in Resource, Owes(s, 1, r) PROVE r \in K
  <2>1. 1 \in 1..Len(c) + 1
    BY DEF IsConcat
  <2> QED
    BY <1>3, <2>1, OwesFront DEF Sound
<1> QED
  BY <1>1, <1>2, <1>3 DEF Sound

\* And does without the heap, if it is early code.
LEMMA HeapFirstPush ==
  ASSUME NEW s, NEW c, NEW t, IsConcat(s, c, t), HeapFirst(t),
         \A i \in 1..Len(c) : BeforeHeap(c[i])
  PROVE  HeapFirst(s)
<1> USE DEF IsConcat
<1>1. PICK k \in 1..Len(t) : t[k][1] = "heap" /\ \A j \in 1..k - 1 : BeforeHeap(t[j])
  BY DEF HeapFirst
<1>2. PICK m : m = k + Len(c)
  OBVIOUS
<1>3. m \in 1..Len(s) /\ s[m][1] = "heap"
  BY <1>1, <1>2
<1>4. ASSUME NEW j \in 1..m - 1 PROVE BeforeHeap(s[j])
  <2>1. CASE j \in 1..Len(c)
    BY <2>1
  <2>2. CASE ~(j \in 1..Len(c))
    <3>1. j - Len(c) \in 1..k - 1 /\ j - Len(c) \in 1..Len(t) /\ (j - Len(c)) + Len(c) = j
      BY <1>2, <2>2
    <3> QED
      BY <1>1, <3>1
  <2> QED
    BY <2>1, <2>2
<1> QED
  BY <1>3, <1>4 DEF HeapFirst

\* The end of the boot and of every handler that interrupts the idle loop
LEMMA EndTail ==
  ASSUME NEW e \in Instruction, Enables(e)
  PROVE  /\ <<e, hlt>> \in Seq(Instruction) /\ Ends(<<e, hlt>>)
         /\ Matched(<<e, hlt>>) /\ Even(<<e, hlt>>) /\ Ranked(<<e, hlt>>)
         /\ \A r : ~Owes(<<e, hlt>>, 1, r)
<1>1. PICK s, h : s = <<e, hlt>> /\ h = hlt
  OBVIOUS
<1>2. h \in Instruction /\ h[1] = "hlt"
  BY <1>1 DEF hlt, Instruction
<1>3. s \in Seq(Instruction) /\ Len(s) = 2 /\ s[1] = e /\ s[2] = h
  BY <1>1, <1>2
<1>4. \A i \in 1..Len(s) : i = 1 \/ i = 2
  BY <1>3
<1>5. \A i \in 1..Len(s) : ~Asks(s[i]) /\ \A r : ~Takes(s[i], r) /\ ~Gives(s[i], r)
  BY <1>2, <1>3, <1>4 DEF Asks, Takes, Gives, Enables
<1>6. Ends(s)
  <2>1. \A i \in 1..Len(s) - 2 : FALSE
    BY <1>3
  <2> QED
    BY <1>1, <1>3, <2>1 DEF Ends
<1>7. \A r : ~Owes(s, 1, r)
  BY <1>5 DEF Owes
<1> QED
  BY <1>1, <1>3, <1>5, <1>6, <1>7 DEF Matched, Even, Ranked

\* Complete code, then interrupts are enabled
LEMMA Finishes ==
  ASSUME NEW c, Code(c, 1), NEW e \in Instruction, Enables(e), NEW K,
         \A r \in K : Given(c, r)
  PROVE  /\ c \o <<e, hlt>> \in Seq(Instruction)
         /\ Fine(c \o <<e, hlt>>, K)
         /\ (\A r \in K : r \notin Resource) => Sound(c \o <<e, hlt>>, K)
<1>1. PICK t, s : t = <<e, hlt>> /\ s = c \o t
  OBVIOUS
<1>2. /\ t \in Seq(Instruction) /\ Ends(t) /\ Matched(t) /\ Even(t) /\ Ranked(t)
      /\ \A r : ~Owes(t, 1, r)
  BY <1>1, EndTail
<1>3. IsConcat(s, c, t)
  BY <1>1, <1>2, Concat DEF Code
<1>4. Fine(t, {}) /\ Sound(t, {})
  BY <1>2 DEF Fine, Sound
<1>5. Fine(s, K)
  BY <1>3, <1>4, FinePush DEF Code
<1>6. (\A r \in K : r \notin Resource) => Sound(s, K)
  BY <1>2, <1>3, <1>4, SoundPush DEF Code
<1> QED
  BY <1>1, <1>3, <1>5, <1>6 DEF IsConcat

\* What dereferencing a static that is not initialised puts in front
LEMMA InitPush ==
  ASSUME NEW x \in Lazies, NEW c, c = InitCode(x) \o << <<"ready", x>> >>
  PROVE  /\ c \in Seq(Instruction) /\ Matched(c) /\ Even(c) /\ Ranked(c)
         /\ From(c, Rank[x]) /\ Quiet(c)
         /\ \A r \in Resource : Owes(c, 1, r) <=> r = <<"lazy", x>>
<1>1. PICK i, ins : i = InitCode(x) /\ ins = <<"ready", x>>
  OBVIOUS
<1>2. ins \in Instruction /\ ins[1] = "ready" /\ ins[2] = x /\ Rank[x] \in Nat
  BY <1>1, RankIs DEF Instruction
<1>3. PICK t : t = <<ins>>
  OBVIOUS
<1>4. t \in Seq(Instruction) /\ Len(t) = 1 /\ t[1] = ins /\ \A j \in 1..Len(t) : j = 1
  BY <1>2, <1>3
<1>5. IsConcat(c, i, t)
  BY <1>1, <1>3, <1>4, CodeInit, Concat DEF Code
<1>6. Code(i, Rank[x] + 1) /\ Rank[x] + 1 \in Nat /\ Rank[x] <= Rank[x] + 1
  BY <1>1, <1>2, CodeInit
<1>7. ~Asks(ins) /\ ~Enables(ins) /\ \A r : ~Takes(ins, r) /\ (Gives(ins, r) <=> r = <<"lazy", x>>)
  BY <1>2 DEF Asks, Enables, Takes, Gives
<1>8. Matched(t) /\ Even(t) /\ Ranked(t) /\ From(t, Rank[x]) /\ Quiet(t)
  <2>1. \A r : Gives(ins, r) => Rank[r[2]] = Rank[x]
    BY <1>7
  <2>2. From(t, Rank[x])
    BY <1>2, <1>4, <1>7, <2>1 DEF From
  <2>3. Even(t)
    <3>1. \A k \in 1..Len(t) : \A j \in k + 1..Len(t) : FALSE
      BY <1>4
    <3> QED
      BY <3>1 DEF Even, Owes
  <2> QED
    BY <1>4, <1>7, <2>2, <2>3 DEF Matched, Ranked, Quiet
<1>9. \A r : Owes(t, 1, r) <=> r = <<"lazy", x>>
  <2>1. ASSUME NEW r, Owes(t, 1, r) PROVE r = <<"lazy", x>>
    BY <1>4, <1>7, <2>1 DEF Owes
  <2>2. Owes(t, 1, <<"lazy", x>>)
    <3>1. 1 \in 1..Len(t) /\ \A j \in 1..1 - 1 : FALSE
      BY <1>4
    <3> QED
      BY <1>4, <1>7, <3>1 DEF Owes
  <2> QED
    BY <2>1, <2>2
<1>10. Code(i, Rank[x])
  BY <1>2, <1>6, CodeWeaken
<1>11. Matched(c)
  BY <1>5, <1>6, <1>8, MatchedConcat DEF Code
<1>12. Ranked(c) /\ Even(c)
  <2>1. \A r \in Resource : Owes(t, 1, r) => Rank[r[2]] < Rank[x] + 1
    BY <1>2, <1>9
  <2> QED
    BY <1>5, <1>6, <1>8, <2>1, RankedConcat, EvenAbove DEF Code
<1>13. From(c, Rank[x]) /\ Quiet(c)
  BY <1>5, <1>8, <1>10, FromConcat, QuietConcat DEF Code
<1>14. Owes(c, 1, <<"lazy", x>>)
  <2>1. \A j \in 1..Len(i) : ~Takes(i[j], <<"lazy", x>>)
    BY DEF Takes
  <2> QED
    BY <1>5, <1>9, <2>1, OwesThrough
<1>15. ASSUME NEW r \in Resource, Owes(c, 1, r) PROVE r = <<"lazy", x>>
  <2>1. 1 \in 1..Len(i) + 1
    BY <1>5 DEF IsConcat
  <2> QED
    BY <1>5, <1>6, <1>9, <1>15, <2>1, OwesFront DEF Code
<1> QED
  BY <1>5, <1>11, <1>12, <1>13, <1>14, <1>15 DEF IsConcat

\* A pair of instructions.
LEMMA PairIs ==
  ASSUME NEW a, NEW b, NEW s, s = <<a, b>>
  PROVE  Len(s) = 2 /\ s[1] = a /\ s[2] = b
  OBVIOUS

\* Before the heap is set up, it is the memory managers that are initialised.
LEMMA InitBeforeHeap ==
  ASSUME NEW x \in {"VIRTUAL_MANAGER", "PHYSICAL_MANAGER"}, NEW c,
         c = InitCode(x) \o << <<"ready", x>> >>
  PROVE  \A i \in 1..Len(c) : BeforeHeap(c[i])
<1>1. c = << <<"may", "panic">>, <<"ready", x>> >>
  <2>1. InitCode(x) = << <<"may", "panic">> >>
    BY DEF InitCode, May
  <2> QED
    BY <2>1, PairOfOnes
<1>2. Len(c) = 2 /\ c[1] = <<"may", "panic">> /\ c[2] = <<"ready", x>>
  <2>1. PICK a, b : a = <<"may", "panic">> /\ b = <<"ready", x>>
    OBVIOUS
  <2>2. c = <<a, b>>
    BY <1>1, <2>1, Zenon
  <2>3. Len(c) = 2 /\ c[1] = a /\ c[2] = b
    BY <2>2, PairIs
  <2> QED
    BY <2>1, <2>3, Zenon
<1>3. \A i \in 1..Len(c) : i = 1 \/ i = 2
  BY <1>2
<1> QED
  BY <1>2, <1>3 DEF BeforeHeap

-----------------------------------------------------------------------------
(***************************************************************************)
(* The boot.                                                               *)
(***************************************************************************)

\* kmain up to the point where it enables interrupts
Boot == gdt_initialize \o memory_initialize \o interrupts_initialize \o smp_initialize \o
        initrd_initialize \o scheduler_initialize \o intro_initialize \o
        shell_initialize \o userspace_initialize

\* Gdt::initialize is well-behaved.
LEMMA CodeGdt == Code(gdt_initialize, 1)
<1>1. Code(<< <<"lgdt", "GDT">> >>, 1) /\ Code(<< <<"set_reg", "CS">> >>, 1)
  BY CodeFree DEF Single, Instruction
<1>2. << <<"lgdt", "GDT">> >> \o << <<"set_reg", "CS">> >> = gdt_initialize
  BY PairOfOnes DEF gdt_initialize
<1> QED
  BY <1>1, <1>2, CodeConcat

\* Setting the heap up is well-behaved.
LEMMA CodeHeap == Code(<< <<"lock", "HEAP">>, <<"heap", "HEAP">> >>, 1)
<1>1. PICK give : give = <<"heap", "HEAP">>
  OBVIOUS
<1>2. give \in Instruction /\ give[1] \in {"unlock", "alloc", "heap"} /\ give[2] = "HEAP"
  BY <1>1 DEF Instruction
<1>3. PICK body : body = <<>>
  OBVIOUS
<1>4. "HEAP" \in Locks /\ Rank["HEAP"] = 13 /\ Code(body, 14)
  BY <1>3, RankIs, CodeEmpty DEF Locks
<1>5. Code(<< <<"lock", "HEAP">> >> \o (body \o <<give>>), Rank["HEAP"])
  BY <1>2, <1>4, CodeBracket
<1>6. body \o <<give>> = <<give>>
  BY <1>2, <1>3
<1>7. << <<"lock", "HEAP">> >> \o <<give>> = << <<"lock", "HEAP">>, <<"heap", "HEAP">> >>
  BY <1>1, PairOfOnes
<1>8. Code(<< <<"lock", "HEAP">>, <<"heap", "HEAP">> >>, 13)
  BY <1>4, <1>5, <1>6, <1>7
<1> QED
  BY <1>8, CodeWeaken

\* Memory::initialize is well-behaved.
LEMMA CodeMemory == Code(memory_initialize, 1)
<1>1. Code(allocate_pages, 3)
  BY CodeMay DEF allocate_pages
<1>2. Code(Use("PHYSICAL_MANAGER", allocate_pages), 2)
  BY <1>1, RankIs, CodeUse DEF Locks, Lazies
<1>3. Code(Use("VIRTUAL_MANAGER", Use("PHYSICAL_MANAGER", allocate_pages)), 1)
  BY <1>2, RankIs, CodeUse DEF Locks, Lazies
<1> QED
  BY <1>3, CodeHeap, CodeConcat DEF memory_initialize

\* Interrupts::initialize is well-behaved.
LEMMA CodeInterrupts == Code(interrupts_initialize, 1)
<1>1. PICK ins, take, give : ins = <<"idt", "IDT">> /\ take = <<"lock", "PICS">> /\ give = <<"unlock", "PICS">>
  OBVIOUS
<1>2. /\ take \in Instruction /\ ins \in Instruction /\ ins[1] \in Single /\ ~Asks(ins)
      /\ give \in Instruction /\ give[1] \in {"unlock", "alloc", "heap"} /\ give[2] = "PICS"
  BY <1>1 DEF Instruction, Single, Asks, Locks
<1>3. PICK body : body = <<>>
  OBVIOUS
<1>4. "PICS" \in Locks /\ Rank["PICS"] = 11 /\ Code(body, 12)
  BY <1>3, RankIs, CodeEmpty DEF Locks
<1>5. Code(<< <<"lock", "PICS">> >> \o (body \o <<give>>), Rank["PICS"])
  BY <1>2, <1>4, CodeBracket
<1>6. body \o <<give>> = <<give>>
  BY <1>2, <1>3
<1>7. Code(<<take>> \o <<give>>, 11)
  BY <1>1, <1>4, <1>5, <1>6
<1>8. Code(<<take>> \o <<give>>, 1)
  BY <1>7, CodeWeaken
<1>9. Code(<<ins>>, 1)
  BY <1>2, CodeOne
<1>10. Code(<<ins>> \o (<<take>> \o <<give>>), 1)
  BY <1>8, <1>9, CodeConcat
<1>11. <<ins>> \o (<<take>> \o <<give>>) = interrupts_initialize
  BY <1>1, <1>2, TripleOfOnes DEF interrupts_initialize
<1> QED
  BY <1>10, <1>11

\* Scheduler::initialize is well-behaved.
LEMMA CodeScheduler == Code(scheduler_initialize, 1)
<1>1. Code(<< <<"add", "kernel">> >>, 10)
  BY CodeFree DEF Single, Instruction
<1>2. Code(Alloc, 10)
  BY CodeAlloc, CodeWeaken
<1>3. Code(Alloc \o << <<"add", "kernel">> >>, 10)
  BY <1>1, <1>2, CodeConcat
<1>4. Code(Use("SCHEDULER", Alloc \o << <<"add", "kernel">> >>), 9)
  BY <1>3, RankIs, CodeUse DEF Locks, Lazies
<1> QED
  BY <1>4, CodeWeaken DEF scheduler_initialize

\* Intro::initialize is well-behaved.
LEMMA CodeIntro == Code(intro_initialize, 1)
<1> DEFINE image == Image_new \o May
           text == May \o VgaWrite
<1>1. Code(Image_new, 6) /\ Code(May, 6) /\ Code(VgaWrite, 6)
  BY CodeSmall
<1>2. Code(image, 6) /\ Code(text, 6)
  BY <1>1, CodeConcat
<1> HIDE DEF image, text
<1>3. Code(image \o image, 6)
  BY <1>2, CodeConcat
<1>4. Code(image \o image \o image, 6)
  BY <1>2, <1>3, CodeConcat
<1>5. Code(image \o image \o image \o text, 6)
  BY <1>2, <1>4, CodeConcat
<1>6. Code(image \o image \o image \o text \o text, 6)
  BY <1>2, <1>5, CodeConcat
<1>7. Code(image \o image \o image \o text \o text \o text, 6)
  BY <1>2, <1>6, CodeConcat
<1>8. Code(Use("VGA", image \o image \o image \o text \o text \o text), 5)
  BY <1>7, RankIs, CodeUse DEF Locks, Lazies
<1>9. intro_initialize = Use("VGA", image \o image \o image \o text \o text \o text)
  BY DEF intro_initialize, image, text
<1> QED
  BY <1>8, <1>9, CodeWeaken

\* Shell::initialize is well-behaved.
LEMMA CodeShell == Code(shell_initialize, 1)
<1>1. Code(display(Write), 8)
  BY CodeSmall
<1>2. Code(Use("SERIAL", display(Write)), 7)
  BY <1>1, RankIs, CodeUse DEF Locks, Lazies
<1>3. Code(Use("SERIAL_CONSOLE", Use("SERIAL", display(Write))), 6)
  BY <1>2, RankIs, CodeUse DEF Locks, Lazies
<1> QED
  BY <1>3, CodeWeaken DEF shell_initialize

\* So are the others that kmain calls.
LEMMA CodeRest ==
  Code(smp_initialize, 1) /\ Code(initrd_initialize, 1) /\ Code(userspace_initialize, 1)
<1>1. Code(May, 1) /\ Code(Log, 1) /\ Code(Deref("INITRD"), 1)
  BY CodeSmall
<1>2. Code(<< <<"star", "STAR">> >>, 1)
  BY CodeFree DEF Single, Instruction
<1> QED
  BY <1>1, <1>2, CodeConcat DEF smp_initialize, initrd_initialize, userspace_initialize

\* s begins with c.
Begins(s, c) == \E t \in Seq(Instruction) : IsConcat(s, c, t)

\* Code begins as it did when more is put behind it.
LEMMA BeginsMore ==
  ASSUME NEW s, NEW c, NEW t \in Seq(Instruction), Begins(s, c)
  PROVE  Begins(s \o t, c)
<1>1. PICK u \in Seq(Instruction) : IsConcat(s, c, u)
  BY DEF Begins
<1>2. s \in Seq(Instruction) /\ c \in Seq(Instruction)
  BY <1>1 DEF IsConcat
<1>3. PICK st, ut : st = s \o t /\ ut = u \o t
  OBVIOUS
<1>4. IsConcat(st, s, t) /\ IsConcat(ut, u, t)
  BY <1>2, <1>3, Concat
<1>5. IsConcat(st, c, ut)
  <2>1. ASSUME NEW i \in 1..Len(c) PROVE st[i] = c[i]
    <3>1. i \in 1..Len(s)
      BY <1>1 DEF IsConcat
    <3> QED
      BY <1>1, <1>4, <3>1 DEF IsConcat
  <2>2. ASSUME NEW i \in 1..Len(ut) PROVE st[i + Len(c)] = ut[i]
    <3>1. CASE i \in 1..Len(u)
      <4>1. i + Len(c) \in 1..Len(s)
        BY <1>1, <3>1 DEF IsConcat
      <4> QED
        BY <1>1, <1>4, <3>1, <4>1 DEF IsConcat
    <3>2. CASE ~(i \in 1..Len(u))
      <4>1. PICK j : j = i - Len(u)
        OBVIOUS
      <4>2. j \in 1..Len(t) /\ j + Len(u) = i /\ j + Len(s) = i + Len(c)
        BY <1>1, <1>4, <3>2, <4>1 DEF IsConcat
      <4> QED
        BY <1>4, <4>2 DEF IsConcat
    <3> QED
      BY <3>1, <3>2
  <2> QED
    BY <1>1, <1>4, <2>1, <2>2 DEF IsConcat
<1>6. ut \in Seq(Instruction)
  BY <1>4 DEF IsConcat
<1> QED
  BY <1>3, <1>5, <1>6 DEF Begins

\* The boot is well-behaved and begins with the segments and the memory.
LEMMA CodeBoot ==
  /\ Code(Boot, 1) /\ Begins(Boot, gdt_initialize \o memory_initialize)
  /\ kmain = (Boot \o Log) \o << <<"sti", "IF">>, hlt >>
<1>1. PICK s1, s2, s3, s4, s5, s6, s7, s8, s9 :
        /\ s1 = gdt_initialize /\ s2 = memory_initialize /\ s3 = interrupts_initialize
        /\ s4 = smp_initialize /\ s5 = initrd_initialize /\ s6 = scheduler_initialize
        /\ s7 = intro_initialize /\ s8 = shell_initialize /\ s9 = userspace_initialize
  OBVIOUS
<1>2. /\ Code(s1, 1) /\ Code(s2, 1) /\ Code(s3, 1) /\ Code(s4, 1) /\ Code(s5, 1)
      /\ Code(s6, 1) /\ Code(s7, 1) /\ Code(s8, 1) /\ Code(s9, 1)
  BY <1>1, CodeGdt, CodeMemory, CodeInterrupts, CodeRest, CodeScheduler, CodeIntro, CodeShell, Zenon
<1>3. /\ s3 \in Seq(Instruction) /\ s4 \in Seq(Instruction) /\ s5 \in Seq(Instruction)
      /\ s6 \in Seq(Instruction) /\ s7 \in Seq(Instruction) /\ s8 \in Seq(Instruction)
      /\ s9 \in Seq(Instruction)
  BY <1>2 DEF Code
<1>4. PICK c2, c3, c4, c5, c6, c7, c8, c9 :
        /\ c2 = s1 \o s2 /\ c3 = c2 \o s3 /\ c4 = c3 \o s4 /\ c5 = c4 \o s5
        /\ c6 = c5 \o s6 /\ c7 = c6 \o s7 /\ c8 = c7 \o s8 /\ c9 = c8 \o s9
  OBVIOUS
<1>5. Boot = c9 /\ gdt_initialize \o memory_initialize = c2
  BY <1>1, <1>4, Zenon DEF Boot
<1>6. 1 \in Nat
  OBVIOUS
<1>7. Code(c2, 1)
  BY <1>2, <1>4, <1>6, CodeConcat, Zenon
<1>8. Code(c3, 1)
  BY <1>2, <1>4, <1>6, <1>7, CodeConcat, Zenon
<1>9. Code(c4, 1)
  BY <1>2, <1>4, <1>6, <1>8, CodeConcat, Zenon
<1>10. Code(c5, 1)
  BY <1>2, <1>4, <1>6, <1>9, CodeConcat, Zenon
<1>11. Code(c6, 1)
  BY <1>2, <1>4, <1>6, <1>10, CodeConcat, Zenon
<1>12. Code(c7, 1)
  BY <1>2, <1>4, <1>6, <1>11, CodeConcat, Zenon
<1>13. Code(c8, 1)
  BY <1>2, <1>4, <1>6, <1>12, CodeConcat, Zenon
<1>14. Code(c9, 1)
  BY <1>2, <1>4, <1>6, <1>13, CodeConcat, Zenon
<1>15. Begins(c2, c2)
  <2>1. PICK e : e = <<>>
    OBVIOUS
  <2>2. e \in Seq(Instruction) /\ Len(e) = 0 /\ c2 \in Seq(Instruction) /\ Len(c2) \in Nat
    BY <1>7, <2>1 DEF Code
  <2>3. IsConcat(c2, c2, e)
    BY <2>2 DEF IsConcat
  <2> QED
    BY <2>2, <2>3 DEF Begins
<1>16. Begins(c3, c2)
  BY <1>3, <1>4, <1>15, BeginsMore, Zenon
<1>17. Begins(c4, c2)
  BY <1>3, <1>4, <1>16, BeginsMore, Zenon
<1>18. Begins(c5, c2)
  BY <1>3, <1>4, <1>17, BeginsMore, Zenon
<1>19. Begins(c6, c2)
  BY <1>3, <1>4, <1>18, BeginsMore, Zenon
<1>20. Begins(c7, c2)
  BY <1>3, <1>4, <1>19, BeginsMore, Zenon
<1>21. Begins(c8, c2)
  BY <1>3, <1>4, <1>20, BeginsMore, Zenon
<1>22. Begins(c9, c2)
  BY <1>3, <1>4, <1>21, BeginsMore, Zenon
<1>23. kmain = (Boot \o Log) \o << <<"sti", "IF">>, hlt >>
  <2>1. PICK l, e : l = Log /\ e = << <<"sti", "IF">>, hlt >>
    OBVIOUS
  <2>2. kmain = c9 \o (l \o e)
    BY <1>1, <1>4, <2>1, Zenon DEF kmain, tick_loop, hlt
  <2>3. c9 \in Seq(Instruction) /\ l \in Seq(Instruction)
    BY <1>14, <2>1, CodeLog DEF Code
  <2>4. e \in Seq(Instruction)
    <3>1. PICK ins : ins = <<"sti", "IF">>
      OBVIOUS
    <3>2. ins \in Instruction /\ Enables(ins)
      BY <3>1 DEF Instruction, Enables
    <3> QED
      BY <2>1, <3>1, <3>2, EndTail
  <2>5. (c9 \o l) \o e = c9 \o (l \o e)
    BY <2>3, <2>4, Assoc
  <2> QED
    BY <1>5, <2>1, <2>2, <2>5, Zenon
<1> QED
  BY <1>5, <1>14, <1>22, <1>23, Zenon

Early(s) == s \in Seq(Instruction) /\ \A i \in 1..Len(s) : BeforeHeap(s[i])

\* Two parts without the heap do without it together.
LEMMA EarlyConcat ==
  ASSUME NEW c, NEW t, Early(c), Early(t)
  PROVE  Early(c \o t)
<1>1. PICK s : s = c \o t
  OBVIOUS
<1>2. IsConcat(s, c, t)
  BY <1>1, Concat DEF Early
<1>3. \A i \in 1..Len(s) : BeforeHeap(s[i])
  BY <1>2, ConcatIndex DEF Early
<1>4. Early(s)
  BY <1>2, <1>3 DEF Early, IsConcat
<1> QED
  BY <1>1, <1>4

\* An instruction that does without the heap.
LEMMA EarlyOne ==
  ASSUME NEW op, NEW arg, <<op, arg>> \in Instruction, BeforeHeap(<<op, arg>>)
  PROVE  Early(<< <<op, arg>> >>)
<1>1. PICK ins, s : ins = <<op, arg>> /\ s = <<ins>>
  OBVIOUS
<1>2. s \in Seq(Instruction) /\ \A i \in 1..Len(s) : s[i] = ins
  BY <1>1
<1>3. Early(s)
  BY <1>1, <1>2 DEF Early
<1> QED
  BY <1>1, <1>3

\* The locks of the memory managers do without the heap.
LEMMA EarlyUse ==
  ASSUME NEW x \in {"VIRTUAL_MANAGER", "PHYSICAL_MANAGER"}, NEW body, Early(body)
  PROVE  Early(Use(x, body))
<1>1. PICK f, l, u : f = Deref(x) /\ l = << <<"lock", x>> >> /\ u = << <<"unlock", x>> >>
  OBVIOUS
<1>2. Early(f) /\ Early(l) /\ Early(u)
  BY <1>1, EarlyOne DEF Deref, BeforeHeap, Instruction, Locks, Lazies
<1>3. Early(f \o l)
  BY <1>2, EarlyConcat
<1>4. Early((f \o l) \o body)
  BY <1>3, EarlyConcat
<1>5. Early(((f \o l) \o body) \o u)
  BY <1>2, <1>4, EarlyConcat
<1> QED
  BY <1>1, <1>5 DEF Use

\* The boot sets the segments up first, and the heap before it needs it.
LEMMA KmainBegins ==
  /\ kmain \in Seq(Instruction) /\ Len(kmain) >= 2
  /\ kmain[1] = <<"lgdt", "GDT">> /\ kmain[2] = <<"set_reg", "CS">>
  /\ HeapFirst(kmain)
<1>1. PICK g, u, h : /\ g = gdt_initialize /\ h = << <<"lock", "HEAP">>, <<"heap", "HEAP">> >>
                     /\ u = Use("VIRTUAL_MANAGER", Use("PHYSICAL_MANAGER", allocate_pages))
  OBVIOUS
<1>2. /\ g \in Seq(Instruction) /\ Len(g) = 2
      /\ g[1] = <<"lgdt", "GDT">> /\ g[2] = <<"set_reg", "CS">>
  <2>1. PICK a, b : a = <<"lgdt", "GDT">> /\ b = <<"set_reg", "CS">>
    OBVIOUS
  <2>2. a \in Instruction /\ b \in Instruction
    BY <2>1 DEF Instruction
  <2>3. g = <<a, b>>
    BY <1>1, <2>1 DEF gdt_initialize
  <2> QED
    BY <2>1, <2>2, <2>3
<1>3. HeapFirst(h) /\ h \in Seq(Instruction)
  <2>1. PICK a, b : a = <<"lock", "HEAP">> /\ b = <<"heap", "HEAP">>
    OBVIOUS
  <2>2. a \in Instruction /\ b \in Instruction /\ BeforeHeap(a) /\ b[1] = "heap"
    BY <2>1 DEF Instruction, BeforeHeap, Locks
  <2>3. h \in Seq(Instruction) /\ Len(h) = 2 /\ h[1] = a /\ h[2] = b
    <3>1. h = <<a, b>>
      BY <1>1, <2>1
    <3> QED
      BY <2>2, <3>1
  <2>4. 2 \in 1..Len(h) /\ \A j \in 1..2 - 1 : j = 1
    BY <2>3
  <2> QED
    BY <2>2, <2>3, <2>4 DEF HeapFirst
<1>4. Early(g)
  <2>1. \A i \in 1..Len(g) : i = 1 \/ i = 2
    BY <1>2
  <2> QED
    BY <1>2, <2>1 DEF Early, BeforeHeap
<1>5. Early(u)
  <2>1. Early(allocate_pages)
    BY EarlyOne DEF allocate_pages, May, Instruction, BeforeHeap
  <2> QED
    BY <1>1, <2>1, EarlyUse
<1>6. PICK m, c : m = u \o h /\ c = g \o m
  OBVIOUS
<1>7. IsConcat(m, u, h)
  BY <1>3, <1>5, <1>6, Concat DEF Early
<1>8. m \in Seq(Instruction) /\ IsConcat(c, g, m)
  BY <1>2, <1>6, <1>7, Concat DEF IsConcat
<1>9. HeapFirst(m)
  BY <1>3, <1>5, <1>7, HeapFirstPush DEF Early
<1>10. HeapFirst(c)
  BY <1>4, <1>8, <1>9, HeapFirstPush DEF Early
<1>11. c = gdt_initialize \o memory_initialize
  BY <1>1, <1>6, Zenon DEF memory_initialize
<1>12. Begins(kmain, c)
  <2>1. Begins(Boot, c)
    BY <1>11, CodeBoot, Zenon
  <2>2. PICK l, e : l = Log /\ e = << <<"sti", "IF">>, hlt >>
    OBVIOUS
  <2>3. l \in Seq(Instruction)
    BY <2>2, CodeLog DEF Code
  <2>4. e \in Seq(Instruction)
    <3>1. PICK ins : ins = <<"sti", "IF">>
      OBVIOUS
    <3>2. ins \in Instruction /\ Enables(ins)
      BY <3>1 DEF Instruction, Enables
    <3> QED
      BY <2>2, <3>1, <3>2, EndTail
  <2>5. Begins(Boot \o l, c)
    BY <2>1, <2>3, BeginsMore
  <2>6. Begins((Boot \o l) \o e, c)
    BY <2>4, <2>5, BeginsMore
  <2> QED
    BY <2>2, <2>6, CodeBoot, Zenon
<1>13. PICK t \in Seq(Instruction) : IsConcat(kmain, c, t)
  BY <1>12 DEF Begins
<1>14. PICK k : k = kmain
  OBVIOUS
<1>15. IsConcat(k, c, t)
  BY <1>13, <1>14
<1>16. k \in Seq(Instruction) /\ Len(k) >= 2
  BY <1>2, <1>8, <1>15 DEF IsConcat
<1>17. k[1] = <<"lgdt", "GDT">> /\ k[2] = <<"set_reg", "CS">>
  <2>1. 1 \in 1..Len(g) /\ 2 \in 1..Len(g) /\ 1 \in 1..Len(c) /\ 2 \in 1..Len(c)
    BY <1>2, <1>8 DEF IsConcat
  <2>2. c[1] = g[1] /\ c[2] = g[2]
    BY <1>8, <2>1 DEF IsConcat
  <2>3. k[1] = c[1] /\ k[2] = c[2]
    BY <1>15, <2>1 DEF IsConcat
  <2> QED
    BY <1>2, <2>2, <2>3
<1>18. HeapFirst(k)
  <2>1. PICK n \in 1..Len(c) : c[n][1] = "heap" /\ \A j \in 1..n - 1 : BeforeHeap(c[j])
    BY <1>10 DEF HeapFirst
  <2>2. n \in 1..Len(k) /\ \A j \in 1..n - 1 : j \in 1..Len(c)
    BY <1>15 DEF IsConcat
  <2> QED
    BY <1>15, <2>1, <2>2 DEF IsConcat, HeapFirst
<1> QED
  BY <1>14, <1>16, <1>17, <1>18

\* Nothing of the panic handler enables interrupts.
LEMMA PanicQuiet == panic_handler \in Seq(Instruction) /\ Quiet(panic_handler)
<1> DEFINE Still(c) == c \in Seq(Instruction) /\ Quiet(c)
<1>1. ASSUME NEW c, NEW t, Still(c), Still(t) PROVE Still(c \o t)
  <2>1. PICK s : s = c \o t
    OBVIOUS
  <2>2. IsConcat(s, c, t)
    BY <1>1, <2>1, Concat
  <2>3. Still(s)
    BY <1>1, <2>2, QuietConcat DEF IsConcat
  <2> QED
    BY <2>1, <2>3
<1>2. ASSUME NEW c, Code(c, 1) PROVE Still(c)
  BY <1>2 DEF Code
<1>3. Still(Deref("VGA")) /\ Still(VgaWrite) /\ Still(Log) /\ Still(Halt)
  <2>1. Code(VgaWrite, 1) /\ Code(Log, 1) /\ Code(Deref("VGA"), 1)
    BY CodeSmall, CodeForce, RankIs DEF Lazies
  <2>2. Code(Halt, 1)
    BY CodeHalt, CodeWeaken
  <2> QED
    BY <1>2, <2>1, <2>2
<1>4. Still(<< <<"lock", "VGA">> >>) /\ Still(<< <<"lock", "LOGGER">> >>)
      /\ Still(<< <<"unlock", "LOGGER">> >>) /\ Still(Deref("LOGGER"))
  <2>1. ASSUME NEW op \in {"lock", "unlock", "force"}, NEW x \in {"VGA", "LOGGER"}
        PROVE  Still(<< <<op, x>> >>)
    <3>1. PICK ins, s : ins = <<op, x>> /\ s = <<ins>>
      OBVIOUS
    <3>2. ins \in Instruction /\ ~Enables(ins)
      BY <3>1 DEF Instruction, Locks, Lazies, Enables
    <3>3. s \in Seq(Instruction) /\ \A i \in 1..Len(s) : s[i] = ins
      BY <3>1, <3>2
    <3>4. Still(s)
      BY <3>2, <3>3 DEF Quiet
    <3> QED
      BY <3>1, <3>4
  <2> QED
    BY <2>1 DEF Deref
<1> HIDE DEF Still
<1>5. Still(Use("LOGGER", VgaWrite))
  <2>1. Still(Deref("LOGGER") \o << <<"lock", "LOGGER">> >>)
    BY <1>1, <1>4
  <2>2. Still(Deref("LOGGER") \o << <<"lock", "LOGGER">> >> \o VgaWrite)
    BY <1>1, <1>3, <2>1
  <2>3. Still(Deref("LOGGER") \o << <<"lock", "LOGGER">> >> \o VgaWrite \o << <<"unlock", "LOGGER">> >>)
    BY <1>1, <1>4, <2>2
  <2> QED
    BY <2>3 DEF Use
<1>6. Still(Deref("VGA") \o << <<"lock", "VGA">> >>)
  BY <1>1, <1>3, <1>4
<1>7. Still(Deref("VGA") \o << <<"lock", "VGA">> >> \o VgaWrite)
  BY <1>1, <1>3, <1>6
<1>8. Still(Deref("VGA") \o << <<"lock", "VGA">> >> \o VgaWrite \o Log)
  BY <1>1, <1>3, <1>7
<1>9. Still(Deref("VGA") \o << <<"lock", "VGA">> >> \o VgaWrite \o Log \o Use("LOGGER", VgaWrite))
  BY <1>1, <1>5, <1>8
<1>10. Still(Deref("VGA") \o << <<"lock", "VGA">> >> \o VgaWrite \o Log \o
             Use("LOGGER", VgaWrite) \o Halt)
  BY <1>1, <1>3, <1>9
<1>11. Still(panic_handler)
  BY <1>10 DEF panic_handler
<1> QED
  BY <1>11 DEF Still

\* The order of the segments is one that Star::write accepts.
LEMMA SegmentsAccepted == StarAccepts
<1>1. Selector("kernel_data") = 2
  BY DEF Selectors, Selector
<1> QED
  BY <1>1 DEF StarAccepts, Selector, Selectors

-----------------------------------------------------------------------------
(***************************************************************************)
(* The invariant is inductive.                                             *)
(***************************************************************************)

KInv == KTypeOK /\ Masked /\ Faultless /\ Segments

\* The invariant holds when kmain is entered.
LEMMA KInvInit == ASSUME KInit PROVE KInv
<1>1. PICK c, e, s : c = Boot \o Log /\ e = <<"sti", "IF">> /\ s = kmain
  OBVIOUS
<1>2. Code(c, 1)
  <2>1. Code(Boot, 1) /\ Code(Log, 1)
    BY CodeBoot, CodeSmall
  <2> QED
    BY <1>1, <2>1, CodeConcat
<1>3. e \in Instruction /\ Enables(e)
  BY <1>1 DEF Instruction, Enables
<1>4. s = c \o <<e, hlt>>
  BY <1>1, CodeBoot, Zenon
<1>5. s \in Seq(Instruction) /\ Fine(s, {}) /\ Sound(s, {})
  BY <1>2, <1>3, <1>4, Finishes
<1>6. Has = {}
  BY DEF KInit, Has
<1>7. todo = s /\ enabled = FALSE /\ held = {} /\ isr = {} /\ lazy = [x \in Lazies |-> "no"]
  BY <1>1, Zenon DEF KInit
<1>8. KTypeOK
  <2>1. cpu = [gdt |-> "limine", cs |-> "limine", idt |-> "none"]
    BY DEF KInit
  <2> QED
    BY <1>5, <1>7, <2>1 DEF KTypeOK
<1>9. Masked
  BY <1>5, <1>6, <1>7 DEF Masked
<1>10. Faultless
  <2>1. cpu.idt = "none"
    BY DEF KInit
  <2> QED
    BY <1>1, <1>5, <1>6, <1>7, <2>1, KmainBegins DEF Faultless
<1>11. Segments
  <2>1. cpu = [gdt |-> "limine", cs |-> "limine", idt |-> "none"] /\ todo = kmain
    BY DEF KInit
  <2> QED
    BY <2>1 DEF Segments
<1> QED
  BY <1>8, <1>9, <1>10, <1>11 DEF KInv

\* The instruction at the head is done and nothing takes its place.
LEMMA TailStep ==
  ASSUME KInv, todo # <<>>, todo' = Tail(todo), enabled' = enabled, fault' = fault,
         ~Enables(Head(todo)), Head(todo)[1] # "hlt", Leaves(Head(todo), Has, Has'),
         heap' = "ready" \/ (heap' = heap /\ Head(todo)[1] # "heap"),
         cpu'.idt = cpu.idt \/ Head(todo)[1] = "idt"
  PROVE  todo' \in Seq(Instruction) /\ ~enabled /\ Masked' /\ Faultless'
<1>1. todo \in Seq(Instruction) /\ Tail(todo) \in Seq(Instruction)
  BY HeadTail DEF KInv, KTypeOK
<1>2. ~enabled
  BY DEF KInv, Masked, hlt
<1>3. Fine(todo, Has)
  BY <1>2 DEF KInv, Masked
<1>4. Fine(todo', Has')
  BY <1>1, <1>3, FineTail
<1>5. Masked'
  BY <1>2, <1>4 DEF Masked
<1>6. ASSUME Unhurt
      PROVE  Sound(todo', Has') /\ (heap' = "ready" \/ (HeapFirst(todo') /\ cpu'.idt = "none"))
  <2>1. Sound(todo, Has) /\ (heap = "ready" \/ (HeapFirst(todo) /\ cpu.idt = "none"))
    BY <1>6 DEF KInv, Faultless
  <2>2. Sound(todo', Has')
    BY <1>1, <2>1, SoundTail
  <2>3. HeapFirst(todo) /\ Head(todo)[1] # "heap" => HeapFirst(todo') /\ Head(todo)[1] # "idt"
    BY <1>1, HeapFirstTail DEF BeforeHeap
  <2> QED
    BY <2>1, <2>2, <2>3
<1>7. Unhurt' => Unhurt
  BY DEF Unhurt
<1> QED
  BY <1>1, <1>2, <1>5, <1>6, <1>7 DEF Faultless

\* Instructions other than lgdt and set_reg leave the segments as they are, and
\* a gate copies CS as it is.
LEMMA SegmentsStep ==
  ASSUME KInv, Segments, todo # <<>>, Head(todo)[1] \notin {"lgdt", "set_reg"},
         cpu' = cpu \/ cpu' = [cpu EXCEPT !.idt = cpu.cs]
  PROVE  Segments'
<1>1. /\ kmain \in Seq(Instruction) /\ Len(kmain) >= 2
      /\ kmain[1] = <<"lgdt", "GDT">> /\ kmain[2] = <<"set_reg", "CS">>
  BY KmainBegins
<1>2. todo # kmain
  <2>1. Head(kmain) = kmain[1]
    BY <1>1
  <2> QED
    BY <1>1, <2>1
<1>3. todo # Tail(kmain)
  <2>1. Head(Tail(kmain)) = kmain[2]
    <3>1. PICK k : k = kmain
      OBVIOUS
    <3>2. Len(k) \in Nat /\ k \in Seq(Instruction) /\ Len(k) >= 2
      BY <1>1, <3>1
    <3>3. Head(Tail(k)) = k[2]
      BY <3>2
    <3> QED
      BY <3>1, <3>3
  <2> QED
    BY <1>1, <2>1
<1>4. cpu.gdt = "kernel" /\ cpu.cs = "kernel" /\ cpu.idt \in {"none", "kernel"}
  BY <1>2, <1>3 DEF Segments
<1>5. cpu \in [gdt : {"limine", "kernel"}, cs : {"limine", "kernel"},
               idt : {"none", "limine", "kernel"}]
  BY DEF KInv, KTypeOK
<1>6. cpu'.gdt = "kernel" /\ cpu'.cs = "kernel" /\ cpu'.idt \in {"none", "kernel"}
  BY <1>4, <1>5
<1> QED
  BY <1>6 DEF Segments

\* An instruction that takes nothing and gives nothing back
LEMMA PlainStep ==
  ASSUME KInv, todo # <<>>, todo' = Tail(todo), UNCHANGED <<held, lazy, isr, heap, fault>>,
         Head(todo)[1] \in {"may", "star", "idt", "cli", "add", "increment", "tick", "fork",
                            "lgdt", "set_reg", "force"},
         enabled' = enabled \/ enabled' = FALSE, cpu'.idt = cpu.idt \/ Head(todo)[1] = "idt",
         KTypeOK => cpu' \in [gdt : {"limine", "kernel"},
            cs : {"limine", "kernel"}, idt : {"none", "limine", "kernel"}]
  PROVE  KTypeOK' /\ Masked' /\ Faultless'
<1>1. Has' = Has
  BY DEF Has
<1>2. \A r : ~Gives(Head(todo), r)
  BY DEF Gives
<1>3. Leaves(Head(todo), Has, Has')
  BY <1>1, <1>2 DEF Leaves, Takes
<1>4. ~Enables(Head(todo)) /\ Head(todo)[1] # "hlt" /\ Head(todo)[1] # "heap"
  BY DEF Enables
<1>5. ~enabled
  <2>1. todo = <<hlt>> => Head(todo)[1] = "hlt"
    BY DEF hlt
  <2> QED
    BY <1>4, <2>1 DEF KInv, Masked
<1>6. enabled' = enabled
  BY <1>5 DEF KInv, KTypeOK
<1>7. todo' \in Seq(Instruction) /\ Masked' /\ Faultless'
  BY <1>3, <1>4, <1>6, TailStep
<1> QED
  BY <1>6, <1>7 DEF KInv, KTypeOK

\* The instructions without a lock keep the invariant.
LEMMA PlainSteps ==
  ASSUME KInv, succeed \/ star \/ load \/ cli \/ add_kernel \/ timer_increment \/ scheduler_fork
  PROVE  KInv'
<1>1. /\ todo # <<>> /\ Head(todo)[1] \in {"may", "star", "idt", "cli", "add", "increment", "fork"}
      /\ UNCHANGED <<held, lazy, isr, heap, fault>> /\ todo' = Tail(todo)
      /\ enabled' = enabled \/ enabled' = FALSE
      /\ cpu' = cpu \/ (cpu' = [cpu EXCEPT !.idt = cpu.cs] /\ Head(todo)[1] = "idt")
  BY SegmentsAccepted
     DEF succeed, star, load, cli, add_kernel, timer_increment, scheduler_fork, Does
<1>2. KTypeOK => cpu' \in [gdt : {"limine", "kernel"}, cs : {"limine", "kernel"},
                          idt : {"none", "limine", "kernel"}]
  BY <1>1 DEF KTypeOK
<1>3. KTypeOK' /\ Masked' /\ Faultless'
  BY <1>1, <1>2, PlainStep
<1>4. Segments'
  BY <1>1, SegmentsStep DEF KInv
<1> QED
  BY <1>3, <1>4 DEF KInv

\* Loading the table and the selectors keeps the invariant.
LEMMA SegmentSteps ==
  ASSUME KInv, lgdt \/ set_reg
  PROVE  KInv'
<1>1. /\ todo # <<>> /\ Head(todo)[1] \in {"lgdt", "set_reg"} /\ todo' = Tail(todo)
      /\ UNCHANGED <<held, lazy, isr, heap, fault, enabled>>
      /\ \/ Head(todo)[1] = "lgdt" /\ cpu' = [cpu EXCEPT !.gdt = "kernel"]
         \/ Head(todo)[1] = "set_reg" /\ cpu' = [cpu EXCEPT !.cs = "kernel"]
  BY DEF lgdt, set_reg, Does
<1>2. cpu \in [gdt : {"limine", "kernel"}, cs : {"limine", "kernel"},
               idt : {"none", "limine", "kernel"}]
  BY DEF KInv, KTypeOK
<1>3. KTypeOK' /\ Masked' /\ Faultless'
  <2>1. cpu'.idt = cpu.idt
    BY <1>1, <1>2
  <2> QED
    BY <1>1, <1>2, <2>1, PlainStep
<1>4. Segments'
  <2>1. /\ kmain \in Seq(Instruction) /\ Len(kmain) >= 2
        /\ kmain[1] = <<"lgdt", "GDT">> /\ kmain[2] = <<"set_reg", "CS">>
    BY KmainBegins
  <2>2. Head(kmain) = kmain[1] /\ Head(Tail(kmain)) = kmain[2]
    <3>1. PICK k : k = kmain
      OBVIOUS
    <3>2. Len(k) \in Nat /\ k \in Seq(Instruction) /\ Len(k) >= 2
      BY <2>1, <3>1
    <3>3. Head(k) = k[1] /\ Head(Tail(k)) = k[2]
      BY <3>2
    <3> QED
      BY <3>1, <3>3
  <2>3. CASE cpu.gdt = "limine" /\ cpu.cs = "limine" /\ cpu.idt = "none" /\ todo = kmain
    <3>1. cpu' = [cpu EXCEPT !.gdt = "kernel"]
      BY <1>1, <2>1, <2>2, <2>3
    <3>2. cpu'.gdt = "kernel" /\ cpu'.cs = "limine" /\ cpu'.idt = "none"
      BY <1>2, <2>3, <3>1
    <3> QED
      BY <1>1, <2>3, <3>2 DEF Segments
  <2>4. CASE cpu.gdt = "kernel" /\ cpu.cs = "limine" /\ cpu.idt = "none" /\ todo = Tail(kmain)
    <3>1. cpu' = [cpu EXCEPT !.cs = "kernel"]
      BY <1>1, <2>1, <2>2, <2>4
    <3>2. cpu'.gdt = "kernel" /\ cpu'.cs = "kernel" /\ cpu'.idt = "none"
      BY <1>2, <2>4, <3>1
    <3> QED
      BY <3>2 DEF Segments
  <2>5. CASE cpu.gdt = "kernel" /\ cpu.cs = "kernel" /\ cpu.idt \in {"none", "kernel"}
    <3>1. cpu'.gdt = "kernel" /\ cpu'.cs = "kernel" /\ cpu'.idt \in {"none", "kernel"}
      BY <1>1, <1>2, <2>5
    <3> QED
      BY <3>1 DEF Segments
  <2> QED
    BY <2>3, <2>4, <2>5 DEF KInv, Segments
<1> QED
  BY <1>3, <1>4 DEF KInv

\* What an instruction that takes, gives back or ends leaves owned
LEMMA OwningLeaves ==
  ASSUME KTypeOK, ready \/ lock \/ unlock \/ heap_init \/ eoi \/ alloc
  PROVE  /\ held' \subseteq Locks /\ isr' \subseteq Irq
         /\ lazy' \in [Lazies -> {"no", "running", "ready"}]
         /\ Leaves(Head(todo), Has, Has')
<1>1. PICK h : h = Head(todo)
  OBVIOUS
<1>2. todo # <<>> /\ h \in Instruction
  BY <1>1, HeadTail DEF KTypeOK, ready, lock, unlock, heap_init, eoi, alloc, Does
<1>3. CASE ready
  <2>1. h[1] = "ready" /\ h[2] \in Lazies
    BY <1>1, <1>2, <1>3 DEF ready, Does, Instruction
  <2>2. UNCHANGED <<held, isr>> /\ lazy' = [lazy EXCEPT ![h[2]] = "ready"]
    BY <1>1, <1>3 DEF ready, Arg
  <2>3. \A r \in Has' : r \in Has /\ ~Gives(h, r)
    BY <2>1, <2>2 DEF Has, Gives, KTypeOK
  <2>4. \A r \in Resource : (r \in Has \/ Takes(h, r)) /\ ~Gives(h, r) => r \in Has'
    BY <2>1, <2>2 DEF Has, Gives, Takes, KTypeOK, Resource
  <2> QED
    BY <1>1, <2>1, <2>2, <2>3, <2>4 DEF KTypeOK, Leaves
<1>4. CASE lock
  <2>1. h[1] = "lock" /\ h[2] \in Locks
    BY <1>1, <1>2, <1>4 DEF lock, Does, Instruction
  <2>2. UNCHANGED <<lazy, isr>> /\ held' = held \cup {h[2]}
    BY <1>1, <1>4 DEF lock, Arg
  <2>3. \A r \in Has' : (r \in Has \/ r = <<"lock", h[2]>>) /\ ~Gives(h, r)
    BY <2>1, <2>2 DEF Has, Gives
  <2>4. Takes(h, <<"lock", h[2]>>) /\ <<"lock", h[2]>> \in Resource
    BY <2>1 DEF Takes, Resource
  <2>5. \A r \in Resource : (r \in Has \/ Takes(h, r)) /\ ~Gives(h, r) => r \in Has'
    BY <2>1, <2>2 DEF Has, Gives, Takes, KTypeOK, Resource
  <2> QED
    BY <1>1, <2>1, <2>2, <2>3, <2>4, <2>5 DEF KTypeOK, Leaves
<1>5. CASE unlock \/ heap_init \/ alloc
  <2>1. h[1] \in {"unlock", "heap", "alloc"} /\ (h[1] # "unlock" => h[2] = "HEAP")
    BY <1>1, <1>2, <1>5 DEF unlock, heap_init, alloc, Does, Instruction
  <2>2. UNCHANGED <<lazy, isr>> /\ held' = held \ {h[2]}
    BY <1>1, <1>5, <2>1 DEF unlock, heap_init, alloc, Arg, Does
  <2>3. \A r \in Has' : r \in Has /\ ~Gives(h, r)
    BY <2>1, <2>2 DEF Has, Gives
  <2>4. \A r \in Resource : (r \in Has \/ Takes(h, r)) /\ ~Gives(h, r) => r \in Has'
    BY <2>1, <2>2 DEF Has, Gives, Takes, KTypeOK, Resource
  <2> QED
    BY <1>1, <2>1, <2>2, <2>3, <2>4 DEF KTypeOK, Leaves
<1>6. CASE eoi
  <2>1. h[1] = "eoi"
    BY <1>1, <1>6 DEF eoi, Does
  <2>2. UNCHANGED <<lazy, held>> /\ isr' = isr \ {h[2]}
    BY <1>1, <1>6 DEF eoi, Arg
  <2>3. \A r \in Has' : r \in Has /\ ~Gives(h, r)
    BY <2>1, <2>2 DEF Has, Gives
  <2>4. \A r \in Resource : (r \in Has \/ Takes(h, r)) /\ ~Gives(h, r) => r \in Has'
    BY <2>1, <2>2 DEF Has, Gives, Takes, KTypeOK, Resource
  <2> QED
    BY <1>1, <2>2, <2>3, <2>4 DEF KTypeOK, Leaves
<1> QED
  BY <1>3, <1>4, <1>5, <1>6

\* Instructions that take a lock, give one back, or end an initialisation or
\* an interrupt
LEMMA OwningSteps ==
  ASSUME KInv, ready \/ lock \/ unlock \/ heap_init \/ eoi
  PROVE  KInv'
<1>1. /\ todo # <<>> /\ Head(todo)[1] \in {"ready", "lock", "unlock", "heap", "eoi"}
      /\ UNCHANGED <<enabled, cpu, fault>> /\ todo' = Tail(todo)
      /\ heap' = "ready" \/ (heap' = heap /\ Head(todo)[1] # "heap")
  BY DEF ready, lock, unlock, heap_init, eoi, Does
<1>2. Head(todo) \in Instruction
  BY <1>1, HeadTail DEF KInv, KTypeOK
<1>3. KTypeOK
  BY DEF KInv
<1>4. /\ held' \subseteq Locks /\ isr' \subseteq Irq
      /\ lazy' \in [Lazies -> {"no", "running", "ready"}]
      /\ Leaves(Head(todo), Has, Has')
  BY <1>3, OwningLeaves
<1>5. ~Enables(Head(todo)) /\ Head(todo)[1] # "hlt"
  BY <1>1 DEF Enables
<1>6. todo' \in Seq(Instruction) /\ Masked' /\ Faultless'
  BY <1>1, <1>4, <1>5, TailStep
<1>7. KTypeOK'
  BY <1>1, <1>3, <1>4, <1>6 DEF KTypeOK
<1>8. Segments'
  BY <1>1, SegmentsStep DEF KInv
<1> QED
  BY <1>6, <1>7, <1>8 DEF KInv

\* The instruction at the head is replaced by code above its rank.
LEMMA PushStep ==
  ASSUME KInv, todo # <<>>, NEW c \in Seq(Instruction), todo' = c \o Tail(todo),
         UNCHANGED <<enabled, heap, cpu, fault>>, Head(todo)[1] \in {"force", "tick"},
         Matched(c), Even(c), Ranked(c), Quiet(c), From(c, Rank[Wanted(Head(todo))]),
         \A r \in Has' : r \in Has \/ Owes(c, 1, r),
         \A r \in Resource : r \in Has' <=> r \in Has \/ Owes(c, 1, r),
         HeapFirst(todo) => \A i \in 1..Len(c) : BeforeHeap(c[i])
  PROVE  todo' \in Seq(Instruction) /\ Masked' /\ Faultless'
<1>1. /\ todo \in Seq(Instruction) /\ Tail(todo) \in Seq(Instruction)
      /\ Head(todo) \in Instruction /\ Head(todo) = todo[1] /\ 1 \in 1..Len(todo)
  BY HeadTail DEF KInv, KTypeOK
<1>2. PICK s, t : s = todo' /\ t = Tail(todo)
  OBVIOUS
<1>3. IsConcat(s, c, t)
  BY <1>1, <1>2, Concat
<1>4. ~enabled
  <2>1. todo = <<hlt>> => Head(todo)[1] = "hlt"
    BY DEF hlt
  <2> QED
    BY <2>1 DEF KInv, Masked
<1>5. \A r : ~Gives(Head(todo), r) /\ ~Takes(Head(todo), r)
  BY DEF Gives, Takes
<1>6. Leaves(Head(todo), Has, Has) /\ ~Enables(Head(todo)) /\ Head(todo)[1] # "heap"
  BY <1>5 DEF Leaves, Enables
<1>7. Fine(s, Has')
  <2>1. Fine(todo, Has)
    BY <1>4 DEF KInv, Masked
  <2>2. Fine(t, Has)
    BY <1>1, <1>2, <1>6, <2>1, FineTail
  <2>3. \A r : Owes(c, 1, r) => Given(c, r)
    BY DEF Owes, Given
  <2> QED
    BY <1>3, <2>2, <2>3, FinePush
<1>8. ASSUME Unhurt
      PROVE  Sound(s, Has') /\ (heap = "ready" \/ (HeapFirst(s) /\ cpu.idt = "none"))
  <2>1. Sound(todo, Has) /\ (heap = "ready" \/ (HeapFirst(todo) /\ cpu.idt = "none"))
    BY <1>8 DEF KInv, Faultless
  <2>2. Sound(t, Has)
    BY <1>1, <1>2, <1>6, <2>1, SoundTail
  <2>3. PICK b : b = Rank[Wanted(Head(todo))]
    OBVIOUS
  <2>4. b \in Nat
    <3>1. PICK h \in Instruction : h = Head(todo)
      BY <1>1
    <3>2. h[1] = "force" \/ h[1] = "tick"
      BY <3>1
    <3>3. Rank[Wanted(h)] \in Nat
      BY <3>2, RankIs DEF Wanted, Instruction
    <3> QED
      BY <2>3, <3>1, <3>3
  <2>5. ASSUME NEW r \in Resource, Owes(t, 1, r) PROVE Rank[r[2]] < b
    <3>1. Owes(todo, 1, r)
      BY <1>1, <1>2, <1>5, <2>5, OwesNext
    <3>2. Asks(todo[1])
      BY <1>1 DEF Asks
    <3> QED
      BY <1>1, <2>1, <2>3, <3>1, <3>2 DEF Sound, Ranked
  <2>6. Sound(s, Has')
    BY <1>3, <2>2, <2>3, <2>4, <2>5, SoundPush
  <2>7. HeapFirst(todo) => HeapFirst(s)
    BY <1>1, <1>2, <1>3, <1>6, HeapFirstTail, HeapFirstPush
  <2> QED
    BY <2>1, <2>6, <2>7
<1>9. Unhurt' => Unhurt
  BY DEF Unhurt
<1> QED
  BY <1>2, <1>3, <1>4, <1>7, <1>8, <1>9 DEF Masked, Faultless, IsConcat

\* Dereferencing a lazy static keeps the invariant, with the code that
\* initialises it in front.
LEMMA ForceStep == ASSUME KInv, force PROVE KInv'
<1>1. /\ todo # <<>> /\ Head(todo)[1] = "force" /\ lazy[Head(todo)[2]] # "running"
      /\ UNCHANGED <<held, enabled, isr, heap, cpu, fault>>
  BY DEF force, Does, Arg
<1>2. Head(todo) \in Instruction /\ Tail(todo) \in Seq(Instruction)
  BY <1>1, HeadTail DEF KInv, KTypeOK
<1>3. PICK x \in Lazies : x = Head(todo)[2]
  BY <1>1, <1>2 DEF Instruction
<1>4. Segments'
  BY <1>1, SegmentsStep DEF KInv
<1>5. CASE lazy[x] = "ready"
  <2>1. todo' = Tail(todo) /\ UNCHANGED lazy
    BY <1>3, <1>5 DEF force, Arg
  <2>2. KTypeOK' /\ Masked' /\ Faultless'
    BY <1>1, <2>1, PlainStep DEF KTypeOK
  <2> QED
    BY <1>4, <2>2 DEF KInv
<1>6. CASE lazy[x] # "ready"
  <2>1. PICK c : c = InitCode(x) \o << <<"ready", x>> >>
    OBVIOUS
  <2>2. todo' = c \o Tail(todo) /\ lazy' = [lazy EXCEPT ![x] = "running"]
    BY <1>3, <1>6, <2>1 DEF force, Arg
  <2>3. /\ c \in Seq(Instruction) /\ Matched(c) /\ Even(c) /\ Ranked(c)
        /\ From(c, Rank[x]) /\ Quiet(c)
        /\ \A r \in Resource : Owes(c, 1, r) <=> r = <<"lazy", x>>
    BY <2>1, InitPush
  <2>4. Wanted(Head(todo)) = x
    BY <1>1, <1>3 DEF Wanted
  <2>5. lazy \in [Lazies -> {"no", "running", "ready"}]
    BY DEF KInv, KTypeOK
  <2>6. /\ <<"lazy", x>> \in Resource /\ <<"lazy", x>> \in Has'
        /\ \A r \in Has' : r \in Has \/ r = <<"lazy", x>>
        /\ \A r \in Has : r \in Has'
    BY <1>1, <2>2, <2>5 DEF Has, Resource
  <2>7. HeapFirst(todo) => \A i \in 1..Len(c) : BeforeHeap(c[i])
    <3>1. ASSUME HeapFirst(todo) PROVE x \in {"VIRTUAL_MANAGER", "PHYSICAL_MANAGER"}
      <4>1. todo \in Seq(Instruction)
        BY DEF KInv, KTypeOK
      <4>2. BeforeHeap(Head(todo))
        BY <1>1, <3>1, <4>1, HeapFirstTail
      <4> QED
        BY <1>1, <1>3, <4>2 DEF BeforeHeap
    <3> QED
      BY <2>1, <3>1, InitBeforeHeap
  <2>8. /\ \A r \in Has' : r \in Has \/ Owes(c, 1, r)
        /\ \A r \in Resource : r \in Has' <=> r \in Has \/ Owes(c, 1, r)
    BY <2>3, <2>6
  <2>9. todo' \in Seq(Instruction) /\ Masked' /\ Faultless'
    BY <1>1, <2>2, <2>3, <2>4, <2>7, <2>8, PushStep
  <2>10. KTypeOK'
    BY <1>1, <2>2, <2>9 DEF KInv, KTypeOK
  <2> QED
    BY <1>4, <2>9, <2>10 DEF KInv
<1> QED
  BY <1>5, <1>6

\* A tick of the scheduler keeps the invariant.
LEMMA TickStep == ASSUME KInv, scheduler_tick PROVE KInv'
<1>1. /\ todo # <<>> /\ Head(todo)[1] = "tick"
      /\ UNCHANGED <<held, lazy, enabled, isr, heap, cpu, fault>>
      /\ todo' = Tail(todo) \/ todo' = (Log \o Log) \o Tail(todo) \/ todo' = Log \o Tail(todo)
  BY DEF scheduler_tick, Does
<1>2. Segments'
  BY <1>1, SegmentsStep DEF KInv
<1>3. CASE todo' = Tail(todo)
  <2>1. KTypeOK' /\ Masked' /\ Faultless'
    BY <1>1, <1>3, PlainStep DEF KTypeOK
  <2> QED
    BY <1>2, <2>1 DEF KInv
<1>4. ASSUME NEW c, Code(c, 12), todo' = c \o Tail(todo) PROVE KInv'
  <2>1. Has' = Has
    BY <1>1 DEF Has
  <2>2. Rank[Wanted(Head(todo))] = 12
    BY <1>1, RankIs DEF Wanted
  <2>3. ~HeapFirst(todo)
    <3>1. todo \in Seq(Instruction)
      BY DEF KInv, KTypeOK
    <3> QED
      BY <1>1, <3>1, HeapFirstTail DEF BeforeHeap
  <2>4. /\ c \in Seq(Instruction) /\ Matched(c) /\ Even(c) /\ Ranked(c) /\ Quiet(c)
        /\ From(c, Rank[Wanted(Head(todo))])
        /\ \A r \in Resource : ~Owes(c, 1, r)
    BY <1>4, <2>2 DEF Code
  <2>5. todo' \in Seq(Instruction) /\ Masked' /\ Faultless'
    BY <1>1, <1>4, <2>1, <2>3, <2>4, PushStep
  <2>6. KTypeOK'
    BY <1>1, <2>5 DEF KInv, KTypeOK
  <2> QED
    BY <1>2, <2>5, <2>6 DEF KInv
<1>5. Code(Log, 12) /\ Code(Log \o Log, 12)
  BY CodeLog, CodeConcat
<1> QED
  BY <1>1, <1>3, <1>4, <1>5

\* The code that is left is abandoned: a panic.
LEMMA Abandoned ==
  ASSUME KInv, todo' = panic_handler, enabled = FALSE, UNCHANGED <<enabled, lazy, isr, cpu>>,
         held' \subseteq held, ~Unhurt',
         todo # <<>>, Head(todo)[1] \notin {"lgdt", "set_reg"}
  PROVE  KInv'
<1>1. todo' \in Seq(Instruction) /\ Quiet(todo')
  BY PanicQuiet
<1>2. KTypeOK'
  BY <1>1 DEF KInv, KTypeOK
<1>3. Masked' /\ Faultless'
  BY <1>1 DEF Masked, Fine, Faultless
<1>4. Segments'
  BY SegmentsStep DEF KInv
<1> QED
  BY <1>2, <1>3, <1>4 DEF KInv

\* The idle loop is the only code that runs with interrupts enabled.
LEMMA Disabled ==
  ASSUME KInv, todo # <<>>, Head(todo)[1] # "hlt"
  PROVE  enabled = FALSE
<1>1. todo = <<hlt>> => Head(todo)[1] = "hlt"
  BY DEF hlt
<1> QED
  BY <1>1 DEF KInv, KTypeOK, Masked

\* An allocation keeps the invariant, whether or not it fails.
LEMMA AllocStep == ASSUME KInv, alloc PROVE KInv'
<1>1. /\ todo # <<>> /\ Head(todo)[1] = "alloc" /\ held' = held \ {"HEAP"}
      /\ UNCHANGED <<lazy, enabled, isr, heap, cpu, fault>>
      /\ todo' = IF heap = "ready" THEN Tail(todo) ELSE panic_handler
  BY DEF alloc, Does
<1>2. Head(todo) \in Instruction /\ todo \in Seq(Instruction)
  BY <1>1, HeadTail DEF KInv, KTypeOK
<1>3. CASE heap = "ready"
  <2>3. Leaves(Head(todo), Has, Has') /\ ~Enables(Head(todo))
    BY <1>1, OwningLeaves DEF KInv, Enables
  <2>4. todo' \in Seq(Instruction) /\ Masked' /\ Faultless'
    BY <1>1, <1>3, <2>3, TailStep
  <2>5. KTypeOK'
    BY <1>1, <2>4 DEF KInv, KTypeOK
  <2>6. Segments'
    BY <1>1, SegmentsStep DEF KInv
  <2> QED
    BY <2>4, <2>5, <2>6 DEF KInv
<1>4. CASE heap # "ready"
  <2>1. ~Unhurt'
    <3>1. ~HeapFirst(todo)
      BY <1>1, <1>2, HeapFirstTail DEF BeforeHeap
    <3>2. ~Unhurt
      BY <1>4, <3>1 DEF KInv, Faultless
    <3> QED
      BY <1>1, <3>2 DEF Unhurt
  <2> QED
    BY <1>1, <1>4, <2>1, Abandoned, Disabled
<1> QED
  BY <1>3, <1>4

\* A panic keeps the invariant.
LEMMA PanicStep == ASSUME KInv, panic PROVE KInv'
<1>1. /\ todo # <<>> /\ Head(todo)[1] = "may" /\ todo' = panic_handler
      /\ UNCHANGED <<held, enabled, lazy, isr, cpu>> /\ ~Unhurt'
  BY DEF panic, Does, Context, Unhurt
<1> QED
  BY <1>1, Abandoned, Disabled

\* A sequence of one instruction.
LEMMA OneIs == ASSUME NEW t \in Seq(Instruction), Len(t) = 1 PROVE t = <<t[1]>>
<1>1. PICK h \in Instruction : h = t[1]
  OBVIOUS
<1>2. PICK s : s = <<h>>
  OBVIOUS
<1>3. s \in Seq(Instruction) /\ Len(s) = 1 /\ s[1] = h
  BY <1>2
<1>4. \A i \in 1..1 : i = 1
  OBVIOUS
<1>5. t = s
  BY <1>1, <1>3, <1>4, SeqEqual
<1> QED
  BY <1>1, <1>2, <1>5

\* Interrupts are enabled: the end of the boot, and the return to the idle loop.
LEMMA EnableStep ==
  ASSUME KInv, todo # <<>>, Enables(Head(todo)), todo' = Tail(todo), enabled' = TRUE,
         UNCHANGED <<held, lazy, isr, heap, cpu, fault>>
  PROVE  KInv'
<1>1. PICK s : s = todo
  OBVIOUS
<1>2. /\ s \in Seq(Instruction) /\ s # <<>> /\ Head(s) = s[1] /\ Len(s) \in Nat /\ Len(s) >= 1
      /\ Tail(s) \in Seq(Instruction) /\ Len(Tail(s)) = Len(s) - 1
      /\ \A i \in 1..Len(Tail(s)) : Tail(s)[i] = s[i + 1]
  BY <1>1, HeadTail DEF KInv, KTypeOK
<1>3. s[1][1] \in {"sti", "iret"}
  BY <1>1, <1>2 DEF Enables
<1>4. enabled = FALSE
  BY <1>1, <1>2, <1>3, Disabled
<1>5. Ends(s) /\ Matched(s) /\ \A r \in Has : Given(s, r)
  <2>1. Fine(s, Has)
    BY <1>1, <1>4 DEF KInv, Masked
  <2>2. ~Quiet(s)
    <3>1. 1 \in 1..Len(s) /\ Enables(s[1])
      BY <1>1, <1>2
    <3> QED
      BY <3>1 DEF Quiet
  <2> QED
    BY <2>1, <2>2 DEF Fine
<1>6. Len(s) = 2 /\ s[2] = hlt
  <2>1. Len(s) >= 2 /\ s[Len(s)] = hlt /\ \A i \in 1..Len(s) - 2 : ~Enables(s[i])
    BY <1>5 DEF Ends
  <2>2. ~(1 \in 1..Len(s) - 2)
    BY <1>1, <1>2, <2>1
  <2> QED
    BY <1>2, <2>1, <2>2
<1>7. Tail(s) = <<hlt>>
  <2>1. PICK t, h, n : t = Tail(s) /\ h = hlt /\ n = Len(s)
    OBVIOUS
  <2>2. t \in Seq(Instruction) /\ Len(t) = n - 1 /\ \A i \in 1..Len(t) : t[i] = s[i + 1]
    BY <1>2, <2>1, Zenon
  <2>3. Len(t) = 1 /\ 1 \in 1..Len(t) /\ 1 + 1 = 2
    <3>1. n = 2
      BY <1>6, <2>1, Zenon
    <3> HIDE <2>1
    <3> QED
      BY <2>2, <3>1
  <2>4. t[1] = h
    BY <1>6, <2>1, <2>2, <2>3, Zenon
  <2>5. t = <<h>>
    BY <2>2, <2>3, <2>4, OneIs
  <2> QED
    BY <2>1, <2>5
<1>8. Has = {}
  <2> SUFFICES ASSUME NEW r \in Has PROVE FALSE
    OBVIOUS
  <2>1. PICK k \in 1..Len(s) : Gives(s[k], r)
    BY <1>5 DEF Given
  <2>2. k = 1 \/ k = 2
    BY <1>6
  <2> QED
    BY <1>3, <1>6, <2>1, <2>2 DEF Gives, hlt
<1>9. Has' = {}
  <2>1. Has' = Has
    BY DEF Has
  <2> QED
    BY <1>8, <2>1
<1>10. Masked'
  BY <1>1, <1>7, <1>9 DEF Masked
<1>11. Faultless'
  <2>1. ASSUME Unhurt PROVE Sound(todo', Has') /\ heap' = "ready"
    <3>1. Sound(s, Has) /\ (heap = "ready" \/ HeapFirst(s))
      BY <1>1, <2>1 DEF KInv, Faultless
    <3>2. Leaves(Head(s), Has, Has')
      BY <1>2, <1>3, <1>8, <1>9 DEF Leaves, Takes
    <3>3. Sound(Tail(s), Has')
      BY <1>2, <3>1, <3>2, SoundTail
    <3>4. ~HeapFirst(s)
      BY <1>2, <1>3, HeapFirstTail DEF BeforeHeap
    <3> QED
      BY <1>1, <3>1, <3>3, <3>4
  <2>2. Unhurt' => Unhurt
    BY DEF Unhurt
  <2> QED
    BY <2>1, <2>2 DEF Faultless
<1>12. KTypeOK'
  BY <1>1, <1>2 DEF KInv, KTypeOK
<1>13. Segments'
  BY <1>1, <1>2, <1>3, SegmentsStep DEF KInv
<1> QED
  BY <1>10, <1>11, <1>12, <1>13 DEF KInv

\* Enabling interrupts keeps the invariant: it is the last thing that kmain
\* does.
LEMMA StiStep == ASSUME KInv, sti PROVE KInv'
  BY EnableStep DEF sti, Does, Enables

\* Returning from a handler keeps the invariant.
LEMMA IretStep == ASSUME KInv, iret PROVE KInv'
<1>1. /\ todo # <<>> /\ Head(todo)[1] = "iret" /\ enabled' = Head(todo)[2] /\ todo' = Tail(todo)
      /\ UNCHANGED <<held, lazy, isr, heap, cpu, fault>>
  BY DEF iret, Does, Arg
<1>2. Head(todo) \in Instruction
  BY <1>1, HeadTail DEF KInv, KTypeOK
<1>3. Head(todo)[2] \in BOOLEAN
  BY <1>1, <1>2 DEF Instruction
<1>4. CASE Head(todo)[2] = TRUE
  BY <1>1, <1>4, EnableStep DEF Enables
<1>5. CASE Head(todo)[2] = FALSE
  <2>1. enabled' = enabled
    BY <1>1, <1>5, Disabled
  <2>2. Has' = Has /\ \A r : ~Gives(Head(todo), r)
    BY <1>1 DEF Has, Gives
  <2>3. Leaves(Head(todo), Has, Has') /\ ~Enables(Head(todo))
    BY <1>1, <1>5, <2>2 DEF Leaves, Enables, Takes
  <2>4. todo' \in Seq(Instruction) /\ Masked' /\ Faultless'
    BY <1>1, <2>1, <2>3, TailStep
  <2>5. KTypeOK'
    BY <1>1, <2>1, <2>4 DEF KInv, KTypeOK
  <2>6. Segments'
    BY <1>1, SegmentsStep DEF KInv
  <2> QED
    BY <2>4, <2>5, <2>6 DEF KInv
<1> QED
  BY <1>3, <1>4, <1>5

\* Code in front of what was interrupted while interrupts were disabled: an
\* exception, which is a fault.
LEMMA ExceptionBusy ==
  ASSUME KInv, enabled = FALSE, NEW c \in Seq(Instruction), Quiet(c), Matched(c),
         todo' = c \o todo, enabled' = FALSE, UNCHANGED <<held, lazy, isr, cpu>>,
         cpu.idt # "none" \/ (todo # <<>> /\ Head(todo)[1] \notin {"lgdt", "set_reg"})
  PROVE  KTypeOK' /\ Masked' /\ Segments' /\ IsConcat(todo', c, todo) /\ Has' = Has
<1>1. todo \in Seq(Instruction) /\ Fine(todo, Has)
  BY DEF KInv, KTypeOK, Masked
<1>2. IsConcat(todo', c, todo)
  BY <1>1, Concat
<1>3. Has' = Has
  BY DEF Has
<1>4. Fine(todo', Has')
  BY <1>1, <1>2, <1>3, FinePush
<1>5. Masked'
  BY <1>4 DEF Masked
<1>6. KTypeOK'
  BY <1>2 DEF KInv, KTypeOK, IsConcat
<1>7. Segments'
  <2>1. CASE cpu.idt # "none"
    BY <2>1 DEF KInv, Segments
  <2>2. CASE todo # <<>> /\ Head(todo)[1] \notin {"lgdt", "set_reg"}
    BY <2>2, SegmentsStep DEF KInv
  <2> QED
    BY <2>1, <2>2
<1> QED
  BY <1>2, <1>3, <1>5, <1>6, <1>7

\* A handler that interrupts the idle loop
LEMMA EnterIdle ==
  ASSUME KInv, enabled = TRUE, NEW c, Code(c, 1),
         todo' = c \o << <<"iret", enabled>> >> \o todo, enabled' = FALSE,
         UNCHANGED <<held, lazy, cpu, heap>>, fault' = fault \/ fault.kind = "none",
         isr' \subseteq Irq,
         \A q \in isr' : q \in isr \/ Given(c, <<"irq", q>>)
  PROVE  KInv'
<1>1. todo = <<hlt>> /\ Has = {}
  BY DEF KInv, Masked
<1>2. \A r \in Has' : r \notin Resource /\ Given(c, r)
  <2>1. held = {} /\ isr = {} /\ \A x \in Lazies : lazy[x] # "running"
    BY <1>1 DEF Has
  <2> QED
    BY <2>1 DEF Has, Resource
<1>3. PICK e, h : e = <<"iret", TRUE>> /\ h = hlt
  OBVIOUS
<1>4. e \in Instruction /\ Enables(e) /\ h \in Instruction
  BY <1>3 DEF Instruction, Enables, hlt
<1>5. todo' = c \o <<e, hlt>>
  <2>1. PICK u, v : u = <<e>> /\ v = <<h>>
    OBVIOUS
  <2>2. c \in Seq(Instruction) /\ u \in Seq(Instruction) /\ v \in Seq(Instruction)
    BY <1>4, <2>1 DEF Code
  <2>3. todo' = (c \o u) \o v
    BY <1>1, <1>3, <2>1
  <2>4. (c \o u) \o v = c \o (u \o v)
    BY <2>2, Assoc
  <2>5. u \o v = <<e, hlt>>
    BY <1>3, <2>1, PairOfOnes
  <2> QED
    BY <2>3, <2>4, <2>5, Zenon
<1>6. todo' \in Seq(Instruction) /\ Fine(todo', Has') /\ Sound(todo', Has')
  BY <1>2, <1>4, <1>5, Finishes
<1>7. Masked'
  BY <1>6 DEF Masked
<1>8. ASSUME Unhurt PROVE heap = "ready"
  <2>1. ~HeapFirst(todo)
    <3>1. PICK s : s = <<h>>
      OBVIOUS
    <3>2. s \in Seq(Instruction) /\ s # <<>> /\ Head(s) = h
      BY <1>4, <3>1
    <3>3. h[1] = "hlt"
      BY <1>3 DEF hlt
    <3>4. ~HeapFirst(s)
      BY <3>2, <3>3, HeapFirstTail DEF BeforeHeap
    <3> QED
      BY <1>1, <1>3, <3>1, <3>4
  <2> QED
    BY <1>8, <2>1 DEF KInv, Faultless
<1>9. Faultless'
  <2>1. Unhurt' => Unhurt
    BY DEF Unhurt
  <2> QED
    BY <1>6, <1>8, <2>1 DEF Faultless
<1>10. KTypeOK'
  BY <1>6 DEF KInv, KTypeOK
<1>11. Segments'
  <2>1. todo # <<>> /\ Head(todo)[1] = "hlt"
    BY <1>1 DEF hlt
  <2> QED
    BY <2>1, SegmentsStep DEF KInv
<1> QED
  BY <1>7, <1>9, <1>10, <1>11 DEF KInv

\* An interrupt keeps the invariant: it comes when nothing is held.
LEMMA InterruptStep ==
  ASSUME KInv, timer_interrupt \/ keyboard_interrupt \/ serial_interrupt
  PROVE  KInv'
<1>1. ASSUME NEW irq \in Irq, NEW c, Handles(c, irq), Interrupt(irq, c) PROVE KInv'
  <2>1. /\ enabled /\ isr' = isr \cup {irq} /\ todo' = c \o << <<"iret", enabled>> >> \o todo
        /\ enabled' = FALSE /\ UNCHANGED <<held, lazy, cpu, heap, fault>>
    BY <1>1 DEF Interrupt, Enter
  <2>2. enabled = TRUE /\ isr' \subseteq Irq
    BY <2>1 DEF KInv, KTypeOK
  <2>3. Code(c, 1) /\ \A q \in isr' : q \in isr \/ Given(c, <<"irq", q>>)
    BY <1>1, <2>1 DEF Handles
  <2> QED
    BY <2>1, <2>2, <2>3, EnterIdle
<1>2. CASE timer_interrupt
  BY <1>1, <1>2, CodeTimer DEF timer_interrupt, Irq
<1>3. CASE keyboard_interrupt
  BY <1>1, <1>3, CodeKeyboard DEF keyboard_interrupt, Irq
<1>4. CASE serial_interrupt
  BY <1>1, <1>4, CodeSerial DEF serial_interrupt, Irq
<1> QED
  BY <1>2, <1>3, <1>4

\* iretq to code that runs with interrupts disabled
LEMMA IretOff ==
  ASSUME NEW c, NEW b \in Nat, Code(c, b)
  PROVE  LET s == c \o << <<"iret", FALSE>> >>
         IN  /\ s \in Seq(Instruction) /\ Quiet(s) /\ Matched(s) /\ Even(s) /\ Ranked(s)
             /\ From(s, b) /\ \A r \in Resource : ~Owes(s, 1, r)
<1>1. PICK e, t, s : e = <<"iret", FALSE>> /\ t = <<e>> /\ s = c \o t
  OBVIOUS
<1>2. e \in Instruction /\ ~Enables(e) /\ ~Asks(e) /\ \A r : ~Takes(e, r) /\ ~Gives(e, r)
  BY <1>1 DEF Instruction, Enables, Asks, Takes, Gives
<1>3. t \in Seq(Instruction) /\ \A i \in 1..Len(t) : t[i] = e
  <2>1. t = <<e>>
    BY <1>1, Zenon
  <2> HIDE <1>1
  <2> QED
    BY <1>2, <2>1
<1>4. /\ Quiet(t) /\ Matched(t) /\ Even(t) /\ Ranked(t) /\ From(t, b)
      /\ \A r : ~Owes(t, 1, r)
  BY <1>2, <1>3 DEF Quiet, Matched, Even, Ranked, From, Owes
<1>5. IsConcat(s, c, t)
  BY <1>1, <1>3, Concat DEF Code
<1>6. Quiet(s) /\ Matched(s) /\ From(s, b)
  BY <1>4, <1>5, QuietConcat, MatchedConcat, FromConcat DEF Code
<1>7. Ranked(s) /\ Even(s)
  BY <1>4, <1>5, RankedConcat, EvenConcat DEF Code
<1>8. ASSUME NEW r \in Resource PROVE ~Owes(s, 1, r)
  <2>1. 1 \in 1..Len(c) + 1
    BY <1>5 DEF IsConcat
  <2> QED
    BY <1>4, <1>5, <2>1, OwesFront DEF Code
<1> QED
  BY <1>1, <1>5, <1>6, <1>7, <1>8 DEF IsConcat

\* An exception keeps the invariant.
LEMMA ExceptionStep == ASSUME KInv, exception PROVE KInv'
<1>1. PICK kind \in {"nmi", "machine_check"} :
        fault' = Context(kind) /\ Enter(exception_handler(kind))
  BY DEF exception
<1>2. PICK c : c = exception_handler(kind)
  OBVIOUS
<1>3. /\ todo' = c \o << <<"iret", enabled>> >> \o todo /\ enabled' = FALSE
      /\ UNCHANGED <<held, lazy, isr, heap, cpu>> /\ cpu.idt # "none"
      /\ fault.kind = "none" /\ fault'.owned = Owned
  BY <1>1, <1>2 DEF exception, Enter, Context
<1>4. Code(c, 12) /\ Code(c, 1)
  <2>1. Code(c, 12)
    BY <1>2, CodeException
  <2> QED
    BY <2>1, CodeWeaken
<1>5. CASE enabled = TRUE
  <2>1. isr' \subseteq Irq /\ \A q \in isr' : q \in isr
    BY <1>3 DEF KInv, KTypeOK
  <2> QED
    BY <1>3, <1>4, <1>5, <2>1, EnterIdle
<1>6. CASE enabled = FALSE
  <2>1. PICK d : d = c \o << <<"iret", FALSE>> >>
    OBVIOUS
  <2>2. /\ d \in Seq(Instruction) /\ Quiet(d) /\ Matched(d) /\ Even(d) /\ Ranked(d)
        /\ From(d, 12) /\ \A r \in Resource : ~Owes(d, 1, r)
    BY <1>4, <2>1, IretOff
  <2>3. todo' = d \o todo
    BY <1>3, <1>6, <2>1
  <2>4. KTypeOK' /\ Masked' /\ Segments' /\ IsConcat(todo', d, todo) /\ Has' = Has
    BY <1>3, <1>6, <2>2, <2>3, ExceptionBusy
  <2>5. Sound(todo, Has) /\ heap = "ready"
    BY <1>3 DEF KInv, Faultless, Unhurt
  <2>6. ASSUME Unhurt' PROVE Sound(todo', Has')
    <3>1. Owned \cap {"LOGGER", "HEAP"} = {}
      <4>1. fault'.kind # "none"
        BY <1>1 DEF Context
      <4> QED
        BY <1>3, <2>6, <4>1 DEF Unhurt
    <3>2. ASSUME NEW r \in Resource, Owes(todo, 1, r) PROVE Rank[r[2]] < 12
      <4>1. r \in Has
        BY <2>5, <3>2 DEF Sound
      <4>2. r[2] \in Owned
        BY <3>2, <4>1 DEF Has, Owned, Resource
      <4>3. r[2] \in (Locks \cup Lazies) \ {"LOGGER", "HEAP"}
        BY <3>1, <3>2, <4>2 DEF Resource
      <4> QED
        BY <4>3, RankIs DEF Locks, Lazies
    <3> QED
      BY <2>2, <2>4, <2>5, <3>2, SoundPush
  <2> QED
    BY <1>3, <2>4, <2>5, <2>6 DEF KInv, Faultless
<1> QED
  BY <1>5, <1>6 DEF KInv, KTypeOK

\* A fault keeps the invariant.
LEMMA TrapStep == ASSUME KInv, trap PROVE KInv'
<1>1. /\ todo' = Log \o << <<"iret", enabled>> >> \o Trap \o todo /\ enabled' = FALSE
      /\ UNCHANGED <<held, lazy, isr, heap, cpu>> /\ cpu.idt # "none" /\ ~Unhurt'
  BY DEF trap, exception_handler, Context, Unhurt
<1>2. enabled = FALSE
  <2>1. todo = <<hlt>> => Idle
    BY DEF Idle, Does, hlt
  <2> QED
    BY <2>1 DEF trap, KInv, KTypeOK, Masked
<1>3. PICK d, t, c : d = Log \o << <<"iret", FALSE>> >> /\ t = Trap /\ c = d \o t
  OBVIOUS
<1>4. d \in Seq(Instruction) /\ Quiet(d) /\ Matched(d)
  BY <1>3, CodeLog, IretOff
<1>5. t \in Seq(Instruction) /\ Quiet(t) /\ Matched(t)
  <2>1. PICK ins : ins = <<"trap", "CPU">>
    OBVIOUS
  <2>2. ins \in Instruction /\ ins[1] \in Single /\ 1 <= Rank[Wanted(ins)]
    BY <2>1, RankIs DEF Instruction, Single, Wanted
  <2>3. Code(<<ins>>, 1)
    BY <2>2, CodeOne
  <2> QED
    BY <1>3, <2>1, <2>3 DEF Trap, Code
<1>6. IsConcat(c, d, t)
  BY <1>3, <1>4, <1>5, Concat
<1>7. c \in Seq(Instruction) /\ Quiet(c) /\ Matched(c)
  BY <1>4, <1>5, <1>6, QuietConcat, MatchedConcat DEF IsConcat
<1>8. todo' = c \o todo
  BY <1>1, <1>2, <1>3
<1>9. KTypeOK' /\ Masked' /\ Segments'
  BY <1>1, <1>2, <1>7, <1>8, ExceptionBusy
<1> QED
  BY <1>1, <1>9 DEF KInv, Faultless

\* A fault that repeats keeps the invariant.
LEMMA TrapAgainStep == ASSUME KInv, trap_again PROVE KInv'
<1>1. /\ todo # <<>> /\ Head(todo)[1] = "trap" /\ todo' = Log \o << <<"iret", enabled>> >> \o todo
      /\ enabled' = FALSE /\ UNCHANGED <<held, lazy, isr, heap, cpu, fault>>
  BY DEF trap_again, Does, Enter, exception_handler
<1>2. enabled = FALSE
  BY <1>1, Disabled
<1>3. PICK c : c = Log \o << <<"iret", FALSE>> >>
  OBVIOUS
<1>4. /\ c \in Seq(Instruction) /\ Quiet(c) /\ Matched(c) /\ Even(c) /\ Ranked(c)
      /\ From(c, 12) /\ \A r \in Resource : ~Owes(c, 1, r)
  BY <1>3, CodeLog, IretOff
<1>5. todo' = c \o todo
  BY <1>1, <1>2, <1>3
<1>6. KTypeOK' /\ Masked' /\ Segments' /\ IsConcat(todo', c, todo) /\ Has' = Has
  BY <1>1, <1>2, <1>4, <1>5, ExceptionBusy
<1>7. ASSUME Unhurt PROVE Sound(todo', Has') /\ heap = "ready"
  <2>1. Sound(todo, Has) /\ (heap = "ready" \/ HeapFirst(todo))
    BY <1>7 DEF KInv, Faultless
  <2>2. todo \in Seq(Instruction) /\ Head(todo) = todo[1] /\ 1 \in 1..Len(todo)
    BY <1>1, HeadTail DEF KInv, KTypeOK
  <2>3. ~HeapFirst(todo)
    BY <1>1, <2>2, HeapFirstTail DEF BeforeHeap
  <2>4. Asks(todo[1]) /\ Rank[Wanted(todo[1])] = 12
    BY <1>1, <2>2, RankIs DEF Asks, Wanted
  <2>5. \A r \in Resource : Owes(todo, 1, r) => Rank[r[2]] < 12
    BY <2>1, <2>2, <2>4 DEF Sound, Ranked
  <2>6. Sound(todo', Has')
    BY <1>4, <1>6, <2>1, <2>5, SoundPush
  <2> QED
    BY <2>1, <2>3, <2>6
<1>8. Faultless'
  <2>1. Unhurt' => Unhurt
    BY <1>1 DEF Unhurt
  <2> QED
    BY <1>1, <1>7, <2>1 DEF Faultless
<1> QED
  BY <1>6, <1>8 DEF KInv

\* The steps that leave the code alone
LEMMA StillStep ==
  ASSUME KInv, trap_fills_heap \/ oom \/ UNCHANGED kvars
  PROVE  KInv'
<1>1. UNCHANGED <<todo, held, lazy, enabled, isr, cpu>>
  BY DEF trap_fills_heap, oom, kvars
<1>2. UNCHANGED <<heap, fault>> \/ ~Unhurt'
  BY DEF trap_fills_heap, oom, kvars, Context, Unhurt
<1>3. Has' = Has
  BY <1>1 DEF Has
<1>4. KTypeOK' /\ Masked' /\ Segments'
  BY <1>1, <1>3 DEF KInv, KTypeOK, Masked, Segments
<1>5. Faultless'
  <2>1. UNCHANGED fault => (Unhurt' <=> Unhurt)
    BY DEF Unhurt
  <2> QED
    BY <1>1, <1>2, <1>3, <2>1 DEF KInv, Faultless
<1> QED
  BY <1>4, <1>5 DEF KInv

\* Every step keeps the invariant.
LEMMA KInvStep == ASSUME KInv, [KNext]_kvars PROVE KInv'
<1>1. CASE Step
  BY <1>1, ForceStep, OwningSteps, AllocStep, PlainSteps, SegmentSteps, StiStep, IretStep,
     TickStep, TrapAgainStep DEF Step
<1>2. CASE timer_interrupt \/ keyboard_interrupt \/ serial_interrupt
  BY <1>2, InterruptStep
<1>3. CASE panic \/ exception \/ trap
  BY <1>3, PanicStep, ExceptionStep, TrapStep
<1>4. CASE trap_fills_heap \/ oom \/ UNCHANGED kvars
  BY <1>4, StillStep
<1> QED
  BY <1>1, <1>2, <1>3, <1>4 DEF KNext

\* The inductive invariant of the kernel holds in every state.
LEMMA KInvariant == KSpec => []KInv
<1>1. KInit => KInv
  BY KInvInit
<1>2. KInv /\ [KNext]_kvars => KInv'
  BY KInvStep
<1> QED
  BY <1>1, <1>2, PTL DEF KSpec

-----------------------------------------------------------------------------
(***************************************************************************)
(* Theorems.                                                               *)
(***************************************************************************)

\* Interrupts are enabled only in the idle loop, where the kernel owns no
\* lock, initialises no static and has no interrupt in service: whatever
\* faults happen, and wherever, no handler ever interrupts a holder.
THEOREM Masks == KSpec => []MaskedWhileBusy
<1>1. KInv => MaskedWhileBusy
  <2> SUFFICES ASSUME KInv, enabled PROVE Owned = {} /\ isr = {}
    BY DEF MaskedWhileBusy
  <2>1. Has = {}
    BY DEF KInv, Masked
  <2> QED
    BY <2>1 DEF Has, Owned
<1> QED
  BY <1>1, KInvariant, PTL

\* The gates of the IDT name a code segment of the GDT in use, from the moment
\* the table is loaded and whatever faults happen: gdt::initialize is over
\* before interrupts::initialize begins.
THEOREM Gates == KSpec => []GatesFit
<1>1. KInv => GatesFit
  BY DEF KInv, Segments, GatesFit
<1> QED
  BY <1>1, KInvariant, PTL

\* Until a fault happens, and after an interrupt or a machine check that found
\* the logger and the allocator free, boot code and handlers take their locks
\* and initialise their statics in one order, and so nobody waits for ever.
FaultFree == Unhurt => LockOrder /\ ~Spinning

\* It holds in every state, whatever the keys, the processes and the faults.
THEOREM OrderUntilFault == KSpec => []FaultFree
<1>1. KInv => FaultFree
  <2> SUFFICES ASSUME KInv, Unhurt PROVE LockOrder /\ ~Spinning
    BY DEF FaultFree
  <2>1. Sound(todo, Has)
    BY DEF KInv, Faultless
  <2>2. ASSUME todo # <<>>, Head(todo)[1] \in {"lock", "force"}, NEW x \in Owned
        PROVE  Rank[x] < Rank[Head(todo)[2]]
    <3>1. Head(todo) = todo[1] /\ 1 \in 1..Len(todo)
      BY <2>2, HeadTail DEF KInv, KTypeOK
    <3>2. held \subseteq Locks
      BY DEF KInv, KTypeOK
    <3>3. PICK r \in Has : r \in Resource /\ r[2] = x
      <4>1. CASE x \in held
        <5>1. <<"lock", x>> \in Has /\ <<"lock", x>> \in Resource /\ <<"lock", x>>[2] = x
          BY <3>2, <4>1 DEF Has, Resource
        <5> QED
          BY <5>1
      <4>2. CASE x \in Lazies /\ lazy[x] = "running"
        <5>1. <<"lazy", x>> \in Has /\ <<"lazy", x>> \in Resource /\ <<"lazy", x>>[2] = x
          BY <4>2 DEF Has, Resource
        <5> QED
          BY <5>1
      <4> QED
        BY <2>2, <4>1, <4>2 DEF Owned
    <3>4. Owes(todo, 1, r)
      BY <2>1, <3>3 DEF Sound
    <3>5. Asks(todo[1]) /\ Wanted(todo[1]) = Head(todo)[2]
      BY <2>2, <3>1 DEF Asks, Wanted
    <3> QED
      BY <2>1, <3>1, <3>3, <3>4, <3>5 DEF Sound, Ranked
  <2>3. LockOrder
    BY <2>2 DEF LockOrder, Does, Arg
  <2>4. ASSUME Spinning PROVE FALSE
    <3>1. todo # <<>> /\ Head(todo)[1] \in {"lock", "force"}
      BY <2>4 DEF Spinning, Does
    <3>2. Head(todo) \in Instruction
      BY <3>1, HeadTail DEF KInv, KTypeOK
    <3>3. Head(todo)[2] \in Locks \cup Lazies /\ (Head(todo)[1] = "force" => Head(todo)[2] \in Lazies)
      BY <3>1, <3>2 DEF Instruction
    <3>4. Head(todo)[2] \in Owned
      BY <2>4, <3>3 DEF Spinning, Does, Arg, Owned
    <3>5. Rank[Head(todo)[2]] < Rank[Head(todo)[2]]
      BY <2>2, <3>1, <3>4
    <3>6. Rank[Head(todo)[2]] \in Nat
      BY <3>3, RankIs
    <3> QED
      BY <3>5, <3>6
  <2> QED
    BY <2>3, <2>4
<1> QED
  BY <1>1, KInvariant, PTL

\* Without faults to come, none comes.
LEMMA NominalFaultFree ==
  ASSUME Faults = {}
  PROVE  KSpec => [](fault.kind = "none")
<1>1. KInit => fault.kind = "none"
  BY DEF KInit
<1>2. fault.kind = "none" /\ [KNext]_kvars => (fault.kind = "none")'
  <2> SUFFICES ASSUME fault.kind = "none", [KNext]_kvars PROVE fault'.kind = "none"
    OBVIOUS
  <2>1. CASE Step
    <3>1. fault' = fault
      BY <2>1 DEF Step, force, ready, lock, unlock, alloc, succeed, heap_init, lgdt, set_reg,
        star, load, sti, cli, eoi, iret, add_kernel, timer_increment, scheduler_tick,
        scheduler_fork, trap_again
    <3> QED
      BY <3>1
  <2>2. CASE timer_interrupt \/ keyboard_interrupt \/ serial_interrupt
    BY <2>2 DEF timer_interrupt, keyboard_interrupt, serial_interrupt, Interrupt
  <2>3. CASE panic \/ exception \/ trap \/ trap_fills_heap \/ oom
    BY <2>3 DEF panic, exception, trap, trap_fills_heap, oom
  <2>4. CASE UNCHANGED kvars
    BY <2>4 DEF kvars
  <2> QED
    BY <2>1, <2>2, <2>3, <2>4 DEF KNext
<1> QED
  BY <1>1, <1>2, PTL DEF KSpec

\* A kernel in which nothing goes wrong keeps to the order of the locks for
\* ever.
THEOREM NominalOrder ==
  ASSUME Faults = {}
  PROVE  KSpec => [](LockOrder /\ ~Spinning)
<1>1. FaultFree /\ fault.kind = "none" => LockOrder /\ ~Spinning
  BY DEF FaultFree, Unhurt
<1> QED
  BY <1>1, NominalFaultFree, OrderUntilFault, PTL

-----------------------------------------------------------------------------
(***************************************************************************)
(* What pieces of code do without.                                         *)
(***************************************************************************)

\* Instructions that only some pieces of code contain
Marks == {"add", "increment", "tick", "heap", "ready", "halt"}

\* The allocator is locked for a single instruction.
Paired(s) ==
  \A i \in 1..Len(s) : s[i] = <<"lock", "HEAP">> =>
    i + 1 \in 1..Len(s) /\ s[i + 1][1] \in {"alloc", "heap"}

\* s contains none of the instructions in ops.
Clear(s, ops) ==
  s \in Seq(Instruction) /\ Paired(s) /\ \A i \in 1..Len(s) : s[i][1] \notin ops

\* Two parts that lock the allocator for one instruction do so together.
LEMMA PairedConcat ==
  ASSUME NEW s, NEW c, NEW t, IsConcat(s, c, t), Paired(c), Paired(t)
  PROVE  Paired(s)
<1> SUFFICES ASSUME NEW i \in 1..Len(s), s[i] = <<"lock", "HEAP">>
             PROVE  i + 1 \in 1..Len(s) /\ s[i + 1][1] \in {"alloc", "heap"}
  BY DEF Paired
<1>1. CASE i \in 1..Len(c) /\ s[i] = c[i]
  <2>1. i + 1 \in 1..Len(c) /\ c[i + 1][1] \in {"alloc", "heap"}
    BY <1>1 DEF Paired
  <2> QED
    BY <2>1 DEF IsConcat
<1>2. CASE /\ i - Len(c) \in 1..Len(t) /\ s[i] = t[i - Len(c)]
           /\ (i - Len(c) + 1) + Len(c) = i + 1
  <2>0. PICK n : n = i - Len(c)
    OBVIOUS
  <2>1. n + 1 \in 1..Len(t) /\ t[n + 1][1] \in {"alloc", "heap"}
    BY <1>2, <2>0 DEF Paired
  <2>2. (n + 1) + Len(c) = i + 1 /\ i + 1 \in 1..Len(s)
    BY <1>2, <2>0, <2>1 DEF IsConcat
  <2> QED
    BY <2>1, <2>2 DEF IsConcat
<1> QED
  BY <1>1, <1>2, ConcatIndex

\* Two parts that do without some instructions do without them together.
LEMMA ClearConcat ==
  ASSUME NEW ops, NEW c, NEW t, Clear(c, ops), Clear(t, ops)
  PROVE  Clear(c \o t, ops)
<1>1. PICK s : s = c \o t
  OBVIOUS
<1>2. IsConcat(s, c, t)
  BY <1>1, Concat DEF Clear
<1>3. Paired(s)
  BY <1>2, PairedConcat DEF Clear
<1>4. \A i \in 1..Len(s) : s[i][1] \notin ops
  BY <1>2, ConcatIndex DEF Clear
<1> QED
  BY <1>1, <1>2, <1>3, <1>4 DEF IsConcat, Clear

\* A single instruction, but for locking the allocator.
LEMMA ClearOne ==
  ASSUME NEW ops, NEW op, NEW arg, <<op, arg>> \in Instruction, op \notin ops,
         op # "lock" \/ arg # "HEAP"
  PROVE  Clear(<< <<op, arg>> >>, ops)
<1>1. PICK ins, s : ins = <<op, arg>> /\ s = <<ins>>
  OBVIOUS
<1>2. /\ s \in Seq(Instruction) /\ (\A i \in 1..Len(s) : s[i] = ins) /\ ins[1] = op
      /\ ins # <<"lock", "HEAP">>
  BY <1>1
<1> QED
  BY <1>1, <1>2 DEF Clear, Paired

\* The allocator's critical sections.
LEMMA ClearHeap ==
  ASSUME NEW ops, ops \subseteq Marks, NEW op \in {"alloc", "heap"} \ ops
  PROVE  Clear(<< <<"lock", "HEAP">>, <<op, "HEAP">> >>, ops)
<1>1. PICK a, b, s : a = <<"lock", "HEAP">> /\ b = <<op, "HEAP">> /\ s = <<a, b>>
  OBVIOUS
<1>2. a \in Instruction /\ b \in Instruction /\ a[1] \notin ops /\ b[1] \notin ops /\ b # a
      /\ b[1] \in {"alloc", "heap"}
  BY <1>1 DEF Instruction, Locks, Marks
<1>3. s \in Seq(Instruction) /\ Len(s) = 2 /\ s[1] = a /\ s[2] = b
  BY <1>1, <1>2
<1>4. \A i \in 1..Len(s) : i = 1 \/ i = 2
  BY <1>3
<1>5. 1 + 1 = 2 /\ 2 \in 1..Len(s)
  BY <1>3
<1>6. Paired(s)
  BY <1>1, <1>2, <1>3, <1>4, <1>5 DEF Paired
<1>7. Clear(s, ops)
  BY <1>2, <1>3, <1>4, <1>6 DEF Clear
<1> QED
  BY <1>1, <1>7

\* Dereferencing a static, and using its lock around such code.
LEMMA ClearUse ==
  ASSUME NEW ops, ops \subseteq Marks
  PROVE  /\ \A x \in Lazies : Clear(Deref(x), ops)
         /\ \A x \in Locks \cap Lazies : \A body : Clear(body, ops) => Clear(Use(x, body), ops)
<1>1. ASSUME NEW x \in Lazies PROVE Clear(Deref(x), ops)
  BY ClearOne DEF Deref, Instruction, Marks
<1>2. ASSUME NEW x \in Locks \cap Lazies, NEW body, Clear(body, ops) PROVE Clear(Use(x, body), ops)
  <2>1. Clear(<< <<"lock", x>> >>, ops) /\ Clear(<< <<"unlock", x>> >>, ops)
    <3>1. <<"lock", x>> \in Instruction /\ <<"unlock", x>> \in Instruction
      BY DEF Instruction
    <3>2. x # "HEAP" /\ "lock" \notin ops /\ "unlock" \notin ops /\ "unlock" # "lock"
      BY DEF Lazies, Marks
    <3> QED
      BY <3>1, <3>2, ClearOne
  <2>2. Clear(Deref(x) \o << <<"lock", x>> >>, ops)
    BY <1>1, <2>1, ClearConcat
  <2>3. Clear(Deref(x) \o << <<"lock", x>> >> \o body, ops)
    BY <1>2, <2>2, ClearConcat
  <2> QED
    BY <2>1, <2>3, ClearConcat DEF Use
<1> QED
  BY <1>1, <1>2

\* The small pieces of the kernel's code.
LEMMA ClearSmall ==
  ASSUME NEW ops, ops \subseteq Marks
  PROVE  /\ Clear(<<>>, ops) /\ Clear(May, ops) /\ Clear(Alloc, ops) /\ Clear(Log, ops)
         /\ Clear(Font_new, ops) /\ Clear(Write, ops) /\ Clear(VgaWrite, ops)
         /\ Clear(Shell_new, ops) /\ Clear(Image_new, ops) /\ Clear(Elf_new, ops)
         /\ Clear(display(Write), ops) /\ Clear(display(VgaWrite), ops)
<1>1. Clear(<<>>, ops)
  <2>1. PICK s : s = <<>>
    OBVIOUS
  <2>2. s \in Seq(Instruction) /\ Len(s) = 0
    BY <2>1
  <2> QED
    BY <2>1, <2>2 DEF Clear, Paired
<1>2. Clear(May, ops)
  BY ClearOne DEF May, Instruction, Marks
<1>3. Clear(Alloc, ops)
  <2>1. "alloc" \in {"alloc", "heap"} \ ops
    BY DEF Marks
  <2> QED
    BY <2>1, ClearHeap DEF Alloc
<1>4. "LOGGER" \in Locks \cap Lazies /\ "INITRD" \in Lazies
  BY DEF Locks, Lazies
<1>5. Clear(Log, ops)
  <2>1. Clear(Use("LOGGER", Alloc), ops)
    BY <1>3, <1>4, ClearUse
  <2> QED
    BY <1>3, <2>1, ClearConcat DEF Log
<1>6. Clear(Deref("INITRD") \o May, ops)
  BY <1>2, <1>4, ClearUse, ClearConcat
<1>7. Clear(Font_new, ops) /\ Clear(VgaWrite, ops) /\ Clear(Write, ops)
  BY <1>3, <1>6, ClearConcat DEF Font_new, VgaWrite, Write
<1>8. Clear(Shell_new, ops) /\ Clear(Image_new, ops) /\ Clear(Elf_new, ops)
  BY <1>3, <1>6, ClearConcat DEF Shell_new, Image_new, Elf_new
<1>9. ASSUME NEW write, Clear(write, ops) PROVE Clear(display(write), ops)
  <2>1. Clear(Deref("INITRD") \o May \o write, ops)
    BY <1>6, <1>9, ClearConcat
  <2> QED
    BY <1>9, <2>1, ClearConcat DEF display
<1> QED
  BY <1>1, <1>2, <1>3, <1>5, <1>7, <1>8, <1>9

\* The initialisers of the statics.
LEMMA ClearInit ==
  ASSUME NEW ops, ops \subseteq Marks, NEW x \in Lazies
  PROVE  Clear(InitCode(x), ops)
<1> USE ClearSmall
<1>1. Clear(Initrd_new, ops)
  <2>1. Clear(May \o Alloc, ops)
    BY ClearConcat
  <2> QED
    BY <2>1, ClearConcat DEF Initrd_new
<1>2. Clear(Font_new \o Vga_new, ops)
  BY ClearConcat DEF Vga_new
<1>3. Clear(Use("VGA", Shell_new), ops)
  BY ClearUse DEF Locks, Lazies
<1>4. \/ x = "INITRD" /\ InitCode(x) = Initrd_new
      \/ x = "VGA" /\ InitCode(x) = Font_new \o Vga_new
      \/ x = "SCHEDULER" /\ InitCode(x) = Log
      \/ x = "SERIAL" /\ InitCode(x) = May
      \/ x = "SERIAL_CONSOLE" /\ InitCode(x) = Shell_new
      \/ x = "VGA_CONSOLE" /\ InitCode(x) = Use("VGA", Shell_new)
      \/ x \in {"PHYSICAL_MANAGER", "VIRTUAL_MANAGER"} /\ InitCode(x) = May
      \/ x \in {"KEYBOARD", "TIMER", "LOGGER"} /\ InitCode(x) = <<>>
  BY DEF InitCode, Lazies
<1> QED
  BY <1>1, <1>2, <1>3, <1>4

\* The end of an interrupt.
LEMMA ClearEoi ==
  ASSUME NEW ops, ops \subseteq Marks, NEW irq \in Irq
  PROVE  Clear(Eoi(irq), ops)
<1>1. PICK take, ins, give : take = <<"lock", "PICS">> /\ ins = <<"eoi", irq>> /\ give = <<"unlock", "PICS">>
  OBVIOUS
<1>2. take \in Instruction /\ ins \in Instruction /\ give \in Instruction
  BY <1>1 DEF Instruction, Locks
<1>3. Clear(<<take>>, ops) /\ Clear(<<ins>>, ops) /\ Clear(<<give>>, ops)
  BY <1>1, <1>2, ClearOne DEF Marks
<1>4. Clear(<<take>> \o (<<ins>> \o <<give>>), ops)
  BY <1>3, ClearConcat
<1> QED
  BY <1>1, <1>2, <1>4, TripleOfOnes DEF Eoi

\* The keyboard's handler.
LEMMA ClearKeyboard ==
  ASSUME NEW ops, ops \subseteq Marks, NEW scan \in Scan
  PROVE  Clear(keyboard_handler(scan), ops)
<1> DEFINE shown == Use("VGA_CONSOLE", Use("VGA", display(VgaWrite)))
           body == Log \o IF scan = "enter" THEN shown ELSE <<>>
<1>1. Clear(Use("VGA", display(VgaWrite)), ops)
  BY ClearSmall, ClearUse DEF Locks, Lazies
<1>2. Clear(shown, ops)
  BY <1>1, ClearUse DEF Locks, Lazies
<1>3. Clear(body, ops)
  <2>1. CASE scan = "enter"
    <3>1. body = Log \o shown
      BY <2>1
    <3> QED
      BY <1>2, <3>1, ClearSmall, ClearConcat
  <2>2. CASE scan # "enter"
    <3>1. body = Log \o <<>>
      BY <2>2
    <3> QED
      BY <3>1, ClearSmall, ClearConcat
  <2> QED
    BY <2>1, <2>2
<1>4. keyboard_handler(scan) = Use("KEYBOARD", body) \o Eoi("keyboard")
  BY DEF keyboard_handler
<1> HIDE DEF body
<1>5. Clear(Use("KEYBOARD", body), ops)
  BY <1>3, ClearUse DEF Locks, Lazies
<1>6. Clear(Eoi("keyboard"), ops)
  BY ClearEoi DEF Irq
<1> QED
  BY <1>4, <1>5, <1>6, ClearConcat

\* The serial port's handler.
LEMMA ClearSerial ==
  ASSUME NEW ops, ops \subseteq Marks, NEW key \in Key
  PROVE  Clear(serial_handler(key), ops)
<1> USE ClearSmall
<1>1. Clear(Alloc \o Write, ops)
  BY ClearConcat
<1>2. ASSUME NEW command \in Command PROVE Clear(Run(command), ops)
  <2>1. Clear(Deref("TIMER") \o Write, ops)
    BY ClearUse, ClearConcat DEF Lazies
  <2>2. Clear(Use("SCHEDULER", Alloc \o << <<"fork", "SCHEDULER">> >>) \o Write, ops)
    <3>1. Clear(<< <<"fork", "SCHEDULER">> >>, ops)
      BY ClearOne DEF Instruction, Marks
    <3>2. Clear(Alloc \o << <<"fork", "SCHEDULER">> >>, ops)
      BY <3>1, ClearConcat
    <3>3. Clear(Use("SCHEDULER", Alloc \o << <<"fork", "SCHEDULER">> >>), ops)
      BY <3>2, ClearUse DEF Locks, Lazies
    <3> QED
      BY <3>3, ClearConcat
  <2>3. Clear(Use("LOGGER", Write), ops)
    BY ClearUse DEF Locks, Lazies
  <2>4. Clear(Elf_new \o Write, ops)
    BY ClearConcat
  <2> QED
    BY <2>1, <2>2, <2>3, <2>4 DEF Run, Command
<1>3. Clear(interpret(key), ops)
  <2>1. CASE key = "character"
    BY <1>1, <2>1 DEF interpret
  <2>2. CASE key = "ignored" \/ key = "backspace"
    BY <2>2 DEF interpret
  <2>3. CASE key \in Command
    <3>1. Clear((Alloc \o Write) \o Run(key), ops)
      BY <1>1, <1>2, <2>3, ClearConcat
    <3>2. Clear(((Alloc \o Write) \o Run(key)) \o Write, ops)
      BY <3>1, ClearConcat
    <3>3. interpret(key) = ((Alloc \o Write) \o Run(key)) \o Write
      BY <2>3 DEF interpret, Command
    <3> QED
      BY <3>2, <3>3
  <2> QED
    BY <2>1, <2>2, <2>3 DEF Key
<1>4. Clear(Use("SERIAL_CONSOLE", Use("SERIAL", interpret(key))), ops)
  BY <1>3, ClearUse DEF Locks, Lazies
<1>5. Clear(Eoi("serial"), ops)
  BY ClearEoi DEF Irq
<1> QED
  BY <1>4, <1>5, ClearConcat DEF serial_handler

\* The handlers of exceptions and of panics, but for halt().
LEMMA ClearFaults ==
  ASSUME NEW ops, ops \subseteq Marks \ {"halt"}
  PROVE  /\ \A kind : Clear(exception_handler(kind), ops)
         /\ Clear(panic_handler, ops)
<1>0. ops \subseteq Marks
  OBVIOUS
<1> USE <1>0, ClearSmall
<1>1. Clear(Halt, ops)
  <2>1. Clear(<< <<"cli", "IF">> >>, ops) /\ Clear(<< <<"halt", "CPU">> >>, ops)
    BY ClearOne DEF Instruction, Marks
  <2>2. << <<"cli", "IF">> >> \o << <<"halt", "CPU">> >> = Halt
    BY PairOfOnes DEF Halt
  <2> QED
    BY <2>1, <2>2, ClearConcat
<1>2. Clear(Log \o Halt, ops)
  BY <1>1, ClearConcat
<1>3. \A kind : Clear(exception_handler(kind), ops)
  BY <1>2 DEF exception_handler
<1>4. Clear(Deref("VGA"), ops) /\ Clear(<< <<"lock", "VGA">> >>, ops)
  BY ClearUse, ClearOne DEF Instruction, Marks, Locks, Lazies
<1>5. Clear(Deref("VGA") \o << <<"lock", "VGA">> >>, ops)
  BY <1>4, ClearConcat
<1>6. Clear(Deref("VGA") \o << <<"lock", "VGA">> >> \o VgaWrite, ops)
  BY <1>5, ClearConcat
<1>7. Clear(Deref("VGA") \o << <<"lock", "VGA">> >> \o VgaWrite \o Log, ops)
  BY <1>6, ClearConcat
<1>8. Clear(Use("LOGGER", VgaWrite), ops)
  BY ClearUse DEF Locks, Lazies
<1>9. Clear(Deref("VGA") \o << <<"lock", "VGA">> >> \o VgaWrite \o Log \o Use("LOGGER", VgaWrite), ops)
  BY <1>7, <1>8, ClearConcat
<1> QED
  BY <1>1, <1>3, <1>9, ClearConcat DEF panic_handler

\* The timer's handler, but for what it does to the scheduler.
LEMMA ClearTimer ==
  ASSUME NEW ops, ops \subseteq Marks \ {"increment", "tick"}
  PROVE  Clear(timer_handler, ops)
<1>0. ops \subseteq Marks
  OBVIOUS
<1>1. Clear(Deref("TIMER"), ops)
  BY <1>0, ClearUse DEF Lazies
<1>2. Clear(<< <<"increment", "TIMER">> >>, ops) /\ Clear(<< <<"tick", "SCHEDULER">> >>, ops)
  BY ClearOne DEF Instruction, Marks
<1>3. Clear(Deref("TIMER") \o << <<"increment", "TIMER">> >>, ops)
  BY <1>1, <1>2, ClearConcat
<1>4. Clear(Use("SCHEDULER", << <<"tick", "SCHEDULER">> >>), ops)
  BY <1>0, <1>2, ClearUse DEF Locks, Lazies
<1>5. Clear(Deref("TIMER") \o << <<"increment", "TIMER">> >> \o
            Use("SCHEDULER", << <<"tick", "SCHEDULER">> >>), ops)
  BY <1>3, <1>4, ClearConcat
<1>6. Clear(Eoi("timer"), ops)
  BY <1>0, ClearEoi DEF Irq
<1> QED
  BY <1>5, <1>6, ClearConcat DEF timer_handler

\* The parts of the boot; memory::initialize sets the heap up, and
\* scheduler::initialize adds the kernel's process.
LEMMA ClearParts ==
  ASSUME NEW ops, ops \subseteq Marks
  PROVE  /\ Clear(gdt_initialize, ops) /\ ("heap" \notin ops => Clear(memory_initialize, ops))
         /\ Clear(interrupts_initialize, ops) /\ Clear(smp_initialize, ops)
         /\ Clear(initrd_initialize, ops)
         /\ ("add" \notin ops => Clear(scheduler_initialize, ops))
         /\ Clear(intro_initialize, ops) /\ Clear(shell_initialize, ops)
         /\ Clear(userspace_initialize, ops) /\ Clear(tick_loop, ops)
         /\ Clear(Use("VIRTUAL_MANAGER", Use("PHYSICAL_MANAGER", allocate_pages)), ops)
<1> USE ClearSmall
<1>1. Clear(gdt_initialize, ops)
  <2>1. Clear(<< <<"lgdt", "GDT">> >>, ops) /\ Clear(<< <<"set_reg", "CS">> >>, ops)
    BY ClearOne DEF Instruction, Marks
  <2>2. << <<"lgdt", "GDT">> >> \o << <<"set_reg", "CS">> >> = gdt_initialize
    BY PairOfOnes DEF gdt_initialize
  <2> QED
    BY <2>1, <2>2, ClearConcat
<1>2. Clear(Use("VIRTUAL_MANAGER", Use("PHYSICAL_MANAGER", allocate_pages)), ops)
  <2>1. Clear(Use("PHYSICAL_MANAGER", allocate_pages), ops)
    BY ClearUse DEF allocate_pages, Locks, Lazies
  <2> QED
    BY <2>1, ClearUse DEF Locks, Lazies
<1>3. ASSUME "heap" \notin ops PROVE Clear(memory_initialize, ops)
  <2>1. Clear(<< <<"lock", "HEAP">>, <<"heap", "HEAP">> >>, ops)
    BY <1>3, ClearHeap
  <2> QED
    BY <1>2, <2>1, ClearConcat DEF memory_initialize
<1>4. Clear(interrupts_initialize, ops)
  <2>1. PICK a, b, c : a = <<"idt", "IDT">> /\ b = <<"lock", "PICS">> /\ c = <<"unlock", "PICS">>
    OBVIOUS
  <2>2. a \in Instruction /\ b \in Instruction /\ c \in Instruction
    BY <2>1 DEF Instruction, Locks
  <2>3. Clear(<<a>>, ops) /\ Clear(<<b>>, ops) /\ Clear(<<c>>, ops)
    BY <2>1, <2>2, ClearOne DEF Marks
  <2>4. Clear(<<a>> \o (<<b>> \o <<c>>), ops)
    BY <2>3, ClearConcat
  <2> QED
    BY <2>1, <2>2, <2>4, TripleOfOnes DEF interrupts_initialize
<1>5. Clear(smp_initialize, ops) /\ Clear(initrd_initialize, ops)
  BY ClearUse, ClearConcat DEF smp_initialize, initrd_initialize, Lazies
<1>6. Clear(userspace_initialize, ops)
  BY ClearOne DEF userspace_initialize, Instruction, Marks
<1>7. ASSUME "add" \notin ops PROVE Clear(scheduler_initialize, ops)
  <2>1. Clear(<< <<"add", "kernel">> >>, ops)
    BY <1>7, ClearOne DEF Instruction
  <2>2. Clear(Alloc \o << <<"add", "kernel">> >>, ops)
    BY <2>1, ClearConcat
  <2> QED
    BY <2>2, ClearUse DEF scheduler_initialize, Locks, Lazies
<1>8. Clear(intro_initialize, ops)
  <2>1. PICK image, text : image = Image_new \o May /\ text = May \o VgaWrite
    OBVIOUS
  <2>2. Clear(image, ops) /\ Clear(text, ops)
    BY <2>1, ClearConcat
  <2>3. Clear(image \o image, ops)
    BY <2>2, ClearConcat
  <2>4. Clear(image \o image \o image, ops)
    BY <2>2, <2>3, ClearConcat
  <2>5. Clear(image \o image \o image \o text, ops)
    BY <2>2, <2>4, ClearConcat
  <2>6. Clear(image \o image \o image \o text \o text, ops)
    BY <2>2, <2>5, ClearConcat
  <2>7. Clear(image \o image \o image \o text \o text \o text, ops)
    BY <2>2, <2>6, ClearConcat
  <2>8. Clear(Use("VGA", image \o image \o image \o text \o text \o text), ops)
    BY <2>7, ClearUse DEF Locks, Lazies
  <2> QED
    BY <2>1, <2>8 DEF intro_initialize
<1>9. Clear(shell_initialize, ops)
  <2>1. Clear(Use("SERIAL", display(Write)), ops)
    BY ClearUse DEF Locks, Lazies
  <2> QED
    BY <2>1, ClearUse DEF shell_initialize, Locks, Lazies
<1>10. Clear(tick_loop, ops)
  <2>1. Clear(<< <<"sti", "IF">> >>, ops) /\ Clear(<< <<"hlt", "CPU">> >>, ops)
    BY ClearOne DEF Instruction, Marks
  <2>2. << <<"sti", "IF">> >> \o << <<"hlt", "CPU">> >> = << <<"sti", "IF">>, <<"hlt", "CPU">> >>
    BY PairOfOnes
  <2>3. Clear(<< <<"sti", "IF">>, <<"hlt", "CPU">> >>, ops)
    BY <2>1, <2>2, ClearConcat
  <2> QED
    BY <2>3, ClearConcat DEF tick_loop
<1> QED
  BY <1>1, <1>2, <1>3, <1>4, <1>5, <1>6, <1>7, <1>8, <1>9, <1>10

\* The heap is set up at most once.
Once(s) == \A i, j \in 1..Len(s) : s[i][1] = "heap" /\ s[j][1] = "heap" => i = j

\* Code that sets the heap up once, and code that does not
LEMMA OnceConcat ==
  ASSUME NEW s, NEW c, NEW t, IsConcat(s, c, t),
         \/ Once(c) /\ \A i \in 1..Len(t) : t[i][1] # "heap"
         \/ Once(t) /\ \A i \in 1..Len(c) : c[i][1] # "heap"
  PROVE  Once(s)
<1> SUFFICES ASSUME NEW i \in 1..Len(s), NEW j \in 1..Len(s), s[i][1] = "heap", s[j][1] = "heap"
             PROVE  i = j
  BY DEF Once
<1>1. /\ (i \in 1..Len(c) /\ s[i] = c[i]) \/ (i - Len(c) \in 1..Len(t) /\ s[i] = t[i - Len(c)])
      /\ (j \in 1..Len(c) /\ s[j] = c[j]) \/ (j - Len(c) \in 1..Len(t) /\ s[j] = t[j - Len(c)])
  BY ConcatIndex
<1>2. CASE Once(c) /\ \A k \in 1..Len(t) : t[k][1] # "heap"
  BY <1>1, <1>2 DEF Once
<1>3. CASE Once(t) /\ \A k \in 1..Len(c) : c[k][1] # "heap"
  <2>1. i - Len(c) = j - Len(c)
    BY <1>1, <1>3 DEF Once
  <2> QED
    BY <2>1 DEF IsConcat
<1> QED
  BY <1>2, <1>3

\* The boot sets the heap up once, and does not end in halt().
LEMMA ClearBoot == Clear(kmain, Marks \ {"add", "heap"}) /\ Once(kmain)
<1>1. PICK s1, s2, s3, s4, s5, s6, s7, s8, s9, s10 :
        /\ s1 = gdt_initialize /\ s2 = memory_initialize /\ s3 = interrupts_initialize
        /\ s4 = smp_initialize /\ s5 = initrd_initialize /\ s6 = scheduler_initialize
        /\ s7 = intro_initialize /\ s8 = shell_initialize /\ s9 = userspace_initialize
        /\ s10 = tick_loop
  OBVIOUS
<1>2. PICK c2, c3, c4, c5, c6, c7, c8, c9, c10 :
        /\ c2 = s1 \o s2 /\ c3 = c2 \o s3 /\ c4 = c3 \o s4 /\ c5 = c4 \o s5
        /\ c6 = c5 \o s6 /\ c7 = c6 \o s7 /\ c8 = c7 \o s8 /\ c9 = c8 \o s9 /\ c10 = c9 \o s10
  OBVIOUS
<1>3. kmain = c10
  BY <1>1, <1>2, Zenon DEF kmain
<1> DEFINE ops == Marks \ {"add", "heap"}
           Good(c) == Clear(c, ops) /\ Once(c)
           Small(c) == Clear(c, ops) /\ \A i \in 1..Len(c) : c[i][1] # "heap"
<1>4. Small(s1) /\ Small(s3) /\ Small(s4) /\ Small(s5) /\ Small(s6) /\ Small(s7) /\ Small(s8)
      /\ Small(s9) /\ Small(s10) /\ Clear(s2, ops)
  <2>1. "heap" \in Marks \ {"add"} /\ Marks \ {"add"} \subseteq Marks /\ ops \subseteq Marks
        /\ "heap" \notin ops /\ "add" \notin ops
    BY DEF Marks
  <2>2. ASSUME NEW c, Clear(c, ops), Clear(c, Marks \ {"add"}) PROVE Small(c)
    BY <2>1, <2>2 DEF Clear
  <2> HIDE DEF ops, Small
  <2>3. /\ Clear(s1, ops) /\ Clear(s2, ops) /\ Clear(s3, ops) /\ Clear(s4, ops) /\ Clear(s5, ops)
        /\ Clear(s6, ops) /\ Clear(s7, ops) /\ Clear(s8, ops) /\ Clear(s9, ops) /\ Clear(s10, ops)
    BY <1>1, <2>1, ClearParts
  <2>4. PICK o : o = Marks \ {"add"}
    OBVIOUS
  <2>5. /\ Clear(s1, o) /\ Clear(s3, o) /\ Clear(s4, o) /\ Clear(s5, o) /\ Clear(s6, o)
        /\ Clear(s7, o) /\ Clear(s8, o) /\ Clear(s9, o) /\ Clear(s10, o)
    <3>1. o \subseteq Marks /\ "add" \notin o
      BY <2>4
    <3> QED
      BY <1>1, <3>1, ClearParts
  <2> QED
    BY <2>2, <2>3, <2>4, <2>5
<1>5. ASSUME NEW c, NEW t, NEW s, s = c \o t, \/ Good(c) /\ Small(t)
                                              \/ Small(c) /\ Good(t)
      PROVE  Good(s)
  <2>1. IsConcat(s, c, t)
    BY <1>5, Concat DEF Clear
  <2>2. Once(s)
    BY <1>5, <2>1, OnceConcat
  <2>3. Clear(s, ops)
    BY <1>5, ClearConcat
  <2> QED
    BY <2>2, <2>3
<1>6. Once(s2)
  <2>1. PICK u, h : /\ u = Use("VIRTUAL_MANAGER", Use("PHYSICAL_MANAGER", allocate_pages))
                    /\ h = << <<"lock", "HEAP">>, <<"heap", "HEAP">> >>
    OBVIOUS
  <2>2. Clear(u, Marks)
    BY <2>1, ClearParts
  <2>3. h \in Seq(Instruction) /\ Once(h)
    <3>1. PICK a, b : a = <<"lock", "HEAP">> /\ b = <<"heap", "HEAP">>
      OBVIOUS
    <3>2. a \in Instruction /\ b \in Instruction /\ a[1] # "heap"
      BY <3>1 DEF Instruction, Locks
    <3>3. h = <<a, b>>
      BY <2>1, <3>1
    <3>4. h \in Seq(Instruction) /\ Len(h) = 2 /\ h[1] = a
      BY <3>2, <3>3
    <3>5. \A i \in 1..Len(h) : i = 1 \/ i = 2
      BY <3>4
    <3> QED
      BY <3>2, <3>4, <3>5 DEF Once
  <2>4. s2 = u \o h
    BY <1>1, <2>1 DEF memory_initialize
  <2>5. IsConcat(s2, u, h)
    BY <2>2, <2>3, <2>4, Concat DEF Clear
  <2> QED
    BY <2>2, <2>3, <2>5, OnceConcat DEF Clear, Marks
<1>7. Good(c2)
  BY <1>2, <1>4, <1>5, <1>6
<1> HIDE DEF Good, Small, ops
<1>8. Good(c3)
  BY <1>2, <1>4, <1>5, <1>7
<1>9. Good(c4)
  BY <1>2, <1>4, <1>5, <1>8
<1>10. Good(c5)
  BY <1>2, <1>4, <1>5, <1>9
<1>11. Good(c6)
  BY <1>2, <1>4, <1>5, <1>10
<1>12. Good(c7)
  BY <1>2, <1>4, <1>5, <1>11
<1>13. Good(c8)
  BY <1>2, <1>4, <1>5, <1>12
<1>14. Good(c9)
  BY <1>2, <1>4, <1>5, <1>13
<1>15. Good(c10)
  BY <1>2, <1>4, <1>5, <1>14
<1> QED
  BY <1>3, <1>15 DEF Good, ops

-----------------------------------------------------------------------------
(***************************************************************************)
(* What drives the scheduler: which of its steps the code that is left     *)
(* still has to take.                                                      *)
(***************************************************************************)

Drives == {"add", "increment", "tick"}
Plain(s) == s \in Seq(Instruction) /\ \A i \in 1..Len(s) : s[i][1] \notin Drives

\* Each of them comes at most once, and a count of the timer comes with its
\* tick.
Timed(s) ==
  /\ s \in Seq(Instruction)
  /\ \A i, j \in 1..Len(s) : s[i][1] \in Drives /\ s[i][1] = s[j][1] => i = j
  /\ \A i \in 1..Len(s) : s[i][1] = "increment" => \E j \in i + 1..Len(s) : s[j][1] = "tick"

Still(s, op) == \E i \in 1..Len(s) : s[i][1] = op

\* Code put in front of other code, neither of which drives the scheduler.
LEMMA PlainConcat ==
  ASSUME NEW c, NEW t, Plain(c), Plain(t)
  PROVE  Plain(c \o t)
<1>1. PICK s : s = c \o t
  OBVIOUS
<1>2. IsConcat(s, c, t)
  BY <1>1, Concat DEF Plain
<1>3. ASSUME NEW i \in 1..Len(s) PROVE s[i][1] \notin Drives
  <2>1. CASE i \in 1..Len(c)
    BY <1>2, <2>1 DEF IsConcat, Plain
  <2>2. CASE ~(i \in 1..Len(c))
    <3>1. PICK j : j = i - Len(c)
      OBVIOUS
    <3>2. j \in 1..Len(t) /\ j + Len(c) = i
      BY <1>2, <2>2, <3>1 DEF IsConcat
    <3> QED
      BY <1>2, <3>2 DEF IsConcat, Plain
  <2> QED
    BY <2>1, <2>2
<1> QED
  BY <1>1, <1>2, <1>3 DEF IsConcat, Plain

\* An instruction that does not drive the scheduler.
LEMMA PlainOne ==
  ASSUME NEW op, NEW arg, <<op, arg>> \in Instruction, op \notin Drives
  PROVE  Plain(<< <<op, arg>> >>)
<1>1. PICK ins : ins = <<op, arg>>
  OBVIOUS
<1>2. PICK s : s = <<ins>>
  OBVIOUS
<1>3. s \in Seq(Instruction) /\ Len(s) = 1 /\ s[1] = ins /\ ins[1] = op
  BY <1>1, <1>2
<1>4. \A i \in 1..Len(s) : s[i] = ins
  BY <1>3
<1> QED
  BY <1>1, <1>2, <1>3, <1>4 DEF Plain

\* Dereferencing a static, and using its lock around such code.
LEMMA PlainUse ==
  /\ \A x \in Lazies : Plain(Deref(x))
  /\ \A x \in Locks \cap Lazies : \A body : Plain(body) => Plain(Use(x, body))
<1>1. ASSUME NEW x \in Lazies PROVE Plain(Deref(x))
  BY PlainOne DEF Deref, Instruction, Drives
<1>2. ASSUME NEW x \in Locks \cap Lazies, NEW body, Plain(body) PROVE Plain(Use(x, body))
  <2>1. Plain(<< <<"lock", x>> >>) /\ Plain(<< <<"unlock", x>> >>)
    BY PlainOne DEF Instruction, Drives
  <2>2. Plain(Deref(x) \o << <<"lock", x>> >>)
    BY <1>1, <2>1, PlainConcat
  <2>3. Plain(Deref(x) \o << <<"lock", x>> >> \o body)
    BY <1>2, <2>2, PlainConcat
  <2> QED
    BY <2>1, <2>3, PlainConcat DEF Use
<1> QED
  BY <1>1, <1>2

\* Code without those instructions does not drive the scheduler.
LEMMA PlainClear ==
  ASSUME NEW s, Clear(s, Drives)
  PROVE  Plain(s)
BY DEF Clear, Plain

\* Logging, allocating, and calls that may panic
LEMMA PlainSmall == Plain(<<>>) /\ Plain(May) /\ Plain(Alloc) /\ Plain(Log)
<1>1. Drives \subseteq Marks
  BY DEF Drives, Marks
<1> QED
  BY <1>1, ClearSmall, PlainClear

\* No initialiser of a static drives the scheduler, and no handler does but the
\* timer's and, by a fork, the serial port's.
LEMMA PlainCode ==
  /\ \A x \in Lazies : Plain(InitCode(x))
  /\ \A irq \in Irq : Plain(Eoi(irq))
  /\ \A scan \in Scan : Plain(keyboard_handler(scan))
  /\ \A key \in Key : Plain(serial_handler(key))
  /\ \A kind : Plain(exception_handler(kind))
  /\ Plain(panic_handler)
<1>1. Drives \subseteq Marks /\ Drives \subseteq Marks \ {"halt"}
  BY DEF Drives, Marks
<1> QED
  BY <1>1, ClearInit, ClearEoi, ClearKeyboard, ClearSerial, ClearFaults, PlainClear

\* Plain code in front changes nothing of what is still to come.
LEMMA TimedPush ==
  ASSUME NEW s, NEW c, NEW t, IsConcat(s, c, t), Plain(c)
  PROVE  /\ Timed(t) => Timed(s)
         /\ \A op \in Drives : Still(s, op) <=> Still(t, op)
<1>1. \A i \in 1..Len(c) : s[i][1] \notin Drives
  BY DEF IsConcat, Plain
<1>2. ASSUME NEW i \in 1..Len(s), s[i][1] \in Drives
      PROVE  /\ i - Len(c) \in 1..Len(t) /\ (i - Len(c)) + Len(c) = i
             /\ s[i] = t[i - Len(c)]
  <2>1. ~(i \in 1..Len(c))
    BY <1>1, <1>2
  <2>2. i - Len(c) \in 1..Len(t) /\ (i - Len(c)) + Len(c) = i
    BY <2>1 DEF IsConcat
  <2> QED
    BY <2>2 DEF IsConcat
<1>3. ASSUME NEW k \in 1..Len(t)
      PROVE  k + Len(c) \in 1..Len(s) /\ s[k + Len(c)] = t[k]
  BY DEF IsConcat
<1>4. ASSUME NEW op \in Drives PROVE Still(s, op) <=> Still(t, op)
  <2>1. ASSUME Still(s, op) PROVE Still(t, op)
    <3>1. PICK i \in 1..Len(s) : s[i][1] = op
      BY <2>1 DEF Still
    <3>2. i - Len(c) \in 1..Len(t) /\ t[i - Len(c)][1] = op
      BY <1>2, <3>1
    <3> QED
      BY <3>2 DEF Still
  <2>2. ASSUME Still(t, op) PROVE Still(s, op)
    BY <1>3, <2>2 DEF Still
  <2> QED
    BY <2>1, <2>2
<1>5. ASSUME Timed(t) PROVE Timed(s)
  <2>1. ASSUME NEW i \in 1..Len(s), NEW j \in 1..Len(s), s[i][1] \in Drives, s[i][1] = s[j][1]
        PROVE  i = j
    <3>1. i - Len(c) \in 1..Len(t) /\ j - Len(c) \in 1..Len(t)
          /\ s[i] = t[i - Len(c)] /\ s[j] = t[j - Len(c)]
      BY <1>2, <2>1
    <3>2. i - Len(c) = j - Len(c)
      BY <1>5, <2>1, <3>1 DEF Timed
    <3> QED
      BY <3>2 DEF IsConcat
  <2>2. ASSUME NEW i \in 1..Len(s), s[i][1] = "increment"
        PROVE  \E j \in i + 1..Len(s) : s[j][1] = "tick"
    <3>1. i - Len(c) \in 1..Len(t) /\ (i - Len(c)) + Len(c) = i /\ s[i] = t[i - Len(c)]
      BY <1>2, <2>2 DEF Drives
    <3>2. PICK k \in (i - Len(c)) + 1..Len(t) : t[k][1] = "tick"
      BY <1>5, <2>2, <3>1 DEF Timed
    <3>3. k \in 1..Len(t) /\ k + Len(c) \in i + 1..Len(s)
      BY <3>1, <3>2 DEF IsConcat
    <3>4. s[k + Len(c)][1] = "tick"
      BY <1>3, <3>2, <3>3
    <3> QED
      BY <3>3, <3>4
  <2> QED
    BY <2>1, <2>2 DEF Timed, IsConcat
<1> QED
  BY <1>4, <1>5

\* So does plain code behind.
LEMMA TimedBehind ==
  ASSUME NEW s, NEW c, NEW t, IsConcat(s, c, t), Plain(t)
  PROVE  /\ Timed(c) => Timed(s)
         /\ \A op \in Drives : Still(s, op) <=> Still(c, op)
<1>1. ASSUME NEW i \in 1..Len(s), s[i][1] \in Drives
      PROVE  i \in 1..Len(c) /\ s[i] = c[i]
  <2>1. ASSUME ~(i \in 1..Len(c)) PROVE FALSE
    <3>1. i - Len(c) \in 1..Len(t) /\ (i - Len(c)) + Len(c) = i
      BY <2>1 DEF IsConcat
    <3>2. s[i] = t[i - Len(c)]
      BY <3>1 DEF IsConcat
    <3> QED
      BY <1>1, <3>1, <3>2 DEF Plain
  <2> QED
    BY <2>1 DEF IsConcat
<1>2. ASSUME NEW k \in 1..Len(c) PROVE k \in 1..Len(s) /\ s[k] = c[k]
  BY DEF IsConcat
<1>3. ASSUME NEW op \in Drives PROVE Still(s, op) <=> Still(c, op)
  BY <1>1, <1>2, Zenon DEF Still
<1>4. ASSUME Timed(c) PROVE Timed(s)
  <2>1. ASSUME NEW i \in 1..Len(s), NEW j \in 1..Len(s), s[i][1] \in Drives, s[i][1] = s[j][1]
        PROVE  i = j
    BY <1>1, <1>4, <2>1 DEF Timed
  <2>2. ASSUME NEW i \in 1..Len(s), s[i][1] = "increment"
        PROVE  \E j \in i + 1..Len(s) : s[j][1] = "tick"
    <3>1. i \in 1..Len(c) /\ s[i] = c[i]
      BY <1>1, <2>2 DEF Drives
    <3>2. PICK k \in i + 1..Len(c) : c[k][1] = "tick"
      BY <1>4, <2>2, <3>1 DEF Timed
    <3>3. k \in 1..Len(c) /\ k \in i + 1..Len(s)
      BY <3>1, <3>2 DEF IsConcat
    <3> QED
      BY <1>2, <3>2, <3>3
  <2> QED
    BY <2>1, <2>2 DEF Timed, IsConcat
<1> QED
  BY <1>3, <1>4

\* Plain code on both sides, as of two sequences.
LEMMA TimedBetween ==
  ASSUME NEW c, NEW t
  PROVE  /\ Plain(c) /\ Timed(t) => /\ Timed(c \o t)
                                    /\ \A op \in Drives : Still(c \o t, op) <=> Still(t, op)
         /\ Timed(c) /\ Plain(t) => /\ Timed(c \o t)
                                    /\ \A op \in Drives : Still(c \o t, op) <=> Still(c, op)
<1>1. ASSUME c \in Seq(Instruction), t \in Seq(Instruction) PROVE IsConcat(c \o t, c, t)
  BY <1>1, Concat
<1>2. PICK s : s = c \o t
  OBVIOUS
<1>3. (Plain(c) \/ Timed(c)) /\ (Plain(t) \/ Timed(t)) => IsConcat(s, c, t)
  BY <1>1, <1>2 DEF Plain, Timed
<1> QED
  BY <1>2, <1>3, TimedPush, TimedBehind, Zenon

\* One instruction that drives the scheduler, by itself.
LEMMA TimedOne ==
  ASSUME NEW op, NEW arg, <<op, arg>> \in Instruction, op # "increment"
  PROVE  Timed(<< <<op, arg>> >>) /\ \A o : Still(<< <<op, arg>> >>, o) <=> o = op
<1>1. PICK ins : ins = <<op, arg>>
  OBVIOUS
<1>2. PICK s : s = <<ins>>
  OBVIOUS
<1>3. s \in Seq(Instruction) /\ Len(s) = 1 /\ s[1] = ins /\ ins[1] = op
  BY <1>1, <1>2
<1>4. \A i \in 1..Len(s) : i = 1 /\ s[i] = ins
  BY <1>3
<1>5. 1 \in 1..Len(s)
  BY <1>3
<1> QED
  BY <1>1, <1>2, <1>3, <1>4, <1>5 DEF Timed, Still

\* The count of the timer, in front of its tick.
LEMMA TimedCount ==
  ASSUME NEW t, Timed(t), Still(t, "tick"), ~Still(t, "increment"),
         NEW arg, <<"increment", arg>> \in Instruction
  PROVE  /\ Timed(<< <<"increment", arg>> >> \o t)
         /\ Still(<< <<"increment", arg>> >> \o t, "increment")
         /\ Still(<< <<"increment", arg>> >> \o t, "tick")
         /\ Still(<< <<"increment", arg>> >> \o t, "add") <=> Still(t, "add")
<1>1. PICK ins : ins = <<"increment", arg>>
  OBVIOUS
<1>2. PICK c : c = <<ins>>
  OBVIOUS
<1>3. c \in Seq(Instruction) /\ Len(c) = 1 /\ c[1] = ins /\ ins[1] = "increment"
  BY <1>1, <1>2
<1>4. PICK s : s = c \o t
  OBVIOUS
<1>5. IsConcat(s, c, t)
  BY <1>3, <1>4, Concat DEF Timed
<1>6. /\ Len(s) = Len(t) + 1 /\ Len(t) \in Nat /\ 1 \in 1..Len(s) /\ s[1] = ins
      /\ \A i \in 1..Len(t) : i + 1 \in 1..Len(s) /\ s[i + 1] = t[i]
  BY <1>3, <1>5 DEF IsConcat
<1>7. ASSUME NEW i \in 1..Len(s), i # 1 PROVE i - 1 \in 1..Len(t) /\ (i - 1) + 1 = i /\ s[i] = t[i - 1]
  <2>1. i - 1 \in 1..Len(t) /\ (i - 1) + 1 = i
    BY <1>6, <1>7
  <2> QED
    BY <1>6, <2>1
<1>8. ASSUME NEW i \in 1..Len(s), NEW j \in 1..Len(s), s[i][1] \in Drives, s[i][1] = s[j][1], i # 1
      PROVE  i = j
  <2>1. j # 1
    <3> SUFFICES ASSUME j = 1 PROVE FALSE
      OBVIOUS
    <3>1. t[i - 1][1] = "increment" /\ i - 1 \in 1..Len(t)
      BY <1>3, <1>6, <1>7, <1>8
    <3> QED
      BY <3>1 DEF Still
  <2>2. i - 1 \in 1..Len(t) /\ j - 1 \in 1..Len(t) /\ s[i] = t[i - 1] /\ s[j] = t[j - 1]
    BY <1>7, <1>8, <2>1
  <2>3. i - 1 = j - 1
    BY <1>8, <2>2 DEF Timed
  <2> QED
    BY <1>6, <2>3
<1>9. ASSUME NEW i \in 1..Len(s), NEW j \in 1..Len(s), s[i][1] \in Drives, s[i][1] = s[j][1]
      PROVE  i = j
  <2>1. CASE i # 1
    BY <1>8, <1>9, <2>1
  <2>2. CASE j # 1
    <3>1. s[j][1] \in Drives /\ s[j][1] = s[i][1]
      BY <1>9
    <3>2. j = i
      BY <1>8, <2>2, <3>1
    <3> QED
      BY <3>2
  <2> QED
    BY <2>1, <2>2
<1>10. PICK k \in 1..Len(t) : t[k][1] = "tick"
  BY DEF Still
<1>11. k + 1 \in 1..Len(s) /\ k + 1 \in 1 + 1..Len(s) /\ s[k + 1][1] = "tick"
  BY <1>6, <1>10
<1>12. ASSUME NEW i \in 1..Len(s), s[i][1] = "increment"
       PROVE  \E j \in i + 1..Len(s) : s[j][1] = "tick"
  <2>1. i = 1
    BY <1>3, <1>6, <1>9, <1>12 DEF Drives
  <2> QED
    BY <1>11, <2>1
<1>13. Timed(s)
  BY <1>5, <1>9, <1>12 DEF Timed, IsConcat
<1>14. Still(s, "increment") /\ Still(s, "tick")
  BY <1>3, <1>6, <1>11 DEF Still
<1>15. Still(s, "add") <=> Still(t, "add")
  <2>1. ASSUME Still(s, "add") PROVE Still(t, "add")
    <3>1. PICK i \in 1..Len(s) : s[i][1] = "add"
      BY <2>1 DEF Still
    <3>2. i # 1
      BY <1>3, <1>6, <3>1
    <3> QED
      BY <1>7, <3>1, <3>2 DEF Still
  <2>2. ASSUME Still(t, "add") PROVE Still(s, "add")
    BY <1>6, <2>2 DEF Still
  <2> QED
    BY <2>1, <2>2
<1> QED
  BY <1>1, <1>2, <1>4, <1>13, <1>14, <1>15

\* The timer's handler counts and then ticks, once each.
LEMMA TimedTimer ==
  /\ Timed(timer_handler)
  /\ Still(timer_handler, "increment") /\ Still(timer_handler, "tick")
  /\ ~Still(timer_handler, "add")
<1>1. PICK f, u, l, b, e, d, n :
        /\ f = Deref("SCHEDULER") /\ l = << <<"lock", "SCHEDULER">> >>
        /\ u = << <<"unlock", "SCHEDULER">> >> /\ b = << <<"tick", "SCHEDULER">> >>
        /\ e = Eoi("timer") /\ d = Deref("TIMER") /\ n = << <<"increment", "TIMER">> >>
  OBVIOUS
<1>2. Plain(f) /\ Plain(l) /\ Plain(u) /\ Plain(e) /\ Plain(d)
  BY <1>1, PlainUse, PlainOne, PlainCode DEF Instruction, Drives, Locks, Lazies, Irq
<1>3. Timed(b) /\ \A o : Still(b, o) <=> o = "tick"
  <2>1. <<"tick", "SCHEDULER">> \in Instruction /\ "tick" # "increment"
    BY DEF Instruction
  <2> QED
    BY <1>1, <2>1, TimedOne
<1>4. Plain(f \o l)
  BY <1>2, PlainConcat
<1>5. Timed((f \o l) \o b) /\ \A o \in Drives : Still((f \o l) \o b, o) <=> o = "tick"
  BY <1>3, <1>4, TimedBetween
<1>6. Timed(((f \o l) \o b) \o u) /\ \A o \in Drives : Still(((f \o l) \o b) \o u, o) <=> o = "tick"
  BY <1>2, <1>5, TimedBetween
<1>7. Use("SCHEDULER", b) = ((f \o l) \o b) \o u
  BY <1>1 DEF Use
<1>8. PICK r : r = Use("SCHEDULER", b) \o e
  OBVIOUS
<1>9. Timed(r) /\ \A o \in Drives : Still(r, o) <=> o = "tick"
  BY <1>2, <1>6, <1>7, <1>8, TimedBetween
<1>10. PICK c : c = n \o r
  OBVIOUS
<1>11. Timed(c) /\ Still(c, "increment") /\ Still(c, "tick") /\ ~Still(c, "add")
  <2>1. <<"increment", "TIMER">> \in Instruction
    BY DEF Instruction
  <2>2. Still(r, "tick") /\ ~Still(r, "increment") /\ ~Still(r, "add")
    BY <1>9 DEF Drives
  <2> QED
    BY <1>1, <1>9, <1>10, <2>1, <2>2, TimedCount
<1>12. Timed(d \o c) /\ \A o \in Drives : Still(d \o c, o) <=> Still(c, o)
  BY <1>2, <1>11, TimedBetween
<1>13. timer_handler = d \o c
  <2>1. PICK U : U = Use("SCHEDULER", b)
    OBVIOUS
  <2>2. timer_handler = ((d \o n) \o U) \o e
    BY <1>1, <2>1 DEF timer_handler
  <2>3. /\ d \in Seq(Instruction) /\ n \in Seq(Instruction) /\ U \in Seq(Instruction)
        /\ e \in Seq(Instruction)
    <3>1. <<"increment", "TIMER">> \in Instruction
      BY DEF Instruction
    <3>2. n \in Seq(Instruction)
      BY <1>1, <3>1, OnesIn
    <3> QED
      BY <1>2, <1>6, <1>7, <2>1, <3>2, Zenon DEF Plain, Timed
  <2>4. d \o n \in Seq(Instruction) /\ U \o e \in Seq(Instruction)
    BY <2>3, ConcatProperties
  <2>5. ((d \o n) \o U) \o e = (d \o n) \o (U \o e)
    BY <2>3, <2>4, Assoc
  <2>6. PICK x \in Seq(Instruction) : x = U \o e
    BY <2>4
  <2>7. (d \o n) \o x = d \o (n \o x)
    BY <2>3, Assoc
  <2> QED
    BY <1>8, <1>10, <2>1, <2>2, <2>5, <2>6, <2>7, Zenon
<1> QED
  BY <1>11, <1>12, <1>13 DEF Drives

\* The boot adds the kernel's process, once, and does not tick.
LEMMA TimedBoot ==
  Timed(kmain) /\ ~Still(kmain, "increment") /\ ~Still(kmain, "tick")
<1> USE PlainSmall
<1>1. PICK s1, s2, s3, s4, s5, s6, s7, s8, s9, s10 :
        /\ s1 = gdt_initialize /\ s2 = memory_initialize /\ s3 = interrupts_initialize
        /\ s4 = smp_initialize /\ s5 = initrd_initialize /\ s6 = scheduler_initialize
        /\ s7 = intro_initialize /\ s8 = shell_initialize /\ s9 = userspace_initialize
        /\ s10 = tick_loop
  OBVIOUS
<1>2. /\ Plain(s1) /\ Plain(s2) /\ Plain(s3) /\ Plain(s4) /\ Plain(s5)
      /\ Plain(s7) /\ Plain(s8) /\ Plain(s9) /\ Plain(s10)
  <2>1. Drives \subseteq Marks /\ "heap" \notin Drives
    BY DEF Drives, Marks
  <2> QED
    BY <1>1, <2>1, ClearParts, PlainClear
<1>3. Timed(s6) /\ ~Still(s6, "increment") /\ ~Still(s6, "tick")
  <2>1. PICK b : b = << <<"add", "kernel">> >>
    OBVIOUS
  <2>2. Timed(b) /\ \A o : Still(b, o) <=> o = "add"
    <3>1. <<"add", "kernel">> \in Instruction /\ "add" # "increment"
      BY DEF Instruction
    <3> QED
      BY <2>1, <3>1, TimedOne
  <2>3. Timed(Alloc \o b) /\ \A o \in Drives : Still(Alloc \o b, o) <=> o = "add"
    BY <2>2, TimedBetween
  <2>4. PICK c : c = Deref("SCHEDULER") \o << <<"lock", "SCHEDULER">> >>
    OBVIOUS
  <2>5. Plain(c) /\ Plain(<< <<"unlock", "SCHEDULER">> >>)
    BY <2>4, PlainUse, PlainOne, PlainConcat DEF Instruction, Drives, Locks, Lazies
  <2>6. PICK ab : ab = Alloc \o b
    OBVIOUS
  <2>7. Timed(c \o ab) /\ \A o \in Drives : Still(c \o ab, o) <=> o = "add"
    BY <2>3, <2>5, <2>6, TimedBetween
  <2>8. /\ Timed((c \o ab) \o << <<"unlock", "SCHEDULER">> >>)
        /\ \A o \in Drives : Still((c \o ab) \o << <<"unlock", "SCHEDULER">> >>, o) <=> o = "add"
    BY <2>5, <2>7, TimedBetween
  <2>9. s6 = (c \o ab) \o << <<"unlock", "SCHEDULER">> >>
    BY <1>1, <2>1, <2>4, <2>6, Zenon DEF scheduler_initialize, Use
  <2> QED
    BY <2>8, <2>9 DEF Drives
<1>4. PICK c2, c3, c4, c5, c6, c7, c8, c9, c10 :
        /\ c2 = s1 \o s2 /\ c3 = c2 \o s3 /\ c4 = c3 \o s4 /\ c5 = c4 \o s5
        /\ c6 = c5 \o s6 /\ c7 = c6 \o s7 /\ c8 = c7 \o s8 /\ c9 = c8 \o s9 /\ c10 = c9 \o s10
  OBVIOUS
<1>5. kmain = c10
  BY <1>1, <1>4, Zenon DEF kmain
<1>6. Plain(c2)
  BY <1>2, <1>4, PlainConcat
<1>7. Plain(c3)
  BY <1>2, <1>4, <1>6, PlainConcat
<1>8. Plain(c4)
  BY <1>2, <1>4, <1>7, PlainConcat
<1>9. Plain(c5)
  BY <1>2, <1>4, <1>8, PlainConcat
<1> DEFINE Good(c) == Timed(c) /\ ~Still(c, "increment") /\ ~Still(c, "tick")
<1>10. "increment" \in Drives /\ "tick" \in Drives
  BY DEF Drives
<1>11. Good(c6)
  BY <1>3, <1>4, <1>9, <1>10, TimedBetween, Zenon
<1>12. Good(c7)
  BY <1>2, <1>4, <1>10, <1>11, TimedBetween, Zenon
<1>13. Good(c8)
  BY <1>2, <1>4, <1>10, <1>12, TimedBetween, Zenon
<1>14. Good(c9)
  BY <1>2, <1>4, <1>10, <1>13, TimedBetween, Zenon
<1>15. Good(c10)
  BY <1>2, <1>4, <1>10, <1>14, TimedBetween, Zenon
<1> QED
  BY <1>5, <1>15

\* The rest of timed code.
LEMMA TimedTail ==
  ASSUME NEW s, Timed(s), s # <<>>
  PROVE  /\ Timed(Tail(s))
         /\ \A op \in Drives \ {Head(s)[1]} : Still(s, op) <=> Still(Tail(s), op)
         /\ Head(s)[1] \in Drives => Still(s, Head(s)[1]) /\ ~Still(Tail(s), Head(s)[1])
         /\ Head(s)[1] = "increment" => Still(Tail(s), "tick")
         /\ Head(s)[1] = "tick" => ~Still(Tail(s), "increment")
<1>1. PICK h, t : h = Head(s) /\ t = Tail(s)
  OBVIOUS
<1>2. /\ h = s[1] /\ Len(s) \in Nat /\ Len(s) >= 1 /\ t \in Seq(Instruction)
      /\ Len(t) = Len(s) - 1 /\ 1 \in 1..Len(s)
      /\ \A i \in 1..Len(t) : t[i] = s[i + 1] /\ i + 1 \in 1..Len(s) /\ i + 1 # 1
  BY <1>1, HeadTail DEF Timed
<1>3. ASSUME NEW i \in 1..Len(s), i # 1 PROVE i - 1 \in 1..Len(t) /\ t[i - 1] = s[i]
  <2>1. i - 1 \in 1..Len(t) /\ (i - 1) + 1 = i
    BY <1>2, <1>3
  <2> QED
    BY <1>2, <2>1
<1>4. Timed(t)
  <2>1. ASSUME NEW i \in 1..Len(t), NEW j \in 1..Len(t), t[i][1] \in Drives, t[i][1] = t[j][1]
        PROVE  i = j
    <3>1. i + 1 = j + 1
      BY <1>2, <2>1 DEF Timed
    <3> QED
      BY <1>2, <3>1
  <2>2. ASSUME NEW i \in 1..Len(t), t[i][1] = "increment"
        PROVE  \E j \in i + 1..Len(t) : t[j][1] = "tick"
    <3>1. PICK k \in (i + 1) + 1..Len(s) : s[k][1] = "tick"
      BY <1>2, <2>2 DEF Timed
    <3>2. k \in 1..Len(s) /\ k # 1 /\ k - 1 \in i + 1..Len(t)
      BY <1>2, <3>1
    <3> QED
      BY <1>3, <3>1, <3>2
  <2> QED
    BY <1>2, <2>1, <2>2 DEF Timed
<1>5. ASSUME NEW op, op # h[1] PROVE Still(s, op) <=> Still(t, op)
  <2>1. ASSUME Still(s, op) PROVE Still(t, op)
    <3>1. PICK i \in 1..Len(s) : s[i][1] = op
      BY <2>1 DEF Still
    <3>2. i # 1
      BY <1>2, <1>5, <3>1
    <3> QED
      BY <1>3, <3>1, <3>2 DEF Still
  <2>2. ASSUME Still(t, op) PROVE Still(s, op)
    BY <1>2, <2>2 DEF Still
  <2> QED
    BY <2>1, <2>2
<1>6. ASSUME h[1] \in Drives PROVE Still(s, h[1]) /\ ~Still(t, h[1])
  <2>1. Still(s, h[1])
    BY <1>2 DEF Still
  <2>2. ASSUME NEW i \in 1..Len(t), t[i][1] = h[1] PROVE FALSE
    BY <1>2, <1>6, <2>2 DEF Timed
  <2> QED
    BY <2>1, <2>2 DEF Still
<1>7. ASSUME h[1] = "increment" PROVE Still(t, "tick")
  <2>1. PICK k \in 1 + 1..Len(s) : s[k][1] = "tick"
    BY <1>2, <1>7 DEF Timed
  <2>2. k \in 1..Len(s) /\ k # 1
    BY <1>2, <2>1
  <2> QED
    BY <1>3, <2>1, <2>2 DEF Still
<1>8. ASSUME h[1] = "tick", Still(t, "increment") PROVE FALSE
  <2>1. PICK i \in 1..Len(t) : t[i][1] = "increment"
    BY <1>8 DEF Still
  <2>2. PICK j \in i + 1..Len(t) : t[j][1] = "tick"
    BY <1>4, <2>1 DEF Timed
  <2>3. j \in 1..Len(t)
    BY <1>2, <2>1, <2>2
  <2> QED
    BY <1>6, <1>8, <2>2, <2>3 DEF Still, Drives
<1> QED
  BY <1>1, <1>4, <1>5, <1>6, <1>7, <1>8

\* Counting modulo the width of the counter, and back.
LEMMA CountAndBack ==
  ASSUME NEW M \in Nat \ {0}, NEW e \in 0..M - 1
  PROVE  /\ (e + 1) % M \in 0..M - 1 /\ (e + M - 1) % M \in 0..M - 1
         /\ (((e + 1) % M) + M - 1) % M = e
         /\ (((e + M - 1) % M) + 1) % M = e
<1>1. ASSUME NEW a \in 0..M - 1 PROVE a % M = a /\ (a + M) % M = a
  <2>1. a + M \in Nat /\ a \in Nat /\ (a + M) \div M = 1 /\ a \div M = 0
    <3>1. M * 1 = M /\ M * 0 = 0 /\ 1 \in Nat /\ 0 \in Nat
      OBVIOUS
    <3> QED
      BY <3>1, DivIs
  <2>2. a + M = M * ((a + M) \div M) + ((a + M) % M) /\ (a + M) % M \in 0..M - 1
    BY <2>1, DivMod
  <2>3. a = M * (a \div M) + (a % M) /\ a % M \in 0..M - 1
    BY <2>1, DivMod
  <2>4. a + M = M * 1 + ((a + M) % M) /\ a = M * 0 + (a % M)
    BY <2>1, <2>2, <2>3
  <2>5. PICK x, y : x = (a + M) % M /\ y = a % M
    OBVIOUS
  <2>6. x \in 0..M - 1 /\ y \in 0..M - 1 /\ a + M = M * 1 + x /\ a = M * 0 + y
    BY <2>2, <2>3, <2>4, <2>5
  <2>7. x = a /\ y = a
    BY <2>6
  <2> QED
    BY <2>5, <2>7
<1>2. (e + 1) % M \in 0..M - 1 /\ (((e + 1) % M) + M - 1) % M = e
  <2>1. CASE e = M - 1
    <3>1. e + 1 = 0 + M /\ 0 \in 0..M - 1 /\ 0 + M - 1 = e
      BY <2>1
    <3>2. (e + 1) % M = 0
      BY <1>1, <3>1
    <3> QED
      BY <1>1, <3>1, <3>2
  <2>2. CASE e # M - 1
    <3>1. e + 1 \in 0..M - 1 /\ (e + 1) + M - 1 = e + M
      BY <2>2
    <3>2. (e + 1) % M = e + 1
      BY <1>1, <3>1
    <3> QED
      BY <1>1, <3>1, <3>2
  <2> QED
    BY <2>1, <2>2
<1>3. (e + M - 1) % M \in 0..M - 1 /\ (((e + M - 1) % M) + 1) % M = e
  <2>1. CASE e = 0
    <3>1. e + M - 1 = M - 1 /\ M - 1 \in 0..M - 1 /\ (M - 1) + 1 = 0 + M /\ 0 \in 0..M - 1
      BY <2>1
    <3>2. (e + M - 1) % M = M - 1
      BY <1>1, <3>1
    <3>3. ((M - 1) + 1) % M = 0
      BY <1>1, <3>1
    <3> QED
      BY <2>1, <3>1, <3>2, <3>3
  <2>2. CASE e # 0
    <3>1. e + M - 1 = (e - 1) + M /\ e - 1 \in 0..M - 1 /\ (e - 1) + 1 = e
      BY <2>2
    <3>2. (e + M - 1) % M = e - 1
      BY <1>1, <3>1
    <3> QED
      BY <1>1, <3>1, <3>2
  <2> QED
    BY <2>1, <2>2
<1> QED
  BY <1>2, <1>3

-----------------------------------------------------------------------------
(***************************************************************************)
(* The kernel implements the scheduler.                                    *)
(***************************************************************************)

\* The scheduler's state and what is still to be done to it: the kernel's
\* process is added to an empty queue.
Driven ==
  /\ queue \in Seq(Process)
  /\ elapsed \in 0..TickModulus - 1
  /\ Timed(todo)
  /\ Still(todo, "add") => queue = <<>>

\* Between the count and the tick, the count has not happened yet.
Counted(s, e) ==
  IF Still(s, "tick") /\ ~Still(s, "increment") THEN (e + TickModulus - 1) % TickModulus ELSE e

First == <<[id |-> 1, state |-> Running]>>

\* The state that the scheduler's specification sees.
LEMMA Seen ==
  /\ UNCHANGED Sch!vars <=>
       /\ (IF queue' = <<>> THEN First ELSE queue') = (IF queue = <<>> THEN First ELSE queue)
       /\ remaining' = remaining
       /\ Counted(todo', elapsed') = Counted(todo, elapsed)
  BY DEF Sch!vars, Counted, First, Pending, Still

\* Code that does not drive the scheduler is executed, or put in front.
LEMMA Passes ==
  ASSUME Driven, UNCHANGED vars, Timed(todo'),
         \A op \in Drives : Still(todo', op) <=> Still(todo, op)
  PROVE  Driven' /\ UNCHANGED Sch!vars
<1>1. queue' = queue /\ remaining' = remaining /\ elapsed' = elapsed
  BY DEF vars
<1>2. Still(todo', "add") <=> Still(todo, "add")
  BY DEF Drives
<1>3. Counted(todo', elapsed') = Counted(todo, elapsed)
  BY <1>1 DEF Counted, Drives
<1> QED
  BY <1>1, <1>2, <1>3, Seen DEF Driven

\* An instruction that does not drive the scheduler, with the code it calls.
LEMMA PassesTail ==
  ASSUME Driven, UNCHANGED vars, todo # <<>>, Head(todo)[1] \notin Drives,
         NEW c, Plain(c), todo' = Tail(todo) \/ todo' = c \o Tail(todo)
  PROVE  Driven' /\ UNCHANGED Sch!vars
<1>1. PICK s, t : s = todo /\ t = Tail(todo)
  OBVIOUS
<1>2. Timed(t) /\ \A op \in Drives : Still(s, op) <=> Still(t, op)
  BY <1>1, TimedTail DEF Driven
<1>3. Timed(c \o t) /\ \A op \in Drives : Still(c \o t, op) <=> Still(t, op)
  BY <1>2, TimedBetween
<1>4. Timed(todo') /\ \A op \in Drives : Still(todo', op) <=> Still(todo, op)
  BY <1>1, <1>2, <1>3, Zenon
<1> QED
  BY <1>4, Passes

\* A handler that does not drive the scheduler is entered.
LEMMA PassesEnter ==
  ASSUME Driven, enabled \in BOOLEAN, UNCHANGED vars, NEW c, Plain(c), NEW d, Plain(d) \/ d = <<>>,
         \/ todo' = c \o << <<"iret", enabled>> >> \o todo
         \/ todo' = c \o << <<"iret", enabled>> >> \o d \o todo
  PROVE  Driven' /\ UNCHANGED Sch!vars
<1>1. Plain(<< <<"iret", enabled>> >>)
  BY PlainOne DEF Instruction, Drives
<1>2. PICK i : i = << <<"iret", enabled>> >>
  OBVIOUS
<1>3. Plain(c \o i) /\ Plain(d)
  BY <1>1, <1>2, PlainConcat, PlainSmall
<1>4. Plain((c \o i) \o d)
  BY <1>3, PlainConcat
<1>5. PICK s : s = todo
  OBVIOUS
<1>6. /\ Timed((c \o i) \o s) /\ Timed(((c \o i) \o d) \o s)
      /\ \A op \in Drives : /\ Still((c \o i) \o s, op) <=> Still(s, op)
                            /\ Still(((c \o i) \o d) \o s, op) <=> Still(s, op)
  BY <1>3, <1>4, <1>5, TimedBetween DEF Driven
<1>7. Timed(todo') /\ \A op \in Drives : Still(todo', op) <=> Still(todo, op)
  BY <1>2, <1>5, <1>6, Zenon
<1> QED
  BY <1>7, Passes

\* A panic forgets what was still to be done to the scheduler.
LEMMA PassesAbort ==
  ASSUME Driven, UNCHANGED vars, todo' = panic_handler
  PROVE  Driven'
<1>1. PICK s : s = panic_handler
  OBVIOUS
<1>2. Plain(s)
  BY <1>1, PlainCode
<1>3. Timed(s) /\ ~Still(s, "add")
  BY <1>2 DEF Plain, Timed, Still, Drives
<1> QED
  BY <1>1, <1>3 DEF Driven, vars

\* The kernel's process is added to the empty queue, as it was in it from the
\* beginning for the scheduler.
LEMMA AddDrives == ASSUME Driven, add_kernel PROVE Driven' /\ UNCHANGED Sch!vars
<1>1. /\ todo # <<>> /\ Head(todo)[1] = "add" /\ todo' = Tail(todo)
      /\ queue' = add(queue, [id |-> 1, state |-> Running])
      /\ remaining' = remaining /\ elapsed' = elapsed
  BY DEF add_kernel, Does
<1>2. PICK s, t : s = todo /\ t = Tail(todo)
  OBVIOUS
<1>3. /\ Timed(t) /\ Still(s, "add") /\ ~Still(t, "add")
      /\ (Still(s, "tick") <=> Still(t, "tick"))
      /\ (Still(s, "increment") <=> Still(t, "increment"))
  BY <1>1, <1>2, TimedTail DEF Driven, Drives
<1>4. queue = <<>>
  BY <1>2, <1>3 DEF Driven
<1>5. queue' = First /\ First # <<>> /\ First \in Seq(Process)
  BY <1>1, <1>4 DEF add, First, Process, State, Running
<1>6. Counted(todo', elapsed') = Counted(todo, elapsed)
  BY <1>1, <1>2, <1>3 DEF Counted
<1> QED
  BY <1>1, <1>2, <1>3, <1>4, <1>5, <1>6, Seen DEF Driven

\* The timer's count waits for its tick.
LEMMA CountDrives == ASSUME Driven, timer_increment PROVE Driven' /\ UNCHANGED Sch!vars
<1>1. /\ todo # <<>> /\ Head(todo)[1] = "increment" /\ todo' = Tail(todo)
      /\ elapsed' = (elapsed + 1) % TickModulus
      /\ queue' = queue /\ remaining' = remaining
  BY DEF timer_increment, Does, increment
<1>2. PICK s, t : s = todo /\ t = Tail(todo)
  OBVIOUS
<1>3. /\ Timed(t) /\ Still(s, "increment") /\ ~Still(t, "increment") /\ Still(t, "tick")
      /\ (Still(s, "add") <=> Still(t, "add"))
  BY <1>1, <1>2, TimedTail DEF Driven, Drives
<1>4. PICK M \in Nat \ {0} : M = TickModulus
  BY SchedulerAssumption
<1>5. elapsed \in 0..M - 1
  BY <1>4 DEF Driven
<1>6. elapsed' \in 0..M - 1 /\ (elapsed' + M - 1) % M = elapsed
  BY <1>1, <1>4, <1>5, CountAndBack
<1>7. Counted(todo', elapsed') = Counted(todo, elapsed)
  BY <1>1, <1>2, <1>3, <1>4, <1>6, Zenon DEF Counted
<1> QED
  BY <1>1, <1>2, <1>3, <1>4, <1>6, <1>7, Seen DEF Driven

\* A rotation leaves processes in the queue.
LEMMA ScheduleSome ==
  ASSUME NEW q \in Seq(Process), Len(q) >= 2
  PROVE  schedule(q) \in Seq(Process) /\ schedule(q) # <<>>
<1> DEFINE r == Append(Tail(q), Head(q))
           u == [r EXCEPT ![Len(q)] = set_state(r[Len(q)], Stopped)]
           s == [u EXCEPT ![1] = set_state(u[1], Running)]
<1>1. r \in Seq(Process) /\ Len(r) = Len(q)
  OBVIOUS
<1>2. s = schedule(q)
  BY DEF schedule
<1> HIDE DEF r
<1>3. ASSUME NEW p \in Process, NEW st \in State PROVE set_state(p, st) \in Process
  BY DEF set_state, Process
<1>4. Running \in State /\ Stopped \in State
  BY DEF State
<1>5. \A i \in 1..Len(q) : r[i] \in Process
  BY <1>1
<1>6. u \in Seq(Process) /\ Len(u) = Len(q)
  BY <1>1, <1>3, <1>4, <1>5
<1> HIDE DEF u
<1>7. u[1] \in Process
  BY <1>6
<1>8. s \in Seq(Process) /\ Len(s) = Len(q)
  BY <1>3, <1>4, <1>6, <1>7
<1> HIDE DEF s
<1>9. s # <<>>
  BY <1>8
<1> QED
  BY <1>2, <1>8, <1>9

\* The tick, with the count that came before it, is the scheduler's timer
\* interrupt.
LEMMA TickDrives == ASSUME Driven, scheduler_tick PROVE Driven' /\ Sch!TimerInterrupt
<1>1. PICK s, t : s = todo /\ t = Tail(todo)
  OBVIOUS
<1>2. todo # <<>> /\ Head(todo)[1] = "tick" /\ elapsed' = elapsed /\ (Countdown \/ Swap \/ NoSwap)
  BY DEF scheduler_tick, Does
<1>3. /\ Timed(t) /\ Still(s, "tick") /\ ~Still(s, "increment") /\ ~Still(t, "tick")
      /\ (Still(s, "add") <=> Still(t, "add"))
  BY <1>1, <1>2, TimedTail DEF Driven, Drives
<1>4. PICK c : Plain(c) /\ (todo' = t \/ todo' = c \o t)
  <2>1. Plain(Log) /\ Plain(Log \o Log)
    BY PlainSmall, PlainConcat
  <2> QED
    BY <1>1, <2>1, Zenon DEF scheduler_tick
<1>5. Timed(c \o t) /\ \A op \in Drives : Still(c \o t, op) <=> Still(t, op)
  BY <1>3, <1>4, TimedBetween
<1>6. Timed(todo') /\ ~Still(todo', "tick") /\ (Still(todo', "add") <=> Still(todo, "add"))
  BY <1>1, <1>3, <1>4, <1>5 DEF Drives
<1>7. PICK M \in Nat \ {0} : M = TickModulus
  BY SchedulerAssumption
<1>8. elapsed = (((elapsed + M - 1) % M) + 1) % M
  BY <1>7, CountAndBack DEF Driven
<1>9. Sch!increment
  <2>1. Pending("tick") /\ ~Pending("increment") /\ ~Pending("tick")'
    BY <1>1, <1>3, <1>6 DEF Pending, Still
  <2> QED
    BY <1>2, <1>7, <1>8, <2>1, Zenon DEF Sch!increment
<1>10. CASE Countdown
  <2>1. remaining # 0 /\ remaining' = remaining - 1 /\ queue' = queue
    BY <1>10 DEF Countdown
  <2>2. Sch!Countdown
    BY <2>1 DEF Sch!Countdown
  <2> QED
    BY <1>2, <1>6, <1>9, <2>1, <2>2 DEF Driven, Sch!TimerInterrupt, Sch!tick
<1>11. CASE Swap
  <2>1. /\ remaining = 0 /\ Len(queue) >= 2 /\ queue' = schedule(queue) /\ remaining' = Quantum
        /\ queue \in Seq(Process)
    BY <1>11 DEF Swap, Driven
  <2>2. queue' \in Seq(Process) /\ queue' # <<>> /\ queue # <<>>
    BY <2>1, ScheduleSome
  <2>3. Sch!Swap
    BY <2>1, <2>2 DEF Sch!Swap, Sch!schedule, schedule, Sch!set_state, set_state,
                      Sch!Running, Running, Sch!Stopped, Stopped
  <2> QED
    BY <1>2, <1>6, <1>9, <2>1, <2>2, <2>3 DEF Driven, Sch!TimerInterrupt, Sch!tick
<1>12. CASE NoSwap
  <2>1. remaining = 0 /\ Len(queue) < 2 /\ remaining' = Quantum /\ queue' = queue
    BY <1>12 DEF NoSwap
  <2>2. Len(IF queue = <<>> THEN <<[id |-> 1, state |-> Running]>> ELSE queue) < 2
    BY <2>1
  <2>3. Sch!NoSwap
    BY <2>1, <2>2 DEF Sch!NoSwap
  <2> QED
    BY <1>2, <1>6, <1>9, <2>1, <2>3 DEF Driven, Sch!TimerInterrupt, Sch!tick
<1> QED
  BY <1>2, <1>10, <1>11, <1>12

\* The system call is the scheduler's fork.
LEMMA ForkDrives == ASSUME Driven, scheduler_fork PROVE Driven' /\ Sch!fork
<1>1. PICK s, t : s = todo /\ t = Tail(todo)
  OBVIOUS
<1>2. /\ todo # <<>> /\ Head(todo)[1] = "fork" /\ todo' = Tail(todo) /\ elapsed' = elapsed
      /\ remaining' = remaining /\ Len(queue) \in 1..MaxProcesses - 1
      /\ queue' = add(queue, forked(queue)) /\ queue \in Seq(Process)
  BY DEF scheduler_fork, Does, fork, Driven
<1>3. Timed(t) /\ \A op \in Drives : Still(s, op) <=> Still(t, op)
  BY <1>1, <1>2, TimedTail DEF Driven, Drives
<1>4. queue # <<>> /\ queue' \in Seq(Process) /\ queue' # <<>>
  <2>1. Head(queue) \in Process /\ Len(queue) + 1 \in Nat /\ queue # <<>>
    BY <1>2
  <2>2. forked(queue) \in Process
    BY <2>1 DEF forked, set_id, Process
  <2> QED
    BY <1>2, <2>1, <2>2 DEF add
<1>5. Driven'
  BY <1>1, <1>2, <1>3, <1>4 DEF Driven, Drives
<1>6. (Pending("tick") <=> Pending("tick")') /\ (Pending("increment") <=> Pending("increment")')
  BY <1>1, <1>2, <1>3 DEF Pending, Still, Drives
<1>7. Sch!fork
  BY <1>2, <1>4, <1>6 DEF Sch!fork, Sch!add, add, Sch!forked, forked, Sch!set_id, set_id
<1> QED
  BY <1>5, <1>7

\* A timer interrupt finds nothing left to do: its count and its tick are both
\* to come.
LEMMA TimerDrives ==
  ASSUME Driven, KInv, timer_interrupt
  PROVE  Driven' /\ UNCHANGED Sch!vars
<1>1. /\ enabled = TRUE /\ todo = <<hlt>>
      /\ todo' = timer_handler \o << <<"iret", enabled>> >> \o todo /\ UNCHANGED vars
  BY DEF timer_interrupt, Interrupt, Enter, KInv, Masked, KTypeOK
<1>2. Plain(<<hlt>>) /\ Plain(<< <<"iret", TRUE>> >>)
  BY PlainOne DEF hlt, Instruction, Drives
<1>3. PICK h, i, s : h = timer_handler /\ i = << <<"iret", TRUE>> >> /\ s = <<hlt>>
  OBVIOUS
<1>4. Timed(h \o i) /\ \A op \in Drives : Still(h \o i, op) <=> Still(h, op)
  BY <1>2, <1>3, TimedTimer, TimedBetween
<1>5. Timed((h \o i) \o s) /\ \A op \in Drives : Still((h \o i) \o s, op) <=> Still(h, op)
  BY <1>2, <1>3, <1>4, TimedBetween
<1>6. todo' = (h \o i) \o s
  BY <1>1, <1>3, Zenon
<1>7. /\ Timed(todo') /\ Still(todo', "increment") /\ Still(todo', "tick") /\ ~Still(todo', "add")
  BY <1>3, <1>5, <1>6, TimedTimer DEF Drives
<1>8. ~Still(todo, "tick")
  BY <1>1, <1>2 DEF Plain, Still, Drives
<1>9. queue' = queue /\ remaining' = remaining /\ elapsed' = elapsed
  BY <1>1 DEF vars
<1>10. Counted(todo', elapsed') = elapsed /\ Counted(todo, elapsed) = elapsed
  BY <1>7, <1>8, <1>9 DEF Counted
<1> QED
  BY <1>7, <1>9, <1>10, Seen DEF Driven

\* The steps in which the kernel gives up what it was doing.
Aborts == panic \/ (alloc /\ heap # "ready")

\* Every step of the kernel is one of the scheduler, or nothing to it, or a
\* panic.
LEMMA StepDrives ==
  ASSUME Driven, KInv, [KNext]_kvars
  PROVE  Driven' /\ (Sch!Next \/ UNCHANGED Sch!vars \/ Aborts)
<1>0. enabled \in BOOLEAN
  BY DEF KInv, KTypeOK
<1>1. CASE force
  <2>1. /\ todo # <<>> /\ Head(todo)[1] = "force" /\ UNCHANGED vars
        /\ \/ todo' = Tail(todo)
           \/ todo' = InitCode(Arg) \o << <<"ready", Arg>> >> \o Tail(todo)
    BY <1>1 DEF force, Does
  <2>2. Arg \in Lazies
    <3>1. Head(todo) \in Instruction
      BY <2>1, HeadTail DEF KInv, KTypeOK
    <3> QED
      BY <2>1, <3>1 DEF Instruction, Arg
  <2>3. Plain(InitCode(Arg)) /\ Plain(<< <<"ready", Arg>> >>)
    BY <2>2, PlainCode, PlainOne DEF Instruction, Drives
  <2>4. Plain(InitCode(Arg) \o << <<"ready", Arg>> >>)
    BY <2>3, PlainConcat
  <2>5. Head(todo)[1] \notin Drives
    BY <2>1 DEF Drives
  <2> QED
    BY <2>1, <2>4, <2>5, PassesTail
<1>2. CASE \/ ready \/ lock \/ unlock \/ (alloc /\ heap = "ready") \/ succeed \/ heap_init \/ lgdt
           \/ set_reg \/ star \/ load \/ sti \/ cli \/ eoi \/ iret
  <2>1. UNCHANGED vars /\ todo # <<>> /\ Head(todo)[1] \notin Drives /\ todo' = Tail(todo)
    BY <1>2, SegmentsAccepted DEF ready, lock, unlock, alloc, succeed, heap_init, lgdt, set_reg, star,
       load, sti, cli, eoi, iret, Does, Drives
  <2> QED
    BY <2>1, PassesTail, PlainSmall
<1>3. CASE panic \/ (alloc /\ heap # "ready")
  <2>1. UNCHANGED vars /\ todo' = panic_handler
    BY <1>3 DEF panic, alloc
  <2> QED
    BY <1>3, <2>1, PassesAbort DEF Aborts
<1>4. CASE add_kernel \/ timer_increment \/ scheduler_tick \/ scheduler_fork
  BY <1>4, AddDrives, CountDrives, TickDrives, ForkDrives DEF Sch!Next
<1>5. CASE timer_interrupt
  BY <1>5, TimerDrives
<1>6. CASE keyboard_interrupt \/ serial_interrupt \/ exception \/ trap_again
  <2>1. PICK c : /\ Plain(c) /\ UNCHANGED vars
                 /\ todo' = c \o << <<"iret", enabled>> >> \o todo
    BY <1>6, PlainCode, Zenon
       DEF keyboard_interrupt, serial_interrupt, exception, trap_again, Interrupt, Enter
  <2> QED
    BY <1>0, <2>1, PassesEnter
<1>7. CASE trap
  <2>1. /\ UNCHANGED vars
        /\ todo' = exception_handler("trap") \o << <<"iret", enabled>> >> \o Trap \o todo
    BY <1>7 DEF trap
  <2>2. Plain(exception_handler("trap")) /\ Plain(Trap)
    BY PlainCode, PlainOne DEF Trap, Instruction, Drives
  <2> QED
    BY <1>0, <2>1, <2>2, PassesEnter
<1>8. CASE trap_fills_heap \/ oom \/ UNCHANGED kvars
  <2>1. UNCHANGED vars /\ todo' = todo
    BY <1>8 DEF trap_fills_heap, oom, kvars, vars
  <2>2. Timed(todo') /\ \A op \in Drives : Still(todo', op) <=> Still(todo, op)
    BY <2>1 DEF Driven
  <2> QED
    BY <2>1, <2>2, Passes
<1> QED
  BY <1>1, <1>2, <1>3, <1>4, <1>5, <1>6, <1>7, <1>8, Zenon DEF KNext, Step

\* The boot begins where the scheduler does.
LEMMA InitDrives == KInit => Driven /\ Sch!Init
<1> SUFFICES ASSUME KInit PROVE Driven /\ Sch!Init
  OBVIOUS
<1>1. queue = <<>> /\ remaining = Quantum /\ elapsed = 0 /\ todo = kmain
  BY DEF KInit
<1>2. Driven
  <2>1. 0 \in 0..TickModulus - 1
    BY SchedulerAssumption
  <2> QED
    BY <1>1, <2>1, TimedBoot DEF Driven
<1>3. ~Pending("tick")
  BY <1>1, TimedBoot DEF Pending, Still
<1> QED
  BY <1>1, <1>2, <1>3 DEF Sch!Init, Sch!Running, Running

\* Whatever fails, every step of the kernel is a step of the scheduler or
\* leaves it alone, but for the panic that may come between the two halves of
\* timer_handler: the fine interleaving of boot, handlers and exceptions never
\* loses a tick, takes one twice or starts with an empty queue.
THEOREM SchedulerUnlessPanic == KSpec => Sch!Init /\ [][Sch!Next \/ Aborts]_(Sch!vars)
<1>1. Driven /\ KInv /\ [KNext]_kvars => Driven' /\ [Sch!Next \/ Aborts]_(Sch!vars)
  BY StepDrives
<1> QED
  BY <1>1, InitDrives, KInvariant, PTL DEF KSpec

\* Without a fault, memory is there when it is asked for, and nothing panics.
LEMMA NominalNeverAborts ==
  ASSUME Faults = {}, KInv, fault.kind = "none"
  PROVE  ~Aborts
<1>1. ~panic
  BY DEF panic
<1>2. ASSUME alloc, heap # "ready" PROVE FALSE
  <2>1. todo \in Seq(Instruction) /\ todo # <<>> /\ Head(todo)[1] = "alloc"
    BY <1>2 DEF alloc, Does, KInv, KTypeOK
  <2>2. Head(todo) = todo[1]
    BY <2>1, HeadTail
  <2>3. PICK k \in 1..Len(todo) : todo[k][1] = "heap" /\ \A j \in 1..k - 1 : BeforeHeap(todo[j])
    BY <1>2 DEF KInv, Faultless, Unhurt, HeapFirst
  <2>4. k # 1
    BY <2>1, <2>2, <2>3
  <2>5. 1 \in 1..k - 1
    BY <2>1, <2>3, <2>4
  <2> QED
    BY <2>1, <2>2, <2>3, <2>5 DEF BeforeHeap
<1> QED
  BY <1>1, <1>2 DEF Aborts

\* A kernel in which nothing goes wrong implements the scheduler: whatever it
\* is doing when the timer interrupts it, the locks, statics and halves of
\* handlers below add up to the single steps of module Scheduler, for which
\* the theorems above hold.
THEOREM KernelImplementsScheduler ==
  ASSUME Faults = {}
  PROVE  KSpec => ImplementsScheduler
<1>1. KInv /\ fault.kind = "none" /\ [Sch!Next \/ Aborts]_(Sch!vars) => [Sch!Next]_(Sch!vars)
  BY NominalNeverAborts
<1> QED
  BY <1>1, NominalFaultFree, KInvariant, SchedulerUnlessPanic, PTL DEF ImplementsScheduler, Sch!Spec

-----------------------------------------------------------------------------
(***************************************************************************)
(* How a step changes the code that is left.                               *)
(***************************************************************************)

\* Code that a step puts in front: it neither halts nor sets the heap up, gives
\* back no lock before it takes it, and ends no initialisation but one that
\* has not begun.
Tame(c) ==
  /\ Clear(c, {"halt", "heap"})
  /\ \A x \in Locks : ~Owes(c, 1, <<"lock", x>>)
  /\ \A i \in 1..Len(c) : c[i][1] = "ready" => lazy[c[i][2]] = "no"

\* An instruction is a pair.
LEMMA InstructionIs ==
  ASSUME NEW ins \in Instruction
  PROVE  ins = <<ins[1], ins[2]>>
BY DEF Instruction

\* Complete code without halt(), heap and initialisations is tame.
LEMMA TameCode ==
  ASSUME NEW c, Clear(c, {"halt", "heap", "ready"}), NEW b \in Nat, Code(c, b)
  PROVE  Tame(c)
<1>1. Clear(c, {"halt", "heap"}) /\ \A i \in 1..Len(c) : c[i][1] # "ready"
  BY DEF Clear
<1>2. \A x \in Locks : <<"lock", x>> \in Resource
  BY DEF Resource
<1> QED
  BY <1>1, <1>2 DEF Tame, Code

\* Two tame parts are tame together.
LEMMA TameConcat ==
  ASSUME NEW c, NEW t, Tame(c), Tame(t)
  PROVE  Tame(c \o t)
<1>1. PICK s : s = c \o t
  OBVIOUS
<1>2. IsConcat(s, c, t) /\ Clear(s, {"halt", "heap"})
  BY <1>1, Concat, ClearConcat DEF Tame, Clear
<1>3. \A x \in Locks : ~Owes(s, 1, <<"lock", x>>)
  <2>1. 1 \in 1..Len(c) + 1
    BY <1>2 DEF IsConcat
  <2> QED
    BY <1>2, <2>1, OwesFront DEF Tame
<1>4. ASSUME NEW i \in 1..Len(s), s[i][1] = "ready" PROVE lazy[s[i][2]] = "no"
  <2>1. \/ i \in 1..Len(c) /\ s[i] = c[i]
        \/ i - Len(c) \in 1..Len(t) /\ s[i] = t[i - Len(c)]
    BY <1>2, ConcatIndex
  <2> QED
    BY <1>4, <2>1 DEF Tame
<1> QED
  BY <1>1, <1>2, <1>3, <1>4 DEF Tame

\* An instruction that neither takes nor gives back is tame.
LEMMA TameOne ==
  ASSUME NEW ins \in Instruction, ins[1] \in {"iret", "trap"}
  PROVE  Tame(<<ins>>)
<1>1. PICK t : t = <<ins>>
  OBVIOUS
<1>2. Len(t) = 1 /\ t[1] = ins
  BY <1>1
<1>3. ins = <<ins[1], ins[2]>>
  BY InstructionIs
<1>4. Clear(t, {"halt", "heap"})
  BY <1>1, <1>3, ClearOne
<1>5. \A r : ~Owes(t, 1, r)
  BY <1>2 DEF Owes, Gives
<1>6. \A i \in 1..Len(t) : t[i][1] # "ready"
  BY <1>2
<1> QED
  BY <1>1, <1>4, <1>5, <1>6 DEF Tame

\* What dereferencing a static puts in front is tame.
LEMMA TameInit ==
  ASSUME NEW x \in Lazies, lazy[x] = "no"
  PROVE  Tame(InitCode(x) \o << <<"ready", x>> >>)
<1>1. PICK c, a, t, ins : c = a \o t /\ a = InitCode(x) /\ t = <<ins>> /\ ins = <<"ready", x>>
  OBVIOUS
<1>2. ins \in Instruction
  BY <1>1 DEF Instruction
<1>3. {"halt", "heap"} \subseteq Marks /\ {"halt", "heap", "ready"} \subseteq Marks
  BY DEF Marks
<1>4. Clear(a, {"halt", "heap"}) /\ Clear(a, {"halt", "heap", "ready"})
  BY <1>1, <1>3, ClearInit
<1>5. Clear(t, {"halt", "heap"})
  BY <1>1, <1>2, ClearOne
<1>6. IsConcat(c, a, t) /\ Clear(c, {"halt", "heap"})
  BY <1>1, <1>4, <1>5, Concat, ClearConcat DEF Clear
<1>7. \A y \in Locks : ~Owes(c, 1, <<"lock", y>>)
  <2>1. \A y \in Locks : <<"lock", y>> \in Resource /\ <<"lock", y>> # <<"lazy", x>>
    BY DEF Resource
  <2> QED
    BY <1>1, <2>1, InitPush
<1>8. \A k \in 1..Len(c) : c[k][1] = "ready" => lazy[c[k][2]] = "no"
  <2> SUFFICES ASSUME NEW k \in 1..Len(c), c[k][1] = "ready" PROVE lazy[c[k][2]] = "no"
    OBVIOUS
  <2>1. \/ k \in 1..Len(a) /\ c[k] = a[k]
        \/ k - Len(a) \in 1..Len(t) /\ c[k] = t[k - Len(a)]
    BY <1>6, ConcatIndex
  <2>2. \A j \in 1..Len(t) : t[j] = ins
    BY <1>1
  <2> QED
    BY <1>1, <1>4, <2>1, <2>2 DEF Clear
<1> QED
  BY <1>1, <1>6, <1>7, <1>8 DEF Tame

\* The handlers of interrupts, and what logs, are tame.
LEMMA TameHandlers ==
  /\ Tame(timer_handler) /\ Tame(Log) /\ Tame(Log \o Log)
  /\ \A scan \in Scan : Tame(keyboard_handler(scan))
  /\ \A key \in Key : Tame(serial_handler(key))
<1>1. PICK ops : ops = {"halt", "heap", "ready"}
  OBVIOUS
<1>2. ops \subseteq Marks /\ ops \subseteq Marks \ {"increment", "tick"}
  BY <1>1 DEF Marks
<1>3. /\ Clear(timer_handler, ops) /\ Clear(Log, ops)
      /\ \A scan \in Scan : Clear(keyboard_handler(scan), ops)
      /\ \A key \in Key : Clear(serial_handler(key), ops)
  BY <1>2, ClearTimer, ClearSmall, ClearKeyboard, ClearSerial
<1>4. Clear(Log \o Log, ops)
  BY <1>3, ClearConcat
<1>5. /\ Code(timer_handler, 1) /\ Code(Log, 12) /\ Code(Log \o Log, 12)
      /\ \A scan \in Scan : Code(keyboard_handler(scan), 1)
      /\ \A key \in Key : Code(serial_handler(key), 1)
  BY CodeTimer, CodeLog, CodeConcat, CodeKeyboard, CodeSerial DEF Handles
<1> QED
  BY <1>1, <1>3, <1>4, <1>5, TameCode

\* A step abandons the code that is left, takes an exception, executes the
\* next instruction, or puts tame code in front of the rest.
LEMMA Moves ==
  ASSUME KInv, [KNext]_kvars
  PROVE  \/ Aborts /\ todo' = panic_handler
         \/ exception
         \/ todo' = todo
         \/ todo # <<>> /\ todo' = Tail(todo)
         \/ \E c : Tame(c) /\ todo # <<>> /\ IsConcat(todo', c, Tail(todo))
         \/ \E c : Tame(c) /\ IsConcat(todo', c, todo)
<1>0. enabled \in BOOLEAN /\ todo \in Seq(Instruction)
      /\ lazy \in [Lazies -> {"no", "running", "ready"}]
  BY DEF KInv, KTypeOK
<1>1. CASE force
  <2>1. /\ todo # <<>> /\ Head(todo)[1] = "force" /\ lazy[Head(todo)[2]] # "running"
    BY <1>1 DEF force, Does, Arg
  <2>2. Head(todo) \in Instruction /\ Tail(todo) \in Seq(Instruction)
    BY <1>0, <2>1, HeadTail
  <2>3. PICK x \in Lazies : x = Head(todo)[2]
    BY <2>1, <2>2 DEF Instruction
  <2>4. PICK c : c = InitCode(x) \o << <<"ready", x>> >>
    OBVIOUS
  <2>5. CASE lazy[x] = "ready"
    BY <1>1, <2>1, <2>3, <2>5 DEF force, Arg
  <2>6. CASE lazy[x] # "ready"
    <3>1. todo' = c \o Tail(todo) /\ lazy[x] = "no"
      BY <1>0, <1>1, <2>1, <2>3, <2>4, <2>6 DEF force, Arg
    <3>2. Tame(c)
      BY <2>4, <3>1, TameInit
    <3>3. IsConcat(todo', c, Tail(todo))
      BY <2>2, <3>1, <3>2, Concat DEF Tame, Clear
    <3> QED
      BY <2>1, <3>2, <3>3
  <2> QED
    BY <2>5, <2>6
<1>2. CASE \/ ready \/ lock \/ unlock \/ (alloc /\ heap = "ready") \/ succeed \/ heap_init \/ lgdt
           \/ set_reg \/ star \/ load \/ sti \/ cli \/ eoi \/ iret
           \/ add_kernel \/ timer_increment \/ scheduler_fork
  BY <1>2, SegmentsAccepted DEF ready, lock, unlock, alloc, succeed, heap_init, lgdt, set_reg, star,
     load, sti, cli, eoi, iret, add_kernel, timer_increment, scheduler_fork, Does
<1>3. CASE Aborts
  BY <1>3 DEF Aborts, panic, alloc
<1>4. CASE scheduler_tick
  <2>1. /\ todo # <<>>
        /\ todo' = Tail(todo) \/ todo' = (Log \o Log) \o Tail(todo) \/ todo' = Log \o Tail(todo)
    BY <1>4 DEF scheduler_tick, Does
  <2>2. Tail(todo) \in Seq(Instruction)
    BY <1>0, <2>1, HeadTail
  <2>3. ASSUME NEW c, Tame(c), todo' = c \o Tail(todo)
        PROVE  \E d : Tame(d) /\ todo # <<>> /\ IsConcat(todo', d, Tail(todo))
    BY <2>1, <2>2, <2>3, Concat DEF Tame, Clear
  <2> QED
    BY <2>1, <2>3, TameHandlers
<1>5. ASSUME NEW c, Tame(c), todo' = c \o << <<"iret", enabled>> >> \o todo
      PROVE  \E d : Tame(d) /\ IsConcat(todo', d, todo)
  <2>1. PICK d : d = c \o << <<"iret", enabled>> >>
    OBVIOUS
  <2>2. Tame(d) /\ todo' = d \o todo
    <3>1. PICK ins : ins = <<"iret", enabled>>
      OBVIOUS
    <3>2. Tame(<<ins>>)
      BY <1>0, <3>1, TameOne DEF Instruction
    <3> QED
      BY <1>5, <2>1, <3>1, <3>2, TameConcat
  <2> QED
    BY <1>0, <2>2, Concat DEF Tame, Clear
<1>6. CASE timer_interrupt \/ keyboard_interrupt \/ serial_interrupt \/ trap_again
  <2>1. PICK c : Tame(c) /\ todo' = c \o << <<"iret", enabled>> >> \o todo
    BY <1>6, TameHandlers, Zenon
       DEF timer_interrupt, keyboard_interrupt, serial_interrupt, trap_again, exception_handler,
           Interrupt, Enter
  <2> QED
    BY <1>5, <2>1
<1>7. CASE trap
  <2>1. todo' = Log \o << <<"iret", enabled>> >> \o Trap \o todo
    BY <1>7 DEF trap, exception_handler
  <2>2. PICK c, i, t, d : /\ c = Log \o i /\ i = << <<"iret", enabled>> >> /\ t = Trap
                          /\ d = c \o t
    OBVIOUS
  <2>3. Tame(i) /\ Tame(t)
    <3>1. PICK a, b : a = <<"iret", enabled>> /\ b = <<"trap", "CPU">>
      OBVIOUS
    <3>2. Tame(<<a>>) /\ Tame(<<b>>)
      BY <1>0, <3>1, TameOne DEF Instruction
    <3> QED
      BY <2>2, <3>1, <3>2 DEF Trap
  <2>4. Tame(d)
    BY <2>2, <2>3, TameHandlers, TameConcat
  <2>5. todo' = d \o todo
    BY <2>1, <2>2
  <2> QED
    BY <1>0, <2>4, <2>5, Concat DEF Tame, Clear
<1>8. CASE trap_fills_heap \/ oom \/ UNCHANGED kvars
  BY <1>8 DEF trap_fills_heap, oom, kvars
<1>9. CASE exception
  BY <1>9
<1> QED
  BY <1>1, <1>2, <1>3, <1>4, <1>6, <1>7, <1>8, <1>9, Zenon DEF KNext, Step, Aborts

-----------------------------------------------------------------------------
(***************************************************************************)
(* What the code that is left does without, and when.                      *)
(***************************************************************************)

Lacks(s, op) == \A i \in 1..Len(s) : s[i][1] # op

\* The rest of code.
LEMMA LacksTail ==
  ASSUME NEW s \in Seq(Instruction), s # <<>>
  PROVE  /\ \A op : Lacks(s, op) => Lacks(Tail(s), op)
         /\ Paired(s) => Paired(Tail(s))
         /\ Once(s) => Once(Tail(s)) /\ (Head(s)[1] = "heap" => Lacks(Tail(s), "heap"))
<1>1. PICK t : t = Tail(s)
  OBVIOUS
<1>2. /\ Head(s) = s[1] /\ Len(s) \in Nat /\ Len(s) >= 1 /\ Len(t) = Len(s) - 1
      /\ \A i \in 1..Len(t) : t[i] = s[i + 1]
  BY <1>1, HeadTail
<1>3. \A i \in 1..Len(t) : i + 1 \in 1..Len(s) /\ i + 1 # 1
  BY <1>2
<1>4. 1 \in 1..Len(s)
  BY <1>2
<1>5. ASSUME NEW op, Lacks(s, op) PROVE Lacks(t, op)
  BY <1>2, <1>3, <1>5 DEF Lacks
<1>6. ASSUME Paired(s), NEW i \in 1..Len(t), t[i] = <<"lock", "HEAP">>
      PROVE  i + 1 \in 1..Len(t) /\ t[i + 1][1] \in {"alloc", "heap"}
  <2>1. (i + 1) + 1 \in 1..Len(s) /\ s[(i + 1) + 1][1] \in {"alloc", "heap"}
    BY <1>2, <1>3, <1>6 DEF Paired
  <2> QED
    BY <1>2, <2>1
<1>7. ASSUME Once(s), NEW i \in 1..Len(t), NEW j \in 1..Len(t), t[i][1] = "heap", t[j][1] = "heap"
      PROVE  i = j
  <2>1. i + 1 = j + 1
    BY <1>2, <1>3, <1>7 DEF Once
  <2> QED
    BY <2>1
<1>8. ASSUME Once(s), Head(s)[1] = "heap" PROVE Lacks(t, "heap")
  BY <1>2, <1>3, <1>4, <1>8 DEF Once, Lacks
<1> QED
  BY <1>1, <1>5, <1>6, <1>7, <1>8 DEF Paired, Once

\* Two parts of code.
LEMMA LacksConcat ==
  ASSUME NEW s, NEW c, NEW t, IsConcat(s, c, t), NEW op, Lacks(c, op), Lacks(t, op)
  PROVE  Lacks(s, op)
BY ConcatIndex DEF Lacks

\* What tame code and the fault handlers lack.
LEMMA TameLacks ==
  /\ \A c : Tame(c) => /\ c \in Seq(Instruction) /\ Paired(c)
                       /\ Lacks(c, "halt") /\ Lacks(c, "heap")
  /\ Lacks(panic_handler, "heap") /\ panic_handler \in Seq(Instruction)
  /\ \A kind : /\ Lacks(exception_handler(kind), "heap")
               /\ exception_handler(kind) \in Seq(Instruction) /\ Paired(exception_handler(kind))
<1>1. {"heap"} \subseteq Marks \ {"halt"}
  BY DEF Marks
<1>2. Clear(panic_handler, {"heap"}) /\ \A kind : Clear(exception_handler(kind), {"heap"})
  BY <1>1, ClearFaults
<1> QED
  BY <1>2 DEF Tame, Clear, Lacks

\* What an exception puts in front of the code it interrupts.
LEMMA ExceptionCode ==
  ASSUME KInv, NEW kind, Enter(exception_handler(kind))
  PROVE  \E c, i : /\ IsConcat(todo', c, todo) /\ IsConcat(c, exception_handler(kind), i)
                   /\ i = << <<"iret", enabled>> >>
<1>1. PICK h, c, i, ins : /\ h = exception_handler(kind) /\ c = h \o i /\ i = <<ins>>
                          /\ ins = <<"iret", enabled>>
  OBVIOUS
<1>2. ins \in Instruction /\ todo \in Seq(Instruction)
  BY <1>1 DEF KInv, KTypeOK, Instruction
<1>3. h \in Seq(Instruction) /\ i \in Seq(Instruction)
  BY <1>1, <1>2, TameLacks, OnesIn
<1>4. IsConcat(c, h, i)
  BY <1>1, <1>3, Concat
<1>5. IsConcat(c \o todo, c, todo)
  BY <1>2, <1>4, Concat DEF IsConcat
<1>6. todo' = c \o todo
  BY <1>1 DEF Enter
<1> QED
  BY <1>1, <1>4, <1>5, <1>6

\* A fault happens once.
LEMMA FaultStep ==
  ASSUME [KNext]_kvars
  PROVE  \/ fault' = fault /\ ~panic /\ ~exception /\ ~trap /\ ~oom
         \/ fault.kind = "none" /\ panic /\ fault' = Context("panic")
         \/ fault.kind = "none" /\ trap /\ fault' = Context("trap")
         \/ fault.kind = "none" /\ oom /\ fault' = Context("oom")
         \/ /\ fault.kind = "none" /\ exception
            /\ \E kind \in {"nmi", "machine_check"} :
                 fault' = Context(kind) /\ Enter(exception_handler(kind))
<1>1. CASE panic \/ exception \/ trap \/ oom
  BY <1>1 DEF panic, exception, trap, oom
<1>2. CASE ~panic /\ ~exception /\ ~trap /\ ~oom
  <2>1. fault' = fault
    BY <1>2, Zenon DEF KNext, Step, force, ready, lock, unlock, alloc, succeed, heap_init, lgdt, set_reg, star,
       load, sti, cli, eoi, iret, add_kernel, timer_increment, scheduler_tick, scheduler_fork,
       trap_again, timer_interrupt, keyboard_interrupt, serial_interrupt, Interrupt,
       trap_fills_heap, kvars
  <2> QED
    BY <1>2, <2>1
<1> QED
  BY <1>1, <1>2

\* What becomes of the heap.
LEMMA HeapStep ==
  ASSUME [KNext]_kvars
  PROVE  \/ heap' = heap
         \/ heap_init
         \/ /\ heap = "ready" /\ heap' = "exhausted" /\ (trap_fills_heap \/ oom)
            /\ UNCHANGED <<todo, held, lazy>>
BY Zenon DEF KNext, Step, force, ready, lock, unlock, alloc, succeed, lgdt, set_reg, star,
   load, sti, cli, eoi, iret, add_kernel, timer_increment, scheduler_tick, scheduler_fork,
   trap_again, timer_interrupt, keyboard_interrupt, serial_interrupt, Interrupt, Enter,
   trap_fills_heap, oom, panic, exception, trap, kvars

\* The heap is set up once; until a fault, nothing halts, and the allocator is
\* locked for a single instruction.
Tidy ==
  /\ Once(todo)
  /\ heap # "absent" => Lacks(todo, "heap")
  /\ fault.kind \in Fault \cup {"none"}
  /\ fault.kind = "none" => /\ Paired(todo) /\ Lacks(todo, "halt")
                            /\ "HEAP" \in held => /\ todo # <<>>
                                                  /\ Head(todo)[1] \in {"alloc", "heap"}

\* It is so when kmain is entered.
LEMMA TidyInit == ASSUME KInit PROVE Tidy
<1>1. Clear(kmain, Marks \ {"add", "heap"}) /\ Once(kmain)
  BY ClearBoot
<1>2. Lacks(kmain, "halt") /\ Paired(kmain)
  BY <1>1 DEF Clear, Lacks, Marks
<1> QED
  BY <1>1, <1>2 DEF KInit, Tidy

\* Until a fault, memory is there when it is asked for.
LEMMA NoAbort ==
  ASSUME KInv, fault.kind = "none", alloc
  PROVE  heap = "ready"
<1>1. todo # <<>> /\ Head(todo)[1] = "alloc" /\ todo \in Seq(Instruction)
  BY DEF alloc, Does, KInv, KTypeOK
<1>2. ~HeapFirst(todo)
  BY <1>1, HeapFirstTail DEF BeforeHeap
<1> QED
  BY <1>2 DEF KInv, Faultless, Unhurt

\* Unless the kernel gives up or takes an exception, a step adds no halt().
LEMMA HaltStep ==
  ASSUME KInv, [KNext]_kvars, ~Aborts, ~exception
  PROVE  /\ Lacks(todo, "halt") => Lacks(todo', "halt")
         /\ Paired(todo) => Paired(todo')
<1>0. todo \in Seq(Instruction)
  BY DEF KInv, KTypeOK
<1>1. CASE todo' = todo
  BY <1>1
<1>2. CASE todo # <<>> /\ todo' = Tail(todo)
  BY <1>0, <1>2, LacksTail
<1>3. CASE \E c : Tame(c) /\ todo # <<>> /\ IsConcat(todo', c, Tail(todo))
  <2>1. PICK c : Tame(c) /\ todo # <<>> /\ IsConcat(todo', c, Tail(todo))
    BY <1>3
  <2>2. /\ Lacks(todo, "halt") => Lacks(Tail(todo), "halt")
        /\ Paired(todo) => Paired(Tail(todo))
    BY <1>0, <2>1, LacksTail
  <2> QED
    BY <2>1, <2>2, TameLacks, PairedConcat, LacksConcat
<1>4. CASE \E c : Tame(c) /\ IsConcat(todo', c, todo)
  BY <1>4, TameLacks, PairedConcat, LacksConcat
<1> QED
  BY <1>1, <1>2, <1>3, <1>4, Moves

\* Every step keeps it.
LEMMA TidyStep ==
  ASSUME KInv, Tidy, [KNext]_kvars
  PROVE  Tidy'
<1>0. todo \in Seq(Instruction)
  BY DEF KInv, KTypeOK
<1>1. fault'.kind \in Fault \cup {"none"} /\ (fault'.kind = "none" => fault' = fault /\ ~exception)
  BY FaultStep DEF Tidy, Context, Fault
<1>2. ASSUME NEW c, NEW i, NEW kind, IsConcat(todo', c, todo), IsConcat(c, exception_handler(kind), i),
             i = << <<"iret", enabled>> >>
      PROVE  Lacks(c, "heap")
  <2>1. Lacks(i, "heap")
    BY <1>2 DEF Lacks
  <2> QED
    BY <1>2, <2>1, TameLacks, LacksConcat
<1>3. Once(todo') /\ (Lacks(todo, "heap") => Lacks(todo', "heap"))
  <2>1. CASE Aborts /\ todo' = panic_handler
    BY <2>1, TameLacks DEF Lacks, Once
  <2>2. CASE exception
    <3>1. PICK kind \in {"nmi", "machine_check"} : Enter(exception_handler(kind))
      BY <2>2 DEF exception
    <3>2. PICK c : IsConcat(todo', c, todo) /\ Lacks(c, "heap")
      BY <1>2, <3>1, ExceptionCode
    <3>3. Once(todo')
      BY <3>2, OnceConcat DEF Lacks, Tidy
    <3> QED
      BY <3>2, <3>3, LacksConcat
  <2>3. CASE todo' = todo
    BY <2>3 DEF Tidy
  <2>4. CASE todo # <<>> /\ todo' = Tail(todo)
    BY <1>0, <2>4, LacksTail DEF Tidy
  <2>5. CASE \E c : Tame(c) /\ todo # <<>> /\ IsConcat(todo', c, Tail(todo))
    <3>1. PICK c : Tame(c) /\ todo # <<>> /\ IsConcat(todo', c, Tail(todo))
      BY <2>5
    <3>2. Once(Tail(todo)) /\ (Lacks(todo, "heap") => Lacks(Tail(todo), "heap")) /\ Lacks(c, "heap")
      BY <1>0, <3>1, LacksTail, TameLacks DEF Tidy
    <3>3. Once(todo')
      BY <3>1, <3>2, OnceConcat DEF Lacks
    <3> QED
      BY <3>1, <3>2, <3>3, LacksConcat
  <2>6. CASE \E c : Tame(c) /\ IsConcat(todo', c, todo)
    <3>1. PICK c : Tame(c) /\ IsConcat(todo', c, todo)
      BY <2>6
    <3>2. Lacks(c, "heap")
      BY <3>1, TameLacks
    <3>3. Once(todo')
      BY <3>1, <3>2, OnceConcat DEF Lacks, Tidy
    <3> QED
      BY <3>1, <3>2, <3>3, LacksConcat
  <2> QED
    BY <2>1, <2>2, <2>3, <2>4, <2>5, <2>6, Moves
<1>4. heap' # "absent" => Lacks(todo', "heap")
  <2>1. CASE heap_init
    BY <1>0, <2>1, LacksTail DEF heap_init, Does, Tidy
  <2>2. CASE ~heap_init
    BY <1>3, <2>2, HeapStep DEF Tidy
  <2> QED
    BY <2>1, <2>2
<1>5. ASSUME fault'.kind = "none" PROVE Paired(todo') /\ Lacks(todo', "halt")
  <2>1. fault.kind = "none" /\ ~exception /\ Paired(todo) /\ Lacks(todo, "halt")
    BY <1>1, <1>5 DEF Tidy
  <2>2. ~Aborts
    <3>1. ~panic
      BY <1>5 DEF panic, Context
    <3> QED
      BY <2>1, <3>1, NoAbort DEF Aborts
  <2> QED
    BY <2>1, <2>2, HaltStep
<1>6. ASSUME fault'.kind = "none", "HEAP" \in held'
      PROVE  todo' # <<>> /\ Head(todo')[1] \in {"alloc", "heap"}
  <2>1. /\ fault' = fault /\ fault.kind = "none" /\ Paired(todo)
        /\ "HEAP" \in held => todo # <<>> /\ Head(todo)[1] \in {"alloc", "heap"}
    BY <1>1, <1>6 DEF Tidy
  <2>2. CASE "HEAP" \in held
    <3>1. todo # <<>> /\ Head(todo)[1] \in {"alloc", "heap"}
      BY <2>1, <2>2
    <3>2. enabled = FALSE
      BY <3>1, Disabled
    <3>3. ~alloc /\ ~heap_init
      BY <1>6 DEF alloc, heap_init
    <3>4. ~Step
      BY <3>1, <3>3 DEF Step, force, ready, lock, unlock, succeed, lgdt, set_reg, star,
         load, sti, cli, eoi, iret, add_kernel, timer_increment, scheduler_tick, scheduler_fork,
         trap_again, Does
    <3>5. ~timer_interrupt /\ ~keyboard_interrupt /\ ~serial_interrupt
      BY <3>2 DEF timer_interrupt, keyboard_interrupt, serial_interrupt, Interrupt
    <3>6. todo' = todo
      BY <1>6, <3>4, <3>5, FaultStep DEF KNext, trap_fills_heap, kvars, Context
    <3> QED
      BY <3>1, <3>6
  <2>3. CASE "HEAP" \notin held
    <3>1. lock /\ Arg = "HEAP"
      BY <1>6, <2>3 DEF KNext, Step, force, ready, lock, unlock, alloc, heap_init, succeed, lgdt, set_reg, star,
         load, sti, cli, eoi, iret, add_kernel, timer_increment, scheduler_tick, scheduler_fork,
         trap_again, timer_interrupt, keyboard_interrupt, serial_interrupt, Interrupt, Enter,
         trap_fills_heap, oom, panic, exception, trap, kvars
    <3>2. todo # <<>> /\ todo' = Tail(todo) /\ Head(todo)[1] = "lock" /\ Head(todo)[2] = "HEAP"
      BY <3>1 DEF lock, Does, Arg
    <3>3. Head(todo) = todo[1] /\ Head(todo) \in Instruction /\ 1 \in 1..Len(todo)
          /\ Len(todo) \in Nat /\ Len(Tail(todo)) = Len(todo) - 1 /\ Tail(todo) \in Seq(Instruction)
          /\ \A i \in 1..Len(Tail(todo)) : Tail(todo)[i] = todo[i + 1]
      BY <1>0, <3>2, HeadTail
    <3>4. todo[1] = <<"lock", "HEAP">>
      BY <3>2, <3>3, InstructionIs
    <3>5. 1 + 1 \in 1..Len(todo) /\ todo[1 + 1][1] \in {"alloc", "heap"}
      BY <2>1, <3>3, <3>4 DEF Paired
    <3>6. 1 \in 1..Len(todo') /\ todo'[1][1] \in {"alloc", "heap"}
      BY <3>2, <3>3, <3>5
    <3> QED
      BY <3>2, <3>3, <3>6
  <2> QED
    BY <2>2, <2>3
<1> QED
  BY <1>1, <1>3, <1>4, <1>5, <1>6 DEF Tidy

-----------------------------------------------------------------------------
(***************************************************************************)
(* Where halt() is out of reach.                                           *)
(***************************************************************************)

\* What the handlers of faults wait for
Bar == ({"lock"} \X {"VGA", "LOGGER", "HEAP"}) \cup ({"force"} \X {"VGA", "LOGGER", "INITRD"})
       \cup {<<"alloc", "HEAP">>}

\* It cannot be executed, or panics.
Blocked(b) ==
  \/ b[1] = "lock" /\ b[2] \in held
  \/ b[1] = "force" /\ lazy[b[2]] = "running"
  \/ b[1] = "alloc" /\ heap # "ready"

\* The instructions after which that may be otherwise, and halt()
Frees(ins, b) ==
  \/ ins[1] = "halt"
  \/ b[1] = "lock" /\ Gives(ins, b)
  \/ b[1] = "force" /\ ins = <<"ready", b[2]>>
  \/ b[1] = "alloc" /\ ins[1] = "heap"

\* s has to execute b before any of these.
Barred(s, b) == \A i \in 1..Len(s) : Frees(s[i], b) => \E j \in 1..i - 1 : s[j] = b

Includes(s, b) == \E i \in 1..Len(s) : s[i] = b

Stuck == \E b \in Bar : Blocked(b) /\ Barred(todo, b)

\* Two barred parts, or one that contains what it is barred by
LEMMA BarredConcat ==
  ASSUME NEW s, NEW c, NEW t, IsConcat(s, c, t), NEW b, Barred(c, b),
         Barred(t, b) \/ Includes(c, b)
  PROVE  Barred(s, b)
<1> SUFFICES ASSUME NEW i \in 1..Len(s), Frees(s[i], b) PROVE \E j \in 1..i - 1 : s[j] = b
  BY DEF Barred
<1>0. Len(c) \in Nat /\ Len(t) \in Nat /\ Len(s) = Len(c) + Len(t)
      /\ (\A j \in 1..Len(c) : s[j] = c[j]) /\ \A j \in 1..Len(t) : s[j + Len(c)] = t[j]
  BY DEF IsConcat
<1>1. CASE i \in 1..Len(c) /\ s[i] = c[i]
  <2>1. PICK j \in 1..i - 1 : c[j] = b
    BY <1>1 DEF Barred
  <2>2. j \in 1..Len(c)
    BY <1>0, <1>1
  <2> QED
    BY <1>0, <2>1, <2>2
<1>2. CASE i - Len(c) \in 1..Len(t) /\ s[i] = t[i - Len(c)]
  <2>1. CASE Barred(t, b)
    <3>1. PICK j \in 1..(i - Len(c)) - 1 : t[j] = b
      BY <1>2, <2>1 DEF Barred
    <3>2. j \in 1..Len(t) /\ j + Len(c) \in 1..i - 1
      BY <1>0, <1>2
    <3> QED
      BY <1>0, <3>1, <3>2
  <2>2. CASE Includes(c, b)
    <3>1. PICK j \in 1..Len(c) : c[j] = b
      BY <2>2 DEF Includes
    <3>2. j \in 1..i - 1
      BY <1>0, <1>2
    <3> QED
      BY <1>0, <3>1, <3>2
  <2> QED
    BY <2>1, <2>2
<1> QED
  BY <1>1, <1>2, ConcatIndex

\* What a part contains the whole contains.
LEMMA IncludesConcat ==
  ASSUME NEW s, NEW c, NEW t, IsConcat(s, c, t), NEW b, Includes(c, b) \/ Includes(t, b)
  PROVE  Includes(s, b)
<1>0. Len(c) \in Nat /\ Len(t) \in Nat /\ Len(s) = Len(c) + Len(t)
      /\ (\A j \in 1..Len(c) : s[j] = c[j]) /\ \A j \in 1..Len(t) : s[j + Len(c)] = t[j]
  BY DEF IsConcat
<1>1. CASE Includes(c, b)
  <2>1. PICK j \in 1..Len(c) : c[j] = b
    BY <1>1 DEF Includes
  <2>2. j \in 1..Len(s)
    BY <1>0
  <2> QED
    BY <1>0, <2>1, <2>2 DEF Includes
<1>2. CASE Includes(t, b)
  <2>1. PICK j \in 1..Len(t) : t[j] = b
    BY <1>2 DEF Includes
  <2>2. j + Len(c) \in 1..Len(s)
    BY <1>0
  <2> QED
    BY <1>0, <2>1, <2>2 DEF Includes
<1> QED
  BY <1>1, <1>2

\* The rest of barred code, when something else comes first.
LEMMA BarredTail ==
  ASSUME NEW s \in Seq(Instruction), s # <<>>, NEW b, Barred(s, b)
  PROVE  ~Frees(Head(s), b) /\ (Head(s) # b => Barred(Tail(s), b))
<1>1. PICK t : t = Tail(s)
  OBVIOUS
<1>2. /\ Head(s) = s[1] /\ Len(s) \in Nat /\ Len(s) >= 1 /\ Len(t) = Len(s) - 1
      /\ \A i \in 1..Len(t) : t[i] = s[i + 1]
  BY <1>1, HeadTail
<1>3. ~Frees(Head(s), b)
  BY <1>2 DEF Barred
<1>4. ASSUME Head(s) # b, NEW i \in 1..Len(t), Frees(t[i], b) PROVE \E j \in 1..i - 1 : t[j] = b
  <2>1. i + 1 \in 1..Len(s) /\ Frees(s[i + 1], b)
    BY <1>2, <1>4
  <2>2. PICK j \in 1..(i + 1) - 1 : s[j] = b
    BY <2>1 DEF Barred
  <2>3. j # 1
    BY <1>2, <1>4, <2>2
  <2>4. j - 1 \in 1..i - 1 /\ j - 1 \in 1..Len(t) /\ (j - 1) + 1 = j
    BY <1>2, <2>2, <2>3
  <2> QED
    BY <1>2, <2>2, <2>4
<1> QED
  BY <1>1, <1>3, <1>4 DEF Barred

\* Code that gives back no lock before it takes it, ends no initialisation, does
\* not set the heap up and does not halt
LEMMA BarredClear ==
  ASSUME NEW c, Clear(c, {"halt", "heap"}), \A x \in Locks : ~Owes(c, 1, <<"lock", x>>), NEW b \in Bar,
         b[1] = "force" => \A i \in 1..Len(c) : c[i] # <<"ready", b[2]>>
  PROVE  Barred(c, b)
<1> SUFFICES ASSUME NEW i \in 1..Len(c), Frees(c[i], b) PROVE \E j \in 1..i - 1 : c[j] = b
  BY DEF Barred
<1>1. c[i][1] \notin {"halt", "heap"}
  BY DEF Clear
<1>2. b[1] = "lock" /\ Gives(c[i], b)
  BY <1>1 DEF Frees
<1>3. b = <<"lock", b[2]>> /\ b[2] \in Locks
  BY <1>2 DEF Bar, Locks, Lazies
<1>4. PICK j \in 1..i - 1 : Takes(c[j], b)
  BY <1>2, <1>3 DEF Owes
<1>5. j \in 1..Len(c) /\ c \in Seq(Instruction)
  BY <1>4 DEF Clear
<1>6. c[j] \in Instruction
  BY <1>5
<1>7. c[j] = b
  BY <1>4, <1>6, InstructionIs DEF Takes
<1> QED
  BY <1>4, <1>7

\* Tame code cannot help what it would have to wait for.
LEMMA BarredTame ==
  ASSUME NEW c, Tame(c), NEW b \in Bar, Blocked(b)
  PROVE  Barred(c, b)
<1>1. ASSUME b[1] = "force", NEW i \in 1..Len(c), c[i] = <<"ready", b[2]>> PROVE FALSE
  <2>1. c[i][1] = "ready" /\ c[i][2] = b[2]
    BY <1>1
  <2>2. lazy[b[2]] = "running"
    BY <1>1 DEF Blocked
  <2> QED
    BY <2>1, <2>2 DEF Tame
<1> QED
  BY <1>1, BarredClear DEF Tame

\* Nor can complete code.
LEMMA BarredCode ==
  ASSUME NEW c, Clear(c, {"halt", "heap", "ready"}), NEW n \in Nat, Code(c, n), NEW b \in Bar
  PROVE  Barred(c, b)
<1>1. Clear(c, {"halt", "heap"}) /\ \A i \in 1..Len(c) : c[i][1] # "ready"
  BY DEF Clear
<1>2. \A x \in Locks : <<"lock", x>> \in Resource
  BY DEF Resource
<1>3. b[1] = "force" => \A i \in 1..Len(c) : c[i] # <<"ready", b[2]>>
  BY <1>1
<1> QED
  BY <1>1, <1>2, <1>3, BarredClear DEF Code

\* What an allocation, a log line and a line on the screen wait for
LEMMA LogWaits ==
  /\ Includes(Alloc, <<"lock", "HEAP">>) /\ Includes(Alloc, <<"alloc", "HEAP">>)
  /\ Includes(Log, <<"force", "LOGGER">>) /\ Includes(Log, <<"lock", "LOGGER">>)
  /\ Includes(Log, <<"lock", "HEAP">>)
  /\ Includes(VgaWrite, <<"lock", "HEAP">>) /\ Includes(VgaWrite, <<"alloc", "HEAP">>)
  /\ Includes(VgaWrite, <<"force", "INITRD">>)
<1>1. PICK a : a = Alloc
  OBVIOUS
<1>2. a \in Seq(Instruction) /\ Len(a) = 2 /\ a[1] = <<"lock", "HEAP">> /\ a[2] = <<"alloc", "HEAP">>
  BY <1>1, CodeAlloc DEF Alloc, Code
<1>3. Includes(a, <<"lock", "HEAP">>) /\ Includes(a, <<"alloc", "HEAP">>)
  BY <1>2 DEF Includes
<1>4. ASSUME NEW ins \in Instruction PROVE Includes(<<ins>>, ins) /\ <<ins>> \in Seq(Instruction)
  BY OnesIn DEF Includes
<1>5. ASSUME NEW c \in Seq(Instruction), NEW t \in Seq(Instruction), NEW b,
             Includes(c, b) \/ Includes(t, b)
      PROVE  Includes(c \o t, b) /\ c \o t \in Seq(Instruction)
  <2>1. IsConcat(c \o t, c, t)
    BY Concat
  <2> QED
    BY <1>5, <2>1, IncludesConcat DEF IsConcat
<1>6. PICK f, l, u, i, m : /\ f = <<"force", "LOGGER">> /\ l = <<"lock", "LOGGER">>
                           /\ u = <<"unlock", "LOGGER">> /\ i = <<"force", "INITRD">>
                           /\ m = <<"may", "panic">>
  OBVIOUS
<1>7. f \in Instruction /\ l \in Instruction /\ u \in Instruction /\ i \in Instruction
      /\ m \in Instruction
  BY <1>6 DEF Instruction, Locks, Lazies
<1>8. PICK d, e, g, h : d = <<f>> \o <<l>> /\ e = d \o a /\ g = e \o <<u>> /\ h = a \o g
  OBVIOUS
<1>9. Includes(d, f) /\ Includes(d, l) /\ d \in Seq(Instruction)
  BY <1>4, <1>5, <1>7, <1>8
<1>10. Includes(e, f) /\ Includes(e, l) /\ e \in Seq(Instruction)
  BY <1>2, <1>5, <1>8, <1>9
<1>11. Includes(g, f) /\ Includes(g, l) /\ g \in Seq(Instruction)
  BY <1>4, <1>5, <1>7, <1>8, <1>10
<1>12. Includes(h, f) /\ Includes(h, l) /\ Includes(h, <<"lock", "HEAP">>)
  BY <1>2, <1>3, <1>5, <1>8, <1>11
<1>13. h = Log
  BY <1>1, <1>6, <1>8 DEF Log, Use, Deref
<1>14. PICK p, q : p = <<i>> \o <<m>> /\ q = a \o p
  OBVIOUS
<1>15. Includes(p, i) /\ p \in Seq(Instruction)
  BY <1>4, <1>5, <1>7, <1>14
<1>16. Includes(q, i) /\ Includes(q, <<"lock", "HEAP">>) /\ Includes(q, <<"alloc", "HEAP">>)
  BY <1>2, <1>3, <1>5, <1>14, <1>15
<1>17. q = VgaWrite
  BY <1>1, <1>6, <1>14 DEF VgaWrite, Font_new, Deref, May
<1> QED
  BY <1>1, <1>3, <1>6, <1>12, <1>13, <1>16, <1>17

\* The panic handler waits for each of them before it halts.
LEMMA BarredPanic == \A b \in Bar : Barred(panic_handler, b)
<1>1. PICK f, l, w, g, u, h : /\ f = Deref("VGA") /\ l = << <<"lock", "VGA">> >> /\ w = VgaWrite /\ g = Log
                             /\ u = Use("LOGGER", VgaWrite) /\ h = Halt
  OBVIOUS
<1>2. PICK s2, s3, s4, s5, s6 : /\ s2 = f \o l /\ s3 = s2 \o w /\ s4 = s3 \o g /\ s5 = s4 \o u
                                /\ s6 = s5 \o h
  OBVIOUS
<1>3. panic_handler = s6
  BY <1>1, <1>2, Zenon DEF panic_handler
<1>4. PICK ops : ops = {"halt", "heap", "ready"}
  OBVIOUS
<1>5. ops \subseteq Marks
  BY <1>4 DEF Marks
<1>6. Clear(f, ops) /\ Clear(w, ops) /\ Clear(g, ops) /\ Clear(u, ops)
  BY <1>1, <1>5, ClearSmall, ClearUse DEF Locks, Lazies
<1>7. Code(f, 1) /\ Code(w, 1) /\ Code(g, 1) /\ h \in Seq(Instruction)
  <2>1. Code(f, 1)
    BY <1>1, CodeForce, RankIs DEF Lazies
  <2>2. Code(w, 1) /\ Code(g, 1)
    BY <1>1, CodeSmall
  <2>3. h \in Seq(Instruction)
    BY <1>1, CodeHalt DEF Code
  <2> QED
    BY <2>1, <2>2, <2>3
<1>8. Clear(l, ops)
  <2>1. <<"lock", "VGA">> \in Instruction
    BY DEF Instruction, Locks, Lazies
  <2> QED
    BY <1>1, <1>4, <2>1, ClearOne
<1>9. Len(l) = 1 /\ l[1] = <<"lock", "VGA">>
  BY <1>1
<1>10. Len(f) = 1 /\ f[1] = <<"force", "VGA">>
  BY <1>1 DEF Deref
<1>11. IsConcat(s2, f, l) /\ IsConcat(s3, s2, w) /\ IsConcat(s4, s3, g) /\ IsConcat(s5, s4, u)
      /\ IsConcat(s6, s5, h)
  <2>1. ASSUME NEW c \in Seq(Instruction), NEW t \in Seq(Instruction), NEW s, s = c \o t
        PROVE  IsConcat(s, c, t) /\ s \in Seq(Instruction)
    BY <2>1, Concat
  <2>2. f \in Seq(Instruction) /\ l \in Seq(Instruction) /\ w \in Seq(Instruction)
        /\ g \in Seq(Instruction) /\ u \in Seq(Instruction)
    BY <1>6, <1>8 DEF Clear
  <2>3. IsConcat(s2, f, l) /\ s2 \in Seq(Instruction)
    BY <1>2, <2>1, <2>2
  <2>4. IsConcat(s3, s2, w) /\ s3 \in Seq(Instruction)
    BY <1>2, <2>1, <2>2, <2>3
  <2>5. IsConcat(s4, s3, g) /\ s4 \in Seq(Instruction)
    BY <1>2, <2>1, <2>2, <2>4
  <2>6. IsConcat(s5, s4, u) /\ s5 \in Seq(Instruction)
    BY <1>2, <2>1, <2>2, <2>5
  <2>7. IsConcat(s6, s5, h)
    BY <1>2, <1>7, <2>1, <2>6
  <2> QED
    BY <2>3, <2>4, <2>5, <2>6, <2>7
<1> SUFFICES ASSUME NEW b \in Bar PROVE Barred(s6, b)
  BY <1>3
<1>12. Barred(f, b) /\ Barred(w, b) /\ Barred(g, b)
  BY <1>4, <1>6, <1>7, BarredCode
<1>13. Barred(l, b)
  BY <1>9 DEF Barred, Frees, Gives
<1>14. Includes(s4, b)
  <2>1. \/ Includes(f, b) \/ Includes(l, b) \/ Includes(w, b) \/ Includes(g, b)
    <3>1. Includes(f, <<"force", "VGA">>) /\ Includes(l, <<"lock", "VGA">>)
      BY <1>9, <1>10 DEF Includes
    <3>2. \/ b = <<"force", "VGA">> \/ b = <<"lock", "VGA">> \/ b = <<"lock", "HEAP">>
          \/ b = <<"alloc", "HEAP">> \/ b = <<"force", "INITRD">> \/ b = <<"force", "LOGGER">>
          \/ b = <<"lock", "LOGGER">>
      BY DEF Bar
    <3> QED
      BY <1>1, <3>1, <3>2, LogWaits
  <2> QED
    BY <1>11, <2>1, IncludesConcat
<1>15. Barred(s4, b)
  <2>1. Barred(s2, b)
    BY <1>11, <1>12, <1>13, BarredConcat
  <2>2. Barred(s3, b)
    BY <1>11, <1>12, <2>1, BarredConcat
  <2> QED
    BY <1>11, <1>12, <2>2, BarredConcat
<1>16. Barred(s5, b) /\ Includes(s5, b)
  BY <1>11, <1>14, <1>15, BarredConcat, IncludesConcat
<1> QED
  BY <1>11, <1>16, BarredConcat

\* Locks are given back, and initialisations end, by their own instructions.
LEMMA OwnStep ==
  ASSUME KInv, [KNext]_kvars
  PROVE  /\ \A x \in held : x \in held' \/ (todo # <<>> /\ Gives(Head(todo), <<"lock", x>>))
         /\ \A x \in Lazies : lazy[x] = "running" =>
              lazy'[x] = "running" \/ (todo # <<>> /\ Head(todo) = <<"ready", x>>)
<1>0. lazy \in [Lazies -> {"no", "running", "ready"}] /\ todo \in Seq(Instruction)
  BY DEF KInv, KTypeOK
<1>1. ASSUME NEW op, Does(op)
      PROVE  todo # <<>> /\ Head(todo)[1] = op /\ Arg = Head(todo)[2] /\ Head(todo) = <<op, Arg>>
             /\ Head(todo) \in Instruction
  <2>1. todo # <<>> /\ Head(todo)[1] = op /\ Arg = Head(todo)[2]
    BY <1>1 DEF Does, Arg
  <2> QED
    BY <1>0, <2>1, HeadTail, InstructionIs
<1>2. CASE unlock \/ alloc \/ heap_init
  <2>1. PICK op \in {"unlock", "alloc", "heap"} :
          Does(op) /\ held' = held \ {Arg} /\ UNCHANGED lazy
    <3>1. Does("alloc") \/ Does("heap") => Arg = "HEAP"
      BY <1>1 DEF Instruction
    <3> QED
      BY <1>2, <3>1 DEF unlock, alloc, heap_init
  <2>2. Gives(Head(todo), <<"lock", Arg>>) /\ todo # <<>>
    BY <1>1, <2>1 DEF Gives
  <2> QED
    BY <2>1, <2>2
<1>3. CASE ready
  BY <1>0, <1>1, <1>3 DEF ready
<1>4. CASE force
  <2>1. UNCHANGED held /\ (UNCHANGED lazy \/ lazy' = [lazy EXCEPT ![Arg] = "running"])
    BY <1>4 DEF force
  <2> QED
    BY <1>0, <2>1
<1>5. CASE lock
  BY <1>5 DEF lock
<1>6. ASSUME ~force, ~ready, ~lock, ~unlock, ~alloc, ~heap_init
      PROVE  UNCHANGED <<held, lazy>>
  BY <1>6, Zenon DEF KNext, Step, succeed, lgdt, set_reg, star,
     load, sti, cli, eoi, iret, add_kernel, timer_increment, scheduler_tick, scheduler_fork,
     trap_again, timer_interrupt, keyboard_interrupt, serial_interrupt, Interrupt, Enter,
     trap_fills_heap, oom, panic, exception, trap, kvars
<1> QED
  BY <1>2, <1>3, <1>4, <1>5, <1>6

\* A blocked instruction at the head is not executed.
LEMMA BlockedStays ==
  ASSUME KInv, [KNext]_kvars, fault.kind # "none", todo # <<>>, NEW b \in Bar, Head(todo) = b, Blocked(b),
         ~Aborts
  PROVE  todo' = todo
<1>1. b[1] \in {"lock", "force", "alloc"} /\ Head(todo)[1] = b[1] /\ Head(todo)[2] = b[2]
  BY DEF Bar
<1>2. enabled = FALSE
  BY <1>1, Disabled
<1>3. ~timer_interrupt /\ ~keyboard_interrupt /\ ~serial_interrupt
  BY <1>2 DEF timer_interrupt, keyboard_interrupt, serial_interrupt, Interrupt
<1>4. ~lock /\ ~force /\ ~alloc
  <2>1. ~lock
    BY <1>1 DEF lock, Does, Arg, Blocked
  <2>2. ~force
    BY <1>1 DEF force, Does, Arg, Blocked
  <2>3. ~alloc
    BY <1>1 DEF alloc, Does, Aborts, Blocked
  <2> QED
    BY <2>1, <2>2, <2>3
<1>5. ~Step
  BY <1>1, <1>4 DEF Step, ready, unlock, heap_init, succeed, lgdt, set_reg, star,
     load, sti, cli, eoi, iret, add_kernel, timer_increment, scheduler_tick, scheduler_fork,
     trap_again, Does
<1> QED
  BY <1>3, <1>5, FaultStep DEF KNext, trap_fills_heap, kvars

\* A panic for want of memory will want memory.
LEMMA StuckForMemory ==
  ASSUME heap' # "ready", Barred(todo', <<"alloc", "HEAP">>)
  PROVE  Stuck'
<1>1. PICK b : b = <<"alloc", "HEAP">>
  OBVIOUS
<1>2. b \in Bar /\ Blocked(b)' /\ Barred(todo', b)
  BY <1>1 DEF Bar, Blocked
<1> QED
  BY <1>2 DEF Stuck

\* Who waits for what nobody gives back waits for ever.
LEMMA StuckStays ==
  ASSUME KInv, [KNext]_kvars, fault.kind # "none", Stuck
  PROVE  Stuck'
<1>0. todo \in Seq(Instruction) /\ lazy \in [Lazies -> {"no", "running", "ready"}]
  BY DEF KInv, KTypeOK
<1>1. PICK b \in Bar : Blocked(b) /\ Barred(todo, b)
  BY DEF Stuck
<1>2. fault' = fault /\ ~panic /\ ~exception
  BY FaultStep
<1>3. <<"alloc", "HEAP">> \in Bar
  BY DEF Bar
<1>4. CASE Aborts
  <2>1. heap' = heap /\ heap # "ready" /\ todo' = panic_handler
    BY <1>2, <1>4 DEF Aborts, alloc
  <2>2. heap' # "ready" /\ Barred(todo', <<"alloc", "HEAP">>)
    BY <1>3, <2>1, BarredPanic
  <2> QED
    BY <2>2, StuckForMemory
<1>5. CASE ~Aborts
  <2>1. todo # <<>> => ~Frees(Head(todo), b) /\ (Head(todo) # b => Barred(Tail(todo), b))
    BY <1>0, <1>1, BarredTail
  <2>2. Blocked(b)'
    <3>1. CASE b[1] = "lock"
      <4>1. b = <<"lock", b[2]>> /\ b[2] \in held
        BY <1>1, <3>1 DEF Bar, Blocked
      <4>2. todo # <<>> => ~Gives(Head(todo), b)
        BY <2>1, <3>1 DEF Frees
      <4>3. b[2] \in held'
        BY <4>1, <4>2, OwnStep
      <4> QED
        BY <3>1, <4>3 DEF Blocked
    <3>2. CASE b[1] = "force"
      <4>1. b[2] \in Lazies /\ lazy[b[2]] = "running"
        BY <1>1, <3>2 DEF Bar, Blocked, Lazies
      <4>2. todo # <<>> => Head(todo) # <<"ready", b[2]>>
        BY <2>1, <3>2 DEF Frees
      <4>3. lazy'[b[2]] = "running"
        BY <4>1, <4>2, OwnStep
      <4> QED
        BY <3>2, <4>3 DEF Blocked
    <3>3. CASE b[1] = "alloc"
      <4>1. heap # "ready"
        BY <1>1, <3>3 DEF Blocked
      <4>2. ~heap_init
        BY <2>1, <3>3 DEF Frees, heap_init, Does
      <4>3. heap' # "ready"
        BY <4>1, <4>2, HeapStep
      <4> QED
        BY <3>3, <4>3 DEF Blocked
    <3> QED
      BY <3>1, <3>2, <3>3 DEF Bar
  <2>3. Barred(todo', b)
    <3>1. CASE todo # <<>> /\ Head(todo) = b
      BY <1>1, <1>5, <3>1, BlockedStays
    <3>2. CASE todo # <<>> => Head(todo) # b
      <4>1. CASE todo' = todo
        BY <1>1, <4>1
      <4>2. CASE todo # <<>> /\ todo' = Tail(todo)
        BY <2>1, <3>2, <4>2
      <4>3. CASE \E c : Tame(c) /\ todo # <<>> /\ IsConcat(todo', c, Tail(todo))
        <5>1. PICK c : Tame(c) /\ todo # <<>> /\ IsConcat(todo', c, Tail(todo))
          BY <4>3
        <5>2. Barred(c, b) /\ Barred(Tail(todo), b)
          BY <1>1, <2>1, <3>2, <5>1, BarredTame
        <5> QED
          BY <5>1, <5>2, BarredConcat
      <4>4. CASE \E c : Tame(c) /\ IsConcat(todo', c, todo)
        <5>1. PICK c : Tame(c) /\ IsConcat(todo', c, todo)
          BY <4>4
        <5>2. Barred(c, b)
          BY <1>1, <5>1, BarredTame
        <5> QED
          BY <1>1, <5>1, <5>2, BarredConcat
      <4> QED
        BY <1>2, <1>5, <4>1, <4>2, <4>3, <4>4, Moves
    <3> QED
      BY <3>1, <3>2
  <2> QED
    BY <2>2, <2>3 DEF Stuck
<1> QED
  BY <1>4, <1>5

\* A fault whose handler cannot report it keeps the kernel from halting.
Clean ==
  /\ fault.kind = "nmi" => heap = "ready" /\ Lacks(todo, "halt")
  /\ fault.kind = "trap" => Stuck \/ (heap = "ready" /\ Lacks(todo, "halt"))
  /\ fault.kind = "oom" => Stuck
  /\ fault.kind \in {"panic", "machine_check"} /\ Cornered => Stuck

\* A panic that finds the screen, the logger, the ramdisk or the heap taken
LEMMA PanicStuck ==
  ASSUME KInv, panic, Cornered'
  PROVE  Stuck'
<1>1. /\ fault' = Context("panic") /\ todo' = panic_handler /\ UNCHANGED <<held, lazy, heap>>
  BY DEF panic
<1>2. Owned \cap {"VGA", "LOGGER", "INITRD"} # {} \/ heap # "ready"
  BY <1>1 DEF Cornered, Context
<1>3. \A b \in Bar : Barred(todo', b)
  BY <1>1, BarredPanic
<1>4. CASE heap # "ready"
  BY <1>1, <1>3, <1>4, StuckForMemory DEF Bar
<1>5. CASE Owned \cap {"VGA", "LOGGER", "INITRD"} # {}
  <2>1. PICK x \in {"VGA", "LOGGER", "INITRD"} : x \in held \/ lazy[x] = "running"
    BY <1>5 DEF Owned
  <2>2. x \in held => x # "INITRD"
    BY DEF KInv, KTypeOK, Locks
  <2>3. PICK b \in Bar : Blocked(b)'
    <3>1. CASE x \in held
      <4>1. PICK b : b = <<"lock", x>>
        OBVIOUS
      <4>2. b \in Bar /\ Blocked(b)'
        BY <1>1, <2>1, <2>2, <3>1, <4>1 DEF Bar, Blocked
      <4> QED
        BY <4>2
    <3>2. CASE lazy[x] = "running"
      <4>1. PICK b : b = <<"force", x>>
        OBVIOUS
      <4>2. b \in Bar /\ Blocked(b)'
        BY <1>1, <2>1, <3>2, <4>1 DEF Bar, Blocked
      <4> QED
        BY <4>2
    <3> QED
      BY <2>1, <3>1, <3>2
  <2> QED
    BY <1>3, <2>3 DEF Stuck
<1> QED
  BY <1>2, <1>4, <1>5

\* A machine check that finds the logger or the allocator taken
LEMMA MachineCheckStuck ==
  ASSUME KInv, Enter(exception_handler("machine_check")), UNCHANGED <<held, lazy>>,
         Owned \cap {"LOGGER", "HEAP"} # {}
  PROVE  Stuck'
<1>1. PICK c, i : /\ IsConcat(todo', c, todo) /\ IsConcat(c, exception_handler("machine_check"), i)
  BY ExceptionCode
<1>2. IsConcat(exception_handler("machine_check"), Log, Halt)
  <2>1. exception_handler("machine_check") = Log \o Halt
    BY DEF exception_handler
  <2> QED
    BY <2>1, Concat, CodeLog, CodeHalt DEF Code
<1>3. PICK x \in {"LOGGER", "HEAP"} : x \in held \/ (x = "LOGGER" /\ lazy[x] = "running")
  BY DEF Owned, Lazies
<1>4. PICK b \in Bar : Blocked(b)' /\ Includes(Log, b)
  <2>1. CASE x \in held
    <3>1. PICK b : b = <<"lock", x>>
      OBVIOUS
    <3>2. b \in Bar /\ Blocked(b)' /\ Includes(Log, b)
      BY <2>1, <3>1, LogWaits DEF Bar, Blocked
    <3> QED
      BY <3>2
  <2>2. CASE x = "LOGGER" /\ lazy[x] = "running"
    <3>1. PICK b : b = <<"force", x>>
      OBVIOUS
    <3>2. b \in Bar /\ Blocked(b)' /\ Includes(Log, b)
      BY <2>2, <3>1, LogWaits DEF Bar, Blocked
    <3> QED
      BY <3>2
  <2> QED
    BY <1>3, <2>1, <2>2
<1>5. Barred(Log, b)
  <2>1. {"halt", "heap", "ready"} \subseteq Marks
    BY DEF Marks
  <2> QED
    BY <2>1, BarredCode, CodeLog, ClearSmall
<1>6. Barred(exception_handler("machine_check"), b) /\ Includes(exception_handler("machine_check"), b)
  BY <1>2, <1>4, <1>5, BarredConcat, IncludesConcat
<1>7. Barred(c, b) /\ Includes(c, b)
  BY <1>1, <1>6, BarredConcat, IncludesConcat
<1>8. Barred(todo', b)
  BY <1>1, <1>7, BarredConcat
<1> QED
  BY <1>4, <1>8 DEF Stuck

\* Code without halt() and without setting the heap up cannot get it back.
LEMMA BarredByMemory ==
  ASSUME NEW s, Lacks(s, "halt"), Lacks(s, "heap")
  PROVE  Barred(s, <<"alloc", "HEAP">>)
BY DEF Barred, Frees, Lacks

\* Every step keeps it.
LEMMA CleanStep ==
  ASSUME KInv, Tidy, Clean, [KNext]_kvars
  PROVE  Clean'
<1>1. CASE fault' = fault /\ ~panic /\ ~exception /\ ~trap /\ ~oom
  <2>1. Cornered' <=> Cornered
    BY <1>1 DEF Cornered
  <2>2. fault.kind # "none" /\ Stuck => Stuck'
    BY StuckStays
  <2>3. ASSUME fault.kind \in {"nmi", "trap"}, heap = "ready", Lacks(todo, "halt")
        PROVE  \/ heap' = "ready" /\ Lacks(todo', "halt")
               \/ fault.kind = "trap" /\ Stuck'
    <3>1. ~Aborts
      BY <1>1, <2>3 DEF Aborts
    <3>2. Lacks(todo', "halt")
      BY <1>1, <2>3, <3>1, HaltStep
    <3>3. CASE heap' = "ready"
      BY <3>2, <3>3
    <3>4. CASE heap' # "ready"
      <4>1. trap_fills_heap /\ UNCHANGED todo
        BY <1>1, <2>3, <3>4, HeapStep DEF heap_init
      <4>2. Lacks(todo', "heap")
        BY <2>3, <4>1 DEF Tidy
      <4>3. Stuck'
        BY <3>2, <3>4, <4>2, BarredByMemory, StuckForMemory
      <4> QED
        BY <4>1, <4>3 DEF trap_fills_heap
    <3> QED
      BY <3>3, <3>4
  <2>4. CASE fault.kind = "nmi"
    BY <1>1, <2>3, <2>4 DEF Clean
  <2>5. CASE fault.kind = "trap"
    BY <1>1, <2>2, <2>3, <2>5 DEF Clean
  <2>6. CASE fault.kind \notin {"nmi", "trap"}
    BY <1>1, <2>1, <2>2, <2>6 DEF Clean
  <2> QED
    BY <2>4, <2>5, <2>6
<1>2. CASE fault.kind = "none" /\ panic /\ fault' = Context("panic")
  <2>1. fault'.kind = "panic"
    BY <1>2 DEF Context
  <2> QED
    BY <1>2, <2>1, PanicStuck DEF Clean
<1>3. CASE fault.kind = "none" /\ trap /\ fault' = Context("trap")
  <2>1. fault'.kind = "trap" /\ cpu.idt # "none" /\ heap' = heap /\ Lacks(todo, "halt") /\ ~Aborts
        /\ ~exception
    <3>1. ~panic /\ ~exception
      BY <1>3 DEF panic, exception, Context
    <3>2. ~alloc
      BY <1>3 DEF alloc, Context
    <3> QED
      BY <1>3, <3>1, <3>2 DEF trap, Context, Tidy, Aborts
  <2>2. heap = "ready"
    BY <1>3, <2>1 DEF KInv, Faultless, Unhurt
  <2>3. Lacks(todo', "halt")
    BY <2>1, HaltStep
  <2> QED
    BY <2>1, <2>2, <2>3 DEF Clean
<1>4. CASE fault.kind = "none" /\ oom /\ fault' = Context("oom")
  <2>1. fault'.kind = "oom" /\ heap = "ready" /\ heap' = "exhausted" /\ todo' = todo
    BY <1>4 DEF oom, Context
  <2>2. Lacks(todo', "halt") /\ Lacks(todo', "heap")
    BY <1>4, <2>1 DEF Tidy
  <2>3. Stuck'
    BY <2>1, <2>2, BarredByMemory, StuckForMemory
  <2> QED
    BY <2>1, <2>3 DEF Clean
<1>5. CASE /\ fault.kind = "none" /\ exception
           /\ \E kind \in {"nmi", "machine_check"} :
                fault' = Context(kind) /\ Enter(exception_handler(kind))
  <2>1. PICK kind \in {"nmi", "machine_check"} :
          fault' = Context(kind) /\ Enter(exception_handler(kind))
    BY <1>5
  <2>2. fault'.kind = kind /\ fault'.owned = Owned /\ cpu.idt # "none" /\ UNCHANGED <<held, lazy, heap>>
    BY <1>5, <2>1 DEF exception, Context
  <2>3. heap = "ready" /\ Lacks(todo, "halt")
    BY <1>5, <2>2 DEF KInv, Faultless, Unhurt, Tidy
  <2>4. CASE kind = "nmi"
    <3>1. PICK c, i : /\ IsConcat(todo', c, todo) /\ IsConcat(c, exception_handler("nmi"), i)
                      /\ i = << <<"iret", enabled>> >>
      BY <2>1, <2>4, ExceptionCode
    <3>2. Lacks(exception_handler("nmi"), "halt") /\ Lacks(i, "halt")
      <4>1. Lacks(Log, "halt")
        BY TameHandlers, TameLacks
      <4>2. Lacks(i, "halt")
        BY <3>1 DEF Lacks
      <4> QED
        BY <4>1, <4>2 DEF exception_handler
    <3>3. Lacks(c, "halt")
      BY <3>1, <3>2, LacksConcat
    <3>4. Lacks(todo', "halt")
      BY <2>3, <3>1, <3>3, LacksConcat
    <3> QED
      BY <2>2, <2>3, <2>4, <3>4 DEF Clean
  <2>5. CASE kind = "machine_check"
    <3>1. Cornered' => Owned \cap {"LOGGER", "HEAP"} # {}
      BY <2>2, <2>5 DEF Cornered
    <3>2. Cornered' => Stuck'
      BY <2>1, <2>2, <2>5, <3>1, MachineCheckStuck
    <3> QED
      BY <2>2, <2>5, <3>2 DEF Clean
  <2> QED
    BY <2>4, <2>5
<1> QED
  BY <1>1, <1>2, <1>3, <1>4, <1>5, FaultStep

\* It holds in every state.
LEMMA CleanInvariant == KSpec => [](KInv /\ Tidy /\ Clean)
<1>1. KInit => KInv /\ Tidy /\ Clean
  <2>1. KInit => Clean
    BY DEF KInit, Clean
  <2> QED
    BY <2>1, KInvInit, TidyInit
<1>2. KInv /\ Tidy /\ Clean /\ [KNext]_kvars => (KInv /\ Tidy /\ Clean)'
  BY KInvStep, TidyStep, CleanStep
<1> QED
  BY <1>1, <1>2, PTL DEF KSpec

\* Whoever reaches halt() has reported a panic or a machine check, and keeps
\* interrupts off; where a fault finds its handler's resources taken, halt() is
\* never reached, nor is it without a fault, after an interrupt, for want of
\* memory or for a trap.
THEOREM CleanHalts == KSpec => []HaltsOnlyIfClean
<1>1. ASSUME KInv, Tidy, Clean PROVE HaltsOnlyIfClean
  <2> SUFFICES ASSUME Halted
               PROVE  fault.kind \in {"panic", "machine_check"} /\ ~Cornered /\ ~enabled
    BY DEF HaltsOnlyIfClean
  <2>1. todo # <<>> /\ Head(todo)[1] = "halt" /\ todo \in Seq(Instruction)
    BY <1>1 DEF Halted, Does, KInv, KTypeOK
  <2>2. ~Lacks(todo, "halt")
    <3>1. Head(todo) = todo[1] /\ 1 \in 1..Len(todo)
      BY <2>1, HeadTail
    <3> QED
      BY <2>1, <3>1 DEF Lacks
  <2>3. ~Stuck
    <3> SUFFICES ASSUME NEW b \in Bar, Barred(todo, b) PROVE FALSE
      BY DEF Stuck
    <3>1. ~Frees(Head(todo), b)
      BY <2>1, BarredTail
    <3> QED
      BY <2>1, <3>1 DEF Frees
  <2>4. fault.kind \in {"panic", "machine_check"} /\ ~Cornered
    BY <1>1, <2>2, <2>3 DEF Clean, Tidy, Fault
  <2>5. ~enabled
    BY <1>1, <2>1, Disabled
  <2> QED
    BY <2>4, <2>5
<1> QED
  BY <1>1, CleanInvariant, PTL

-----------------------------------------------------------------------------
(***************************************************************************)
(* A panic that finds what it needs.                                       *)
(***************************************************************************)

\* What the panic handler needs, and the code it runs on the way: its own, and
\* that which brings up the screen, the ramdisk and the logger
Core == {"VGA", "INITRD", "LOGGER", "HEAP"}
CoreCode == ({"force", "ready"} \X {"VGA", "INITRD", "LOGGER"})
            \cup ({"lock", "unlock"} \X {"VGA", "LOGGER", "HEAP"})
            \cup {<<"alloc", "HEAP">>, <<"may", "panic">>}

Live == {r \in Has : r[2] \in Core}

Within(s, S) == \A i \in 1..Len(s) : s[i] \in S

\* From the last font on, the handler waits for nothing but the ramdisk.
LastCode == ({"may", "unlock", "cli", "halt"} \X {"panic", "LOGGER", "IF", "CPU"})
            \cup {<<"force", "INITRD">>}

Reads(s) == Includes(s, <<"force", "INITRD">>) \/ Includes(s, <<"ready", "INITRD">>)

\* The screen's guard, which the handler keeps, and the logger's, given back
Done == << <<"unlock", "LOGGER">>, <<"unlock", "VGA">> >>

\* The handler has t to do, then e; t would be sound if it gave back what it
\* takes, and when it is done the ramdisk has been read.
ReportsBy(t, e, u) ==
  /\ IsConcat(todo, t, e) /\ IsConcat(u, t, Done)
  /\ Within(t, CoreCode) /\ Within(e, LastCode)
  /\ Sound(u, Live)
  /\ lazy["INITRD"] = "ready" \/ Reads(t)

Reports ==
  fault.kind = "panic" /\ ~Cornered =>
    /\ heap = "ready"
    /\ \/ lazy["INITRD"] = "ready" /\ Within(todo, LastCode)
       \/ \E t, e, u : ReportsBy(t, e, u)

\* Two parts.
LEMMA WithinConcat ==
  ASSUME NEW s, NEW c, NEW t, IsConcat(s, c, t), NEW S, Within(c, S), Within(t, S)
  PROVE  Within(s, S)
BY ConcatIndex DEF Within

\* The rest of two parts.
LEMMA ConcatTail ==
  ASSUME NEW s, NEW c, NEW t, IsConcat(s, c, t), c # <<>>
  PROVE  s # <<>> /\ Head(s) = Head(c) /\ IsConcat(Tail(s), Tail(c), t)
<1>1. s \in Seq(Instruction) /\ c \in Seq(Instruction) /\ t \in Seq(Instruction) /\ Len(t) \in Nat
      /\ Len(s) = Len(c) + Len(t)
      /\ (\A i \in 1..Len(c) : s[i] = c[i]) /\ \A i \in 1..Len(t) : s[i + Len(c)] = t[i]
  BY DEF IsConcat
<1>2. PICK d : d = Tail(c)
  OBVIOUS
<1>3. Len(c) \in Nat /\ Len(c) >= 1 /\ Head(c) = c[1] /\ d \in Seq(Instruction) /\ Len(d) = Len(c) - 1
      /\ \A i \in 1..Len(d) : d[i] = c[i + 1]
  BY <1>1, <1>2, HeadTail
<1>4. s # <<>>
  BY <1>1, <1>3
<1>5. PICK r : r = Tail(s)
  OBVIOUS
<1>6. Head(s) = s[1] /\ r \in Seq(Instruction) /\ Len(r) = Len(s) - 1
      /\ \A i \in 1..Len(r) : r[i] = s[i + 1]
  BY <1>1, <1>4, <1>5, HeadTail
<1>7. Len(r) = Len(d) + Len(t) /\ Len(r) \in Nat /\ Len(d) \in Nat
  BY <1>1, <1>3, <1>6
<1>8. ASSUME NEW i \in 1..Len(d) PROVE r[i] = d[i]
  <2>1. i + 1 \in 1..Len(c) /\ i \in 1..Len(r)
    BY <1>1, <1>3, <1>7
  <2> QED
    BY <1>1, <1>3, <1>6, <2>1
<1>9. ASSUME NEW i \in 1..Len(t) PROVE r[i + Len(d)] = t[i]
  <2>1. i + Len(d) \in 1..Len(r) /\ (i + Len(d)) + 1 = i + Len(c)
    BY <1>1, <1>3, <1>7
  <2> QED
    BY <1>1, <1>6, <2>1
<1>10. IsConcat(r, d, t)
  BY <1>1, <1>3, <1>6, <1>7, <1>8, <1>9 DEF IsConcat
<1> QED
  BY <1>1, <1>2, <1>3, <1>4, <1>5, <1>6, <1>10

\* Code in front of the first of two parts.
LEMMA ConcatPush ==
  ASSUME NEW s, NEW a, NEW t, IsConcat(s, a, t), NEW c, NEW cs, NEW ca,
         IsConcat(cs, c, s), IsConcat(ca, c, a)
  PROVE  IsConcat(cs, ca, t)
<1>1. /\ cs \in Seq(Instruction) /\ ca \in Seq(Instruction) /\ t \in Seq(Instruction)
      /\ Len(s) \in Nat /\ Len(a) \in Nat /\ Len(t) \in Nat /\ Len(c) \in Nat
      /\ Len(cs) \in Nat /\ Len(ca) \in Nat
      /\ Len(cs) = Len(c) + Len(s) /\ Len(ca) = Len(c) + Len(a) /\ Len(s) = Len(a) + Len(t)
  BY DEF IsConcat
<1>2. ASSUME NEW i \in 1..Len(ca) PROVE cs[i] = ca[i]
  <2>1. CASE i \in 1..Len(c)
    BY <2>1 DEF IsConcat
  <2>2. CASE i \notin 1..Len(c)
    <3>1. PICK k \in 1..Len(a) : i = k + Len(c)
      <4>1. i - Len(c) \in 1..Len(a) /\ i = (i - Len(c)) + Len(c)
        BY <1>1, <2>2
      <4> QED
        BY <4>1
    <3>2. k \in 1..Len(s)
      BY <1>1
    <3> QED
      BY <3>1, <3>2 DEF IsConcat
  <2> QED
    BY <2>1, <2>2
<1>3. ASSUME NEW i \in 1..Len(t) PROVE cs[i + Len(ca)] = t[i]
  <2>1. i + Len(a) \in 1..Len(s) /\ i + Len(ca) = (i + Len(a)) + Len(c)
    BY <1>1
  <2>2. cs[(i + Len(a)) + Len(c)] = s[i + Len(a)]
    BY <2>1 DEF IsConcat
  <2>3. s[i + Len(a)] = t[i]
    BY DEF IsConcat
  <2> QED
    BY <2>1, <2>2, <2>3
<1> QED
  BY <1>1, <1>2, <1>3 DEF IsConcat

\* The rest of code.
LEMMA WithinTail ==
  ASSUME NEW s \in Seq(Instruction), s # <<>>
  PROVE  /\ \A S : Within(s, S) => Within(Tail(s), S) /\ Head(s) \in S
         /\ \A b : Includes(s, b) => b = Head(s) \/ Includes(Tail(s), b)
<1>1. PICK t : t = Tail(s)
  OBVIOUS
<1>2. /\ Head(s) = s[1] /\ Len(s) \in Nat /\ Len(s) >= 1 /\ Len(t) = Len(s) - 1
      /\ \A i \in 1..Len(t) : t[i] = s[i + 1]
  BY <1>1, HeadTail
<1>3. ASSUME NEW S, Within(s, S) PROVE Within(t, S) /\ Head(s) \in S
  <2>1. \A i \in 1..Len(t) : i + 1 \in 1..Len(s)
    BY <1>2
  <2>2. 1 \in 1..Len(s)
    BY <1>2
  <2> QED
    BY <1>2, <1>3, <2>1, <2>2 DEF Within
<1>4. ASSUME NEW b, Includes(s, b) PROVE b = Head(s) \/ Includes(t, b)
  <2>1. PICK i \in 1..Len(s) : s[i] = b
    BY <1>4 DEF Includes
  <2>2. CASE i = 1
    BY <1>2, <2>1, <2>2
  <2>3. CASE i # 1
    <3>1. i - 1 \in 1..Len(t) /\ (i - 1) + 1 = i
      BY <1>2, <2>3
    <3>2. t[i - 1] = b
      BY <1>2, <2>1, <3>1
    <3> QED
      BY <3>1, <3>2 DEF Includes
  <2> QED
    BY <2>2, <2>3
<1> QED
  BY <1>1, <1>3, <1>4

\* The pieces of code that the handler runs.
Made(s, S) == s \in Seq(Instruction) /\ Within(s, S)

\* A piece is made of instructions, or of two pieces.
LEMMA MadeOf ==
  ASSUME NEW S
  PROVE  /\ Made(<<>>, S)
         /\ \A ins \in Instruction \cap S : Made(<<ins>>, S)
         /\ \A c, t, s : Made(c, S) /\ Made(t, S) /\ s = c \o t => Made(s, S)
<1>1. Made(<<>>, S)
  BY DEF Made, Within
<1>2. ASSUME NEW ins \in Instruction \cap S PROVE Made(<<ins>>, S)
  BY OnesIn DEF Made, Within
<1>3. ASSUME NEW c, NEW t, NEW s, Made(c, S), Made(t, S), s = c \o t PROVE Made(s, S)
  <2>1. IsConcat(s, c, t)
    BY <1>3, Concat DEF Made
  <2> QED
    BY <1>3, <2>1, WithinConcat DEF Made, IsConcat
<1> QED
  BY <1>1, <1>2, <1>3

\* What it runs before the last font is of its own kind
LEMMA CoreSmall ==
  /\ Made(Alloc, CoreCode) /\ Made(Log, CoreCode) /\ Made(VgaWrite, CoreCode)
  /\ \A x \in {"VGA", "LOGGER"} : Made(Deref(x) \o << <<"lock", x>> >>, CoreCode)
  /\ \A x \in {"VGA", "INITRD", "LOGGER"} : Made(InitCode(x) \o << <<"ready", x>> >>, CoreCode)
<1>0. CoreCode \subseteq Instruction
  BY DEF CoreCode, Instruction, Locks, Lazies
<1>1. ASSUME NEW ins \in CoreCode PROVE Made(<<ins>>, CoreCode)
  BY <1>0, MadeOf
<1>2. ASSUME NEW c, NEW t, NEW s, Made(c, CoreCode), Made(t, CoreCode), s = c \o t
      PROVE  Made(s, CoreCode)
  BY <1>2, MadeOf
<1>3. /\ <<"lock", "HEAP">> \in CoreCode /\ <<"alloc", "HEAP">> \in CoreCode
      /\ <<"may", "panic">> \in CoreCode
      /\ \A x \in {"VGA", "INITRD", "LOGGER"} : <<"force", x>> \in CoreCode /\ <<"ready", x>> \in CoreCode
      /\ \A x \in {"VGA", "LOGGER"} : <<"lock", x>> \in CoreCode /\ <<"unlock", x>> \in CoreCode
  BY DEF CoreCode
<1>4. Made(May, CoreCode) /\ \A x \in {"VGA", "INITRD", "LOGGER"} : Made(Deref(x), CoreCode)
  BY <1>1, <1>3 DEF May, Deref
<1>5. Made(Alloc, CoreCode)
  <2>1. PICK a, b : a = << <<"lock", "HEAP">> >> /\ b = << <<"alloc", "HEAP">> >>
    OBVIOUS
  <2>2. Alloc = a \o b
    BY <2>1, PairOfOnes DEF Alloc
  <2>3. Made(a, CoreCode) /\ Made(b, CoreCode)
    BY <1>1, <1>3, <2>1
  <2> QED
    BY <1>2, <2>2, <2>3
<1>6. ASSUME NEW x \in {"VGA", "LOGGER"} PROVE Made(Deref(x) \o << <<"lock", x>> >>, CoreCode)
  <2>1. PICK a, b, s : a = Deref(x) /\ b = << <<"lock", x>> >> /\ s = a \o b
    OBVIOUS
  <2>2. Made(a, CoreCode) /\ Made(b, CoreCode)
    BY <1>1, <1>3, <1>4, <2>1
  <2>3. Made(s, CoreCode)
    BY <1>2, <2>1, <2>2
  <2> QED
    BY <2>1, <2>3
<1>7. Made(Log, CoreCode)
  <2>1. PICK a, d, e, u, s, g : /\ a = Alloc /\ d = Deref("LOGGER") \o << <<"lock", "LOGGER">> >>
                                /\ e = d \o a /\ u = << <<"unlock", "LOGGER">> >>
                                /\ s = e \o u /\ g = a \o s
    OBVIOUS
  <2>2. Made(a, CoreCode) /\ Made(d, CoreCode) /\ Made(u, CoreCode)
    BY <1>1, <1>3, <1>5, <1>6, <2>1
  <2>3. Made(e, CoreCode)
    BY <1>2, <2>1, <2>2
  <2>4. Made(s, CoreCode)
    BY <1>2, <2>1, <2>2, <2>3
  <2>5. Made(g, CoreCode)
    BY <1>2, <2>1, <2>2, <2>4
  <2> QED
    BY <2>1, <2>5 DEF Log, Use
<1>8. Made(Font_new, CoreCode)
  <2>1. PICK a, b, s : a = Deref("INITRD") /\ b = May /\ s = a \o b
    OBVIOUS
  <2>2. Made(s, CoreCode)
    BY <1>2, <1>4, <2>1
  <2> QED
    BY <2>1, <2>2 DEF Font_new
<1>9. Made(VgaWrite, CoreCode)
  BY <1>2, <1>5, <1>8 DEF VgaWrite
<1>10. ASSUME NEW x \in {"VGA", "INITRD", "LOGGER"} PROVE Made(InitCode(x), CoreCode)
  <2>1. CASE x = "VGA"
    <3>1. InitCode(x) = Font_new \o May
      BY <2>1 DEF InitCode, Vga_new
    <3> QED
      BY <1>2, <1>4, <1>8, <3>1
  <2>2. CASE x = "INITRD"
    <3>1. PICK m, a, g, s : m = May /\ a = Alloc /\ g = Log /\ s = m \o a
      OBVIOUS
    <3>2. InitCode(x) = s \o g
      BY <2>2, <3>1 DEF InitCode, Initrd_new
    <3>3. Made(s, CoreCode)
      BY <1>2, <1>4, <1>5, <3>1
    <3> QED
      BY <1>2, <1>7, <3>1, <3>2, <3>3
  <2>3. CASE x = "LOGGER"
    <3>1. InitCode(x) = <<>>
      BY <2>3 DEF InitCode
    <3> QED
      BY <3>1, MadeOf
  <2> QED
    BY <2>1, <2>2, <2>3
<1>11. ASSUME NEW x \in {"VGA", "INITRD", "LOGGER"}
       PROVE  Made(InitCode(x) \o << <<"ready", x>> >>, CoreCode)
  <2>1. PICK a, b, s : a = InitCode(x) /\ b = << <<"ready", x>> >> /\ s = a \o b
    OBVIOUS
  <2>2. Made(a, CoreCode) /\ Made(b, CoreCode)
    BY <1>1, <1>3, <1>10, <2>1
  <2>3. Made(s, CoreCode)
    BY <1>2, <2>1, <2>2
  <2> QED
    BY <2>1, <2>3
<1> QED
  BY <1>5, <1>6, <1>7, <1>9, <1>11

\* The panic handler is such code, then the last font, and it is complete but
\* for giving back the logger and the screen.
LEMMA PanicCode ==
  \E t, e, u : /\ IsConcat(panic_handler, t, e) /\ IsConcat(u, t, Done)
              /\ Within(t, CoreCode) /\ Within(e, LastCode) /\ Code(u, 5) /\ Reads(t)
<1>1. PICK X, W, G, F, A, Z, uL, uV, H :
        /\ X = Deref("VGA") \o << <<"lock", "VGA">> >> /\ W = VgaWrite /\ G = Log
        /\ F = Deref("LOGGER") \o << <<"lock", "LOGGER">> >> /\ A = Alloc /\ Z = Font_new
        /\ uL = << <<"unlock", "LOGGER">> >> /\ uV = << <<"unlock", "VGA">> >> /\ H = Halt
  OBVIOUS
<1>2. /\ X \in Seq(Instruction) /\ W \in Seq(Instruction) /\ G \in Seq(Instruction)
      /\ F \in Seq(Instruction) /\ A \in Seq(Instruction) /\ Z \in Seq(Instruction)
      /\ uL \in Seq(Instruction) /\ uV \in Seq(Instruction) /\ H \in Seq(Instruction)
  <2>1. /\ X \in Seq(Instruction) /\ W \in Seq(Instruction) /\ G \in Seq(Instruction)
        /\ F \in Seq(Instruction) /\ A \in Seq(Instruction)
    BY <1>1, CoreSmall DEF Made
  <2>2. Z \in Seq(Instruction) /\ H \in Seq(Instruction)
    <3>1. Code(Z, 1) /\ Code(H, 12)
      BY <1>1, CodeSmall, CodeHalt
    <3> QED
      BY <3>1 DEF Code
  <2>3. <<"unlock", "LOGGER">> \in Instruction /\ <<"unlock", "VGA">> \in Instruction
    BY DEF Instruction, Locks, Lazies
  <2>4. uL \in Seq(Instruction) /\ uV \in Seq(Instruction)
    BY <1>1, <2>3, OnesIn
  <2> QED
    BY <2>1, <2>2, <2>4
<1>3. \A c, d \in Seq(Instruction) : c \o d \in Seq(Instruction)
  BY Concat DEF IsConcat
<1>4. PICK P, t, ZL, e, body, u, d :
        /\ P = (X \o W) \o G /\ t = P \o (F \o A) /\ ZL = Z \o uL /\ e = ZL \o H
        /\ body = (W \o G) \o ((F \o A) \o uL) /\ u = (X \o body) \o uV /\ d = uL \o uV
  OBVIOUS
<1>5. PICK XW, FA, FAL, WG : XW = X \o W /\ FA = F \o A /\ FAL = FA \o uL /\ WG = W \o G
  OBVIOUS
<1>6. XW \in Seq(Instruction) /\ FA \in Seq(Instruction) /\ WG \in Seq(Instruction)
      /\ ZL \in Seq(Instruction) /\ d \in Seq(Instruction)
  BY <1>2, <1>3, <1>4, <1>5
<1>7. P \in Seq(Instruction) /\ FAL \in Seq(Instruction) /\ e \in Seq(Instruction)
  BY <1>2, <1>3, <1>4, <1>5, <1>6
<1>8. t \in Seq(Instruction) /\ body \in Seq(Instruction)
  BY <1>3, <1>4, <1>5, <1>6, <1>7
<1>9. panic_handler = t \o e
  <2>1. panic_handler = (P \o ((F \o W) \o uL)) \o H
    BY <1>1, <1>4 DEF panic_handler, Use
  <2>2. W = A \o Z
    BY <1>1 DEF VgaWrite
  <2>3. F \o (A \o Z) = FA \o Z
    <3>1. F \in Seq(Instruction) /\ A \in Seq(Instruction) /\ Z \in Seq(Instruction)
      BY <1>2
    <3>2. (F \o A) \o Z = F \o (A \o Z)
      BY <3>1, Assoc
    <3> QED
      BY <3>2, <1>5
  <2>4. (FA \o Z) \o uL = FA \o ZL
    <3>1. FA \in Seq(Instruction) /\ Z \in Seq(Instruction) /\ uL \in Seq(Instruction)
      BY <1>2, <1>6
    <3>2. (FA \o Z) \o uL = FA \o (Z \o uL)
      BY <3>1, Assoc
    <3> QED
      BY <3>2, <1>4
  <2>5. P \o (FA \o ZL) = t \o ZL
    <3>1. P \in Seq(Instruction) /\ FA \in Seq(Instruction) /\ ZL \in Seq(Instruction)
      BY <1>6, <1>7
    <3>2. (P \o FA) \o ZL = P \o (FA \o ZL)
      BY <3>1, Assoc
    <3> QED
      BY <3>2, <1>4, <1>5
  <2>6. (t \o ZL) \o H = t \o e
    <3>1. t \in Seq(Instruction) /\ ZL \in Seq(Instruction) /\ H \in Seq(Instruction)
      BY <1>2, <1>6, <1>8
    <3>2. (t \o ZL) \o H = t \o (ZL \o H)
      BY <3>1, Assoc
    <3> QED
      BY <3>2, <1>4
  <2> QED
    BY <2>1, <2>2, <2>3, <2>4, <2>5, <2>6
<1>10. u = t \o d
  <2>1. X \o body = (X \o WG) \o FAL
    <3>1. X \in Seq(Instruction) /\ WG \in Seq(Instruction) /\ FAL \in Seq(Instruction)
      BY <1>2, <1>6, <1>7
    <3>2. (X \o WG) \o FAL = X \o (WG \o FAL)
      BY <3>1, Assoc
    <3> QED
      BY <3>2, <1>4, <1>5
  <2>2. X \o WG = P
    <3>1. X \in Seq(Instruction) /\ W \in Seq(Instruction) /\ G \in Seq(Instruction)
      BY <1>2
    <3>2. (X \o W) \o G = X \o (W \o G)
      BY <3>1, Assoc
    <3> QED
      BY <3>2, <1>4, <1>5
  <2>3. P \o FAL = t \o uL
    <3>1. P \in Seq(Instruction) /\ FA \in Seq(Instruction) /\ uL \in Seq(Instruction)
      BY <1>2, <1>6, <1>7
    <3>2. (P \o FA) \o uL = P \o (FA \o uL)
      BY <3>1, Assoc
    <3> QED
      BY <3>2, <1>4, <1>5
  <2>4. (t \o uL) \o uV = t \o d
    <3>1. t \in Seq(Instruction) /\ uL \in Seq(Instruction) /\ uV \in Seq(Instruction)
      BY <1>2, <1>8
    <3>2. (t \o uL) \o uV = t \o (uL \o uV)
      BY <3>1, Assoc
    <3> QED
      BY <3>2, <1>4
  <2> QED
    BY <1>4, <2>1, <2>2, <2>3, <2>4
<1>11. d = Done
  BY <1>1, <1>4, PairOfOnes DEF Done
<1>12. IsConcat(panic_handler, t, e) /\ IsConcat(u, t, Done)
  <2>1. IsConcat(t \o e, t, e) /\ IsConcat(t \o d, t, d)
    BY <1>6, <1>7, <1>8, Concat
  <2> QED
    BY <1>9, <1>10, <1>11, <2>1
<1>13. Within(t, CoreCode) /\ Reads(t)
  <2>1. Made(X, CoreCode) /\ Made(W, CoreCode) /\ Made(G, CoreCode) /\ Made(F, CoreCode)
        /\ Made(A, CoreCode)
    BY <1>1, CoreSmall
  <2>2. ASSUME NEW c, NEW b, NEW s, Made(c, CoreCode), Made(b, CoreCode), s = c \o b
        PROVE  Made(s, CoreCode)
    BY <2>2, MadeOf
  <2>3. Made(XW, CoreCode) /\ Made(FA, CoreCode)
    BY <1>5, <2>1, <2>2
  <2>4. Made(P, CoreCode)
    BY <1>4, <1>5, <2>1, <2>2, <2>3
  <2>5. Made(t, CoreCode)
    BY <1>4, <1>5, <2>2, <2>3, <2>4
  <2>6. Includes(W, <<"force", "INITRD">>)
    BY <1>1, LogWaits
  <2>7. IsConcat(XW, X, W) /\ IsConcat(P, XW, G) /\ IsConcat(t, P, FA)
    BY <1>2, <1>4, <1>5, <1>6, <1>7, Concat
  <2>8. Includes(XW, <<"force", "INITRD">>)
    BY <2>6, <2>7, IncludesConcat
  <2>9. Includes(P, <<"force", "INITRD">>)
    BY <2>7, <2>8, IncludesConcat
  <2>10. Includes(t, <<"force", "INITRD">>)
    BY <2>7, <2>9, IncludesConcat
  <2> QED
    BY <2>5, <2>10 DEF Made, Reads
<1>14. Within(e, LastCode)
  <2>1. PICK f, m, l, c, h : /\ f = <<"force", "INITRD">> /\ m = <<"may", "panic">>
                             /\ l = <<"unlock", "LOGGER">> /\ c = <<"cli", "IF">> /\ h = <<"halt", "CPU">>
    OBVIOUS
  <2>2. {f, m, l, c, h} \subseteq Instruction \cap LastCode
    BY <2>1 DEF Instruction, LastCode, Locks, Lazies
  <2>3. Made(<<f>>, LastCode) /\ Made(<<m>>, LastCode) /\ Made(<<l>>, LastCode)
        /\ Made(<<c>>, LastCode) /\ Made(<<h>>, LastCode)
    BY <2>2, MadeOf
  <2>4. Z = <<f>> \o <<m>> /\ uL = <<l>> /\ H = <<c>> \o <<h>>
    BY <1>1, <2>1, PairOfOnes DEF Font_new, Deref, May, Halt
  <2>5. ASSUME NEW a, NEW b, NEW s, Made(a, LastCode), Made(b, LastCode), s = a \o b
        PROVE  Made(s, LastCode)
    BY <2>5, MadeOf
  <2>6. Made(Z, LastCode) /\ Made(H, LastCode) /\ Made(uL, LastCode)
    BY <2>3, <2>4, <2>5
  <2>7. Made(ZL, LastCode)
    BY <1>4, <2>5, <2>6
  <2>8. Made(e, LastCode)
    BY <1>4, <2>5, <2>6, <2>7
  <2> QED
    BY <2>8 DEF Made
<1>15. Code(u, 5)
  <2>1. Code(W, 8) /\ Code(G, 8)
    BY <1>1, CodeSmall
  <2>2. Code(FAL, 12)
    <3>1. FAL = Use("LOGGER", Alloc)
      BY <1>1, <1>5 DEF Use
    <3> QED
      BY <3>1, CodeUse, CodeAlloc, RankIs DEF Locks, Lazies
  <2>3. Code(FAL, 8)
    BY <2>2, CodeWeaken
  <2>4. Code(WG, 8)
    BY <1>5, <2>1, CodeConcat
  <2>5. Code(body, 8)
    BY <1>4, <1>5, <2>3, <2>4, CodeConcat
  <2>6. u = Use("VGA", body)
    BY <1>1, <1>4 DEF Use
  <2> QED
    BY <2>5, <2>6, CodeUse, RankIs DEF Locks, Lazies
<1> QED
  BY <1>12, <1>13, <1>14, <1>15

\* A panic that finds what it needs free starts reporting.
LEMMA ReportBegins ==
  ASSUME KInv, Tidy, panic
  PROVE  Reports'
<1>1. /\ fault.kind = "none" /\ todo # <<>> /\ Head(todo)[1] = "may" /\ fault' = Context("panic")
      /\ todo' = panic_handler /\ UNCHANGED <<held, lazy, isr, heap>>
  BY DEF panic, Does
<1>2. SUFFICES ASSUME ~Cornered' PROVE heap' = "ready" /\ \E t, e, u : ReportsBy(t, e, u)'
  BY DEF Reports
<1>3. heap = "ready" /\ Owned \cap {"VGA", "LOGGER", "INITRD"} = {}
  BY <1>1, <1>2 DEF Cornered, Context
<1>4. "HEAP" \notin held
  BY <1>1 DEF Tidy
<1>5. Live' = {}
  <2>1. Has' = Has
    BY <1>1 DEF Has
  <2>2. \A r \in Has : r[2] \notin Core
    BY <1>3, <1>4 DEF Has, Owned, Core, KInv, KTypeOK, Irq, Lazies
  <2> QED
    BY <2>1, <2>2 DEF Live
<1>6. PICK t, e, u : /\ IsConcat(panic_handler, t, e) /\ IsConcat(u, t, Done)
                     /\ Within(t, CoreCode) /\ Within(e, LastCode) /\ Code(u, 5) /\ Reads(t)
  BY PanicCode
<1>7. Sound(u, Live')
  BY <1>5, <1>6 DEF Sound, Code
<1>8. ReportsBy(t, e, u)'
  BY <1>1, <1>6, <1>7 DEF ReportsBy
<1> QED
  BY <1>1, <1>3, <1>8

\* The next instruction of a report that is not in its last part
LEMMA ReportNext ==
  ASSUME KInv, NEW t, NEW e, NEW u, ReportsBy(t, e, u), t # <<>>
  PROVE  /\ todo # <<>> /\ u # <<>> /\ Head(todo) = Head(t) /\ Head(u) = Head(t)
         /\ Head(t) \in CoreCode /\ Within(Tail(t), CoreCode)
         /\ IsConcat(Tail(todo), Tail(t), e) /\ IsConcat(Tail(u), Tail(t), Done)
         /\ t \in Seq(Instruction) /\ u \in Seq(Instruction)
         /\ enabled = FALSE
         /\ Reads(t) /\ Head(t) \notin {<<"force", "INITRD">>, <<"ready", "INITRD">>} => Reads(Tail(t))
<1>1. t \in Seq(Instruction) /\ u \in Seq(Instruction)
  BY DEF ReportsBy, IsConcat
<1>2. todo # <<>> /\ u # <<>> /\ Head(todo) = Head(t) /\ Head(u) = Head(t)
      /\ IsConcat(Tail(todo), Tail(t), e) /\ IsConcat(Tail(u), Tail(t), Done)
  BY ConcatTail DEF ReportsBy
<1>3. Head(t) \in CoreCode /\ Within(Tail(t), CoreCode)
  BY <1>1, WithinTail DEF ReportsBy
<1>4. enabled = FALSE
  <2>1. Head(todo)[1] # "hlt"
    BY <1>2, <1>3 DEF CoreCode
  <2> QED
    BY <1>2, <2>1, Disabled
<1>5. Reads(t) /\ Head(t) \notin {<<"force", "INITRD">>, <<"ready", "INITRD">>} => Reads(Tail(t))
  BY <1>1, WithinTail DEF Reads
<1> QED
  BY <1>1, <1>2, <1>3, <1>4, <1>5

\* It is executed.
LEMMA ReportTail ==
  ASSUME KInv, NEW t, NEW e, NEW u, ReportsBy(t, e, u), t # <<>>, todo' = Tail(todo),
         Leaves(Head(todo), Has, Has'),
         lazy["INITRD"] = "ready" => lazy'["INITRD"] = "ready",
         Head(todo) \in {<<"force", "INITRD">>, <<"ready", "INITRD">>} => lazy'["INITRD"] = "ready"
  PROVE  ReportsBy(Tail(t), e, Tail(u))'
<1>1. /\ todo # <<>> /\ u # <<>> /\ Head(todo) = Head(t) /\ Head(u) = Head(t)
      /\ Head(t) \in CoreCode /\ Within(Tail(t), CoreCode)
      /\ IsConcat(Tail(todo), Tail(t), e) /\ IsConcat(Tail(u), Tail(t), Done)
      /\ t \in Seq(Instruction) /\ u \in Seq(Instruction)
      /\ Reads(t) /\ Head(t) \notin {<<"force", "INITRD">>, <<"ready", "INITRD">>} => Reads(Tail(t))
  BY ReportNext
<1>2. Leaves(Head(u), Live, Live')
  <2>1. PICK h : h = Head(todo) /\ h = Head(u) /\ h \in CoreCode
    BY <1>1
  <2>2. \A r \in Resource : Takes(h, r) => r[2] \in Core
    BY <2>1 DEF Takes, CoreCode, Core
  <2>3. Leaves(h, Has, Has')
    BY <2>1
  <2>4. Leaves(h, Live, Live')
    BY <2>2, <2>3 DEF Leaves, Live
  <2> QED
    BY <2>1, <2>4
<1>3. Sound(Tail(u), Live')
  BY <1>1, <1>2, SoundTail DEF ReportsBy
<1>4. lazy'["INITRD"] = "ready" \/ Reads(Tail(t))
  BY <1>1 DEF ReportsBy
<1> QED
  BY <1>1, <1>3, <1>4 DEF ReportsBy

\* It is a static that has not been initialised.
LEMMA ReportForce ==
  ASSUME KInv, NEW t, NEW e, NEW u, ReportsBy(t, e, u), t # <<>>, force, lazy[Arg] # "ready"
  PROVE  \E v, w : ReportsBy(v, e, w)'
<1>1. /\ todo # <<>> /\ u # <<>> /\ Head(todo) = Head(t) /\ Head(u) = Head(t)
      /\ Head(t) \in CoreCode /\ Within(Tail(t), CoreCode)
      /\ IsConcat(Tail(todo), Tail(t), e) /\ IsConcat(Tail(u), Tail(t), Done)
      /\ t \in Seq(Instruction) /\ u \in Seq(Instruction)
      /\ Reads(t) /\ Head(t) \notin {<<"force", "INITRD">>, <<"ready", "INITRD">>} => Reads(Tail(t))
  BY ReportNext
<1>2. PICK x \in {"VGA", "INITRD", "LOGGER"} : x = Arg /\ Head(t) = <<"force", x>>
  BY <1>1 DEF force, Does, Arg, CoreCode
<1>3. PICK c : c = InitCode(x) \o << <<"ready", x>> >>
  OBVIOUS
<1>4. /\ todo' = c \o Tail(todo) /\ lazy' = [lazy EXCEPT ![x] = "running"] /\ UNCHANGED <<held, isr, heap>>
  BY <1>2, <1>3 DEF force
<1>5. /\ c \in Seq(Instruction) /\ Matched(c) /\ Even(c) /\ Ranked(c) /\ From(c, Rank[x])
      /\ \A r \in Resource : Owes(c, 1, r) <=> r = <<"lazy", x>>
  <2>1. x \in Lazies
    BY DEF Lazies
  <2> QED
    BY <1>3, <2>1, InitPush
<1>6. Within(c, CoreCode)
  BY <1>3, CoreSmall DEF Made
<1>7. PICK v, w : v = c \o Tail(t) /\ w = c \o Tail(u)
  OBVIOUS
<1>8. IsConcat(todo', c, Tail(todo)) /\ IsConcat(v, c, Tail(t)) /\ IsConcat(w, c, Tail(u))
  <2>1. /\ Tail(todo) \in Seq(Instruction) /\ Tail(t) \in Seq(Instruction)
        /\ Tail(u) \in Seq(Instruction)
    BY <1>1 DEF IsConcat
  <2> QED
    BY <1>4, <1>5, <1>7, <2>1, Concat
<1>9. IsConcat(todo', v, e) /\ IsConcat(w, v, Done) /\ Within(v, CoreCode)
  BY <1>1, <1>6, <1>8, ConcatPush, WithinConcat
<1>10. Sound(w, Live')
  <2>1. PICK h : h = Head(u) /\ h[1] = "force" /\ h[2] = x
    BY <1>1, <1>2
  <2>2. Leaves(h, Live, Live)
    BY <2>1 DEF Leaves, Takes, Gives
  <2>3. Sound(Tail(u), Live)
    BY <1>1, <2>1, <2>2, SoundTail DEF ReportsBy
  <2>4. \A r \in Resource : Owes(Tail(u), 1, r) => Rank[r[2]] < Rank[x]
    <3>1. h = u[1] /\ 1 \in 1..Len(u) /\ Asks(h) /\ Wanted(h) = x
      BY <1>1, <2>1, HeadTail DEF Asks, Wanted
    <3>2. \A r \in Resource : Owes(Tail(u), 1, r) => Owes(u, 1, r)
      BY <2>3 DEF Sound, ReportsBy
    <3> QED
      BY <3>1, <3>2 DEF ReportsBy, Sound, Ranked
  <2>5. \A r \in Resource : r \in Live' <=> r \in Live \/ Owes(c, 1, r)
    <3>1. /\ <<"lazy", x>> \in Has' /\ x \in Core
          /\ \A r \in Has' : r \in Has \/ r = <<"lazy", x>>
          /\ \A r \in Has : r \in Has'
      BY <1>4 DEF Has, KInv, KTypeOK, Lazies, Core
    <3> QED
      BY <1>5, <3>1 DEF Live
  <2>6. Rank[x] \in Nat
    BY RankIs DEF Lazies
  <2> QED
    BY <1>5, <1>8, <2>3, <2>4, <2>5, <2>6, SoundPush
<1>11. lazy'["INITRD"] = "ready" \/ Reads(v)
  <2>1. CASE x = "INITRD"
    <3>1. PICK a, b : a = InitCode(x) /\ b = << <<"ready", x>> >>
      OBVIOUS
    <3>2. IsConcat(c, a, b) /\ Includes(b, <<"ready", "INITRD">>)
      <4>1. <<"ready", x>> \in Instruction /\ a \in Seq(Instruction)
        BY <2>1, <3>1, CodeInit DEF Code, Instruction, Lazies
      <4>2. b \in Seq(Instruction)
        BY <3>1, <4>1, OnesIn
      <4>3. IsConcat(a \o b, a, b)
        BY <4>1, <4>2, Concat
      <4>4. Len(b) = 1 /\ b[1] = <<"ready", "INITRD">>
        BY <2>1, <3>1
      <4> QED
        BY <1>3, <3>1, <4>3, <4>4 DEF Includes
    <3>3. Includes(c, <<"ready", "INITRD">>)
      BY <3>2, IncludesConcat
    <3>4. Includes(v, <<"ready", "INITRD">>)
      BY <1>8, <3>3, IncludesConcat
    <3> QED
      BY <3>4 DEF Reads
  <2>2. CASE x # "INITRD"
    <3>1. lazy["INITRD"] = "ready" => lazy'["INITRD"] = "ready"
      BY <1>4, <2>2 DEF KInv, KTypeOK, Lazies
    <3>2. Reads(t) => Reads(Tail(t))
      BY <1>1, <1>2, <2>2
    <3>3. Reads(Tail(t)) => Reads(v)
      BY <1>8, IncludesConcat DEF Reads
    <3> QED
      BY <3>1, <3>2, <3>3 DEF ReportsBy
  <2> QED
    BY <2>1, <2>2
<1>12. ReportsBy(v, e, w)'
  BY <1>9, <1>10, <1>11 DEF ReportsBy
<1> QED
  BY <1>12

\* The last part of a report waits for nothing.
LEMMA ReportEnds ==
  ASSUME KInv, [KNext]_kvars, fault.kind = "panic", lazy["INITRD"] = "ready", Within(todo, LastCode)
  PROVE  lazy'["INITRD"] = "ready" /\ Within(todo', LastCode)
<1>1. todo \in Seq(Instruction)
  BY DEF KInv, KTypeOK
<1>2. todo # <<>> => Head(todo) \in LastCode /\ Within(Tail(todo), LastCode)
  BY <1>1, WithinTail
<1>3. enabled = FALSE
  <2>1. todo # <<hlt>>
    <3>1. todo = <<hlt>> => Head(todo) = hlt /\ todo # <<>>
      OBVIOUS
    <3>2. hlt \notin LastCode
      BY DEF hlt, LastCode
    <3> QED
      BY <1>2, <3>1, <3>2
  <2> QED
    BY <2>1 DEF KInv, KTypeOK, Masked
<1>4. ~timer_interrupt /\ ~keyboard_interrupt /\ ~serial_interrupt
  BY <1>3 DEF timer_interrupt, keyboard_interrupt, serial_interrupt, Interrupt
<1>5. CASE Step
  <2>1. todo # <<>> /\ Head(todo)[1] \in {"may", "unlock", "cli", "halt", "force"}
        /\ (Head(todo)[1] = "force" => Head(todo)[2] = "INITRD")
    <3>1. todo # <<>>
      BY <1>5 DEF Step, force, ready, lock, unlock, alloc, succeed, heap_init, lgdt, set_reg, star,
         load, sti, cli, eoi, iret, add_kernel, timer_increment, scheduler_tick, scheduler_fork,
         trap_again, Does
    <3> QED
      BY <1>2, <3>1 DEF LastCode
  <2>2. succeed \/ unlock \/ cli \/ force
    BY <1>5, <2>1 DEF Step, ready, lock, alloc, heap_init, lgdt, set_reg, star,
       load, sti, eoi, iret, add_kernel, timer_increment, scheduler_tick, scheduler_fork,
       trap_again, Does
  <2>3. todo' = Tail(todo) /\ lazy' = lazy
    BY <2>1, <2>2 DEF succeed, unlock, cli, force, Arg, Does
  <2> QED
    BY <1>2, <2>1, <2>3
<1>6. CASE ~Step
  <2>1. todo' = todo /\ lazy' = lazy
    BY <1>4, <1>6, FaultStep DEF KNext, trap_fills_heap, kvars
  <2> QED
    BY <2>1
<1> QED
  BY <1>5, <1>6

\* And before that, for nothing that it does not get.
LEMMA ReportGoesOn ==
  ASSUME KInv, [KNext]_kvars, fault.kind = "panic", heap = "ready",
         NEW t, NEW e, NEW u, ReportsBy(t, e, u), t # <<>>
  PROVE  \E v, w : ReportsBy(v, e, w)'
<1>1. todo # <<>> /\ Head(todo) \in CoreCode /\ enabled = FALSE /\ todo \in Seq(Instruction)
      /\ lazy \in [Lazies -> {"no", "running", "ready"}] /\ "INITRD" \in Lazies
  BY ReportNext DEF KInv, KTypeOK, Lazies
<1>2. Head(todo)[1] \in {"force", "ready", "lock", "unlock", "alloc", "may"}
      /\ Head(todo) = <<Head(todo)[1], Arg>>
  BY <1>1, HeadTail, InstructionIs DEF CoreCode, Arg
<1>3. ~timer_interrupt /\ ~keyboard_interrupt /\ ~serial_interrupt
  BY <1>1 DEF timer_interrupt, keyboard_interrupt, serial_interrupt, Interrupt
<1>4. CASE force /\ lazy[Arg] # "ready"
  BY <1>4, ReportForce
<1>5. CASE (force /\ lazy[Arg] = "ready") \/ succeed
  <2>1. todo' = Tail(todo) /\ UNCHANGED <<held, lazy, isr>> /\ Head(todo)[1] \in {"force", "may"}
        /\ (Head(todo)[1] = "force" => lazy[Arg] = "ready")
    BY <1>5 DEF force, succeed, Does
  <2>2. Has' = Has
    BY <2>1 DEF Has
  <2>3. Leaves(Head(todo), Has, Has')
    <3>1. \A r : ~Takes(Head(todo), r) /\ ~Gives(Head(todo), r)
      BY <2>1 DEF Takes, Gives
    <3> QED
      BY <2>2, <3>1 DEF Leaves
  <2>4. Head(todo) \in {<<"force", "INITRD">>, <<"ready", "INITRD">>} => lazy'["INITRD"] = "ready"
    BY <1>2, <2>1
  <2> QED
    BY <2>1, <2>3, <2>4, ReportTail
<1>6. CASE ready \/ lock \/ unlock \/ alloc
  <2>1. Leaves(Head(todo), Has, Has')
    BY <1>6, OwningLeaves DEF KInv
  <2>2. todo' = Tail(todo) /\ Head(todo)[1] # "force"
    BY <1>6 DEF ready, lock, unlock, alloc, Does
  <2>3. lazy["INITRD"] = "ready" => lazy'["INITRD"] = "ready"
    BY <1>1, <1>6 DEF ready, lock, unlock, alloc
  <2>4. Head(todo) \in {<<"force", "INITRD">>, <<"ready", "INITRD">>} => lazy'["INITRD"] = "ready"
    BY <1>1, <1>2, <1>6, <2>2 DEF ready, lock, unlock, alloc, Does
  <2> QED
    BY <2>1, <2>2, <2>3, <2>4, ReportTail
<1>7. CASE ~force /\ ~succeed /\ ~ready /\ ~lock /\ ~unlock /\ ~alloc
  <2>1. ~Step
    BY <1>2, <1>7 DEF Step, heap_init, lgdt, set_reg, star,
       load, sti, cli, eoi, iret, add_kernel, timer_increment, scheduler_tick, scheduler_fork,
       trap_again, Does
  <2>2. UNCHANGED <<todo, held, lazy, isr>>
    BY <1>3, <2>1, FaultStep DEF KNext, trap_fills_heap, kvars
  <2>3. Live' = Live
    BY <2>2 DEF Live, Has
  <2>4. ReportsBy(t, e, u)'
    BY <2>2, <2>3 DEF ReportsBy
  <2> QED
    BY <2>4
<1> QED
  BY <1>4, <1>5, <1>6, <1>7

\* Every step keeps the report going.
LEMMA ReportStep ==
  ASSUME KInv, Tidy, Reports, [KNext]_kvars
  PROVE  Reports'
<1>1. CASE panic
  BY <1>1, ReportBegins
<1>2. CASE ~panic
  <2> SUFFICES ASSUME fault'.kind = "panic", ~Cornered'
               PROVE  /\ heap' = "ready"
                      /\ \/ lazy'["INITRD"] = "ready" /\ Within(todo', LastCode)
                         \/ \E t, e, u : ReportsBy(t, e, u)'
    BY DEF Reports
  <2>1. fault' = fault /\ ~oom
    BY <1>2, FaultStep DEF Context
  <2>2. fault.kind = "panic" /\ ~Cornered
    BY <2>1 DEF Cornered
  <2>3. heap = "ready" /\ \/ lazy["INITRD"] = "ready" /\ Within(todo, LastCode)
                          \/ \E t, e, u : ReportsBy(t, e, u)
    BY <2>2 DEF Reports
  <2>4. heap' = "ready"
    BY <2>1, <2>2, <2>3, HeapStep DEF trap_fills_heap, heap_init
  <2>5. CASE lazy["INITRD"] = "ready" /\ Within(todo, LastCode)
    BY <2>2, <2>4, <2>5, ReportEnds
  <2>6. ASSUME NEW t, NEW e, NEW u, ReportsBy(t, e, u), t = <<>>
        PROVE  lazy["INITRD"] = "ready" /\ Within(todo, LastCode)
    <3>1. Len(t) = 0
      BY <2>6
    <3>2. ~Reads(t)
      BY <3>1 DEF Reads, Includes
    <3>3. Within(t, LastCode)
      BY <3>1 DEF Within
    <3> QED
      BY <2>6, <3>2, <3>3, WithinConcat DEF ReportsBy
  <2>7. ASSUME NEW t, NEW e, NEW u, ReportsBy(t, e, u), t # <<>>
        PROVE  \E v, f, w : ReportsBy(v, f, w)'
    BY <2>2, <2>3, <2>7, ReportGoesOn
  <2> QED
    BY <2>2, <2>3, <2>4, <2>5, <2>6, <2>7
<1> QED
  BY <1>1, <1>2

\* It holds in every state.
LEMMA ReportInvariant == KSpec => [](KInv /\ Tidy /\ Reports)
<1>1. KInit => KInv /\ Tidy /\ Reports
  <2>1. KInit => Reports
    BY DEF KInit, Reports
  <2> QED
    BY <2>1, KInvInit, TidyInit
<1>2. KInv /\ Tidy /\ Reports /\ [KNext]_kvars => (KInv /\ Tidy /\ Reports)'
  BY KInvStep, TidyStep, ReportStep
<1> QED
  BY <1>1, <1>2, PTL DEF KSpec

\* A report does not wait.
LEMMA ReportRuns ==
  ASSUME KInv, Reports, fault.kind = "panic", ~Cornered
  PROVE  ~Spinning
<1>1. todo \in Seq(Instruction)
  BY DEF KInv, KTypeOK
<1>2. ASSUME lazy["INITRD"] = "ready", Within(todo, LastCode) PROVE ~Spinning
  <2>1. todo # <<>> => Head(todo) \in LastCode
    BY <1>1, <1>2, WithinTail
  <2> QED
    BY <1>2, <2>1 DEF Spinning, Does, Arg, LastCode
<1>3. ASSUME NEW t, NEW e, NEW u, ReportsBy(t, e, u), t = <<>> PROVE ~Spinning
  <2>1. Len(t) = 0
    BY <1>3
  <2>2. ~Reads(t) /\ Within(t, LastCode)
    BY <2>1 DEF Reads, Includes, Within
  <2> QED
    BY <1>2, <1>3, <2>2, WithinConcat DEF ReportsBy
<1>4. ASSUME NEW t, NEW e, NEW u, ReportsBy(t, e, u), t # <<>>, Spinning PROVE FALSE
  <2>1. u # <<>> /\ u \in Seq(Instruction) /\ Head(todo) = Head(u) /\ Head(todo) \in CoreCode
    BY <1>4, ReportNext
  <2>2. PICK h : h = Head(u)
    OBVIOUS
  <2>3. PICK r \in Resource : r \in Live /\ r[2] = h[2] /\ h[1] \in {"lock", "force"}
    <3>1. CASE h[1] = "lock" /\ h[2] \in held
      <4>1. <<"lock", h[2]>> \in Resource /\ <<"lock", h[2]>> \in Live
        BY <2>1, <2>2, <3>1 DEF Resource, Live, Has, CoreCode, Core, Locks, Lazies
      <4> QED
        BY <3>1, <4>1
    <3>2. CASE h[1] = "force" /\ lazy[h[2]] = "running"
      <4>1. <<"lazy", h[2]>> \in Resource /\ <<"lazy", h[2]>> \in Live
        BY <2>1, <2>2, <3>2 DEF Resource, Live, Has, CoreCode, Core, Lazies
      <4> QED
        BY <3>2, <4>1
    <3> QED
      BY <1>4, <2>1, <2>2, <3>1, <3>2 DEF Spinning, Does, Arg
  <2>4. h = u[1] /\ 1 \in 1..Len(u) /\ Asks(h) /\ Wanted(h) = h[2]
    BY <2>1, <2>2, <2>3, HeadTail DEF Asks, Wanted
  <2>5. Owes(u, 1, r)
    BY <1>4, <2>3 DEF ReportsBy, Sound
  <2>6. Rank[r[2]] < Rank[r[2]]
    BY <1>4, <2>3, <2>4, <2>5 DEF ReportsBy, Sound, Ranked
  <2>7. Rank[r[2]] \in Nat
    BY RankIs DEF Resource
  <2> QED
    BY <2>6, <2>7
<1> QED
  BY <1>2, <1>3, <1>4 DEF Reports

\* A single fault makes the kernel wait for ever only where it finds its own
\* handler's resources taken: a panic that finds the screen, the logger, the
\* ramdisk and memory, and an exception that finds the logger and the
\* allocator, run to their end.
THEOREM SpinsCornered == KSpec => []SpinsOnlyIfCornered
<1>1. ASSUME KInv, Tidy, Reports, FaultFree PROVE SpinsOnlyIfCornered
  <2> SUFFICES ASSUME Spinning, ~Cornered PROVE FALSE
    BY DEF SpinsOnlyIfCornered
  <2>1. fault.kind # "panic"
    BY <1>1, ReportRuns
  <2>2. ~Unhurt
    BY <1>1 DEF FaultFree
  <2>3. fault.kind \in Fault \cup {"none"}
    BY <1>1 DEF Tidy
  <2> QED
    BY <2>1, <2>2, <2>3 DEF Unhurt, Fault, Cornered
<1> QED
  BY <1>1, ReportInvariant, OrderUntilFault, PTL

=============================================================================
