------------------------------ MODULE Scheduler ------------------------------
(***************************************************************************)
(* The process scheduler and what drives it: kernel/src/scheduler.rs with  *)
(* the Process and State of process.rs, the tick counter of timer.rs, the  *)
(* fork system call of syscall.rs and the timer interrupt handler of       *)
(* interrupts.rs.                                                          *)
(*                                                                         *)
(* Every operation below runs under the SCHEDULER mutex in a handler that  *)
(* the processor entered with interrupts disabled, so each is one step;    *)
(* module Kernel models the locks and the interrupt flag themselves.       *)
(* A process keeps its id and its state: its name and its context are      *)
(* copied by fork and never read, so they are left out.                    *)
(***************************************************************************)
EXTENDS Integers, Sequences

CONSTANTS Quantum,      \* Scheduler::new(100): the argument, a u32
          TickModulus,  \* 2^32: TIMER.elapsed is an AtomicU32
          MaxProcesses  \* bound on the queue; in the code only the heap bounds it

ASSUME SchedulerAssumption ==
  /\ Quantum \in Nat
  /\ TickModulus \in Nat \ {0}
  /\ MaxProcesses \in Nat \ {0}

VARIABLES queue,        \* Scheduler.queue, a VecDeque<Process>; queue[1] is its front
          remaining,    \* Scheduler.remaining
          elapsed       \* Timer.elapsed

vars == <<queue, remaining, elapsed>>

Running == "Running"
Stopped == "Stopped"
State == {Running, Stopped}

Process == [id : Nat, state : State]

\* The ids of the processes in a queue (Process::get_id)
Ids(q) == {q[i].id : i \in 1..Len(q)}

-----------------------------------------------------------------------------
(***************************************************************************)
(* The queue operations, as functions of the queue.                        *)
(***************************************************************************)

\* Process::set_state and Process::set_id
set_state(process, state) == [id |-> process.id, state |-> state]
set_id(process, id) == [id |-> id, state |-> process.state]

\* push_back of a new process
add(q, process) == Append(q, process)

\* Forgets to stop the process that goes to the back.
schedule_NoStop(q) ==
  LET rotated == Append(Tail(q), Head(q))
  IN  [rotated EXCEPT ![1] = set_state(rotated[1], Running)]

\* Stops the process that goes to the back but does not start the next one.
schedule_NoStart(q) ==
  LET rotated == Append(Tail(q), Head(q))
  IN  [rotated EXCEPT ![Len(q)] = set_state(rotated[Len(q)], Stopped)]

\* Exchanges the two ends of the queue instead of rotating it.
schedule_SwapEnds(q) ==
  [q EXCEPT ![1] = set_state(q[Len(q)], Running),
            ![Len(q)] = set_state(q[1], Stopped)]

\* schedule: the front process goes to the back and is stopped, then the new
\* front is started.
schedule(q) ==
  LET rotated == Append(Tail(q), Head(q))
      stopped == [rotated EXCEPT ![Len(q)] = set_state(rotated[Len(q)], Stopped)]
  IN  [stopped EXCEPT ![1] = set_state(stopped[1], Running)]

\* Names the child after its parent, not after the queue's length.
forked_ParentId(q) == set_id(Head(q), Head(q).id + 1)

\* The child: a clone of the front process, its state included, with a new id.
forked(q) == set_id(Head(q), Len(q) + 1)

-----------------------------------------------------------------------------

\* scheduler::initialize has added the kernel process; no timer interrupt yet.
Init ==
  /\ queue = <<[id |-> 1, state |-> Running]>>
  /\ remaining = Quantum
  /\ elapsed = 0

\* Timer::increment: fetch_add wraps.
increment == elapsed' = (elapsed + 1) % TickModulus

\* Counts down past zero.
Countdown_Underflow ==
  /\ remaining' = remaining - 1
  /\ UNCHANGED queue

\* Scheduler::tick inside a quantum
Countdown ==
  /\ remaining # 0
  /\ remaining' = remaining - 1
  /\ UNCHANGED queue

\* Scheduler::tick at the end of a quantum, with somebody to swap with
Swap ==
  /\ remaining = 0
  /\ Len(queue) >= 2
  /\ queue' = schedule(queue)
  /\ remaining' = Quantum

\* Scheduler::tick at the end of a quantum with one process: a warning only
NoSwap ==
  /\ remaining = 0
  /\ Len(queue) < 2
  /\ remaining' = Quantum
  /\ UNCHANGED queue

\* Never reloads the quantum.
tick_NoReload ==
  \/ Countdown
  \/ remaining = 0 /\ UNCHANGED <<queue, remaining>>

tick == Countdown \/ Swap \/ NoSwap

\* timer_handler
TimerInterrupt == increment /\ tick

\* Puts the child first in line instead of last.
fork_PushFront ==
  /\ Len(queue) \in 1..MaxProcesses - 1
  /\ queue' = <<Head(queue), forked(queue)>> \o Tail(queue)
  /\ UNCHANGED <<remaining, elapsed>>

\* Scheduler::fork, called by the shell's fork command; front().unwrap()
\* needs a process in the queue.
fork ==
  /\ Len(queue) \in 1..MaxProcesses - 1
  /\ queue' = add(queue, forked(queue))
  /\ UNCHANGED <<remaining, elapsed>>

Next == TimerInterrupt \/ fork

Spec == Init /\ [][Next]_vars

\* The PIT keeps interrupting (its line is unmasked and tick() halts with
\* interrupts enabled); nobody has to type fork.
FairSpec == Spec /\ WF_vars(TimerInterrupt)

-----------------------------------------------------------------------------
(***************************************************************************)
(* Properties.                                                             *)
(***************************************************************************)

TypeOK ==
  /\ queue \in Seq(Process)
  /\ Len(queue) \in 1..MaxProcesses
  /\ remaining \in 0..Quantum
  /\ elapsed \in 0..TickModulus - 1

\* The ids in the queue are exactly 1..len, each once, whatever the rotation:
\* this is why len + 1 in Scheduler::fork is always a fresh id.
Dense(q) ==
  /\ Ids(q) = 1..Len(q)
  /\ \A i, j \in 1..Len(q) : q[i].id = q[j].id => i = j

PidsDense == Dense(queue)

\* The process at the front, the one fork clones and schedule() preempts, is
\* Running.
FrontRunning == queue[1].state = Running

\* Two processes in line in q are in line in the same order in r.
InOrder(q, r) ==
  \A i, j \in 1..Len(q) :
    1 < i /\ i < j => \E k, l \in 1..Len(r) : /\ k < l
                                             /\ r[k].id = q[i].id
                                             /\ r[l].id = q[j].id

\* A step may move only the front process behind another one: no operation
\* lets a process overtake one that was ahead of it in line.
NoOvertaking == [][InOrder(queue, queue')]_vars

\* The ids in line behind the front process
Line(q) == [i \in 1..Len(q) - 1 |-> q[i + 1].id]

\* The scheduler implements the abstract round robin, fairness included: ids
\* are fresh, the order is first come first served, and the CPU changes hands
\* for ever while there is a second process.
RR == INSTANCE RoundRobin WITH
        Pid     <- 1..MaxProcesses,
        current <- queue[1].id,
        waiting <- Line(queue)

ImplementsRoundRobin == RR!Spec
ImplementsFairRoundRobin == RR!FairSpec

\* Every process gets the CPU again and again (timer_handler, schedule).
NoStarvation ==
  \A p \in 1..MaxProcesses : [](p \in Ids(queue) => <>(queue[1].id = p))

=============================================================================
