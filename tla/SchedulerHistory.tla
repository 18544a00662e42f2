-------------------------- MODULE SchedulerHistory --------------------------
(***************************************************************************)
(* The scheduler with two history variables, which record what happened    *)
(* and restrict nothing: the ticks of the current time slice and the       *)
(* processes that have been at the front of the queue.                     *)
(***************************************************************************)
EXTENDS Scheduler

VARIABLES slice,   \* timer ticks since the quantum was last loaded
          ran      \* ids of the processes that have ever had the CPU

hvars == <<vars, slice, ran>>

HInit ==
  /\ Init
  /\ slice = 0
  /\ ran = {1}

HTimerInterrupt ==
  /\ TimerInterrupt
  /\ slice' = IF remaining = 0 THEN 0 ELSE slice + 1
  /\ ran' = ran \cup {queue'[1].id}

HFork ==
  /\ fork
  /\ UNCHANGED <<slice, ran>>

HNext == HTimerInterrupt \/ HFork

HSpec == HInit /\ [][HNext]_hvars /\ WF_hvars(HTimerInterrupt)

-----------------------------------------------------------------------------

HTypeOK ==
  /\ TypeOK
  /\ slice \in 0..Quantum
  /\ ran \subseteq 1..MaxProcesses

\* Only a process that never had the CPU can be Running in line: fork clones
\* the Running state of the front process, and schedule() stops a process for
\* good the first time it preempts it.
PreemptedStopped ==
  \A i \in 2..Len(queue) : queue[i].id \in ran => queue[i].state = Stopped

\* So the Running children that fork leaves in line are transient: when the
\* forks end, one process, the front one, remains Running.
SettlesToOneRunning ==
  (Len(queue) = MaxProcesses) ~>
     [](\A i \in 2..Len(queue) : queue[i].state = Stopped)

\* A time slice ends on the tick after the counter has gone through all of
\* quantum..0: it lasts Quantum + 1 ticks, no more and no fewer, and neither
\* a fork nor the wrap of the tick counter stretches it.
SliceIsQuantumPlusOne ==
  [][elapsed' # elapsed => (remaining' = Quantum <=> slice = Quantum)]_hvars

\* What Scheduler::new announces: "a quantum of {quantum} ticks". A slice ends
\* (the quantum is reloaded) with its Quantum-th tick.
SliceIsQuantum ==
  [][slice' < slice => slice + 1 = Quantum]_hvars

=============================================================================
