----------------------------- MODULE RoundRobin -----------------------------
(***************************************************************************)
(* What a round-robin scheduler promises, without quanta, ticks or process *)
(* states: one process has the CPU, the others wait in line, a switch      *)
(* hands the CPU to the head of the line and sends its holder to the end,  *)
(* and a new process joins at the end under a name nobody else has.        *)
(***************************************************************************)
EXTENDS Integers, Sequences

CONSTANT Pid                 \* the process identifiers

VARIABLES current,           \* the process that has the CPU
          waiting            \* the processes in line for it, first comes first

vars == <<current, waiting>>

Present == {current} \cup {waiting[i] : i \in 1..Len(waiting)}

Init ==
  /\ current \in Pid
  /\ waiting = <<>>

Switch ==
  /\ waiting # <<>>
  /\ current' = Head(waiting)
  /\ waiting' = Append(Tail(waiting), current)

Spawn ==
  /\ \E p \in Pid \ Present : waiting' = Append(waiting, p)
  /\ UNCHANGED current

Next == Switch \/ Spawn

Spec == Init /\ [][Next]_vars

\* The CPU keeps changing hands while somebody waits for it.
FairSpec == Spec /\ WF_vars(Switch)

=============================================================================
