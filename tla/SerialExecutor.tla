---------------------------- MODULE SerialExecutor ----------------------------
(***************************************************************************)
(* What the executor of Engine/Components/Async promises its clients, with *)
(* no threads, locks or semaphores: each queue runs its instructions one   *)
(* at a time, in the order they were queued and each at most once; the     *)
(* instructions of a cache queue may be withdrawn at any moment, those of  *)
(* any other queue are dropped only while none of them is running.         *)
(***************************************************************************)
EXTENDS Naturals, Sequences

CONSTANTS
  Queue,      \* the queues
  Instr,      \* instruction identities
  Resident,   \* queues whose head is run again and again
  Cancellable,\* queues whose pending instructions may be withdrawn
  None        \* no instruction is running

VARIABLES pending, running

absVars == <<pending, running>>

\* t is what is left of s when some of its elements are withdrawn.
Remains(t, s) ==
  \E keep \in [1..Len(t) -> 1..Len(s)] :
    /\ \A i, j \in 1..Len(t) : i < j => keep[i] < keep[j]
    /\ \A i \in 1..Len(t) : t[i] = s[keep[i]]

Init ==
  /\ pending = [qq \in Queue |-> <<>>]
  /\ running = [qq \in Queue |-> None]

Submit(qq, i) ==
  /\ pending' = [pending EXCEPT ![qq] = Append(@, i)]
  /\ UNCHANGED running

Start(qq) ==
  /\ running[qq] = None
  /\ pending[qq] # <<>>
  /\ running' = [running EXCEPT ![qq] = Head(pending[qq])]
  /\ pending' = IF qq \in Resident THEN pending
                ELSE [pending EXCEPT ![qq] = Tail(@)]

Finish(qq) ==
  /\ running[qq] # None
  /\ running' = [running EXCEPT ![qq] = None]
  /\ UNCHANGED pending

\* Withdrawn in several queues at once: the step resetSub takes.
Drop ==
  /\ DOMAIN pending' = Queue
  /\ \A qq \in Queue :
       /\ Remains(pending'[qq], pending[qq])
       /\ pending'[qq] # pending[qq] =>
            qq \in Cancellable \/ running[qq] = None
  /\ UNCHANGED running

Next ==
  \/ \E qq \in Queue, i \in Instr : Submit(qq, i)
  \/ \E qq \in Queue : Start(qq)
  \/ \E qq \in Queue : Finish(qq)
  \/ Drop

Spec == Init /\ [][Next]_absVars
=============================================================================
