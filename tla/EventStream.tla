----------------------------- MODULE EventStream -----------------------------
(***************************************************************************)
(* What the script may rely on of the events it is given: they come in the *)
(* order they happened, each once; of pointer motions in a row the last    *)
(* one is enough; a reset may forget what happened before it, except a     *)
(* request to quit.                                                        *)
(***************************************************************************)
EXTENDS Naturals, Sequences

CONSTANT Type  \* the types of event, "motion" and "quit" among them

VARIABLES
  pending,  \* the events that happened and were not handled, oldest first
  arrived   \* how many have happened

streamVars == <<pending, arrived>>

Init == pending = <<>> /\ arrived = 0

Arrive(t) ==
  /\ pending' = Append(pending, [type |-> t, id |-> arrived + 1])
  /\ arrived' = arrived + 1

Handle ==
  /\ pending # <<>>
  /\ pending' = Tail(pending)
  /\ UNCHANGED arrived

\* Motion i is dropped in favour of the one right behind it.
Coalesce(i) ==
  /\ pending[i].type = "motion" /\ pending[i + 1].type = "motion"
  /\ pending' = SubSeq(pending, 1, i - 1) \o SubSeq(pending, i + 1, Len(pending))
  /\ UNCHANGED arrived

Forget(n) ==
  /\ \A i \in 1..n : pending[i].type # "quit"
  /\ pending' = SubSeq(pending, n + 1, Len(pending))
  /\ UNCHANGED arrived

Next ==
  \/ \E t \in Type : Arrive(t)
  \/ Handle
  \/ \E i \in 1..(Len(pending) - 1) : Coalesce(i)
  \/ \E n \in 1..Len(pending) : Forget(n)

Spec == Init /\ [][Next]_streamVars
=============================================================================
