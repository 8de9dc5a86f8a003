---------------------------- MODULE FrameStream ----------------------------
(***************************************************************************)
(* What the media pipeline promises to whoever shows a movie, with no      *)
(* threads, queues or semaphores: the frames of each stream are taken in   *)
(* the order of its packets, none before it was sent and none left out     *)
(* while the movie is open; the end of file is only seen when every video  *)
(* frame sent was taken.  A movie that is being stopped may skip frames.   *)
(***************************************************************************)
EXTENDS Naturals

CONSTANT Entry  \* the streams

VARIABLES mode, sent, seen

streamVars == <<mode, sent, seen>>

Init ==
  /\ mode = "closed"
  /\ sent = [e \in Entry |-> 0]
  /\ seen = [e \in Entry |-> 0]

Open == mode = "closed" /\ mode' = "open" /\ UNCHANGED <<sent, seen>>

Send(e) ==
  /\ mode # "closed"
  /\ sent' = [sent EXCEPT ![e] = @ + 1]
  /\ UNCHANGED <<mode, seen>>

Take(e) ==
  /\ mode \in {"open", "ended"}
  /\ seen[e] < sent[e]
  /\ seen' = [seen EXCEPT ![e] = @ + 1]
  /\ UNCHANGED <<mode, sent>>

Skip(e, n) ==
  /\ mode = "stopping"
  /\ n > seen[e] /\ n <= sent[e]
  /\ seen' = [seen EXCEPT ![e] = n]
  /\ UNCHANGED <<mode, sent>>

End ==
  /\ mode = "open" => seen["V"] = sent["V"]
  /\ mode \in {"open", "stopping"}
  /\ mode' = "ended"
  /\ UNCHANGED <<sent, seen>>

Stop == mode = "open" /\ mode' = "stopping" /\ UNCHANGED <<sent, seen>>

Close ==
  /\ mode \in {"stopping", "ended"}
  /\ mode' = "closed"
  /\ sent' = [e \in Entry |-> 0]
  /\ seen' = [e \in Entry |-> 0]

Next ==
  \/ Open \/ End \/ Stop \/ Close
  \/ \E e \in Entry : Send(e) \/ Take(e) \/ \E n \in 1..sent[e] : Skip(e, n)

Spec == Init /\ [][Next]_streamVars
=============================================================================
