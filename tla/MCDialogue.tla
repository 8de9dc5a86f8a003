----------------------------- MODULE MCDialogue -----------------------------
(* Instances of the dialogue controller for TLC. *)
EXTENDS Dialogue

Cmd(c) == [cmd |-> c, arg |-> 0]
WaitOn(n) == [cmd |-> "wait_on_d", arg |-> n]
Part0(k) == [kind |-> k, body |-> <<>>]
Do(body) == [kind |-> "routine", body |-> body]

Kinds == {Part0("text"), Part0("builtin"), Do(<<"wait">>), Do(<<"plain", "wait", "wait">>)}
Meetings == {Part0("star"), Part0("hash")}

Talks(set, n) == UNION {[1 .. k -> set] : k \in 0 .. n}

Line(cmd) == <<cmd, Cmd("eol")>>

\* What the script does where the dialogue meets it: for pipe k it waits for the
\* k-th [#].  It does not wait beside a routine.
CountOf(kind, talk, n) == Cardinality({m \in 1 .. n : talk[m].kind = kind})

Own(talk, n) == IF CountOf("routine", talk, n) = 0 THEN Cmd("wait") ELSE Cmd("plain")

Answer(talk) ==
  LET answer[n \in 0 .. Len(talk)] ==
        IF n = 0 THEN <<>>
        ELSE answer[n - 1] \o
          (CASE talk[n].kind = "star" -> Line(Own(talk, n)) \o Line(Cmd("d_continue"))
             [] talk[n].kind = "hash" -> Line(WaitOn(CountOf("hash", talk, n) - 1))
             [] OTHER -> <<>>)
  IN answer[Len(talk)]

Beside(talk) ==
  Line([cmd |-> "d2", arg |-> talk]) \o Answer(talk) \o Line(WaitOn(AtEnd)) \o Line(Cmd("plain"))

Alone(talk) == Line([cmd |-> "d", arg |-> talk]) \o Line(Cmd("plain"))

\* A script with commands of its own, one of which it has come to when its dialogue ends.
Busy(talk) ==
  Line([cmd |-> "d2", arg |-> talk]) \o Line(Cmd("plain")) \o Line(Cmd("wait")) \o Line(Cmd("plain"))

SmallScripts ==
  {Beside(talk) : talk \in Talks(Kinds \cup Meetings, 3)}
  \cup {Alone(talk) : talk \in Talks(Kinds, 2)}
  \cup {Beside(one) \o Beside(two) : one, two \in Talks({Do(<<"wait">>), Part0("star"), Part0("hash")}, 2)}
  \cup {Busy(talk) : talk \in Talks({Part0("text"), Part0("builtin"), Part0("hash")}, 2)}

WaitingPretext == <<"plain", "wait">>

\* A script that waits while a routine of its dialogue waits.
WaitingScripts ==
  {Line([cmd |-> "d2", arg |-> <<Do(<<"wait">>)>>]) \o Line(Cmd("wait")) \o Line(WaitOn(AtEnd))}
=============================================================================
