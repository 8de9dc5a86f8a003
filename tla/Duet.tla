-------------------------------- MODULE Duet --------------------------------
(***************************************************************************)
(* What a script and its dialogue promise each other: each carries out its *)
(* own commands in their order, each once.  A dialogue begun with d runs   *)
(* alone; one begun with d2 runs beside the script, and the two meet where *)
(* the dialogue waits at [*] for a d_continue and the script at wait_on_d  *)
(* for a [#] or for the end.  While a routine of the dialogue runs and     *)
(* does not wait the script stands still; whoever waits for an action      *)
(* holds up itself alone.  When the dialogue ends the script passes over   *)
(* the command it has come to, whatever it is.                             *)
(***************************************************************************)
EXTENDS Integers, Sequences

CONSTANTS Scripts, Pretext

VARIABLES
  program, pc, own,   \* the script, its next command, the rest of its pretext routine
  effects,            \* plain commands it has carried out
  waits,              \* actions it waits for
  parts, at, routine, \* the dialogue, the parts begun, the rest of the routine it runs
  doing,              \* "off", "fed", "nothing", "text", "wait", "routine", "star" or "over"
  resting,            \* the routine waits
  alone, told,        \* begun with d; the pretext routine was called
  passes, pipes, pipe \* d_continues less [*]s; [#]s less wait_on_ds of each pipe; the next pipe

scriptVars == <<program, pc, own, effects, waits>>
talkVars == <<parts, at, routine, doing, resting, alone, told>>
pipeVars == <<passes, pipes, pipe>>
duetVars == <<scriptVars, talkVars, pipeVars>>

On == doing \notin {"off", "fed"}

MayRun ==
  /\ waits = 0
  /\ On => ~alone /\ \A n \in DOMAIN pipes : pipes[n] > -1
  /\ doing = "routine" => resting

Script(cmd) == own = <<>> /\ pc <= Len(program) /\ program[pc].cmd = cmd

Init ==
  /\ program \in Scripts /\ pc = 1 /\ own = <<>> /\ effects = 0 /\ waits = 0
  /\ parts = <<>> /\ at = 0 /\ routine = <<>> /\ doing = "off" /\ resting = FALSE
  /\ alone = TRUE /\ told = FALSE
  /\ passes = 0 /\ pipes = <<>> /\ pipe = 0

Plain ==
  /\ MayRun /\ Script("plain")
  /\ pc' = pc + 1 /\ effects' = effects + 1
  /\ UNCHANGED <<program, own, waits, talkVars, pipeVars>>

\* Line ends, and waiting for a dialogue that is over, are nothing to run.
Pass ==
  /\ Script("eol") \/ (doing = "off" /\ Script("wait_on_d"))
  /\ pc' = pc + 1
  /\ UNCHANGED <<program, own, effects, waits, talkVars, pipeVars>>

Wait ==
  /\ MayRun /\ Script("wait")
  /\ pc' = pc + 1 /\ waits' \in {0, 1}
  /\ UNCHANGED <<program, own, effects, talkVars, pipeVars>>

WaitOver ==
  /\ waits = 1 /\ waits' = 0
  /\ UNCHANGED <<program, pc, own, effects, talkVars, pipeVars>>

\* A pipe that was not named before stands at 0.
Bump(map, n, by) ==
  [k \in DOMAIN map \cup {n} |->
     (IF k \in DOMAIN map THEN map[k] ELSE 0) + (IF k = n THEN by ELSE 0)]

WaitOn ==
  /\ MayRun /\ Script("wait_on_d") /\ doing # "off"
  /\ pc' = pc + 1 /\ pipes' = Bump(pipes, program[pc].arg, -1)
  /\ UNCHANGED <<program, own, effects, waits, talkVars, passes, pipe>>

Continue ==
  /\ MayRun /\ Script("d_continue") /\ doing # "off"
  /\ pc' = pc + 1 /\ passes' = passes + 1
  /\ doing' = IF doing = "star" THEN "nothing" ELSE doing
  /\ UNCHANGED <<program, own, effects, waits, parts, at, routine, resting, alone, told, pipes, pipe>>

\* The pretext routine comes before the dialogue.
Feed ==
  /\ MayRun /\ (Script("d") \/ Script("d2")) /\ doing = "off" /\ Pretext # <<>>
  /\ doing' = "fed" /\ told' = TRUE /\ parts' = program[pc].arg
  /\ alone' = (program[pc].cmd = "d")
  /\ own' = Pretext \o <<"return">>
  /\ UNCHANGED <<program, pc, effects, waits, at, routine, resting, pipeVars>>

OwnCommand ==
  /\ MayRun /\ own # <<>> /\ own' = Tail(own)
  /\ waits' \in IF Head(own) = "wait" THEN {0, 1} ELSE {0}
  /\ UNCHANGED <<program, pc, effects, talkVars, pipeVars>>

Start ==
  /\ MayRun /\ (Script("d") \/ Script("d2"))
  /\ doing = IF Pretext = <<>> THEN "off" ELSE "fed"
  /\ doing' = "nothing" /\ parts' = program[pc].arg
  /\ alone' = (program[pc].cmd = "d")
  /\ pc' = pc + 1
  /\ UNCHANGED <<program, own, effects, waits, at, routine, resting, told, pipeVars>>

(***************************************************************************)
(* The dialogue.                                                           *)
(***************************************************************************)
Begin(kind) ==
  /\ doing = "nothing" /\ at < Len(parts) /\ parts[at + 1].kind = kind
  /\ at' = at + 1

Text ==
  /\ Begin("text") /\ doing' \in {"text", "nothing"}
  /\ UNCHANGED <<scriptVars, parts, routine, resting, alone, told, pipeVars>>

BuiltIn ==
  /\ Begin("builtin") /\ doing' \in {"wait", "nothing"}
  /\ UNCHANGED <<scriptVars, parts, routine, resting, alone, told, pipeVars>>

Over ==
  /\ doing \in {"text", "wait"} \/ (doing = "routine" /\ routine = <<>>)
  /\ doing' = "nothing"
  /\ UNCHANGED <<scriptVars, parts, at, routine, resting, alone, told, pipeVars>>

Routine ==
  /\ Begin("routine") /\ doing' = "routine"
  /\ routine' = parts[at + 1].body \o <<"return">>
  /\ UNCHANGED <<scriptVars, parts, resting, alone, told, pipeVars>>

RoutineCommand ==
  /\ doing = "routine" /\ ~resting /\ routine # <<>>
  /\ routine' = Tail(routine)
  /\ resting' \in IF Head(routine) = "wait" THEN BOOLEAN ELSE {FALSE}
  /\ UNCHANGED <<scriptVars, parts, at, doing, alone, told, pipeVars>>

RestOver ==
  /\ resting /\ ~resting'
  /\ UNCHANGED <<scriptVars, parts, at, routine, doing, alone, told, pipeVars>>

Star ==
  /\ Begin("star") /\ ~alone
  /\ passes' = passes - 1
  /\ doing' = IF passes > 0 THEN "nothing" ELSE "star"
  /\ UNCHANGED <<scriptVars, parts, routine, resting, alone, told, pipes, pipe>>

Hash ==
  /\ Begin("hash") /\ ~alone
  /\ pipes' = Bump(pipes, pipe, 1) /\ pipe' = pipe + 1
  /\ UNCHANGED <<scriptVars, parts, routine, doing, resting, alone, told, passes>>

End ==
  /\ doing = "nothing" /\ at = Len(parts)
  /\ doing' = "over" /\ parts' = <<>> /\ at' = 0 /\ alone' = TRUE /\ told' = FALSE
  /\ passes' = 0 /\ pipes' = <<>> /\ pipe' = 0
  /\ UNCHANGED <<scriptVars, routine, resting>>

\* What the script has come to is not carried out.
Leave ==
  /\ doing = "over" /\ doing' = "off"
  /\ pc' = pc + 1
  /\ UNCHANGED <<program, own, effects, waits, parts, at, routine, resting, alone, told, pipeVars>>

Next ==
  \/ Plain \/ Pass \/ Wait \/ WaitOver \/ WaitOn \/ Continue
  \/ Feed \/ OwnCommand \/ Start
  \/ Text \/ BuiltIn \/ Over \/ Routine \/ RoutineCommand \/ RestOver
  \/ Star \/ Hash \/ End \/ Leave

Spec == Init /\ [][Next]_duetVars
=============================================================================
