----------------------- MODULE AsyncController_proofs -----------------------
(***************************************************************************)
(* Theorems about AsyncController, for every set of queues and threads.    *)
(* First the threads: one serves a queue, and endThreads leaves none but   *)
(* those it met before they ran, which find nothing to do; resetSub's      *)
(* unlocked clearing relies on it.  Then what the clients see.  The        *)
(* semaphores: instructionsWaiting covers the queue whenever a thread may  *)
(* wait for it, and so the drain of endThreads.  The results: a blocking   *)
(* call pops the one its own instruction left.  The whole: the executor    *)
(* implements SerialExecutor.                                              *)
(***************************************************************************)
EXTENDS AsyncController, SequenceTheorems, TLAPS

-----------------------------------------------------------------------------
(* Facts about the constants *)

\* queueCollection is not empty and holds queues only.
LEMMA OrderFacts ==
  /\ Len(Order) \in Nat /\ Len(Order) >= 1
  /\ \A i \in 1..Len(Order) : Order[i] \in Queue
BY QueueAssumption

\* queueCollection names every queue once.
LEMMA OrderOnce ==
  /\ \A i, j \in 1..Len(Order) : Order[i] = Order[j] => i = j
  /\ \A qq \in Queue : \E i \in 1..Len(Order) : Order[i] = qq
BY QueueAssumption

LEMMA NameFacts ==
  /\ None \notin Slot /\ None # Main /\ None \notin Queue /\ None \notin Instr
  /\ Main \notin Slot /\ None \notin Queue \X Instr
BY NameAssumption DEF Instr

\* What a sequence keeps its type under.
LEMMA Rests ==
  ASSUME NEW S, NEW n \in Nat, NEW t \in [1..n -> S]
  PROVE  t \in Seq(S)
BY SeqDef

-----------------------------------------------------------------------------
(* Type correctness *)

LEMMA TypeInit == Init => TypeOK
<1> SUFFICES ASSUME Init PROVE TypeOK
  OBVIOUS
<1>1. /\ q \in [Queue -> Seq(Instr)] /\ results \in [Queue -> Seq(Instr)]
      /\ sem \in [Queue -> Nat] /\ res \in [Queue -> 0..ResCap]
      /\ thread \in [Queue -> Slot \cup {None}]
      /\ loopLock \in [Queue -> Slot \cup {None, Main}]
  BY BoundAssumption DEF Init
<1>2. /\ pc \in [Queue -> [Slot -> WorkerPC]]
      /\ cur \in [Queue -> [Slot -> Instr \cup {None}]]
      /\ ExecHasInstr
  BY DEF Init, WorkerPC, ExecHasInstr
<1>3. /\ k \in 1..Len(Order) /\ next \in 1..(MaxSubmit + 1)
      /\ resets \in 0..MaxResets
  BY OrderFacts, BoundAssumption DEF Init
<1>4. QED
  BY <1>1, <1>2, <1>3 DEF Init, TypeOK, MainPC

LEMMA PostedType ==
  ASSUME res \in [Queue -> 0..ResCap], NEW qq \in Queue
  PROVE  Posted(qq) \in [Queue -> 0..ResCap]
BY BoundAssumption DEF Posted

LEMMA TypeWorker ==
  ASSUME TypeOK, NEW qq \in Queue, NEW s \in Slot, Worker(qq, s)
  PROVE  TypeOK'
<1> USE NameFacts, BoundAssumption DEF WorkerPC, ExecHasInstr
<1>1. CASE TakeLoopLock(qq, s)
  BY <1>1 DEF TypeOK, TakeLoopLock, mainVars
<1>2. CASE CheckShutdown(qq, s)
  BY <1>2 DEF TypeOK, CheckShutdown, sharedVars, mainVars
<1>3. CASE AwaitInstruction(qq, s)
  <2>1. sem' \in [Queue -> Nat]
    BY <1>3 DEF TypeOK, AwaitInstruction
  <2>2. pc' \in [Queue -> [Slot -> WorkerPC]]
    BY <1>3 DEF TypeOK, AwaitInstruction
  <2>3. ExecHasInstr'
    BY <1>3 DEF TypeOK, AwaitInstruction
  <2>4. QED
    BY <1>3, <2>1, <2>2, <2>3 DEF TypeOK, AwaitInstruction, mainVars
<1>4. CASE Recheck(qq, s)
  BY <1>4 DEF TypeOK, Recheck, sharedVars, mainVars
<1>5a. CASE Fetch(qq, s) /\ q[qq] = <<>>
  <2>1. pc' = [pc EXCEPT ![qq][s] = "top"] /\ UNCHANGED <<q, cur>>
    BY <1>5a DEF Fetch
  <2>2. pc' \in [Queue -> [Slot -> WorkerPC]] /\ ExecHasInstr'
    BY <2>1 DEF TypeOK
  <2>3. QED
    BY <1>5a, <2>1, <2>2 DEF TypeOK, Fetch, mainVars
<1>5b. CASE Fetch(qq, s) /\ q[qq] # <<>>
  <2>1. Head(q[qq]) \in Instr /\ Tail(q[qq]) \in Seq(Instr)
    BY <1>5b, HeadTailProperties DEF TypeOK
  <2>2. q' \in [Queue -> Seq(Instr)]
    <3>1. q' = q \/ q' = [q EXCEPT ![qq] = Tail(@)]
      BY <1>5b DEF Fetch
    <3>2. QED
      BY <2>1, <3>1 DEF TypeOK
  <2>3. /\ pc' = [pc EXCEPT ![qq][s] = "exec"]
        /\ cur' = [cur EXCEPT ![qq][s] = Head(q[qq])]
    BY <1>5b DEF Fetch
  <2>4. /\ pc' \in [Queue -> [Slot -> WorkerPC]]
        /\ cur' \in [Queue -> [Slot -> Instr \cup {None}]]
    BY <2>1, <2>3 DEF TypeOK
  <2>5. ExecHasInstr'
    BY <2>1, <2>3 DEF TypeOK
  <2>6. QED
    BY <1>5b, <2>2, <2>4, <2>5 DEF TypeOK, Fetch, mainVars
<1>6. CASE Execute(qq, s)
  <2>1. cur[qq][s] \in Instr
    BY <1>6 DEF TypeOK, Execute
  <2>2. results' \in [Queue -> Seq(Instr)]
    BY <1>6, <2>1, AppendProperties DEF TypeOK, Execute, Reported
  <2>3. /\ pc' \in [Queue -> [Slot -> WorkerPC]]
        /\ ExecHasInstr'
    BY <1>6 DEF TypeOK, Execute
  <2>4. QED
    BY <1>6, <2>2, <2>3 DEF TypeOK, Execute, mainVars
<1>7. CASE ExecuteFails(qq, s)
  BY <1>7 DEF TypeOK, ExecuteFails, sharedVars, mainVars
<1>8. CASE Post(qq, s)
  <2>1. res' \in [Queue -> 0..ResCap]
    BY <1>8, PostedType DEF TypeOK, Post, PostResult
  <2>2. cur' \in [Queue -> [Slot -> Instr \cup {None}]]
    BY <1>8 DEF TypeOK, Post, PostResult
  <2>3. CASE Leave(qq, s, None)
    <3>1. /\ thread' \in [Queue -> Slot \cup {None}]
          /\ pc' \in [Queue -> [Slot -> WorkerPC]]
      BY <2>3 DEF TypeOK, Leave
    <3>2. ExecHasInstr'
      BY <1>8, <2>3 DEF TypeOK, Post, PostResult, Leave
    <3>3. QED
      BY <1>8, <2>1, <2>2, <3>1, <3>2 DEF TypeOK, Post, PostResult, mainVars
  <2>4. CASE Stay(qq, s)
    <3>1. /\ thread' \in [Queue -> Slot \cup {None}]
          /\ pc' \in [Queue -> [Slot -> WorkerPC]]
      BY <2>4 DEF TypeOK, Stay
    <3>2. ExecHasInstr'
      BY <1>8, <2>4 DEF TypeOK, Post, PostResult, Stay
    <3>3. QED
      BY <1>8, <2>1, <2>2, <3>1, <3>2 DEF TypeOK, Post, PostResult, mainVars
  <2>5. QED
    BY <1>8, <2>3, <2>4 DEF Post
<1>9. CASE Terminated(qq, s)
  <2>1. res' \in [Queue -> 0..ResCap]
    BY <1>9, PostedType DEF TypeOK, Terminated
  <2>2. /\ thread' \in [Queue -> Slot \cup {None}]
        /\ pc' \in [Queue -> [Slot -> WorkerPC]]
        /\ cur' \in [Queue -> [Slot -> Instr \cup {None}]]
    BY <1>9 DEF TypeOK, Terminated
  <2>3. ExecHasInstr'
    BY <1>9 DEF TypeOK, Terminated
  <2>4. QED
    BY <1>9, <2>1, <2>2, <2>3 DEF TypeOK, Terminated, mainVars
<1>10. CASE Bail(qq, s)
  BY <1>10 DEF TypeOK, Bail, mainVars
<1>11. CASE Exit(qq, s)
  BY <1>11 DEF TypeOK, Exit, mainVars
<1>12. QED
  BY <1>1, <1>2, <1>3, <1>4, <1>5a, <1>5b, <1>6, <1>7, <1>8, <1>9, <1>10,
     <1>11 DEF Worker

LEMMA TypePush ==
  ASSUME TypeOK, NEW qq \in Queue, NEW i \in Instr, Push(qq, i)
  PROVE  /\ q' \in [Queue -> Seq(Instr)] /\ sem' \in [Queue -> Nat]
         /\ thread' \in [Queue -> Slot \cup {None}]
         /\ pc' \in [Queue -> [Slot -> WorkerPC]]
         /\ ExecHasInstr'
         /\ late' \subseteq Queue
<1> USE DEF ExecHasInstr, WorkerPC
<1>1. q' \in [Queue -> Seq(Instr)]
  BY AppendProperties DEF TypeOK, Push
<1>2. sem' \in [Queue -> Nat]
  BY DEF TypeOK, Push
<1>3. CASE thread[qq] = None
  <2>1. PICK s \in Slot : /\ thread' = [thread EXCEPT ![qq] = s]
                          /\ pc' = [pc EXCEPT ![qq][s] = "start"]
                          /\ late' = late \ {qq}
    BY <1>3 DEF Push, EnsureThread
  <2>2. QED
    BY <1>1, <1>2, <2>1 DEF TypeOK, Push, WorkerPC
<1>4. CASE thread[qq] # None
  BY <1>1, <1>2, <1>4 DEF TypeOK, Push, EnsureThread
<1>5. QED
  BY <1>3, <1>4

\* clear_cache leaves some of the queued instructions, in their order.
LEMMA CacheRest ==
  ASSUME TypeOK, NEW qq \in Queue, NEW ids, ClearCache(qq, ids)
  PROVE  \E rest \in Seq(Instr) :
           /\ q' = [q EXCEPT ![qq] = rest]
           /\ Abs!Remains(rest, q[qq])
           /\ q[qq] = <<>> => rest = <<>>
<1>1. q[qq] \in Seq(Instr)
  BY DEF TypeOK
<1>1a. PICK n \in 0..Len(q[qq]) : \E keep \in [1..n -> 1..Len(q[qq])] :
         /\ \A i, j \in 1..n : i < j => keep[i] < keep[j]
         /\ q' = [q EXCEPT ![qq] = [i \in 1..n |-> q[qq][keep[i]]]]
  BY DEF ClearCache
<1>2. PICK keep \in [1..n -> 1..Len(q[qq])] :
        /\ \A i, j \in 1..n : i < j => keep[i] < keep[j]
        /\ q' = [q EXCEPT ![qq] = [i \in 1..n |-> q[qq][keep[i]]]]
  BY <1>1a
<1> DEFINE rest == [i \in 1..n |-> q[qq][keep[i]]]
<1>3. rest \in [1..n -> Instr] /\ n \in Nat
  BY <1>1
<1>4. rest \in Seq(Instr) /\ Len(rest) = n
  BY <1>3, Rests
<1>5. \A i \in 1..n : rest[i] = q[qq][keep[i]]
  OBVIOUS
<1>6. Abs!Remains(rest, q[qq])
  BY <1>2, <1>4, <1>5 DEF Abs!Remains
<1>7. ASSUME q[qq] = <<>> PROVE rest = <<>>
  <2>1. n = 0
    BY <1>7
  <2>2. QED
    BY <1>4, <2>1, EmptySeq
<1>8. QED
  BY <1>2, <1>4, <1>6, <1>7

LEMMA TypeScript == TypeOK /\ Script => TypeOK'
<1> SUFFICES ASSUME TypeOK, Script PROVE TypeOK'
  OBVIOUS
<1> USE NameFacts, BoundAssumption DEF MainPC, ExecHasInstr
<1>1. ASSUME NEW qq \in Queue, Submit(qq) PROVE TypeOK'
  <2>1. next \in Instr /\ next' \in 1..(MaxSubmit + 1)
    BY <1>1 DEF TypeOK, Submit, Instr
  <2>2. /\ q' \in [Queue -> Seq(Instr)] /\ sem' \in [Queue -> Nat]
        /\ thread' \in [Queue -> Slot \cup {None}]
        /\ pc' \in [Queue -> [Slot -> WorkerPC]]
        /\ ExecHasInstr' /\ late' \subseteq Queue
    BY <1>1, <2>1, TypePush DEF Submit
  <2>3. /\ mpc' \in MainPC /\ awaited' \in (Queue \X Instr) \cup {None}
        /\ mpc' \in {"await", "pop"} => awaited' # None
    <3>1. <<qq, next>> \in Queue \X Instr /\ <<qq, next>> # None
      BY <2>1
    <3>2. QED
      BY <1>1, <3>1 DEF TypeOK, Submit
  <2>4. QED
    BY <1>1, <2>1, <2>2, <2>3 DEF TypeOK, Submit, Push
<1>2. ASSUME NEW qq \in Queue, NEW ids \in SUBSET Instr, ClearCache(qq, ids)
      PROVE  TypeOK'
  <2>1. PICK rest \in Seq(Instr) : q' = [q EXCEPT ![qq] = rest]
    BY <1>2, CacheRest
  <2>2. q' \in [Queue -> Seq(Instr)]
    BY <2>1 DEF TypeOK
  <2>3. QED
    BY <1>2, <2>2 DEF TypeOK, ClearCache, workerVars, mainVars
<1>3. CASE CloseWhileWaiting
  BY <1>3 DEF TypeOK, CloseWhileWaiting, sharedVars, workerVars, mainVars
<1>4. CASE Reset
  BY <1>4, OrderFacts
     DEF TypeOK, Reset, RaiseFlag, sharedVars, workerVars
<1>5. CASE mpc = "idle" /\ Quit
  BY <1>5, OrderFacts
     DEF TypeOK, Quit, RaiseFlag, sharedVars, workerVars
<1>6. QED
  BY <1>1, <1>2, <1>3, <1>4, <1>5 DEF Script

LEMMA TypeFinish ==
  ASSUME TypeOK, FinishQueue, q' \in [Queue -> Seq(Instr)],
         sem' \in [Queue -> Nat], late' \subseteq Queue
  PROVE  TypeOK'
<1>1. /\ res' \in [Queue -> 0..ResCap]
      /\ loopLock' \in [Queue -> Slot \cup {None, Main}]
  BY OrderFacts, BoundAssumption, SMTT(30) DEF TypeOK, FinishQueue
<1>2. k' \in 1..Len(Order) /\ mpc' \in MainPC \ {"await", "pop"}
  BY OrderFacts DEF TypeOK, FinishQueue, MainPC
<1>3. QED
  BY <1>1, <1>2 DEF TypeOK, FinishQueue, workerVars, ExecHasInstr

LEMMA TypeMain == TypeOK /\ MainStep => TypeOK'
<1> SUFFICES ASSUME TypeOK, MainStep PROVE TypeOK'
  OBVIOUS
<1> USE NameFacts, BoundAssumption, OrderFacts DEF MainPC, ExecHasInstr
<1>1. CASE ResultArrives
  <2>1. res' \in [Queue -> 0..ResCap]
    BY <1>1 DEF TypeOK, ResultArrives
  <2>2. /\ mpc' \in MainPC /\ awaited' \in (Queue \X Instr) \cup {None}
        /\ mpc' \in {"await", "pop"} => awaited' # None
    BY <1>1 DEF TypeOK, ResultArrives
  <2>3. QED
    BY <1>1, <2>1, <2>2 DEF TypeOK, ResultArrives, workerVars
<1>2. CASE PopResult
  <2>1. awaited[1] \in Queue
    BY <1>2 DEF TypeOK, PopResult
  <2>2. /\ Head(results[awaited[1]]) \in Instr
        /\ Tail(results[awaited[1]]) \in Seq(Instr)
    BY <1>2, <2>1, HeadTailProperties DEF TypeOK, PopResult
  <2>3. got' \in Instr /\ results' \in [Queue -> Seq(Instr)]
    BY <1>2, <2>1, <2>2 DEF TypeOK, PopResult
  <2>4. QED
    BY <1>2, <2>3 DEF TypeOK, PopResult, workerVars
<1>3. CASE mpc = "quit" /\ Quit
  BY <1>3 DEF TypeOK, Quit, RaiseFlag, sharedVars, workerVars
<1>4. CASE WakeThread
  BY <1>4 DEF TypeOK, WakeThread, workerVars
<1>5. CASE AwaitThreadEnd
  BY <1>5 DEF TypeOK, AwaitThreadEnd, workerVars
<1>6. CASE Drain
  <2>1. Tail(q[Order[k]]) \in Seq(Instr)
    BY <1>6, HeadTailProperties DEF TypeOK, Drain
  <2>2. q' \in [Queue -> Seq(Instr)] /\ sem' \in [Queue -> Nat]
    BY <1>6, <2>1 DEF TypeOK, Drain
  <2>3. QED
    BY <1>6, <2>2 DEF TypeOK, Drain, workerVars, mainVars
<1>7. CASE Drained
  <2>1. late' \subseteq Queue
    BY <1>7 DEF TypeOK, Drained
  <2>2. QED
    BY <1>7, <2>1, TypeFinish DEF TypeOK, Drained
<1>8. CASE ClearLeftovers
  <2>1. /\ q' \in [Queue -> Seq(Instr)] /\ sem' \in [Queue -> Nat]
        /\ late' \subseteq Queue
    BY <1>8 DEF TypeOK, ClearLeftovers
  <2>2. QED
    BY <1>8, <2>1, TypeFinish DEF ClearLeftovers
<1>9. CASE LowerFlag
  BY <1>9 DEF TypeOK, LowerFlag, sharedVars, workerVars
<1>10. CASE RestartEventQueue
  <2>1. EventQueue \in Queue /\ EventInstr \in Instr
    BY QueueAssumption DEF EventInstr, Instr
  <2>2. /\ q' \in [Queue -> Seq(Instr)] /\ sem' \in [Queue -> Nat]
        /\ thread' \in [Queue -> Slot \cup {None}]
        /\ pc' \in [Queue -> [Slot -> WorkerPC]]
        /\ ExecHasInstr' /\ late' \subseteq Queue
    BY <1>10, <2>1, TypePush DEF RestartEventQueue
  <2>3. QED
    BY <1>10, <2>2 DEF TypeOK, RestartEventQueue, Push
<1>11. CASE ClearCacheQueues
  <2>1. q' \in [Queue -> Seq(Instr)]
    BY <1>11 DEF TypeOK, ClearCacheQueues
  <2>2. QED
    BY <1>11, <2>1 DEF TypeOK, ClearCacheQueues, workerVars
<1>12. QED
  BY <1>1, <1>2, <1>3, <1>4, <1>5, <1>6, <1>7, <1>8, <1>9, <1>10, <1>11
     DEF MainStep

LEMMA TypeStep == TypeOK /\ [Next]_vars => TypeOK'
<1>1. TypeOK /\ UNCHANGED vars => TypeOK'
  BY DEF TypeOK, ExecHasInstr, vars, sharedVars, workerVars, mainVars
<1>2. QED
  BY <1>1, TypeWorker, TypeScript, TypeMain DEF Next, Stopped

\* The variables of the executor keep their types for any set of queues, any
\* number of threads and any bounds; in particular a semaphore is never waited
\* on below zero and a thread that executes has an instruction.
THEOREM TypeCorrect == Spec => []TypeOK
BY TypeInit, TypeStep, PTL DEF Spec

-----------------------------------------------------------------------------
(* One thread serves a queue *)

LockInv == TypeOK /\ OneServer /\ MainLock

LEMMA LockInit == Init => OneServer /\ MainLock
BY NameFacts DEF Init, OneServer, MainLock, Live

LEMMA LockWorker ==
  ASSUME LockInv, NEW qq \in Queue, NEW s \in Slot, Worker(qq, s)
  PROVE  OneServer' /\ MainLock'
<1> USE NameFacts DEF LockInv, OneServer, MainLock, Live, WorkerPC
<1>1. CASE TakeLoopLock(qq, s)
  BY <1>1, SMTT(30) DEF TypeOK, TakeLoopLock, mainVars
<1>2. CASE CheckShutdown(qq, s)
  BY <1>2, SMTT(30) DEF TypeOK, CheckShutdown, sharedVars, mainVars
<1>3. CASE AwaitInstruction(qq, s)
  BY <1>3, SMTT(30) DEF TypeOK, AwaitInstruction, mainVars
<1>4. CASE Recheck(qq, s)
  BY <1>4, SMTT(30) DEF TypeOK, Recheck, sharedVars, mainVars
<1>5. CASE Fetch(qq, s)
  <2>1. PICK l \in {"top", "exec"} : pc' = [pc EXCEPT ![qq][s] = l]
    BY <1>5 DEF Fetch
  <2>2. QED
    BY <1>5, <2>1 DEF TypeOK, Fetch, mainVars
<1>6. CASE Execute(qq, s)
  BY <1>6, SMTT(30) DEF TypeOK, Execute, mainVars
<1>7. CASE ExecuteFails(qq, s)
  BY <1>7, SMTT(30) DEF TypeOK, ExecuteFails, sharedVars, mainVars
<1>8. CASE Post(qq, s) /\ Leave(qq, s, None)
  BY <1>8 DEF TypeOK, Post, PostResult, Leave, mainVars
<1>9. CASE Post(qq, s) /\ Stay(qq, s)
  BY <1>9, SMTT(30) DEF TypeOK, Post, PostResult, Stay, mainVars
<1>10. CASE Terminated(qq, s)
  BY <1>10, SMTT(30) DEF TypeOK, Terminated, mainVars
<1>11. CASE Bail(qq, s)
  BY <1>11 DEF TypeOK, Bail, mainVars
<1>12. CASE Exit(qq, s)
  <2>1. loopLock[qq] = s /\ thread[qq] # s
    BY <1>12 DEF TypeOK, Exit
  <2>2. /\ loopLock' = [loopLock EXCEPT ![qq] = None]
        /\ pc' = [pc EXCEPT ![qq][s] = "none"]
        /\ UNCHANGED <<thread, mpc, k>>
    BY <1>12 DEF Exit, mainVars
  <2>3. OneServer'
    BY <2>1, <2>2 DEF TypeOK
  <2>4. MainLock'
    BY <2>1, <2>2 DEF TypeOK
  <2>5. QED
    BY <2>3, <2>4
<1>13. QED
  BY <1>1, <1>2, <1>3, <1>4, <1>5, <1>6, <1>7, <1>8, <1>9, <1>10, <1>11,
     <1>12 DEF Worker, Post

\* queue() creates a thread only when the queue has none.
LEMMA LockPush ==
  ASSUME LockInv, NEW qq \in Queue, NEW i, Push(qq, i)
  PROVE  OneServer'
<1>1. CASE thread[qq] = None
  <2>1. PICK s \in Slot : /\ pc[qq][s] = "none"
                          /\ thread' = [thread EXCEPT ![qq] = s]
                          /\ pc' = [pc EXCEPT ![qq][s] = "start"]
    BY <1>1 DEF Push, EnsureThread
  <2>2. QED
    BY <1>1, <2>1, NameFacts
       DEF LockInv, TypeOK, OneServer, Push, Live, WorkerPC
<1>2. CASE thread[qq] # None
  BY <1>2 DEF LockInv, OneServer, Push, EnsureThread
<1>3. QED
  BY <1>1, <1>2

LEMMA LockFinish ==
  ASSUME LockInv, mpc = "tidy", FinishQueue
  PROVE  OneServer' /\ MainLock'
<1>1. loopLock[Order[k]] = Main /\ Order[k] \in Queue
  BY OrderFacts DEF LockInv, TypeOK, MainLock
<1>2. mpc' # "tidy" /\ loopLock' = [loopLock EXCEPT ![Order[k]] = None]
  BY DEF FinishQueue
<1>3. OneServer'
  BY <1>1, <1>2, NameFacts, SMTT(30)
     DEF LockInv, TypeOK, OneServer, FinishQueue, workerVars
<1>4. MainLock'
  BY <1>1, <1>2, NameFacts DEF LockInv, TypeOK, MainLock
<1>5. QED
  BY <1>3, <1>4

LEMMA LockMain == LockInv /\ (Script \/ MainStep) => OneServer' /\ MainLock'
<1> SUFFICES ASSUME LockInv, Script \/ MainStep
             PROVE  OneServer' /\ MainLock'
  OBVIOUS
<1>1. ASSUME NEW qq \in Queue, Submit(qq) PROVE OneServer' /\ MainLock'
  BY <1>1, LockPush DEF Submit, Push, LockInv, MainLock
<1>2. ASSUME NEW qq \in Queue, NEW ids \in SUBSET Instr, ClearCache(qq, ids)
      PROVE  OneServer' /\ MainLock'
  BY <1>2 DEF LockInv, OneServer, MainLock, ClearCache, workerVars, mainVars
<1>3. CASE CloseWhileWaiting
  BY <1>3 DEF LockInv, OneServer, MainLock, CloseWhileWaiting, sharedVars,
              workerVars, mainVars
<1>4. CASE Reset \/ Quit
  BY <1>4 DEF LockInv, OneServer, MainLock, Reset, Quit, RaiseFlag,
              sharedVars, workerVars
<1>5. CASE ResultArrives
  BY <1>5 DEF LockInv, OneServer, MainLock, ResultArrives, workerVars
<1>6. CASE PopResult
  BY <1>6 DEF LockInv, OneServer, MainLock, PopResult, workerVars
<1>7. CASE WakeThread
  BY <1>7 DEF LockInv, OneServer, MainLock, WakeThread, workerVars
<1>8. CASE AwaitThreadEnd
  <2>1. Order[k] \in Queue
    BY OrderFacts DEF LockInv, TypeOK
  <2>2. QED
    BY <1>8, <2>1, NameFacts, SMTT(30)
       DEF LockInv, TypeOK, OneServer, MainLock, AwaitThreadEnd, workerVars
<1>9. CASE Drain
  BY <1>9 DEF LockInv, OneServer, MainLock, Drain, workerVars, mainVars
<1>10. CASE Drained
  BY <1>10, LockFinish DEF Drained
<1>11. CASE ClearLeftovers
  BY <1>11, LockFinish DEF ClearLeftovers
<1>12. CASE LowerFlag
  BY <1>12 DEF LockInv, OneServer, MainLock, LowerFlag, sharedVars, workerVars
<1>13. CASE RestartEventQueue
  <2>1. EventQueue \in Queue
    BY QueueAssumption
  <2>2. QED
    BY <1>13, <2>1, LockPush
       DEF RestartEventQueue, Push, LockInv, MainLock
<1>14. CASE ClearCacheQueues
  BY <1>14 DEF LockInv, OneServer, MainLock, ClearCacheQueues, workerVars
<1>15. QED
  BY <1>1, <1>2, <1>3, <1>4, <1>5, <1>6, <1>7, <1>8, <1>9, <1>10, <1>11,
     <1>12, <1>13, <1>14 DEF Script, MainStep

LEMMA LockStep == LockInv /\ [Next]_vars => LockInv'
<1> SUFFICES ASSUME LockInv, [Next]_vars PROVE LockInv'
  OBVIOUS
<1>1. TypeOK'
  BY TypeStep DEF LockInv
<1>2. CASE UNCHANGED vars
  BY <1>1, <1>2 DEF LockInv, OneServer, MainLock, vars, sharedVars,
                    workerVars, mainVars
<1>3. CASE Next
  BY <1>1, <1>2, <1>3, LockWorker, LockMain DEF Next, Stopped, LockInv
<1>4. QED
  BY <1>2, <1>3

LEMMA LockInvariant == Spec => []LockInv
BY LockInit, TypeInit, LockStep, PTL DEF Spec, LockInv

\* asyncLoop is entered by one thread of a queue at a time, and queue.thread
\* names the thread that will serve the queue's next instruction: for any
\* number of queues, threads, submissions and resets, also when endThreads
\* meets threads that have not started.
THEOREM OneServerAlways == Spec => []OneServer
BY LockInvariant, PTL DEF LockInv

-----------------------------------------------------------------------------
(* What endThreads leaves *)

\* A thread touches its own queue only, and one instruction queue at a time.
LEMMA WorkerFrame ==
  ASSUME TypeOK, NEW qq \in Queue, NEW s \in Slot, Worker(qq, s)
  PROVE  /\ UNCHANGED <<mainVars, threadShutdownRequested>>
         /\ \A r \in Queue \ {qq} :
              /\ q'[r] = q[r] /\ sem'[r] = sem[r] /\ res'[r] = res[r]
              /\ thread'[r] = thread[r] /\ loopLock'[r] = loopLock[r]
              /\ pc'[r] = pc[r]
         /\ \A t \in Slot \ {s} : pc'[qq][t] = pc[qq][t]
<1>1. CASE TakeLoopLock(qq, s)
  BY <1>1 DEF TypeOK, TakeLoopLock, mainVars
<1>2. CASE CheckShutdown(qq, s)
  BY <1>2 DEF TypeOK, CheckShutdown, sharedVars, mainVars
<1>3. CASE AwaitInstruction(qq, s)
  BY <1>3 DEF TypeOK, AwaitInstruction, mainVars
<1>4. CASE Recheck(qq, s)
  BY <1>4 DEF TypeOK, Recheck, sharedVars, mainVars
<1>5. CASE Fetch(qq, s) /\ q[qq] = <<>>
  BY <1>5 DEF TypeOK, Fetch, mainVars
<1>6. CASE Fetch(qq, s) /\ q[qq] # <<>>
  <2>1. \A r \in Queue \ {qq} : q'[r] = q[r]
    BY <1>6 DEF TypeOK, Fetch
  <2>2. QED
    BY <1>6, <2>1 DEF TypeOK, Fetch, mainVars
<1>7. CASE Execute(qq, s)
  BY <1>7 DEF TypeOK, Execute, mainVars
<1>8. CASE ExecuteFails(qq, s)
  BY <1>8 DEF TypeOK, ExecuteFails, sharedVars, mainVars
<1>9. CASE Post(qq, s)
  <2>1. \A r \in Queue \ {qq} : res'[r] = res[r]
    BY <1>9 DEF TypeOK, Post, PostResult, Posted
  <2>2. CASE Leave(qq, s, None)
    BY <1>9, <2>1, <2>2 DEF TypeOK, Post, PostResult, Leave, mainVars
  <2>3. CASE Stay(qq, s)
    BY <1>9, <2>1, <2>3 DEF TypeOK, Post, PostResult, Stay, mainVars
  <2>4. QED
    BY <1>9, <2>2, <2>3 DEF Post
<1>10. CASE Terminated(qq, s)
  BY <1>10 DEF TypeOK, Terminated, Posted, mainVars
<1>11. CASE Bail(qq, s)
  BY <1>11 DEF TypeOK, Bail, mainVars
<1>12. CASE Exit(qq, s)
  BY <1>12 DEF TypeOK, Exit, mainVars
<1>13. QED
  BY <1>1, <1>2, <1>3, <1>4, <1>5, <1>6, <1>7, <1>8, <1>9, <1>10, <1>11,
     <1>12 DEF Worker

\* A thread that can move is not of a queue endThreads is done with.
LEMMA WorkerNotGone ==
  ASSUME LockInv, NEW qq \in Queue, NEW s \in Slot, Worker(qq, s)
  PROVE  ~QueueGone(qq)
<1>1. pc[qq][s] # "none"
  BY DEF Worker, TakeLoopLock, CheckShutdown, AwaitInstruction, Recheck, Fetch,
         Execute, ExecuteFails, Post, Terminated, Bail, Exit
<1>2. thread[qq] = s \/ loopLock[qq] = s
  BY <1>1 DEF LockInv, TypeOK, OneServer, Live
<1>3. QED
  BY <1>2, NameFacts DEF QueueGone

\* Where no thread is busy, only taking an instruction changes anything a
\* blocking call or endThreads sees.
LEMMA IdleWorker ==
  ASSUME LockInv, NEW qq \in Queue, NEW s \in Slot, Worker(qq, s), Idle(qq),
         ~(Fetch(qq, s) /\ q[qq] # <<>>)
  PROVE  Idle(qq)' /\ UNCHANGED <<q, res, results>>
<1>1. pc[qq][s] \notin Busy
  BY DEF Idle
<1>2. PICK l \in WorkerPC \ Busy : pc' = [pc EXCEPT ![qq][s] = l]
  BY <1>1 DEF Worker, TakeLoopLock, CheckShutdown, AwaitInstruction, Recheck, Fetch,
         Execute, ExecuteFails, Post, Terminated, Bail, Exit, WorkerPC, Busy
<1>3. Idle(qq)'
  BY <1>2 DEF LockInv, TypeOK, Idle
<1>4. UNCHANGED <<q, res, results>>
  BY <1>1 DEF Worker, TakeLoopLock, CheckShutdown, AwaitInstruction, Recheck, Fetch,
         Execute, ExecuteFails, Post, Terminated, Bail, Exit, Busy, sharedVars
<1>5. QED
  BY <1>3, <1>4

\* queue() makes no thread busy.
LEMMA PushIdle ==
  ASSUME LockInv, NEW qq \in Queue, NEW i, Push(qq, i)
  PROVE  \A r \in Queue : Idle(r) => Idle(r)'
<1>1. CASE thread[qq] = None
  <2>1. PICK s \in Slot : pc[qq][s] = "none" /\ pc' = [pc EXCEPT ![qq][s] = "start"]
    BY <1>1 DEF Push, EnsureThread
  <2>2. QED
    BY <2>1 DEF Idle, Busy, LockInv, TypeOK
<1>2. CASE thread[qq] # None
  BY <1>2 DEF Push, EnsureThread, Idle
<1>3. QED
  BY <1>1, <1>2

\* When endThreads is done with a queue it is past that one too, and no thread of it has
\* run as long as it held loopLock.
LEMMA PastGrowsAtTidy ==
  ASSUME LockInv, mpc = "tidy", FinishQueue
  PROVE  /\ \A r \in Queue : Past(r)' => Past(r) \/ r = Order[k]
         /\ \A s \in Slot : pc[Order[k]][s] \in {"none", "start"}
         /\ Order[k] \in Queue
<1>1. /\ k \in 1..Len(Order) /\ Len(Order) \in Nat /\ Order[k] \in Queue
      /\ k' = IF k < Len(Order) THEN k + 1 ELSE k
      /\ mpc' = IF k < Len(Order) THEN "wake" ELSE "lower"
  BY OrderFacts DEF LockInv, TypeOK, FinishQueue
<1>2. ASSUME NEW r \in Queue, Past(r)' PROVE Past(r) \/ r = Order[k]
  <2>1. PICK i \in 1..Len(Order) : Order[i] = r /\ (i < k' \/ mpc' \in {"lower", "stopped"})
    BY <1>2 DEF Past
  <2>2. i < k \/ i = k
    BY <1>1, <2>1
  <2>3. QED
    BY <2>1, <2>2 DEF Past
<1>3. ASSUME NEW s \in Slot PROVE pc[Order[k]][s] \in {"none", "start"}
  <2>1. loopLock[Order[k]] = Main
    BY <1>1 DEF LockInv, MainLock
  <2>2. loopLock[Order[k]] # s
    BY <2>1, NameFacts
  <2>3. QED
    BY <1>1, <2>2 DEF LockInv, OneServer
<1>4. QED
  BY <1>1, <1>2, <1>3

\* Until endThreads is done with a queue it is not past it.
LEMMA NotPastYet ==
  ASSUME LockInv, mpc \in {"wake", "loop", "tidy"}
  PROVE  Order[k] \in Queue /\ ~Past(Order[k])
BY OrderFacts, OrderOnce DEF LockInv, TypeOK, Past

OrphanInv == LockInv /\ ShutdownInv /\ NoOrphan

LEMMA ShutdownInit == Init => ShutdownInv /\ NoOrphan
BY DEF Init, ShutdownInv, FlagUp, NoOrphan

\* What a queue endThreads is done with keeps: no thread of it moves, or one does that
\* endThreads met before it ran, and finds nothing to do.
LEMMA EmptiedWorker ==
  ASSUME LockInv, NEW qq \in Queue, NEW s \in Slot, Worker(qq, s),
         NEW r \in Queue, Emptied(r)
  PROVE  Emptied(r)'
<1>1. late' = late
  BY WorkerFrame DEF LockInv, mainVars
<1>2. CASE r = qq
  <2>1. qq \in late
    BY <1>2, WorkerNotGone DEF Emptied
  <2>2. q[qq] = <<>> /\ res[qq] = 0 /\ Idle(qq)
    BY <1>2 DEF Emptied
  <2>3. Idle(qq)' /\ UNCHANGED <<q, res>>
    BY <2>2, IdleWorker
  <2>4. QED
    BY <1>1, <1>2, <2>1, <2>2, <2>3 DEF Emptied
<1>3. CASE r # qq
  <2>1. /\ q'[r] = q[r] /\ sem'[r] = sem[r] /\ res'[r] = res[r]
        /\ thread'[r] = thread[r] /\ loopLock'[r] = loopLock[r]
        /\ pc'[r] = pc[r]
    BY <1>3, WorkerFrame DEF LockInv
  <2>2. QED
    BY <1>1, <2>1 DEF Emptied, Idle, QueueGone
<1>4. QED
  BY <1>2, <1>3

LEMMA ShutdownWorker ==
  ASSUME OrphanInv, NEW qq \in Queue, NEW s \in Slot, Worker(qq, s)
  PROVE  ShutdownInv' /\ NoOrphan'
<1> USE DEF OrphanInv, LockInv
<1>1. /\ UNCHANGED <<mpc, k, late, threadShutdownRequested>>
      /\ exitCode => exitCode'
  <2>1. exitCode => exitCode'
    BY DEF Worker, TakeLoopLock, CheckShutdown, AwaitInstruction, Recheck,
           Fetch, Execute, ExecuteFails, Post, PostResult, Terminated, Bail,
           Exit
  <2>2. QED
    BY <2>1, WorkerFrame DEF mainVars
<1>2. FlagUp'
  BY <1>1 DEF ShutdownInv, FlagUp
<1>3. /\ pc'[qq][s] = "bail" => threadShutdownRequested \/ pc[qq][s] = "bail"
      /\ pc'[qq][s] = "terminated" => exitCode'
  BY DEF TypeOK, Worker, TakeLoopLock, CheckShutdown, AwaitInstruction,
         Recheck, Fetch, Execute, ExecuteFails, Post, Leave, Stay, Terminated,
         Bail, Exit, ShutdownInv
<1>4. /\ ~threadShutdownRequested' =>
           \A r \in Queue \ late', t \in Slot : pc'[r][t] # "bail"
      /\ \A r \in Queue, t \in Slot : pc'[r][t] = "terminated" => exitCode'
  BY <1>1, <1>3, WorkerFrame DEF ShutdownInv
<1>5. threadShutdownRequested' \/ mpc' = "stopped" =>
        \A r \in Queue : Past(r)' => Emptied(r)'
  <2>1. \A r \in Queue : Past(r)' => Past(r)
    BY <1>1 DEF Past
  <2>2. QED
    BY <1>1, <2>1, EmptiedWorker DEF ShutdownInv
<1>6. NoOrphan'
  <2>1. SUFFICES ASSUME ~threadShutdownRequested', ~exitCode', qq \notin late
                 PROVE  q'[qq] # <<>> => thread'[qq] # None
    BY <1>1, WorkerFrame DEF NoOrphan
  <2>2. ~threadShutdownRequested /\ ~exitCode
    BY <1>1, <2>1
  <2>3. thread'[qq] # thread[qq] => q'[qq] = <<>>
    <3>1. pc[qq][s] # "terminated" /\ pc[qq][s] # "bail"
      BY <2>1, <2>2 DEF ShutdownInv
    <3>2. QED
      BY <2>2, <3>1
         DEF TypeOK, Worker, TakeLoopLock, CheckShutdown, AwaitInstruction,
             Recheck, Fetch, Execute, ExecuteFails, Post, PostResult, Leave,
             Stay, Terminated, Bail, Exit, sharedVars
  <2>4. q'[qq] # <<>> => q[qq] # <<>>
    BY DEF TypeOK, Worker, TakeLoopLock, CheckShutdown, AwaitInstruction,
           Recheck, Fetch, Execute, ExecuteFails, Post, PostResult,
           Terminated, Bail, Exit, sharedVars
  <2>5. QED
    BY <2>1, <2>2, <2>3, <2>4 DEF NoOrphan
<1>7. QED
  BY <1>2, <1>4, <1>5, <1>6 DEF ShutdownInv

\* endThreads leaves its queue emptied in either branch, and the others as they are.
LEMMA FinishEmpties ==
  ASSUME LockInv, Drained \/ ClearLeftovers
  PROVE  \A r \in Queue : r = Order[k] \/ Emptied(r) => Emptied(r)'
<1>0. PICK o : o = Order[k]
  OBVIOUS
<1>1. /\ \A s \in Slot : pc[o][s] \in {"none", "start"}
      /\ o \in Queue
  BY <1>0, PastGrowsAtTidy DEF Drained, ClearLeftovers
<1>2. /\ res' = [res EXCEPT ![o] = 0] /\ loopLock' = [loopLock EXCEPT ![o] = None]
      /\ UNCHANGED <<thread, pc>>
  BY <1>0 DEF Drained, ClearLeftovers, FinishQueue, workerVars
<1>3. res'[o] = 0 /\ loopLock'[o] = None /\ Idle(o)'
  BY <1>1, <1>2 DEF LockInv, TypeOK, Idle, Busy
<1>4. Emptied(o)'
  <2>1. CASE Drained
    <3>1. q'[o] = <<>> /\ o \in late'
      BY <1>0, <2>1 DEF Drained
    <3>2. QED
      BY <1>3, <3>1 DEF Emptied
  <2>2. CASE ClearLeftovers
    <3>1. /\ q' = [q EXCEPT ![o] = <<>>] /\ sem' = [sem EXCEPT ![o] = 0]
          /\ thread[o] = None
      BY <1>0, <2>2 DEF ClearLeftovers
    <3>2. q'[o] = <<>> /\ sem'[o] = 0 /\ thread'[o] = None
      BY <1>1, <1>2, <3>1 DEF LockInv, TypeOK
    <3>3. QED
      BY <1>3, <3>2 DEF Emptied, QueueGone
  <2>3. QED
    BY <2>1, <2>2
<1>5. ASSUME NEW r \in Queue, r # o, Emptied(r) PROVE Emptied(r)'
  <2>1. /\ q'[r] = q[r] /\ sem'[r] = sem[r]
        /\ r \in late' <=> r \in late
    <3>1. CASE Drained
      BY <1>0, <1>5, <3>1 DEF Drained
    <3>2. CASE ClearLeftovers
      <4>1. /\ q' = [q EXCEPT ![o] = <<>>] /\ sem' = [sem EXCEPT ![o] = 0]
            /\ late' = late \ {o}
        BY <1>0, <3>2 DEF ClearLeftovers
      <4>2. QED
        BY <1>5, <4>1 DEF LockInv, TypeOK
    <3>3. QED
      BY <3>1, <3>2
  <2>2. /\ res'[r] = res[r] /\ loopLock'[r] = loopLock[r]
        /\ thread'[r] = thread[r] /\ pc'[r] = pc[r]
    BY <1>2, <1>5 DEF LockInv, TypeOK
  <2>3. QED
    BY <1>5, <2>1, <2>2 DEF Emptied, Idle, QueueGone
<1>6. QED
  BY <1>0, <1>4, <1>5

\* queue() leaves its queue with a thread.
LEMMA PushServes ==
  ASSUME OrphanInv, NEW qq \in Queue, NEW i, Push(qq, i),
         ~threadShutdownRequested, mpc # "stopped",
         UNCHANGED <<exitCode, threadShutdownRequested>>,
         mpc' \notin {"wake", "loop", "tidy", "lower", "stopped"}
  PROVE  ShutdownInv' /\ NoOrphan'
<1> USE DEF OrphanInv, LockInv
<1>1. /\ thread'[qq] # None
      /\ \A r \in Queue \ {qq} : thread'[r] = thread[r] /\ q'[r] = q[r]
      /\ late \ late' \subseteq {qq}
  BY NameFacts DEF TypeOK, Push, EnsureThread
<1>2. /\ \A r \in Queue, t \in Slot : pc'[r][t] # pc[r][t] => pc'[r][t] = "start"
      /\ qq \in late \ late' => \A t \in Slot : pc'[qq][t] # "bail"
  <2>1. CASE thread[qq] = None
    <3>1. PICK s \in Slot : pc' = [pc EXCEPT ![qq][s] = "start"]
      BY <2>1 DEF Push, EnsureThread
    <3>2. \A t \in Slot : pc[qq][t] # "bail"
      BY <2>1, NameFacts DEF OneServer, Live, WorkerPC
    <3>3. QED
      BY <3>1, <3>2 DEF TypeOK
  <2>2. CASE thread[qq] # None
    BY <2>2 DEF Push, EnsureThread
  <2>3. QED
    BY <2>1, <2>2
<1>3. NoOrphan'
  BY <1>1 DEF NoOrphan
<1>4. \A r \in Queue \ late', t \in Slot : pc'[r][t] # "bail"
  BY <1>1, <1>2 DEF ShutdownInv
<1>5. QED
  BY <1>2, <1>3, <1>4 DEF ShutdownInv, FlagUp

LEMMA ShutdownMain ==
  ASSUME OrphanInv, Script \/ MainStep
  PROVE  ShutdownInv' /\ NoOrphan'
<1> USE DEF OrphanInv, LockInv, ShutdownInv, FlagUp, NoOrphan
<1>1. ASSUME NEW qq \in Queue, Submit(qq) PROVE ShutdownInv' /\ NoOrphan'
  BY <1>1, PushServes DEF Submit
<1>2. ASSUME NEW qq \in Queue, NEW ids \in SUBSET Instr, ClearCache(qq, ids)
      PROVE  ShutdownInv' /\ NoOrphan'
  <2>1. q'[qq] # <<>> => q[qq] # <<>>
    <3>1. PICK rest \in Seq(Instr) : /\ q' = [q EXCEPT ![qq] = rest]
                                     /\ q[qq] = <<>> => rest = <<>>
      BY <1>2, CacheRest
    <3>2. QED
      BY <3>1 DEF TypeOK
  <2>2. \A r \in Queue \ {qq} : q'[r] = q[r]
    BY <1>2, CacheRest DEF TypeOK
  <2>3. UNCHANGED <<thread, pc, mpc, late, exitCode, threadShutdownRequested>>
    BY <1>2 DEF ClearCache, workerVars, mainVars
  <2>4. mpc = "idle"
    BY <1>2 DEF ClearCache
  <2>5. QED
    BY <2>1, <2>2, <2>3, <2>4
<1>3. CASE CloseWhileWaiting
  BY <1>3 DEF CloseWhileWaiting, sharedVars, workerVars, mainVars
<1>4. CASE Reset \/ Quit
  <2>1. k' = 1 /\ mpc' = "wake" /\ threadShutdownRequested'
    BY <1>4 DEF Reset, Quit, RaiseFlag
  <2>2. \A r \in Queue : ~Past(r)'
    BY <2>1, OrderFacts DEF Past
  <2>3. QED
    BY <1>4, <2>1, <2>2
       DEF Reset, Quit, RaiseFlag, sharedVars, workerVars
<1>5. CASE ResultArrives
  BY <1>5 DEF ResultArrives, workerVars
<1>6. CASE PopResult
  BY <1>6 DEF PopResult, workerVars
<1>7. CASE WakeThread \/ AwaitThreadEnd \/ Drain
  <2>0. PICK o : o = Order[k]
    OBVIOUS
  <2>1. /\ UNCHANGED <<k, late, pc, thread, res, exitCode, threadShutdownRequested>>
        /\ mpc \in {"wake", "loop", "tidy"} /\ mpc' \in {"loop", "tidy"}
    BY <1>7 DEF WakeThread, AwaitThreadEnd, Drain, workerVars, mainVars
  <2>2. o \in Queue /\ ~Past(o)
    BY <2>0, <2>1, NotPastYet
  <2>3. \A r \in Queue : Past(r)' => Past(r)
    BY <2>1 DEF Past
  <2>4. \A r \in Queue \ {o} : q'[r] = q[r] /\ sem'[r] = sem[r] /\ loopLock'[r] = loopLock[r]
    BY <1>7, <2>0 DEF WakeThread, AwaitThreadEnd, Drain, TypeOK
  <2>5. \A r \in Queue \ {o} : Emptied(r) => Emptied(r)'
    BY <2>1, <2>4 DEF Emptied, Idle, QueueGone
  <2>6. threadShutdownRequested /\ threadShutdownRequested'
    BY <2>1
  <2>7. \A r \in Queue : Past(r)' => Emptied(r)'
    BY <2>2, <2>3, <2>5, <2>6
  <2>8. QED
    BY <2>1, <2>6, <2>7
<1>8. CASE Drained \/ ClearLeftovers
  <2>1. /\ UNCHANGED <<pc, exitCode, threadShutdownRequested>>
        /\ mpc = "tidy" /\ FinishQueue /\ mpc' \in {"wake", "lower"}
    BY <1>8 DEF Drained, ClearLeftovers, FinishQueue, workerVars
  <2>2. \A r \in Queue : Past(r)' => Past(r) \/ r = Order[k]
    BY <2>1, PastGrowsAtTidy
  <2>3. threadShutdownRequested /\ threadShutdownRequested'
    BY <2>1
  <2>4. \A r \in Queue : Past(r)' => Emptied(r)'
    BY <1>8, <2>2, <2>3, FinishEmpties
  <2>5. QED
    BY <2>1, <2>3, <2>4
<1>9. CASE LowerFlag
  <2>1. \A r \in Queue : Past(r) /\ Emptied(r)
    BY <1>9, OrderOnce DEF Past, LowerFlag
  <2>2. /\ UNCHANGED <<q, sem, res, thread, loopLock, pc, exitCode>>
        /\ ~threadShutdownRequested' /\ mpc = "lower"
        /\ mpc' = IF quitting THEN "stopped" ELSE "restart"
        /\ late' = {r \in late : quitting \/ \E s \in Slot : pc[r][s] = "bail"}
    BY <1>9 DEF LowerFlag, sharedVars, workerVars
  <2>3. \A r \in Queue : q'[r] = <<>>
    BY <2>1, <2>2 DEF Emptied
  <2>4. ASSUME NEW r \in Queue \ late', NEW s \in Slot PROVE pc'[r][s] # "bail"
    <3>1. CASE r \in late
      BY <2>2, <2>4, <3>1
    <3>2. CASE r \notin late
      BY <2>1, <2>2, <3>2, NameFacts DEF Emptied, QueueGone, OneServer, Live, WorkerPC
    <3>3. QED
      BY <3>1, <3>2
  <2>5. mpc' = "stopped" => \A r \in Queue : Emptied(r)'
    <3>1. SUFFICES ASSUME quitting PROVE \A r \in Queue : Emptied(r)'
      BY <2>2
    <3>2. late' = late
      BY <2>2, <3>1
    <3>3. QED
      BY <2>1, <2>2, <3>2 DEF Emptied, Idle, QueueGone
  <2>6. QED
    BY <2>2, <2>3, <2>4, <2>5
<1>10. CASE RestartEventQueue
  <2>1. EventQueue \in Queue
    BY QueueAssumption
  <2>2. QED
    BY <1>10, <2>1, PushServes DEF RestartEventQueue
<1>11. CASE ClearCacheQueues
  <2>1. \A r \in Queue : q'[r] # <<>> => q[r] # <<>>
    BY <1>11 DEF ClearCacheQueues
  <2>2. QED
    BY <1>11, <2>1 DEF ClearCacheQueues, workerVars
<1>12. QED
  BY <1>1, <1>2, <1>3, <1>4, <1>5, <1>6, <1>7, <1>8, <1>9, <1>10, <1>11
     DEF Script, MainStep

LEMMA OrphanStep == OrphanInv /\ [Next]_vars => OrphanInv'
<1> SUFFICES ASSUME OrphanInv, [Next]_vars PROVE OrphanInv'
  OBVIOUS
<1>1. LockInv'
  BY LockStep DEF OrphanInv
<1>2. CASE UNCHANGED vars
  BY <1>1, <1>2
     DEF OrphanInv, ShutdownInv, FlagUp, Past, Emptied, Idle, QueueGone, NoOrphan, vars,
         sharedVars, workerVars, mainVars
<1>3. CASE Next
  BY <1>1, <1>2, <1>3, ShutdownWorker, ShutdownMain
     DEF Next, Stopped, OrphanInv
<1>4. QED
  BY <1>2, <1>3

LEMMA OrphanInvariant == Spec => []OrphanInv
<1>1. Init => OrphanInv
  BY LockInit, TypeInit, ShutdownInit DEF OrphanInv, LockInv
<1>2. QED
  BY <1>1, OrphanStep, PTL DEF Spec

\* Unless a quit is under way, every queued instruction has a thread: for any
\* number of queues and threads, but for a queue whose thread endThreads met before it
\* ran and that read the flag before it was lowered.
THEOREM NoOrphanAlways == Spec => []NoOrphan
BY OrphanInvariant, PTL DEF OrphanInv

\* endThreads leaves no instruction, queued or running, and no result of any queue, and
\* no thread and no post of those whose thread, if any, had run.
THEOREM NothingSurvives == Spec => []NothingSurvivesEndThreads
<1>1. OrphanInv => NothingSurvivesEndThreads
  BY OrderOnce
     DEF OrphanInv, ShutdownInv, FlagUp, Past, NothingSurvivesEndThreads
<1>2. QED
  BY <1>1, OrphanInvariant, PTL

-----------------------------------------------------------------------------
(* resetSub between endThreads and its own clearing of the cache queues *)

CacheIdle ==
  mpc \in {"restart", "clearcache"} => \A qq \in QuitOnEmpty : q[qq] = <<>> /\ Idle(qq)

LEMMA CacheIdleStep ==
  ASSUME OrphanInv, CacheIdle, Next
  PROVE  CacheIdle'
<1> USE DEF OrphanInv
<1>1. ASSUME NEW qq \in Queue, NEW s \in Slot, Worker(qq, s) PROVE CacheIdle'
  <2>1. SUFFICES ASSUME mpc \in {"restart", "clearcache"}, NEW r \in QuitOnEmpty
                 PROVE  q'[r] = <<>> /\ Idle(r)'
    BY <1>1, WorkerFrame DEF CacheIdle, LockInv, mainVars
  <2>2. r \in Queue /\ q[r] = <<>> /\ Idle(r)
    BY <2>1, QueueAssumption DEF CacheIdle
  <2>3. CASE r = qq
    BY <1>1, <2>2, <2>3, IdleWorker
  <2>4. CASE r # qq
    BY <1>1, <2>2, <2>4, WorkerFrame DEF Idle, LockInv
  <2>5. QED
    BY <2>3, <2>4
<1>2. CASE RestartEventQueue
  <2>1. /\ EventQueue \in Queue \ QuitOnEmpty /\ QuitOnEmpty \subseteq Queue
        /\ mpc = "restart" /\ Push(EventQueue, EventInstr)
    BY <1>2, QueueAssumption DEF RestartEventQueue
  <2>2. \A r \in Queue \ {EventQueue} : q'[r] = q[r]
    BY <2>1 DEF Push, LockInv, TypeOK
  <2>3. \A r \in Queue : Idle(r) => Idle(r)'
    BY <2>1, PushIdle
  <2>4. QED
    BY <2>1, <2>2, <2>3 DEF CacheIdle
<1>3. CASE LowerFlag
  <2>1. \A r \in Queue : Past(r) /\ Emptied(r)
    BY <1>3, OrderOnce DEF Past, LowerFlag, ShutdownInv, FlagUp
  <2>2. UNCHANGED <<q, pc>>
    BY <1>3 DEF LowerFlag, sharedVars, workerVars
  <2>3. QED
    BY <2>1, <2>2, QueueAssumption DEF CacheIdle, Emptied, Idle
<1>4. CASE Stopped
  BY <1>4 DEF CacheIdle, Idle, Stopped, vars, sharedVars, workerVars, mainVars
<1>5. CASE Script \/ ResultArrives \/ PopResult \/ (mpc = "quit" /\ Quit) \/ WakeThread
           \/ AwaitThreadEnd \/ Drain \/ Drained \/ ClearLeftovers \/ ClearCacheQueues
  <2>1. mpc' \notin {"restart", "clearcache"}
    BY <1>5 DEF Script, Submit, ClearCache, CloseWhileWaiting, Reset, Quit, RaiseFlag,
                ResultArrives, PopResult, WakeThread, AwaitThreadEnd, Drain, Drained,
                ClearLeftovers, FinishQueue, ClearCacheQueues, mainVars
  <2>2. QED
    BY <2>1 DEF CacheIdle
<1>6. QED
  BY <1>1, <1>2, <1>3, <1>4, <1>5 DEF Next, MainStep

\* When resetSub empties the cache queues without their locks they are empty and no thread
\* carries out an instruction of theirs (ONScripter.cpp:1256), whatever threads endThreads
\* met.
THEOREM UnlockedClearIsSafeAlways == Spec => []UnlockedClearIsSafe
<1>1. Init => CacheIdle
  BY QueueAssumption DEF Init, CacheIdle, Idle, Busy
<1>2. OrphanInv /\ CacheIdle /\ [Next]_vars => CacheIdle'
  BY CacheIdleStep DEF CacheIdle, Idle, vars, sharedVars, workerVars, mainVars
<1>3. CacheIdle => UnlockedClearIsSafe
  BY DEF CacheIdle, UnlockedClearIsSafe
<1>4. QED
  BY <1>1, <1>2, <1>3, OrphanInvariant, PTL DEF Spec

-----------------------------------------------------------------------------
(* The semaphores *)

Inside == {"wait", "recheck", "fetch", "exec", "post", "terminated"}

\* A thread inside its loop has its queue before endThreads, never behind.
InsideNotPast ==
  \A qq \in Queue, s \in Slot :
    threadShutdownRequested /\ pc[qq][s] \in Inside => ~Past(qq)

ResidentNeverWaits == \A qq \in Resident, s \in Slot : pc[qq][s] # "wait"

\* SemCovers, and what remains of it when the thread that consumed a post bails out.
Covered(qq) ==
  \/ Len(q[qq]) <= sem[qq]
  \/ /\ qq \notin Resident /\ Len(q[qq]) = sem[qq] + 1
     /\ thread[qq] # None /\ pc[qq][thread[qq]] \in Holding
     /\ pc[qq][thread[qq]] = "bail" => threadShutdownRequested /\ ~Past(qq)
  \/ thread[qq] = None /\ threadShutdownRequested /\ ~Past(qq)

AllCovered == \A qq \in Queue \ QuitOnEmpty : Covered(qq)

SemInv == LockInv /\ FlagUp /\ InsideNotPast /\ ResidentNeverWaits /\ AllCovered

LEMMA LengthFacts ==
  ASSUME TypeOK, NEW qq \in Queue
  PROVE  Len(q[qq]) \in Nat /\ sem[qq] \in Nat /\ (q[qq] = <<>> => Len(q[qq]) = 0)
         /\ (q[qq] # <<>> => Len(q[qq]) > 0 /\ Len(Tail(q[qq])) = Len(q[qq]) - 1)
BY DEF TypeOK

LEMMA SemInit == Init => SemInv
<1> SUFFICES ASSUME Init PROVE SemInv
  OBVIOUS
<1>1. LockInv
  BY LockInit, TypeInit DEF LockInv
<1>2. \A qq \in Queue : Len(q[qq]) = 0 /\ sem[qq] = 0
  BY DEF Init
<1>3. AllCovered
  BY <1>2 DEF AllCovered, Covered
<1>4. FlagUp /\ InsideNotPast
  BY DEF Init, FlagUp, InsideNotPast
<1>5. ResidentNeverWaits
  BY QueueAssumption DEF Init, ResidentNeverWaits
<1>6. QED
  BY <1>1, <1>3, <1>4, <1>5 DEF SemInv

\* A thread's step keeps its own queue covered.
LEMMA WorkerCovers ==
  ASSUME SemInv, NEW qq \in Queue \ QuitOnEmpty, NEW s \in Slot, Worker(qq, s)
  PROVE  Covered(qq)'
<1> USE DEF SemInv, LockInv
<1>1. /\ Len(q[qq]) \in Nat /\ sem[qq] \in Nat /\ (q[qq] = <<>> => Len(q[qq]) = 0)
      /\ (q[qq] # <<>> => Len(q[qq]) > 0 /\ Len(Tail(q[qq])) = Len(q[qq]) - 1)
  BY LengthFacts
<1>2. /\ Covered(qq) /\ s # None /\ UNCHANGED <<mpc, k, threadShutdownRequested>>
      /\ Past(qq)' <=> Past(qq)
  BY NameFacts, WorkerFrame DEF AllCovered, mainVars, Past
<1>3. pc[qq][s] \in Live => thread[qq] = s
  BY DEF OneServer
<1>4. pc[qq][s] \in Live \ Holding => Len(q[qq]) <= sem[qq]
  BY <1>2, <1>3 DEF Covered
<1>5. CASE TakeLoopLock(qq, s) \/ CheckShutdown(qq, s)
  BY <1>4, <1>5 DEF TakeLoopLock, CheckShutdown, sharedVars, Covered, Live, WorkerPC, Holding
<1>6. CASE AwaitInstruction(qq, s)
  <2>1. /\ Len(q[qq]) <= sem[qq] /\ sem[qq] > 0 /\ sem'[qq] = sem[qq] - 1 /\ q' = q
        /\ thread' = thread /\ pc'[qq][s] = "recheck" /\ thread[qq] = s
    BY <1>3, <1>4, <1>6 DEF AwaitInstruction, TypeOK, Live, WorkerPC, Holding
  <2>2. qq \notin Resident
    BY <1>6 DEF AwaitInstruction, ResidentNeverWaits
  <2>3. Len(q'[qq]) <= sem'[qq] \/ Len(q'[qq]) = sem'[qq] + 1
    BY <1>1, <2>1
  <2>4. QED
    BY <1>2, <2>1, <2>2, <2>3 DEF Covered, Holding
<1>7. CASE Recheck(qq, s)
  <2>1. /\ thread[qq] = s /\ q' = q /\ sem' = sem /\ thread' = thread
        /\ pc'[qq][s] = IF threadShutdownRequested THEN "bail" ELSE "fetch"
        /\ pc[qq][s] = "recheck"
    BY <1>3, <1>7 DEF Recheck, TypeOK, sharedVars, Live, WorkerPC
  <2>2. threadShutdownRequested => ~Past(qq)
    BY <2>1 DEF InsideNotPast, Inside
  <2>3. QED
    BY <1>2, <2>1, <2>2 DEF Covered, Holding
<1>8. CASE Fetch(qq, s) /\ q[qq] = <<>>
  <2>1. q' = q /\ sem' = sem
    BY <1>8 DEF Fetch
  <2>2. QED
    BY <1>1, <1>8, <2>1 DEF Covered
<1>9. CASE Fetch(qq, s) /\ q[qq] # <<>>
  <2>1. /\ sem' = sem /\ thread[qq] = s /\ pc[qq][s] = "fetch"
        /\ q'[qq] = IF qq \in Resident THEN q[qq] ELSE Tail(q[qq])
    BY <1>3, <1>9 DEF Fetch, TypeOK, Live, WorkerPC
  <2>2. \/ Len(q[qq]) <= sem[qq]
        \/ qq \notin Resident /\ Len(q[qq]) = sem[qq] + 1
    BY <1>2, <2>1 DEF Covered
  <2>3. Len(q'[qq]) <= sem'[qq]
    BY <1>1, <1>9, <2>1, <2>2
  <2>4. QED
    BY <2>3 DEF Covered
<1>10. CASE Execute(qq, s) \/ ExecuteFails(qq, s) \/ Post(qq, s) \/ Terminated(qq, s)
  BY <1>4, <1>10 DEF Execute, ExecuteFails, Post, PostResult, Terminated, sharedVars, Covered,
                     Live, WorkerPC, Holding
<1>11. CASE Bail(qq, s)
  <2>1. /\ q' = q /\ sem' = sem /\ thread'[qq] = None
        /\ thread[qq] = s /\ pc[qq][s] = "bail"
    BY <1>3, <1>11 DEF Bail, TypeOK, Live, WorkerPC
  <2>2. QED
    BY <1>2, <2>1 DEF Covered
<1>12. CASE Exit(qq, s)
  <2>1. /\ q' = q /\ sem' = sem /\ thread' = thread /\ thread[qq] # s
        /\ \A t \in Slot \ {s} : pc'[qq][t] = pc[qq][t]
    BY <1>12 DEF Exit, TypeOK, OneServer, Live
  <2>2. thread[qq] # None => thread[qq] \in Slot \ {s}
    BY <2>1 DEF TypeOK
  <2>3. QED
    BY <1>2, <2>1, <2>2 DEF Covered
<1>13. QED
  BY <1>5, <1>6, <1>7, <1>8, <1>9, <1>10, <1>11, <1>12 DEF Worker

LEMMA SemWorker ==
  ASSUME SemInv, NEW qq \in Queue, NEW s \in Slot, Worker(qq, s)
  PROVE  FlagUp' /\ InsideNotPast' /\ ResidentNeverWaits' /\ AllCovered'
<1> USE DEF SemInv, LockInv
<1>1. /\ UNCHANGED <<mpc, k, threadShutdownRequested>>
      /\ \A r \in Queue : Past(r)' <=> Past(r)
  BY WorkerFrame DEF mainVars, Past
<1>2. FlagUp'
  BY <1>1 DEF FlagUp
<1>3. /\ pc'[qq][s] \in Inside /\ threadShutdownRequested => pc[qq][s] \in Inside
      /\ qq \in Resident => pc'[qq][s] # "wait"
  BY DEF Worker, TakeLoopLock, CheckShutdown, AwaitInstruction, Recheck, Fetch, Execute,
         ExecuteFails, Post, Leave, Stay, Terminated, Bail, Exit, TypeOK, Inside
<1>4. InsideNotPast'
  BY <1>1, <1>3, WorkerFrame DEF InsideNotPast
<1>4a. ASSUME NEW r \in Resident, NEW t \in Slot PROVE pc'[r][t] # "wait"
  <2>1. r \in Queue /\ pc[r][t] # "wait"
    BY QueueAssumption DEF ResidentNeverWaits
  <2>2. CASE r = qq /\ t = s
    BY <1>3, <2>2
  <2>3. CASE ~(r = qq /\ t = s)
    BY <2>1, <2>3, WorkerFrame
  <2>4. QED
    BY <2>2, <2>3
<1>5. ASSUME NEW r \in Queue \ QuitOnEmpty PROVE Covered(r)'
  <2>1. CASE r = qq
    BY <2>1, WorkerCovers
  <2>2. CASE r # qq
    BY <1>1, <2>2, WorkerFrame DEF AllCovered, Covered
  <2>3. QED
    BY <2>1, <2>2
<1>6. QED
  BY <1>2, <1>4, <1>4a, <1>5 DEF AllCovered, ResidentNeverWaits

\* queue() while the flag is down: one instruction and one post.
LEMMA SemPush ==
  ASSUME SemInv, NEW qq \in Queue, NEW i, Push(qq, i),
         ~threadShutdownRequested, ~threadShutdownRequested',
         mpc' \notin {"wake", "loop", "tidy", "lower"}
  PROVE  FlagUp' /\ InsideNotPast' /\ ResidentNeverWaits' /\ AllCovered'
<1> USE DEF SemInv, LockInv
<1>1. FlagUp' /\ InsideNotPast'
  BY DEF FlagUp, InsideNotPast
<1>2. \/ thread[qq] # None /\ UNCHANGED <<thread, pc>>
      \/ /\ thread[qq] = None
         /\ \E s \in Slot : /\ thread' = [thread EXCEPT ![qq] = s]
                            /\ pc' = [pc EXCEPT ![qq][s] = "start"]
  BY DEF Push, EnsureThread
<1>3. ResidentNeverWaits'
  <2>1. \A r \in Queue, t \in Slot : pc'[r][t] = pc[r][t] \/ pc'[r][t] = "start"
    <3>1. CASE UNCHANGED pc
      BY <3>1
    <3>2. CASE \E s \in Slot : pc' = [pc EXCEPT ![qq][s] = "start"]
      <4>1. PICK s \in Slot : pc' = [pc EXCEPT ![qq][s] = "start"]
        BY <3>2
      <4>2. QED
        BY <4>1 DEF TypeOK
    <3>3. QED
      BY <1>2, <3>1, <3>2
  <2>2. ASSUME NEW r \in Resident, NEW t \in Slot PROVE pc'[r][t] # "wait"
    <3>1. r \in Queue /\ pc[r][t] # "wait"
      BY QueueAssumption DEF ResidentNeverWaits
    <3>2. QED
      BY <2>1, <3>1
  <2>3. QED
    BY <2>2 DEF ResidentNeverWaits
<1>4. ASSUME NEW r \in Queue \ QuitOnEmpty PROVE Covered(r)'
  <2>1. CASE r # qq
    <3>1. q'[r] = q[r] /\ sem'[r] = sem[r] /\ thread'[r] = thread[r] /\ pc'[r] = pc[r]
      BY <1>2, <2>1 DEF Push, TypeOK
    <3>2. QED
      BY <3>1 DEF AllCovered, Covered
  <2>2. CASE r = qq
    <3>1. /\ Len(q'[r]) = Len(q[r]) + 1 /\ sem'[r] = sem[r] + 1
          /\ Len(q[r]) \in Nat /\ sem[r] \in Nat
      <4>1. q[r] \in Seq(Instr) /\ q'[r] = Append(q[r], i) /\ sem'[r] = sem[r] + 1
        BY <2>2 DEF Push, TypeOK
      <4>2. Len(Append(q[r], i)) = Len(q[r]) + 1
        BY <4>1
      <4>3. QED
        BY <4>1, <4>2, LengthFacts
    <3>2. CASE thread[r] = None
      <4>1. Len(q[r]) <= sem[r]
        BY <3>2 DEF AllCovered, Covered
      <4>2. Len(q'[r]) <= sem'[r]
        BY <3>1, <4>1
      <4>3. QED
        BY <4>2 DEF Covered
    <3>3. CASE thread[r] # None
      <4>1. UNCHANGED <<thread, pc>>
        BY <1>2, <2>2, <3>3
      <4>2. \/ Len(q[r]) <= sem[r]
            \/ /\ r \notin Resident /\ Len(q[r]) = sem[r] + 1
               /\ pc[r][thread[r]] \in Holding /\ pc[r][thread[r]] # "bail"
        BY <3>3 DEF AllCovered, Covered
      <4>3. \/ Len(q'[r]) <= sem'[r]
            \/ /\ r \notin Resident /\ Len(q'[r]) = sem'[r] + 1
               /\ pc[r][thread[r]] \in Holding /\ pc[r][thread[r]] # "bail"
        BY <3>1, <4>2
      <4>4. QED
        BY <3>3, <4>1, <4>3 DEF Covered
    <3>4. QED
      BY <3>2, <3>3
  <2>3. QED
    BY <2>1, <2>2
<1>5. QED
  BY <1>1, <1>3, <1>4 DEF AllCovered

LEMMA SemMain ==
  ASSUME SemInv, Script \/ MainStep
  PROVE  FlagUp' /\ InsideNotPast' /\ ResidentNeverWaits' /\ AllCovered'
<1> USE DEF SemInv, LockInv
<1>1. ASSUME NEW qq \in Queue, Submit(qq)
      PROVE  FlagUp' /\ InsideNotPast' /\ ResidentNeverWaits' /\ AllCovered'
  <2>1. /\ Push(qq, next) /\ mpc = "idle" /\ mpc' \in {"await", "idle"}
        /\ threadShutdownRequested' = threadShutdownRequested
    BY <1>1 DEF Submit
  <2>2. QED
    BY <2>1, SemPush DEF FlagUp
<1>2. CASE RestartEventQueue
  <2>1. /\ Push(EventQueue, EventInstr) /\ mpc = "restart" /\ mpc' \in {"idle", "clearcache"}
        /\ threadShutdownRequested' = threadShutdownRequested /\ EventQueue \in Queue
    BY <1>2, QueueAssumption DEF RestartEventQueue
  <2>2. QED
    BY <2>1, SemPush DEF FlagUp
<1>3. ASSUME UNCHANGED <<sem, thread, pc, threadShutdownRequested>>,
             \A r \in Queue \ QuitOnEmpty : q'[r] = q[r],
             ~threadShutdownRequested, mpc' \notin {"wake", "loop", "tidy", "lower"}
      PROVE  FlagUp' /\ InsideNotPast' /\ ResidentNeverWaits' /\ AllCovered'
  BY <1>3 DEF FlagUp, InsideNotPast, ResidentNeverWaits, AllCovered, Covered
<1>4. ASSUME NEW qq \in Queue, NEW ids \in SUBSET Instr, ClearCache(qq, ids)
      PROVE  FlagUp' /\ InsideNotPast' /\ ResidentNeverWaits' /\ AllCovered'
  <2>1. /\ UNCHANGED <<sem, thread, pc, threadShutdownRequested, mpc>> /\ mpc = "idle"
        /\ qq \in QuitOnEmpty
    BY <1>4 DEF ClearCache, workerVars, mainVars
  <2>2. \E rest : q' = [q EXCEPT ![qq] = rest]
    BY <1>4, CacheRest DEF SemInv, LockInv
  <2>3. \A r \in Queue \ QuitOnEmpty : q'[r] = q[r]
    BY <2>1, <2>2 DEF TypeOK
  <2>4. QED
    BY <1>3, <2>1, <2>3 DEF FlagUp
<1>5. CASE CloseWhileWaiting \/ ResultArrives \/ PopResult
  <2>1. /\ UNCHANGED <<q, sem, thread, pc, threadShutdownRequested>>
        /\ mpc \in {"await", "pop"} /\ mpc' \in {"await", "quit", "pop", "idle"}
    BY <1>5 DEF CloseWhileWaiting, ResultArrives, PopResult, sharedVars, workerVars, mainVars
  <2>2. QED
    BY <1>3, <2>1 DEF FlagUp
<1>6. CASE ClearCacheQueues
  <2>1. /\ UNCHANGED <<sem, thread, pc, threadShutdownRequested>>
        /\ mpc = "clearcache" /\ mpc' = "idle"
        /\ \A r \in Queue \ QuitOnEmpty : q'[r] = q[r]
    BY <1>6 DEF ClearCacheQueues, workerVars
  <2>2. QED
    BY <1>3, <2>1 DEF FlagUp
<1>7. CASE Reset \/ Quit
  <2>1. /\ UNCHANGED <<q, sem, thread, pc>> /\ threadShutdownRequested' /\ mpc' = "wake"
        /\ k' = 1 /\ mpc \in {"idle", "quit"}
    BY <1>7 DEF Reset, Quit, RaiseFlag, sharedVars, workerVars
  <2>2. \A r \in Queue : ~Past(r)'
    BY <2>1, OrderFacts DEF Past
  <2>3. QED
    BY <2>1, <2>2 DEF FlagUp, InsideNotPast, ResidentNeverWaits, AllCovered, Covered
<1>8. CASE WakeThread
  <2>1. /\ UNCHANGED <<q, thread, pc, threadShutdownRequested, k>>
        /\ mpc = "wake" /\ mpc' = "loop" /\ Order[k] \in Queue
        /\ sem' = IF Order[k] \in QuitOnEmpty THEN sem ELSE [sem EXCEPT ![Order[k]] = @ + 1]
    BY <1>8, OrderFacts DEF WakeThread, workerVars, TypeOK
  <2>2. \A r \in Queue : Past(r)' <=> Past(r)
    BY <2>1 DEF Past
  <2>3. ASSUME NEW r \in Queue \ QuitOnEmpty PROVE Covered(r)'
    <3>1. CASE r # Order[k]
      <4>1. sem'[r] = sem[r]
        BY <2>1, <3>1 DEF TypeOK
      <4>2. QED
        BY <2>1, <2>2, <4>1 DEF AllCovered, Covered
    <3>2. CASE r = Order[k]
      <4>1. sem'[r] = sem[r] + 1 /\ q'[r] = q[r] /\ sem[r] \in Nat /\ Len(q[r]) \in Nat
        BY <2>1, <3>2, LengthFacts DEF TypeOK
      <4>2. \/ Len(q[r]) <= sem[r] + 1
            \/ thread[r] = None /\ threadShutdownRequested /\ ~Past(r)
        BY <4>1 DEF AllCovered, Covered
      <4>3. QED
        BY <2>1, <2>2, <4>1, <4>2 DEF Covered
    <3>3. QED
      BY <3>1, <3>2
  <2>4. QED
    BY <2>1, <2>2, <2>3 DEF FlagUp, InsideNotPast, ResidentNeverWaits, AllCovered
<1>9. CASE AwaitThreadEnd
  <2>1. /\ UNCHANGED <<q, sem, thread, pc, threadShutdownRequested, k>>
        /\ mpc = "loop" /\ mpc' = "tidy"
    BY <1>9 DEF AwaitThreadEnd, workerVars
  <2>2. \A r \in Queue : Past(r)' <=> Past(r)
    BY <2>1 DEF Past
  <2>3. QED
    BY <2>1, <2>2 DEF FlagUp, InsideNotPast, ResidentNeverWaits, AllCovered, Covered
<1>10. CASE Drain
  <2>0. PICK o : o = Order[k]
    OBVIOUS
  <2>1. /\ UNCHANGED <<thread, pc, threadShutdownRequested, k, mpc>> /\ o \in Queue
        /\ q[o] # <<>> /\ sem[o] > 0 /\ thread[o] # None /\ mpc = "tidy"
        /\ sem' = [sem EXCEPT ![o] = @ - 1] /\ q' = [q EXCEPT ![o] = Tail(@)]
    BY <1>10, <2>0, OrderFacts DEF Drain, workerVars, mainVars, TypeOK
  <2>2. /\ \A r \in Queue : Past(r)' <=> Past(r)
        /\ \A r \in Queue : r # o => q'[r] = q[r] /\ sem'[r] = sem[r]
        /\ q'[o] = Tail(q[o]) /\ sem'[o] = sem[o] - 1
    BY <2>1 DEF Past, TypeOK
  <2>3. loopLock[o] = Main /\ thread[o] \in Slot
    BY <2>0, <2>1 DEF MainLock, TypeOK
  <2>4. pc[o][thread[o]] \in {"none", "start"}
    BY <2>1, <2>3, NameFacts DEF OneServer
  <2>5. ASSUME o \notin QuitOnEmpty PROVE Covered(o)'
    <3>1. Len(q[o]) <= sem[o]
      BY <2>1, <2>4, <2>5 DEF AllCovered, Covered, Holding
    <3>2. /\ Len(q[o]) \in Nat /\ sem[o] \in Nat
          /\ Len(Tail(q[o])) = Len(q[o]) - 1
      BY <2>1, LengthFacts
    <3>3. Len(q'[o]) <= sem'[o]
      BY <2>2, <3>1, <3>2
    <3>4. QED
      BY <3>3 DEF Covered
  <2>6. ASSUME NEW r \in Queue \ QuitOnEmpty, r # o PROVE Covered(r)'
    BY <2>1, <2>2, <2>6 DEF AllCovered, Covered
  <2>7. AllCovered'
    BY <2>5, <2>6 DEF AllCovered
  <2>8. QED
    BY <2>1, <2>2, <2>7 DEF FlagUp, InsideNotPast, ResidentNeverWaits
<1>11. CASE Drained \/ ClearLeftovers
  <2>0. PICK o : o = Order[k]
    OBVIOUS
  <2>1. /\ UNCHANGED <<thread, pc, threadShutdownRequested>> /\ mpc = "tidy" /\ FinishQueue
        /\ mpc' \in {"wake", "lower"}
    BY <1>11 DEF Drained, ClearLeftovers, FinishQueue, workerVars
  <2>2. /\ \A r \in Queue : Past(r)' => Past(r) \/ r = o
        /\ \A s \in Slot : pc[o][s] \in {"none", "start"}
        /\ o \in Queue
    BY <1>11, <2>0, <2>1, PastGrowsAtTidy DEF Drained, ClearLeftovers, FinishQueue, workerVars
  <2>3. /\ \A r \in Queue : r # o => q'[r] = q[r] /\ sem'[r] = sem[r]
        /\ q'[o] = <<>> /\ sem'[o] \in Nat
    <3>1. CASE Drained
      BY <2>0, <2>2, <3>1 DEF Drained, TypeOK
    <3>2. CASE ClearLeftovers
      <4>1. q' = [q EXCEPT ![o] = <<>>] /\ sem' = [sem EXCEPT ![o] = 0]
        BY <2>0, <3>2 DEF ClearLeftovers
      <4>2. QED
        BY <2>2, <4>1 DEF TypeOK
    <3>3. QED
      BY <1>11, <3>1, <3>2
  <2>4. Covered(o)'
    <3>1. Len(q'[o]) = 0
      BY <2>3
    <3>2. Len(q'[o]) <= sem'[o]
      BY <2>3, <3>1
    <3>3. QED
      BY <3>2 DEF Covered
  <2>5. ASSUME NEW r \in Queue \ QuitOnEmpty, r # o PROVE Covered(r)'
    BY <2>1, <2>2, <2>3, <2>5 DEF AllCovered, Covered
  <2>6. AllCovered'
    BY <2>4, <2>5 DEF AllCovered
  <2>7. InsideNotPast'
    BY <2>1, <2>2 DEF InsideNotPast, Inside
  <2>8. QED
    BY <2>1, <2>6, <2>7 DEF FlagUp, ResidentNeverWaits
<1>12. CASE LowerFlag
  <2>1. /\ UNCHANGED <<q, sem, thread, pc>> /\ ~threadShutdownRequested' /\ mpc = "lower"
        /\ mpc' \in {"stopped", "restart"}
    BY <1>12 DEF LowerFlag, sharedVars, workerVars
  <2>2. \A r \in Queue : Past(r)
    BY <2>1, OrderOnce DEF Past
  <2>3. QED
    BY <2>1, <2>2 DEF FlagUp, InsideNotPast, ResidentNeverWaits, AllCovered, Covered
<1>13. QED
  BY <1>1, <1>2, <1>4, <1>5, <1>6, <1>7, <1>8, <1>9, <1>10, <1>11, <1>12 DEF Script, MainStep

LEMMA SemStep == SemInv /\ [Next]_vars => SemInv'
<1> SUFFICES ASSUME SemInv, [Next]_vars PROVE SemInv'
  OBVIOUS
<1>1. LockInv'
  BY LockStep DEF SemInv
<1>2. CASE UNCHANGED vars
  BY <1>1, <1>2 DEF SemInv, FlagUp, InsideNotPast, ResidentNeverWaits, AllCovered, Covered, Past,
                    vars, sharedVars, workerVars, mainVars
<1>3. CASE Next
  BY <1>1, <1>2, <1>3, SemWorker, SemMain DEF Next, Stopped, SemInv
<1>4. QED
  BY <1>2, <1>3

LEMMA SemInvariant == Spec => []SemInv
BY SemInit, SemStep, PTL DEF Spec

\* Every queued instruction has a post of instructionsWaiting that its thread has not
\* consumed, or has consumed and will act on (Async.cpp:90-160), also when endThreads met
\* the thread before it started.
THEOREM SemCoversAlways == Spec => []SemCovers
<1>1. SemInv => SemCovers
  BY DEF SemInv, AllCovered, Covered, SemCovers
<1>2. QED
  BY <1>1, SemInvariant, PTL

\* "this should never suspend" (Async.cpp:177) is true of every queue whose thread does
\* not quit when it runs dry, whatever the other queues do: a thread that has not started
\* has consumed no post.
THEOREM DrainIsCoveredAlways == Spec => []DrainIsCovered
<1>1. SemInv => DrainIsCovered
  <2> SUFFICES ASSUME SemInv, mpc = "tidy", thread[Order[k]] # None, q[Order[k]] # <<>>,
                      Order[k] \notin QuitOnEmpty
               PROVE  sem[Order[k]] # 0
    BY DEF DrainIsCovered, DrainSuspends
  <2> DEFINE o == Order[k]
  <2>1. o \in Queue /\ loopLock[o] = Main /\ thread[o] \in Slot /\ Covered(o)
    BY OrderFacts DEF SemInv, LockInv, TypeOK, MainLock, AllCovered
  <2>2. pc[o][thread[o]] \in {"none", "start"}
    BY <2>1, NameFacts DEF SemInv, LockInv, OneServer
  <2>3. Len(q[o]) <= sem[o]
    BY <2>1, <2>2 DEF Covered, Holding
  <2>4. QED
    BY <2>1, <2>3, LengthFacts DEF SemInv, LockInv
<1>2. QED
  BY <1>1, SemInvariant, PTL

-----------------------------------------------------------------------------
(* A blocking call gets its own result *)

\* No result is left of an earlier instruction.
Fresh(r) == res[r] = 0 /\ results[r] = <<>>

\* Nobody waits for anything of the queue.
Calm(r) == q[r] = <<>> /\ Idle(r) /\ Fresh(r)

\* What instruction i leaves in results.
Left(r, i) == IF r \in Reporting THEN <<i>> ELSE <<>>

\* How far the one instruction of a blocking call has come.
Asked(r, i) == q[r] = <<i>> /\ Idle(r) /\ Fresh(r)
Runs(r, i) == /\ q[r] = <<>> /\ Fresh(r)
              /\ \E s \in Slot : pc[r][s] = "exec" /\ cur[r][s] = i
Ran(r, i) == /\ q[r] = <<>> /\ res[r] = 0 /\ results[r] = Left(r, i)
             /\ \E s \in Slot : pc[r][s] = "post"
Threw(r) == /\ q[r] = <<>> /\ Fresh(r) /\ exitCode
            /\ \E s \in Slot : pc[r][s] = "terminated"
Done(r, i) == /\ q[r] = <<>> /\ Idle(r) /\ res[r] \in {0, 1}
              /\ results[r] = Left(r, i) \/ exitCode

Served(r, i) == Asked(r, i) \/ Runs(r, i) \/ Ran(r, i) \/ Threw(r) \/ Done(r, i)
Popping(r, i) == q[r] = <<>> /\ Idle(r) /\ res[r] = 0 /\ results[r] = <<i>>

\* Until the program ends, every queue a blocking call may wait for is calm,
\* but for the one it waits for.
OthersCalm ==
  ~quitting /\ mpc \notin {"quit", "stopped"} =>
    \A r \in Synchronous :
      Calm(r) \/ (mpc \in {"await", "pop"} /\ awaited[1] = r)

ResultInv ==
  /\ quitting => mpc \in {"wake", "loop", "tidy", "lower", "stopped"}
  /\ mpc \in {"await", "pop"} => awaited[1] \in Synchronous
  /\ mpc = "await" => Served(awaited[1], awaited[2])
  /\ mpc = "pop" => /\ awaited[1] \in Reporting
                    /\ Popping(awaited[1], awaited[2])
  /\ OthersCalm

LEMMA SyncFacts ==
  /\ Synchronous \subseteq Queue /\ Reporting \subseteq Synchronous
  /\ EventQueue \notin Synchronous
  /\ \A r \in Synchronous : r \notin QuitOnEmpty /\ r \notin Resident
BY QueueAssumption

LEMMA ResultInit == Init => ResultInv
<1> SUFFICES ASSUME Init PROVE ResultInv
  OBVIOUS
<1>1. \A r \in Queue : Calm(r)
  BY DEF Init, Calm, Idle, Fresh, Busy
<1>2. OthersCalm
  BY <1>1, SyncFacts DEF OthersCalm
<1>3. QED
  BY <1>2 DEF Init, ResultInv

\* A thread touches the results of its own queue only, and a quit stays asked for.
LEMMA ResultFrame ==
  ASSUME TypeOK, NEW qq \in Queue, NEW s \in Slot, Worker(qq, s)
  PROVE  /\ exitCode => exitCode'
         /\ \A r \in Queue \ {qq} : results'[r] = results[r] /\ cur'[r] = cur[r]
<1>1. exitCode => exitCode'
  BY DEF Worker, TakeLoopLock, CheckShutdown, AwaitInstruction, Recheck, Fetch,
         Execute, ExecuteFails, Post, PostResult, Terminated, Bail, Exit
<1>2. \A r \in Queue \ {qq} : results'[r] = results[r]
  <2>1. results' = results \/ results' = Reported(qq, cur[qq][s])
    BY DEF Worker, TakeLoopLock, CheckShutdown, AwaitInstruction, Recheck, Fetch,
           Execute, ExecuteFails, Post, PostResult, Terminated, Bail, Exit, sharedVars
  <2>2. QED
    BY <2>1 DEF Reported, TypeOK
<1>3. \A r \in Queue \ {qq} : cur'[r] = cur[r]
  <2>1. cur' = cur \/ \E c : cur' = [cur EXCEPT ![qq][s] = c]
    BY DEF Worker, TakeLoopLock, CheckShutdown, AwaitInstruction, Recheck, Fetch,
           Execute, ExecuteFails, Post, PostResult, Terminated, Bail, Exit
  <2>2. QED
    BY <2>1 DEF TypeOK
<1>4. QED
  BY <1>1, <1>2, <1>3

\* Where a thread is busy, it is the one that steps.
LEMMA BusyWorker ==
  ASSUME LockInv, NEW qq \in Queue, NEW s \in Slot, Worker(qq, s),
         NEW t \in Slot, pc[qq][t] \in Busy
  PROVE  s = t
<1>1. loopLock[qq] = t /\ loopLock[qq] # None
  BY NameFacts DEF LockInv, OneServer, Busy
<1>2. pc[qq][s] \notin {"none", "start"}
  BY <1>1 DEF Worker, TakeLoopLock, CheckShutdown, AwaitInstruction, Recheck, Fetch,
         Execute, ExecuteFails, Post, Terminated, Bail, Exit
<1>3. QED
  BY <1>1, <1>2 DEF LockInv, OneServer

LEMMA CalmWorker ==
  ASSUME LockInv, NEW qq \in Queue, NEW s \in Slot, Worker(qq, s),
         NEW r \in Queue, Calm(r)
  PROVE  Calm(r)'
<1>1. CASE r = qq
  BY <1>1, IdleWorker DEF Calm, Fresh
<1>2. CASE r # qq
  BY <1>2, WorkerFrame, ResultFrame DEF Calm, Fresh, Idle, LockInv
<1>3. QED
  BY <1>1, <1>2

\* The instruction a blocking call waits for, through the steps of the thread
\* that runs it.
LEMMA ServedWorker ==
  ASSUME LockInv, NEW qq \in Synchronous, NEW s \in Slot, Worker(qq, s),
         NEW i, Served(qq, i)
  PROVE  Served(qq, i)'
<1> USE DEF LockInv
<1>0. /\ qq \in Queue /\ qq \notin QuitOnEmpty /\ qq \notin Resident
      /\ exitCode => exitCode'
  BY SyncFacts, ResultFrame
<1>1. CASE Asked(qq, i) /\ Fetch(qq, s)
  <2>1. q[qq] = <<i>> /\ q[qq] # <<>> /\ Head(q[qq]) = i /\ Tail(q[qq]) = <<>>
    BY <1>1 DEF Asked
  <2>2. /\ pc' = [pc EXCEPT ![qq][s] = "exec"]
        /\ cur' = [cur EXCEPT ![qq][s] = i]
        /\ q' = [q EXCEPT ![qq] = <<>>]
        /\ UNCHANGED <<res, results>>
    BY <1>0, <1>1, <2>1 DEF Fetch
  <2>3. pc'[qq][s] = "exec" /\ cur'[qq][s] = i /\ q'[qq] = <<>>
    BY <1>0, <2>2 DEF TypeOK
  <2>4. Runs(qq, i)'
    BY <1>1, <2>2, <2>3 DEF Runs, Asked, Fresh
  <2>5. QED
    BY <2>4 DEF Served
<1>2. CASE Asked(qq, i) /\ ~Fetch(qq, s)
  BY <1>0, <1>2, IdleWorker DEF Asked, Fresh, Served
<1>3. CASE Runs(qq, i)
  <2>1. PICK t \in Slot : pc[qq][t] = "exec" /\ cur[qq][t] = i
    BY <1>3 DEF Runs
  <2>2. s = t
    BY <1>0, <2>1, BusyWorker DEF Busy
  <2>3. q[qq] = <<>> /\ res[qq] = 0 /\ results[qq] = <<>>
    BY <1>3 DEF Runs, Fresh
  <2>4. CASE Execute(qq, s)
    <3>1. /\ q' = q /\ res' = res /\ pc' = [pc EXCEPT ![qq][s] = "post"]
          /\ results' = Reported(qq, i)
      BY <2>1, <2>2, <2>4 DEF Execute
    <3>2. results'[qq] = Left(qq, i)
      <4>1. Append(<<>>, i) = <<i>>
        OBVIOUS
      <4>2. QED
        BY <1>0, <2>3, <3>1, <4>1 DEF Reported, Left, TypeOK
    <3>3. pc'[qq][s] = "post"
      BY <1>0, <3>1 DEF TypeOK
    <3>4. QED
      BY <2>3, <3>1, <3>2, <3>3 DEF Ran, Served
  <2>5. CASE ExecuteFails(qq, s)
    <3>1. /\ UNCHANGED <<q, res, results>> /\ exitCode'
          /\ pc' = [pc EXCEPT ![qq][s] = "terminated"]
      BY <2>5 DEF ExecuteFails, sharedVars
    <3>2. pc'[qq][s] = "terminated"
      BY <1>0, <3>1 DEF TypeOK
    <3>3. QED
      BY <2>3, <3>1, <3>2 DEF Threw, Fresh, Served
  <2>6. QED
    BY <2>1, <2>2, <2>4, <2>5 DEF Worker, TakeLoopLock, CheckShutdown,
       AwaitInstruction, Recheck, Fetch, Post, Terminated, Bail, Exit
<1>4. ASSUME NEW t \in Slot, pc[qq][t] \in {"post", "terminated"}, q[qq] = <<>>,
             res[qq] = 0, results[qq] = Left(qq, i) \/ exitCode
      PROVE  Done(qq, i)'
  <2>1. s = t
    BY <1>0, <1>4, BusyWorker DEF Busy
  <2>2. Post(qq, s) \/ Terminated(qq, s)
    BY <1>4, <2>1 DEF Worker, TakeLoopLock, CheckShutdown, AwaitInstruction,
       Recheck, Fetch, Execute, ExecuteFails, Bail, Exit
  <2>3. res' = Posted(qq) /\ UNCHANGED <<q, results>>
    BY <1>0, <2>2 DEF Post, PostResult, Terminated
  <2>4. res'[qq] \in {0, 1}
    BY <1>0, <1>4, <2>3 DEF Posted, TypeOK
  <2>5. PICK l \in {"top", "exit"} : pc' = [pc EXCEPT ![qq][s] = l]
    BY <2>2 DEF Post, Leave, Stay, Terminated
  <2>6. \A u \in Slot : pc[qq][u] \in Busy => u = s
    BY <1>0, BusyWorker
  <2>7. Idle(qq)'
    BY <1>0, <2>5, <2>6 DEF TypeOK, Idle, Busy
  <2>8. QED
    BY <1>0, <1>4, <2>3, <2>4, <2>7 DEF Done
<1>5. CASE Ran(qq, i)
  BY <1>4, <1>5 DEF Ran, Served
<1>6. CASE Threw(qq)
  BY <1>4, <1>6 DEF Threw, Fresh, Served
<1>7. CASE Done(qq, i)
  BY <1>0, <1>7, IdleWorker DEF Done, Served
<1>8. QED
  BY <1>1, <1>2, <1>3, <1>5, <1>6, <1>7 DEF Served

LEMMA ServedFrame ==
  ASSUME LockInv, NEW qq \in Queue, NEW s \in Slot, Worker(qq, s),
         NEW r \in Queue \ {qq}, NEW i, Served(r, i)
  PROVE  Served(r, i)'
<1>1. /\ q'[r] = q[r] /\ res'[r] = res[r] /\ results'[r] = results[r]
      /\ pc'[r] = pc[r] /\ cur'[r] = cur[r]
      /\ exitCode => exitCode'
  BY WorkerFrame, ResultFrame DEF LockInv
<1>2. Idle(r)' <=> Idle(r)
  BY <1>1 DEF Idle
<1>3. QED
  BY <1>1, <1>2 DEF Served, Asked, Runs, Ran, Threw, Done, Fresh, Left

LEMMA ResultWorker ==
  ASSUME LockInv, ResultInv, NEW qq \in Queue, NEW s \in Slot, Worker(qq, s)
  PROVE  ResultInv'
<1>1. UNCHANGED <<mpc, quitting, awaited>>
  BY WorkerFrame DEF LockInv, mainVars
<1>2. OthersCalm'
  BY <1>1, CalmWorker, SyncFacts DEF ResultInv, OthersCalm
<1>3. ASSUME mpc = "await" PROVE Served(awaited[1], awaited[2])'
  <2>1. awaited[1] \in Synchronous /\ Served(awaited[1], awaited[2])
    BY <1>3 DEF ResultInv
  <2>2. CASE awaited[1] = qq
    BY <1>1, <2>1, <2>2, ServedWorker
  <2>3. CASE awaited[1] # qq
    BY <1>1, <2>1, <2>3, ServedFrame, SyncFacts
  <2>4. QED
    BY <2>2, <2>3
<1>4. ASSUME mpc = "pop" PROVE Popping(awaited[1], awaited[2])'
  <2>1. awaited[1] \in Queue /\ Popping(awaited[1], awaited[2])
    BY <1>4, SyncFacts DEF ResultInv
  <2>2. CASE awaited[1] = qq
    BY <1>1, <2>1, <2>2, IdleWorker DEF Popping
  <2>3. CASE awaited[1] # qq
    BY <1>1, <2>1, <2>3, WorkerFrame, ResultFrame DEF Popping, Idle, LockInv
  <2>4. QED
    BY <2>2, <2>3
<1>5. QED
  BY <1>1, <1>2, <1>3, <1>4 DEF ResultInv

LEMMA PushCalm ==
  ASSUME LockInv, NEW qq \in Queue, NEW i, Push(qq, i), NEW r \in Queue, r # qq, Calm(r)
  PROVE  Calm(r)'
<1>1. q'[r] = q[r] /\ UNCHANGED <<res, results>>
  BY DEF Push, LockInv, TypeOK
<1>2. QED
  BY <1>1, PushIdle DEF Calm, Fresh

\* A blocking call that begins waits for an instruction of its own.
LEMMA ResultSubmit ==
  ASSUME LockInv, ResultInv, NEW qq \in Queue, Submit(qq)
  PROVE  ResultInv'
<1>1. /\ mpc = "idle" /\ ~quitting /\ ~quitting' /\ Push(qq, next)
      /\ \A r \in Synchronous : Calm(r)
  BY DEF Submit, ResultInv, OthersCalm
<1>2. \A r \in Synchronous : r # qq => Calm(r)'
  BY <1>1, PushCalm, SyncFacts
<1>3. CASE qq \in Synchronous
  <2>1. mpc' = "await" /\ awaited' = <<qq, next>>
    BY <1>3 DEF Submit
  <2>2. q[qq] = <<>> /\ Idle(qq) /\ Fresh(qq)
    BY <1>1, <1>3 DEF Calm
  <2>3. q'[qq] = <<next>> /\ UNCHANGED <<res, results>>
    <3>1. Append(<<>>, next) = <<next>>
      OBVIOUS
    <3>2. QED
      BY <1>1, <2>2, <3>1 DEF Push, LockInv, TypeOK
  <2>4. Asked(awaited[1], awaited[2])'
    <3>1. Idle(qq)'
      BY <1>1, <2>2, PushIdle
    <3>2. Fresh(qq)'
      BY <2>2, <2>3 DEF Fresh
    <3>3. QED
      BY <2>1, <2>3, <3>1, <3>2 DEF Asked
  <2>5. QED
    BY <1>1, <1>2, <1>3, <2>1, <2>4 DEF ResultInv, OthersCalm, Served
<1>4. CASE qq \notin Synchronous
  <2>1. mpc' = "idle"
    BY <1>4 DEF Submit
  <2>2. QED
    BY <1>1, <1>2, <1>4, <2>1 DEF ResultInv, OthersCalm
<1>5. QED
  BY <1>3, <1>4

\* What endThreads does to a calm queue leaves it calm.
LEMMA CalmEnd ==
  ASSUME LockInv, NEW r \in Queue, Calm(r), Drain \/ Drained \/ ClearLeftovers
  PROVE  Calm(r)'
<1>1. Order[k] \in Queue
  BY OrderFacts DEF LockInv, TypeOK
<1>2. UNCHANGED <<pc, results>>
  BY DEF Drain, Drained, ClearLeftovers, FinishQueue, workerVars
<1>3. q'[r] = <<>>
  <2>1. CASE Drain
    <3>1. q[Order[k]] # <<>> /\ q' = [q EXCEPT ![Order[k]] = Tail(@)]
      BY <2>1 DEF Drain
    <3>2. q[r] = <<>>
      BY DEF Calm
    <3>3. QED
      BY <1>1, <3>1, <3>2 DEF LockInv, TypeOK
  <2>2. CASE Drained \/ ClearLeftovers
    BY <1>1, <2>2 DEF Drained, ClearLeftovers, Calm, LockInv, TypeOK
  <2>3. QED
    BY <2>1, <2>2
<1>4. res'[r] = 0
  BY <1>1 DEF Drain, Drained, ClearLeftovers, FinishQueue, Calm, Fresh, LockInv, TypeOK
<1>5. QED
  BY <1>2, <1>3, <1>4 DEF Calm, Fresh, Idle

LEMMA ResultMain ==
  ASSUME LockInv, ResultInv, Script \/ MainStep
  PROVE  ResultInv'
<1>1. ASSUME NEW qq \in Queue, Submit(qq) PROVE ResultInv'
  BY <1>1, ResultSubmit
<1>2. ASSUME mpc \notin {"await", "pop", "quit", "stopped"},
             mpc' \notin {"await", "pop"}, quitting' = quitting,
             \A r \in Synchronous : Calm(r) => Calm(r)',
             quitting => mpc' \in {"wake", "loop", "tidy", "lower", "stopped"}
      PROVE  ResultInv'
  BY <1>2 DEF ResultInv, OthersCalm
<1>3. ASSUME NEW qq \in Queue, NEW ids \in SUBSET Instr, ClearCache(qq, ids)
      PROVE  ResultInv'
  <2>1. PICK rest : q' = [q EXCEPT ![qq] = rest]
    BY <1>3, CacheRest DEF LockInv
  <2>2. /\ mpc = "idle" /\ qq \in QuitOnEmpty
        /\ UNCHANGED <<mpc, quitting, pc, res, results>>
    BY <1>3 DEF ClearCache, workerVars, mainVars
  <2>3. \A r \in Synchronous : q'[r] = q[r]
    BY <2>1, <2>2, SyncFacts DEF LockInv, TypeOK
  <2>4. QED
    BY <1>2, <2>2, <2>3 DEF ResultInv, Calm, Fresh, Idle
<1>4. CASE CloseWhileWaiting
  <2>1. /\ mpc = "await" /\ exitCode'
        /\ UNCHANGED <<mpc, quitting, awaited, q, res, results, pc, cur>>
    BY <1>4 DEF CloseWhileWaiting, sharedVars, workerVars, mainVars
  <2>2. \A r \in Queue : /\ Idle(r)' <=> Idle(r)
                         /\ Fresh(r)' <=> Fresh(r)
    BY <2>1 DEF Idle, Fresh
  <2>3. Served(awaited[1], awaited[2])'
    <3>1. Served(awaited[1], awaited[2]) /\ awaited[1] \in Queue
      BY <2>1, SyncFacts DEF ResultInv
    <3>2. QED
      BY <2>1, <2>2, <3>1 DEF Served, Asked, Runs, Ran, Threw, Done
  <2>4. \A r \in Synchronous : Calm(r)' <=> Calm(r)
    BY <2>1, <2>2, SyncFacts DEF Calm
  <2>5. QED
    BY <2>1, <2>3, <2>4 DEF ResultInv, OthersCalm
<1>5. CASE Reset
  <2>1. mpc = "idle" /\ mpc' = "wake" /\ UNCHANGED <<quitting, q, res, results, pc>>
    BY <1>5 DEF Reset, RaiseFlag, sharedVars, workerVars
  <2>2. QED
    BY <1>2, <2>1 DEF ResultInv, Calm, Fresh, Idle
<1>6. CASE Quit
  BY <1>6 DEF Quit, RaiseFlag, ResultInv, OthersCalm
<1>7. CASE ResultArrives
  <2>1. /\ mpc = "await" /\ ~quitting /\ ~quitting' /\ awaited[1] \in Synchronous
        /\ awaited[1] \in Queue /\ Served(awaited[1], awaited[2])
    BY <1>7, SyncFacts DEF ResultArrives, ResultInv
  <2>2. /\ res[awaited[1]] > 0 /\ res' = [res EXCEPT ![awaited[1]] = @ - 1]
        /\ mpc' = IF exitCode THEN "quit"
                  ELSE IF awaited[1] \in Reporting THEN "pop" ELSE "idle"
        /\ awaited' = IF mpc' = "pop" THEN awaited ELSE None
        /\ UNCHANGED <<q, results, pc>>
    BY <1>7 DEF ResultArrives, workerVars
  <2>3. Done(awaited[1], awaited[2]) /\ res[awaited[1]] = 1
    <3>1. res[awaited[1]] # 0
      BY <2>1, <2>2 DEF LockInv, TypeOK
    <3>2. QED
      BY <2>1, <3>1 DEF Served, Asked, Runs, Ran, Threw, Done, Fresh
  <2>4. /\ res'[awaited[1]] = 0
        /\ \A r \in Queue \ {awaited[1]} : res'[r] = res[r]
    BY <2>1, <2>2, <2>3 DEF LockInv, TypeOK
  <2>5. \A r \in Synchronous : r # awaited[1] => Calm(r)'
    <3>1. \A r \in Synchronous : r # awaited[1] => Calm(r)
      BY <2>1 DEF ResultInv, OthersCalm
    <3>2. QED
      BY <2>2, <2>4, <3>1, SyncFacts DEF Calm, Fresh, Idle
  <2>6. CASE exitCode
    BY <2>1, <2>2, <2>6 DEF ResultInv, OthersCalm
  <2>7. CASE ~exitCode /\ awaited[1] \in Reporting
    <3>1. mpc' = "pop" /\ awaited' = awaited
      BY <2>2, <2>7
    <3>2. Popping(awaited[1], awaited[2])'
      BY <2>2, <2>3, <2>4, <2>7, <3>1 DEF Popping, Done, Left, Idle
    <3>3. QED
      BY <2>1, <2>5, <2>7, <3>1, <3>2 DEF ResultInv, OthersCalm
  <2>8. CASE ~exitCode /\ awaited[1] \notin Reporting
    <3>1. mpc' = "idle"
      BY <2>2, <2>8
    <3>2. q'[awaited[1]] = <<>> /\ results'[awaited[1]] = <<>> /\ Idle(awaited[1])
      BY <2>2, <2>3, <2>8 DEF Done, Left
    <3>3. \A r \in Synchronous : Calm(r)'
      BY <2>2, <2>4, <2>5, <3>2 DEF Calm, Fresh, Idle
    <3>4. QED
      BY <2>1, <3>1, <3>3 DEF ResultInv, OthersCalm
  <2>9. QED
    BY <2>6, <2>7, <2>8
<1>8. CASE PopResult
  <2>1. /\ mpc = "pop" /\ mpc' = "idle" /\ UNCHANGED <<quitting, q, res, pc>>
        /\ results' = [results EXCEPT ![awaited[1]] = Tail(@)]
    BY <1>8 DEF PopResult, workerVars
  <2>2. /\ Popping(awaited[1], awaited[2]) /\ awaited[1] \in Queue /\ ~quitting
    BY <2>1, SyncFacts DEF ResultInv
  <2>3. Tail(<<awaited[2]>>) = <<>>
    OBVIOUS
  <2>4. /\ results'[awaited[1]] = <<>>
        /\ \A r \in Queue \ {awaited[1]} : results'[r] = results[r]
    BY <2>1, <2>2, <2>3 DEF Popping, LockInv, TypeOK
  <2>5. \A r \in Synchronous : Calm(r)'
    <3>1. \A r \in Synchronous : r # awaited[1] => Calm(r)
      BY <2>1, <2>2 DEF ResultInv, OthersCalm
    <3>2. QED
      BY <2>1, <2>2, <2>4, <3>1, SyncFacts DEF Calm, Fresh, Idle, Popping
  <2>6. QED
    BY <2>1, <2>2, <2>5 DEF ResultInv, OthersCalm
<1>9. CASE WakeThread \/ AwaitThreadEnd \/ LowerFlag
  <2>1. /\ mpc \in {"wake", "loop", "lower"}
        /\ mpc' \in {"loop", "tidy"} \/ mpc' = IF quitting THEN "stopped" ELSE "restart"
        /\ UNCHANGED <<quitting, q, res, results, pc>>
    BY <1>9 DEF WakeThread, AwaitThreadEnd, LowerFlag, sharedVars, workerVars
  <2>2. QED
    BY <1>2, <2>1 DEF Calm, Fresh, Idle
<1>10. CASE Drain \/ Drained \/ ClearLeftovers
  <2>1. /\ mpc = "tidy" /\ mpc' \in {"tidy", "wake", "lower"}
        /\ quitting' = quitting
    BY <1>10 DEF Drain, Drained, ClearLeftovers, FinishQueue, mainVars
  <2>2. QED
    BY <1>2, <1>10, <2>1, CalmEnd, SyncFacts
<1>11. CASE RestartEventQueue
  <2>1. /\ mpc = "restart" /\ mpc' \in {"idle", "clearcache"} /\ quitting' = quitting
        /\ Push(EventQueue, EventInstr) /\ EventQueue \in Queue
    BY <1>11, QueueAssumption DEF RestartEventQueue
  <2>2. \A r \in Synchronous : Calm(r) => Calm(r)'
    BY <2>1, PushCalm, SyncFacts
  <2>3. QED
    BY <1>2, <2>1, <2>2 DEF ResultInv
<1>12. CASE ClearCacheQueues
  <2>1. /\ mpc = "clearcache" /\ mpc' = "idle" /\ UNCHANGED <<quitting, res, results, pc>>
        /\ \A r \in Synchronous : q'[r] = q[r]
    BY <1>12, SyncFacts DEF ClearCacheQueues, workerVars
  <2>2. QED
    BY <1>2, <2>1 DEF ResultInv, Calm, Fresh, Idle
<1>13. QED
  BY <1>1, <1>3, <1>4, <1>5, <1>6, <1>7, <1>8, <1>9, <1>10, <1>11, <1>12
     DEF Script, MainStep

LEMMA ResultStep == LockInv /\ ResultInv /\ [Next]_vars => ResultInv'
<1> SUFFICES ASSUME LockInv, ResultInv, [Next]_vars PROVE ResultInv'
  OBVIOUS
<1>1. ASSUME UNCHANGED vars PROVE ResultInv'
  BY <1>1 DEF ResultInv, OthersCalm, Served, Asked, Runs, Ran, Threw, Done,
              Popping, Calm, Fresh, Idle, vars, sharedVars, workerVars, mainVars
<1>2. QED
  BY <1>1, ResultWorker, ResultMain DEF Next, Stopped

\* The value playSoundThreaded pops from results is the one its instruction
\* left: for any queues, threads, submissions and resets, also after threads
\* that ended by an exception and after quits the program could not follow.
THEOREM OwnResultAlways == Spec => []OwnResult
<1>1. LockInv /\ ResultInv /\ [Next]_vars => ResultInv'
  BY ResultStep
<1>2. ResultInv => OwnResult
  BY DEF ResultInv, OwnResult, Popping
<1>3. QED
  BY <1>1, <1>2, ResultInit, LockInvariant, PTL DEF Spec


-----------------------------------------------------------------------------
(* The executor implements SerialExecutor *)

\* What a queue runs, by its threads' places and instructions.
RunBy(at, inst) ==
  IF \E s \in Slot : at[s] = "exec"
    THEN inst[CHOOSE s \in Slot : at[s] = "exec"] ELSE None

LEMMA RunningBy == Running = [qq \in Queue |-> RunBy(pc[qq], cur[qq])]
BY DEF Running, RunBy

LEMMA RunningByNext ==
  Running' = [qq \in Queue |-> RunBy(pc'[qq], cur'[qq])]
BY DEF Running, RunBy

LEMMA OneRuns ==
  ASSUME NEW at, NEW inst, NEW s \in Slot, at[s] = "exec",
         \A t \in Slot : at[t] = "exec" => t = s
  PROVE  RunBy(at, inst) = inst[s]
BY DEF RunBy

LEMMA NoneRuns ==
  ASSUME NEW at, NEW inst, \A t \in Slot : at[t] # "exec"
  PROVE  RunBy(at, inst) = None
BY DEF RunBy

\* At most one thread of a queue executes.
OneExec == \A qq \in Queue, s, t \in Slot :
  pc[qq][s] = "exec" /\ pc[qq][t] = "exec" => s = t

LEMMA LockOneExec == LockInv => OneExec
BY DEF LockInv, OneServer, OneExec, Live, WorkerPC

\* A step after which the same threads execute the same instructions.
LEMMA SameRun ==
  ASSUME NEW at, NEW inst, NEW at2, NEW inst2,
         \A s, t \in Slot : at[s] = "exec" /\ at[t] = "exec" => s = t,
         \A s \in Slot : at2[s] = "exec" <=> at[s] = "exec",
         \A s \in Slot : at[s] = "exec" => inst2[s] = inst[s]
  PROVE  RunBy(at2, inst2) = RunBy(at, inst)
<1>1. CASE \E s \in Slot : at[s] = "exec"
  <2>1. PICK s \in Slot : at[s] = "exec"
    BY <1>1
  <2>2. RunBy(at, inst) = inst[s]
    BY <2>1, OneRuns
  <2>3. RunBy(at2, inst2) = inst2[s]
    BY <2>1, OneRuns
  <2>4. QED
    BY <2>1, <2>2, <2>3
<1>2. CASE \A s \in Slot : at[s] # "exec"
  BY <1>2, NoneRuns
<1>3. QED
  BY <1>1, <1>2

LEMMA RunningKept ==
  ASSUME LockInv,
         \A qq \in Queue, s \in Slot : pc'[qq][s] = "exec" <=> pc[qq][s] = "exec",
         \A qq \in Queue, s \in Slot : pc[qq][s] = "exec" => cur'[qq][s] = cur[qq][s]
  PROVE  Running' = Running
<1>1. ASSUME NEW qq \in Queue
      PROVE  RunBy(pc'[qq], cur'[qq]) = RunBy(pc[qq], cur[qq])
  <2>1. \A s, t \in Slot : pc[qq][s] = "exec" /\ pc[qq][t] = "exec" => s = t
    BY LockOneExec DEF OneExec
  <2>2. QED
    BY <2>1, SameRun
<1>2. QED
  BY <1>1, RunningBy, RunningByNext

-----------------------------------------------------------------------------
(* What remains of a queue *)

LEMMA RemainsAll ==
  ASSUME NEW E, NEW s \in Seq(E)
  PROVE  Abs!Remains(s, s)
<1> DEFINE keep == [i \in 1..Len(s) |-> i]
<1>1. keep \in [1..Len(s) -> 1..Len(s)]
  OBVIOUS
<1>2. /\ \A i, j \in 1..Len(s) : i < j => keep[i] < keep[j]
      /\ \A i \in 1..Len(s) : s[i] = s[keep[i]]
  OBVIOUS
<1>3. QED
  BY <1>1, <1>2 DEF Abs!Remains

LEMMA RemainsNone ==
  ASSUME NEW E, NEW s \in Seq(E)
  PROVE  Abs!Remains(<<>>, s)
<1>1. Len(<<>>) = 0 /\ 1..0 = {}
  OBVIOUS
<1>2. \E keep : keep \in [{} -> 1..Len(s)]
  <2>1. [i \in {} |-> i] \in [{} -> 1..Len(s)]
    OBVIOUS
  <2>2. QED
    BY <2>1
<1>3. QED
  BY <1>1, <1>2 DEF Abs!Remains

LEMMA RemainsTail ==
  ASSUME NEW E, NEW s \in Seq(E), s # <<>>
  PROVE  Abs!Remains(Tail(s), s)
<1> DEFINE n == Len(s) - 1
           keep == [i \in 1..n |-> i + 1]
<1>1. Len(s) \in Nat \ {0} /\ Len(Tail(s)) = n
  OBVIOUS
<1>2. keep \in [1..n -> 1..Len(s)]
  BY <1>1
<1>3. /\ \A i, j \in 1..n : i < j => keep[i] < keep[j]
      /\ \A i \in 1..n : Tail(s)[i] = s[keep[i]]
  BY <1>1
<1>4. QED
  BY <1>1, <1>2, <1>3 DEF Abs!Remains

-----------------------------------------------------------------------------
(* Step by step *)

LEMMA SerialInit == Init => Abs!Init
<1> SUFFICES ASSUME Init PROVE Abs!Init
  OBVIOUS
<1>1. \A qq \in Queue : RunBy(pc[qq], cur[qq]) = None
  BY NoneRuns DEF Init
<1>2. Running = [qq \in Queue |-> None]
  BY <1>1, RunningBy
<1>3. QED
  BY <1>2 DEF Init, Abs!Init

\* A thread that takes an instruction starts it.
LEMMA SerialStart ==
  ASSUME LockInv, LockInv', NEW qq \in Queue, NEW s \in Slot, Fetch(qq, s),
         q[qq] # <<>>
  PROVE  Abs!Start(qq)
<1>1. /\ pc[qq][s] = "fetch"
      /\ pc' = [pc EXCEPT ![qq][s] = "exec"]
      /\ cur' = [cur EXCEPT ![qq][s] = Head(q[qq])]
      /\ q' = IF qq \in Resident THEN q ELSE [q EXCEPT ![qq] = Tail(@)]
  BY DEF Fetch
<1>2. /\ pc'[qq][s] = "exec" /\ cur'[qq][s] = Head(q[qq])
      /\ \A r \in Queue \ {qq} : pc'[r] = pc[r] /\ cur'[r] = cur[r]
  BY <1>1 DEF LockInv, TypeOK
<1>3. \A t \in Slot : pc[qq][t] # "exec"
  BY <1>1 DEF LockInv, OneServer, Live, WorkerPC
<1>4. \A t \in Slot : pc'[qq][t] = "exec" => t = s
  BY <1>1, <1>3 DEF LockInv, TypeOK
<1>5. RunBy(pc[qq], cur[qq]) = None
  BY <1>3, NoneRuns
<1>6. RunBy(pc'[qq], cur'[qq]) = Head(q[qq])
  <2> DEFINE at == pc'[qq]
             inst == cur'[qq]
  <2>1. at[s] = "exec" /\ inst[s] = Head(q[qq])
    BY <1>2
  <2>2. \A t \in Slot : at[t] = "exec" => t = s
    BY <1>4
  <2> HIDE DEF at, inst
  <2>3. RunBy(at, inst) = inst[s]
    BY <2>1, <2>2, OneRuns
  <2>4. QED
    BY <2>1, <2>3 DEF at, inst
<1>7. Running[qq] = None /\ Running' = [Running EXCEPT ![qq] = Head(q[qq])]
  BY <1>2, <1>5, <1>6, RunningBy, RunningByNext
<1>8. QED
  BY <1>1, <1>7 DEF Abs!Start

\* An instruction that returns or throws is finished.
LEMMA SerialFinish ==
  ASSUME LockInv, NEW qq \in Queue, NEW s \in Slot,
         Execute(qq, s) \/ ExecuteFails(qq, s)
  PROVE  Abs!Finish(qq)
<1>1. PICK l \in {"post", "terminated"} :
        pc[qq][s] = "exec" /\ pc' = [pc EXCEPT ![qq][s] = l] /\ UNCHANGED <<q, cur>>
  BY DEF Execute, ExecuteFails, sharedVars
<1>2. /\ pc'[qq][s] = l
      /\ \A t \in Slot \ {s} : pc'[qq][t] = pc[qq][t]
      /\ \A r \in Queue \ {qq} : pc'[r] = pc[r]
  BY <1>1 DEF LockInv, TypeOK
<1>3. \A t \in Slot : pc[qq][t] = "exec" => t = s
  BY <1>1, LockOneExec DEF OneExec
<1>4. \A t \in Slot : pc'[qq][t] # "exec"
  BY <1>2, <1>3
<1>5. RunBy(pc[qq], cur[qq]) = cur[qq][s] /\ cur[qq][s] # None
  BY <1>1, <1>3, OneRuns DEF LockInv, TypeOK, ExecHasInstr
<1>6. RunBy(pc'[qq], cur'[qq]) = None
  BY <1>4, NoneRuns
<1>7. Running[qq] # None /\ Running' = [Running EXCEPT ![qq] = None]
  BY <1>1, <1>2, <1>5, <1>6, RunningBy, RunningByNext
<1>8. QED
  BY <1>1, <1>7 DEF Abs!Finish

\* Nothing else a thread does is seen by the executor's clients.
LEMMA SerialSilent ==
  ASSUME LockInv, NEW qq \in Queue, NEW s \in Slot, Worker(qq, s),
         ~(Fetch(qq, s) /\ q[qq] # <<>>), ~Execute(qq, s), ~ExecuteFails(qq, s)
  PROVE  UNCHANGED <<q, Running>>
<1>1. PICK l \in WorkerPC \ {"exec"} :
        pc[qq][s] # "exec" /\ pc' = [pc EXCEPT ![qq][s] = l]
  BY DEF Worker, TakeLoopLock, CheckShutdown, AwaitInstruction, Recheck, Fetch,
         Post, Leave, Stay, Terminated, Bail, Exit, WorkerPC
<1>2. cur' = cur \/ cur' = [cur EXCEPT ![qq][s] = None]
  BY DEF Worker, TakeLoopLock, CheckShutdown, AwaitInstruction, Recheck, Fetch,
         Post, PostResult, Terminated, Bail, Exit
<1>3. q' = q
  BY DEF Worker, TakeLoopLock, CheckShutdown, AwaitInstruction, Recheck, Fetch,
         Post, PostResult, Terminated, Bail, Exit, sharedVars
<1>4. \A r \in Queue, t \in Slot : r # qq \/ t # s =>
        pc'[r][t] = pc[r][t] /\ cur'[r][t] = cur[r][t]
  BY <1>1, <1>2 DEF LockInv, TypeOK
<1>5. pc'[qq][s] = l
  BY <1>1 DEF LockInv, TypeOK
<1>6. /\ \A r \in Queue, t \in Slot : pc'[r][t] = "exec" <=> pc[r][t] = "exec"
      /\ \A r \in Queue, t \in Slot : pc[r][t] = "exec" => cur'[r][t] = cur[r][t]
  BY <1>1, <1>4, <1>5
<1>7. Running' = Running
  BY <1>6, RunningKept
<1>8. QED
  BY <1>3, <1>7

\* queue() submits.
LEMMA SerialPush ==
  ASSUME LockInv, NEW qq \in Queue, NEW i \in Instr, Push(qq, i)
  PROVE  Abs!Submit(qq, i)
<1>1. q' = [q EXCEPT ![qq] = Append(@, i)] /\ cur' = cur
  BY DEF Push
<1>2. \A r \in Queue, s \in Slot : pc'[r][s] = "exec" <=> pc[r][s] = "exec"
  <2>1. CASE thread[qq] = None
    <3>1. PICK s \in Slot : pc[qq][s] = "none" /\ pc' = [pc EXCEPT ![qq][s] = "start"]
      BY <2>1 DEF Push, EnsureThread
    <3>2. QED
      BY <3>1 DEF LockInv, TypeOK
  <2>2. CASE thread[qq] # None
    BY <2>2 DEF Push, EnsureThread
  <2>3. QED
    BY <2>1, <2>2
<1>3. Running' = Running
  BY <1>1, <1>2, RunningKept
<1>4. QED
  BY <1>1, <1>3 DEF Abs!Submit

\* With loopLock held by the script thread no thread executes.
LEMMA TidyRunsNothing ==
  ASSUME LockInv, mpc = "tidy"
  PROVE  Running[Order[k]] = None /\ Order[k] \in Queue
<1>1. Order[k] \in Queue /\ loopLock[Order[k]] = Main
  BY OrderFacts DEF LockInv, TypeOK, MainLock
<1>2. \A t \in Slot : pc[Order[k]][t] # "exec"
  BY <1>1, NameFacts DEF LockInv, OneServer
<1>3. RunBy(pc[Order[k]], cur[Order[k]]) = None
  BY <1>2, NoneRuns
<1>4. QED
  BY <1>1, <1>3, RunningBy

\* Emptying one queue, or taking its head, in the three ways of the code.
LEMMA SerialDrop ==
  ASSUME LockInv, NEW qq \in Queue, qq \in QuitOnEmpty \/ Running[qq] = None,
         NEW rest, Abs!Remains(rest, q[qq]),
         q' = [q EXCEPT ![qq] = rest], UNCHANGED workerVars
  PROVE  Abs!Drop
<1>1. Running' = Running
  BY RunningBy, RunningByNext DEF workerVars
<1>2. /\ DOMAIN q' = Queue /\ q'[qq] = rest
      /\ \A r \in Queue \ {qq} : q'[r] = q[r]
  BY DEF LockInv, TypeOK
<1>3. \A r \in Queue : Abs!Remains(q[r], q[r])
  BY RemainsAll DEF LockInv, TypeOK
<1>4. \A r \in Queue : Abs!Remains(q'[r], q[r])
  BY <1>2, <1>3
<1>5. QED
  BY <1>1, <1>2, <1>4 DEF Abs!Drop

LEMMA SerialMain ==
  ASSUME LockInv, Script \/ MainStep
  PROVE  Abs!Next \/ UNCHANGED <<q, Running>>
<1>1. ASSUME NEW qq \in Queue, Submit(qq) PROVE Abs!Next
  <2>1. next \in Instr
    BY <1>1 DEF LockInv, TypeOK, Submit, Instr
  <2>2. Abs!Submit(qq, next)
    BY <1>1, <2>1, SerialPush DEF Submit
  <2>3. QED
    BY <2>1, <2>2 DEF Abs!Next
<1>2. ASSUME NEW qq \in Queue, NEW ids \in SUBSET Instr, ClearCache(qq, ids)
      PROVE  Abs!Next
  <2>1. PICK rest \in Seq(Instr) :
          q' = [q EXCEPT ![qq] = rest] /\ Abs!Remains(rest, q[qq])
    BY <1>2, CacheRest DEF LockInv
  <2>2. qq \in QuitOnEmpty /\ UNCHANGED workerVars
    BY <1>2 DEF ClearCache
  <2>3. Abs!Drop
    BY <2>1, <2>2, SerialDrop
  <2>4. QED
    BY <2>3 DEF Abs!Next
<1>3. CASE Drain \/ ClearLeftovers
  <2>1. /\ Running[Order[k]] = None /\ Order[k] \in Queue
        /\ q[Order[k]] \in Seq(Instr)
    BY <1>3, TidyRunsNothing DEF Drain, ClearLeftovers, LockInv, TypeOK
  <2>2. \E rest : /\ Abs!Remains(rest, q[Order[k]])
                  /\ q' = [q EXCEPT ![Order[k]] = rest]
    BY <1>3, <2>1, RemainsTail, RemainsNone DEF Drain, ClearLeftovers
  <2>3. UNCHANGED workerVars
    BY <1>3 DEF Drain, ClearLeftovers, FinishQueue
  <2>4. Abs!Drop
    BY <2>1, <2>2, <2>3, SerialDrop
  <2>5. QED
    BY <2>4 DEF Abs!Next
<1>4. CASE RestartEventQueue
  <2>1. EventQueue \in Queue /\ EventInstr \in Instr
    BY QueueAssumption, BoundAssumption DEF EventInstr, Instr
  <2>2. Abs!Submit(EventQueue, EventInstr)
    BY <1>4, <2>1, SerialPush DEF RestartEventQueue
  <2>3. QED
    BY <2>1, <2>2 DEF Abs!Next
<1>5. CASE ClearCacheQueues
  <2>1. q' = [qq \in Queue |-> IF qq \in QuitOnEmpty THEN <<>> ELSE q[qq]]
    BY <1>5 DEF ClearCacheQueues
  <2>2. Running' = Running
    BY <1>5, RunningBy, RunningByNext DEF ClearCacheQueues, workerVars
  <2>3. \A r \in Queue : Abs!Remains(q[r], q[r]) /\ Abs!Remains(<<>>, q[r])
    BY RemainsAll, RemainsNone DEF LockInv, TypeOK
  <2>4. Abs!Drop
    BY <2>1, <2>2, <2>3 DEF Abs!Drop
  <2>5. QED
    BY <2>4 DEF Abs!Next
<1>6. ASSUME q' = q, UNCHANGED workerVars PROVE UNCHANGED <<q, Running>>
  BY <1>6, RunningBy, RunningByNext DEF workerVars
<1>7. CASE CloseWhileWaiting \/ Reset \/ Quit
  BY <1>6, <1>7 DEF CloseWhileWaiting, Reset, Quit, RaiseFlag, sharedVars
<1>8. CASE ResultArrives \/ PopResult \/ WakeThread \/ AwaitThreadEnd
  BY <1>6, <1>8 DEF ResultArrives, PopResult, WakeThread, AwaitThreadEnd
<1>9. CASE Drained \/ LowerFlag
  BY <1>6, <1>9 DEF Drained, FinishQueue, LowerFlag, sharedVars
<1>10. QED
  BY <1>1, <1>2, <1>3, <1>4, <1>5, <1>7, <1>8, <1>9 DEF Script, MainStep

LEMMA SerialStep == LockInv /\ LockInv' /\ [Next]_vars => [Abs!Next]_<<q, Running>>
<1> SUFFICES ASSUME LockInv, LockInv', [Next]_vars
             PROVE  Abs!Next \/ UNCHANGED <<q, Running>>
  OBVIOUS
<1>1. CASE UNCHANGED vars
  BY <1>1, RunningBy, RunningByNext DEF vars, sharedVars, workerVars
<1>2. ASSUME NEW qq \in Queue, NEW s \in Slot, Worker(qq, s)
      PROVE  Abs!Next \/ UNCHANGED <<q, Running>>
  BY <1>2, SerialStart, SerialFinish, SerialSilent DEF Abs!Next
<1>3. QED
  BY <1>1, <1>2, SerialMain DEF Next, Stopped

\* The threads, locks and semaphores of the executor, seen from outside, are a
\* serial executor: for any queues, threads, submissions and resets, also when
\* endThreads meets threads that have not started, no instruction overtakes
\* another of its queue, starts while another runs, or is dropped under the
\* thread that runs its queue, the cache queues' excepted.
THEOREM SerialAlways == Spec => IsSerialExecutor
<1>1. Init => Abs!Init
  BY SerialInit
<1>2. LockInv /\ LockInv' /\ [Next]_vars => [Abs!Next]_(Abs!absVars)
  BY SerialStep DEF Abs!absVars
<1>3. QED
  BY <1>1, <1>2, LockInvariant, PTL DEF Spec, IsSerialExecutor, Abs!Spec
=============================================================================
