--------------------------- MODULE AsyncController ---------------------------
(***************************************************************************)
(* The engine's executor: Engine/Components/Async.{hpp,cpp} and the parts  *)
(* of the script thread that drive it.  Each queue is served by at most    *)
(* one thread, created on demand by queue() and running asyncLoop(); the   *)
(* script (main) thread submits instructions, waits for the result of some *)
(* of them, and stops every thread with endThreads() when a script is      *)
(* reset or the program quits.                                             *)
(*                                                                         *)
(* queue.lock protects short sections that never block (the one in         *)
(* defaultThreadEnd aside), so each such section is one step here.  While  *)
(* defaultThreadEnd holds queue.lock it holds loopLock too, and a thread   *)
(* touches the queue only with loopLock held: no other section of that     *)
(* queue can run, so "tidy" needs no further guard.                        *)
(***************************************************************************)
EXTENDS Naturals, Sequences, FiniteSets

CONSTANTS
  Queue,        \* the AsyncInstructionQueues
  Order,        \* queueCollection, the order endThreads visits them in
  QuitOnEmpty,  \* queues whose thread exits when it runs out of instructions
  Resident,     \* queues with hasQueue = false: the head is executed for ever
  EventQueue,   \* eventQueueQueue, started by ownInit and after each reset
  Synchronous,  \* queues whose submitter waits on resultsWaiting
  Reporting,    \* those whose instruction also leaves a value in results
  MayFail,      \* queues whose instruction may throw ThreadTerminate
  Slot,         \* thread identities of one queue
  None,         \* the null pointer
  Main,         \* the script thread, as owner of a loopLock
  MaxSubmit,    \* bound: instructions submitted in a behaviour
  MaxResets,    \* bound: script resets in a behaviour
  ResCap        \* bound: a results count nobody consumes saturates here

ASSUME QueueAssumption ==
  /\ Order \in Seq(Queue)
  /\ \A qq \in Queue : \E i \in 1..Len(Order) : Order[i] = qq
  /\ \A i, j \in 1..Len(Order) : Order[i] = Order[j] => i = j
  /\ QuitOnEmpty \subseteq Queue
  /\ Resident \subseteq Queue
  /\ Resident \cap QuitOnEmpty = {}
  /\ EventQueue \in Resident
  /\ Synchronous \subseteq Queue \ (QuitOnEmpty \cup Resident)
  /\ Reporting \subseteq Synchronous
  /\ MayFail \subseteq Queue \ Resident

ASSUME BoundAssumption ==
  /\ MaxSubmit \in Nat
  /\ MaxResets \in Nat
  /\ ResCap \in Nat

ASSUME NameAssumption ==
  /\ None \notin Slot \cup {Main} \cup Queue \cup 0..MaxSubmit
  /\ None \notin Queue \X (0..MaxSubmit)
  /\ Main \notin Slot

VARIABLES
  q,          \* queue.q: the instructions not yet taken
  sem,        \* queue.instructionsWaiting
  res,        \* queue.resultsWaiting
  results,    \* queue.results
  thread,     \* queue.thread
  loopLock,   \* owner of queue.loopLock
  pc,         \* where each thread is in asyncLoop
  cur,        \* asyncLoop's inst: the instruction a thread took
  threadShutdownRequested,
  exitCode,   \* a quit was requested where the program could not exit
  mpc,        \* where the script thread is
  k,          \* endThreads' position in queueCollection
  quitting,   \* endThreads was called by ownDeinit, not by resetSub
  awaited,    \* the queue and instruction a blocking call waits for
  got,        \* the result the last blocking call popped
  next,       \* the next instruction's identity
  resets,     \* resets so far
  late        \* history, read by properties only: the queues whose thread the last
              \* endThreads met before it ran and, once the flag is down, those of
              \* them whose thread had read it, until they get another thread

sharedVars == <<q, sem, res, results, thread, loopLock>>
workerVars == <<pc, cur>>
mainVars   == <<mpc, k, quitting, awaited, got, next, resets, late>>
vars == <<sharedVars, workerVars, mainVars, threadShutdownRequested, exitCode>>

\* Identity 0 is the event queue's one instruction; the script submits 1, 2, ...
EventInstr == 0
Instr == 0..MaxSubmit

WorkerPC == {"none", "start", "top", "wait", "recheck", "fetch", "exec",
             "post", "terminated", "bail", "exit"}
MainPC == {"idle", "await", "pop", "quit", "wake", "loop", "tidy",
           "lower", "restart", "clearcache", "stopped"}

\* A thread that executes has taken an instruction.
ExecHasInstr ==
  \A qq \in Queue, s \in Slot : pc[qq][s] = "exec" => cur[qq][s] # None

TypeOK ==
  /\ q \in [Queue -> Seq(Instr)]
  /\ sem \in [Queue -> Nat]
  /\ res \in [Queue -> 0..ResCap]
  /\ results \in [Queue -> Seq(Instr)]
  /\ thread \in [Queue -> Slot \cup {None}]
  /\ loopLock \in [Queue -> Slot \cup {None, Main}]
  /\ pc \in [Queue -> [Slot -> WorkerPC]]
  /\ cur \in [Queue -> [Slot -> Instr \cup {None}]]
  /\ threadShutdownRequested \in BOOLEAN
  /\ exitCode \in BOOLEAN
  /\ mpc \in MainPC
  /\ k \in 1..Len(Order)
  /\ quitting \in BOOLEAN
  /\ awaited \in (Queue \X Instr) \cup {None}
  /\ mpc \in {"await", "pop"} => awaited # None
  /\ ExecHasInstr
  /\ got \in Instr \cup {None}
  /\ next \in 1..(MaxSubmit + 1)
  /\ resets \in 0..MaxResets
  /\ late \subseteq Queue

\* ownInit: the semaphores are created at 0 and the event thread is about to
\* be started.
Init ==
  /\ q = [qq \in Queue |-> <<>>]
  /\ sem = [qq \in Queue |-> 0]
  /\ res = [qq \in Queue |-> 0]
  /\ results = [qq \in Queue |-> <<>>]
  /\ thread = [qq \in Queue |-> None]
  /\ loopLock = [qq \in Queue |-> None]
  /\ pc = [qq \in Queue |-> [s \in Slot |-> "none"]]
  /\ cur = [qq \in Queue |-> [s \in Slot |-> None]]
  /\ threadShutdownRequested = FALSE
  /\ exitCode = FALSE
  /\ mpc = "restart"
  /\ k = 1
  /\ quitting = FALSE
  /\ awaited = None
  /\ got = None
  /\ next = 1
  /\ resets = 0
  /\ late = {}

-----------------------------------------------------------------------------
(* asyncLoop, step by step, for thread s of queue qq *)

\* The thread starts running and takes loopLock for its whole life.
TakeLoopLock(qq, s) ==
  /\ pc[qq][s] = "start"
  /\ loopLock[qq] = None
  /\ loopLock' = [loopLock EXCEPT ![qq] = s]
  /\ pc' = [pc EXCEPT ![qq][s] = "top"]
  /\ UNCHANGED <<q, sem, res, results, thread, cur, mainVars,
                 threadShutdownRequested, exitCode>>

\* The first test of threadShutdownRequested.
CheckShutdown(qq, s) ==
  /\ pc[qq][s] = "top"
  /\ pc' = [pc EXCEPT ![qq][s] =
              IF threadShutdownRequested THEN "bail"
              ELSE IF qq \in QuitOnEmpty \cup Resident THEN "recheck"
              ELSE "wait"]
  /\ UNCHANGED <<sharedVars, cur, mainVars, threadShutdownRequested, exitCode>>

\* SDL_SemWait(instructionsWaiting).
AwaitInstruction(qq, s) ==
  /\ pc[qq][s] = "wait"
  /\ sem[qq] > 0
  /\ sem' = [sem EXCEPT ![qq] = @ - 1]
  /\ pc' = [pc EXCEPT ![qq][s] = "recheck"]
  /\ UNCHANGED <<q, res, results, thread, loopLock, cur, mainVars,
                 threadShutdownRequested, exitCode>>

\* The second test, after the wait.
Recheck(qq, s) ==
  /\ pc[qq][s] = "recheck"
  /\ pc' = [pc EXCEPT ![qq][s] =
              IF threadShutdownRequested THEN "bail" ELSE "fetch"]
  /\ UNCHANGED <<sharedVars, cur, mainVars, threadShutdownRequested, exitCode>>

\* Mutant: the newest instruction is taken instead of the oldest.
FetchNewest(qq, s) ==
  /\ pc[qq][s] = "fetch"
  /\ IF q[qq] = <<>>
       THEN /\ pc' = [pc EXCEPT ![qq][s] = "top"]
            /\ UNCHANGED <<q, cur>>
       ELSE /\ pc' = [pc EXCEPT ![qq][s] = "exec"]
            /\ cur' = [cur EXCEPT ![qq][s] = q[qq][Len(q[qq])]]
            /\ q' = IF qq \in Resident THEN q
                    ELSE [q EXCEPT ![qq] = SubSeq(@, 1, Len(@) - 1)]
  /\ UNCHANGED <<sem, res, results, thread, loopLock, mainVars,
                 threadShutdownRequested, exitCode>>

\* Under queue.lock: take the head, or look at it when the queue is resident;
\* an empty queue sends the thread round the loop.
Fetch(qq, s) ==
  /\ pc[qq][s] = "fetch"
  /\ IF q[qq] = <<>>
       THEN /\ pc' = [pc EXCEPT ![qq][s] = "top"]
            /\ UNCHANGED <<q, cur>>
       ELSE /\ pc' = [pc EXCEPT ![qq][s] = "exec"]
            /\ cur' = [cur EXCEPT ![qq][s] = Head(q[qq])]
            /\ q' = IF qq \in Resident THEN q
                    ELSE [q EXCEPT ![qq] = Tail(@)]
  /\ UNCHANGED <<sem, res, results, thread, loopLock, mainVars,
                 threadShutdownRequested, exitCode>>

\* PlaySoundInstruction leaves its value in results.
Reported(qq, i) ==
  IF qq \in Reporting THEN [results EXCEPT ![qq] = Append(@, i)] ELSE results

\* ptr->execute() returns.
Execute(qq, s) ==
  /\ pc[qq][s] = "exec"
  /\ results' = Reported(qq, cur[qq][s])
  /\ pc' = [pc EXCEPT ![qq][s] = "post"]
  /\ UNCHANGED <<q, sem, res, thread, loopLock, cur, mainVars,
                 threadShutdownRequested, exitCode>>

\* execute() throws ThreadTerminate: requestQuit() off the main thread.
ExecuteFails(qq, s) ==
  /\ pc[qq][s] = "exec"
  /\ qq \in MayFail
  /\ exitCode' = TRUE
  /\ pc' = [pc EXCEPT ![qq][s] = "terminated"]
  /\ UNCHANGED <<sharedVars, cur, mainVars, threadShutdownRequested>>

Posted(qq) == [res EXCEPT ![qq] = IF @ < ResCap THEN @ + 1 ELSE @]

\* What Post leaves when the thread stays, goes, or (the mutants) goes wrong.
Leave(qq, s, t) ==
  /\ thread' = [thread EXCEPT ![qq] = t]
  /\ pc' = [pc EXCEPT ![qq][s] = "exit"]

Stay(qq, s) ==
  /\ thread' = thread
  /\ pc' = [pc EXCEPT ![qq][s] = "top"]

PostResult(qq, s) ==
  /\ res' = IF qq \in QuitOnEmpty THEN res ELSE Posted(qq)
  /\ cur' = [cur EXCEPT ![qq][s] = None]
  /\ UNCHANGED <<q, sem, results, loopLock, mainVars,
                 threadShutdownRequested, exitCode>>

\* Mutant: the thread of a QuitOnEmpty queue leaves after one instruction.
PostAndQuit(qq, s) ==
  /\ pc[qq][s] = "post"
  /\ IF threadShutdownRequested \/ qq \in QuitOnEmpty
       THEN Leave(qq, s, None) ELSE Stay(qq, s)
  /\ PostResult(qq, s)

\* Mutant: queue.thread is not cleared by a thread that leaves.
PostAndStayListed(qq, s) ==
  /\ pc[qq][s] = "post"
  /\ IF threadShutdownRequested \/ (qq \in QuitOnEmpty /\ q[qq] = <<>>)
       THEN Leave(qq, s, s) ELSE Stay(qq, s)
  /\ PostResult(qq, s)

\* Under queue.lock: post the result, and leave if asked to or if done.
Post(qq, s) ==
  /\ pc[qq][s] = "post"
  /\ IF threadShutdownRequested \/ (qq \in QuitOnEmpty /\ q[qq] = <<>>)
       THEN Leave(qq, s, None) ELSE Stay(qq, s)
  /\ PostResult(qq, s)

\* Mutant: the catch block wakes nobody.
TerminatedSilently(qq, s) ==
  /\ pc[qq][s] = "terminated"
  /\ thread' = [thread EXCEPT ![qq] = None]
  /\ pc' = [pc EXCEPT ![qq][s] = "exit"]
  /\ cur' = [cur EXCEPT ![qq][s] = None]
  /\ UNCHANGED <<q, sem, res, results, loopLock, mainVars,
                 threadShutdownRequested, exitCode>>

\* The catch block: the waiter is woken although results got nothing.
Terminated(qq, s) ==
  /\ pc[qq][s] = "terminated"
  /\ res' = Posted(qq)
  /\ thread' = [thread EXCEPT ![qq] = None]
  /\ pc' = [pc EXCEPT ![qq][s] = "exit"]
  /\ cur' = [cur EXCEPT ![qq][s] = None]
  /\ UNCHANGED <<q, sem, results, loopLock, mainVars,
                 threadShutdownRequested, exitCode>>

\* A shutdown test succeeded: queue.thread = nullptr under queue.lock.
Bail(qq, s) ==
  /\ pc[qq][s] = "bail"
  /\ thread' = [thread EXCEPT ![qq] = None]
  /\ pc' = [pc EXCEPT ![qq][s] = "exit"]
  /\ UNCHANGED <<q, sem, res, results, loopLock, cur, mainVars,
                 threadShutdownRequested, exitCode>>

\* The loop is left: loopLock is given back and the thread ends.
Exit(qq, s) ==
  /\ pc[qq][s] = "exit"
  /\ loopLock' = [loopLock EXCEPT ![qq] = None]
  /\ pc' = [pc EXCEPT ![qq][s] = "none"]
  /\ UNCHANGED <<q, sem, res, results, thread, cur, mainVars,
                 threadShutdownRequested, exitCode>>

Worker(qq, s) ==
  \/ TakeLoopLock(qq, s)
  \/ CheckShutdown(qq, s)
  \/ AwaitInstruction(qq, s)
  \/ Recheck(qq, s)
  \/ Fetch(qq, s)
  \/ Execute(qq, s)
  \/ ExecuteFails(qq, s)
  \/ Post(qq, s)
  \/ Terminated(qq, s)
  \/ Bail(qq, s)
  \/ Exit(qq, s)

-----------------------------------------------------------------------------
(* The script thread: submitting, waiting for a result, clearing a cache *)

\* Which name a new thread gets does not matter.
FreeSlot(qq) == CHOOSE s \in Slot : pc[qq][s] = "none"

\* Run the queue's thread if it is not already running.
EnsureThread(qq) ==
  IF thread[qq] = None
    THEN \E s \in Slot :
           /\ pc[qq][s] = "none" /\ s = FreeSlot(qq)
           /\ thread' = [thread EXCEPT ![qq] = s]
           /\ pc' = [pc EXCEPT ![qq][s] = "start"]
           /\ late' = late \ {qq}
    ELSE UNCHANGED <<thread, pc, late>>

\* Mutant: the semaphore is not posted.
PushSilently(qq, i) ==
  /\ q' = [q EXCEPT ![qq] = Append(@, i)]
  /\ EnsureThread(qq)
  /\ UNCHANGED <<sem, res, results, loopLock, cur>>

\* queue(): push, post, and create the thread if there is none.
Push(qq, i) ==
  /\ q' = [q EXCEPT ![qq] = Append(@, i)]
  /\ sem' = IF qq \in QuitOnEmpty THEN sem ELSE [sem EXCEPT ![qq] = @ + 1]
  /\ EnsureThread(qq)
  /\ UNCHANGED <<res, results, loopLock, cur>>

\* cacheImage, cacheSound, loadImage, load*Frames, loadPacketArrays, playSound.
Submit(qq) ==
  /\ mpc = "idle"
  /\ qq # EventQueue
  /\ next <= MaxSubmit
  /\ Push(qq, next)
  /\ next' = next + 1
  /\ IF qq \in Synchronous
       THEN mpc' = "await" /\ awaited' = <<qq, next>>
       ELSE mpc' = "idle"  /\ awaited' = awaited
  /\ UNCHANGED <<k, quitting, got, resets, threadShutdownRequested, exitCode>>

\* clear_cache_img / clear_cache_snd: under queue.lock, drop the instructions
\* of one cache id; which of the queued ones carry that id is any set of them,
\* and keep lists in order the places of those that stay.
ClearCache(qq, ids) ==
  /\ mpc = "idle"
  /\ qq \in QuitOnEmpty
  /\ \E n \in 0..Len(q[qq]) : \E keep \in [1..n -> 1..Len(q[qq])] :
       /\ \A i, j \in 1..n : i < j => keep[i] < keep[j]
       /\ \A p \in 1..Len(q[qq]) :
            q[qq][p] \notin ids <=> \E i \in 1..n : keep[i] = p
       /\ q' = [q EXCEPT ![qq] = [i \in 1..n |-> q[qq][keep[i]]]]
  /\ UNCHANGED <<sem, res, results, thread, loopLock, workerVars, mainVars,
                 threadShutdownRequested, exitCode>>

\* The window is closed while a blocking call holds canExit down.
CloseWhileWaiting ==
  /\ mpc = "await"
  /\ ~exitCode
  /\ exitCode' = TRUE
  /\ UNCHANGED <<sharedVars, workerVars, mainVars, threadShutdownRequested>>

\* SDL_SemWaitTimeout on resultsWaiting succeeds; preventExit(false) leaves
\* the program when a quit was requested meanwhile.
ResultArrives ==
  /\ mpc = "await"
  /\ res[awaited[1]] > 0
  /\ res' = [res EXCEPT ![awaited[1]] = @ - 1]
  /\ mpc' = IF exitCode THEN "quit"
            ELSE IF awaited[1] \in Reporting THEN "pop" ELSE "idle"
  /\ awaited' = IF mpc' = "pop" THEN awaited ELSE None
  /\ UNCHANGED <<q, sem, results, thread, loopLock, workerVars, k, quitting,
                 got, next, resets, late, threadShutdownRequested, exitCode>>

\* Mutant: results.front() is read and left in place.
PeekResult ==
  /\ mpc = "pop"
  /\ results[awaited[1]] # <<>>
  /\ got' = Head(results[awaited[1]])
  /\ mpc' = "idle"
  /\ awaited' = None
  /\ UNCHANGED <<q, sem, res, results, thread, loopLock, workerVars, k,
                 quitting, next, resets, late, threadShutdownRequested, exitCode>>

\* playSoundThreaded takes results.front().
PopResult ==
  /\ mpc = "pop"
  /\ results[awaited[1]] # <<>>
  /\ got' = Head(results[awaited[1]])
  /\ results' = [results EXCEPT ![awaited[1]] = Tail(@)]
  /\ mpc' = "idle"
  /\ awaited' = None
  /\ UNCHANGED <<q, sem, res, thread, loopLock, workerVars, k, quitting, next,
                 resets, late, threadShutdownRequested, exitCode>>

-----------------------------------------------------------------------------
(* endThreads, and the resetSub and ownDeinit that call it *)

\* endThreads raises the flag and turns to the first queue.
RaiseFlag ==
  /\ threadShutdownRequested' = TRUE
  /\ mpc' = "wake"
  /\ k' = 1
  /\ UNCHANGED <<sharedVars, workerVars, awaited, got, next, late, exitCode>>

\* resetSub.
Reset ==
  /\ mpc = "idle"
  /\ resets < MaxResets
  /\ resets' = resets + 1
  /\ quitting' = quitting
  /\ RaiseFlag

\* requestQuit with canExit set: from a script command, from the event loop
\* when exitCode is set, or from preventExit(false).
Quit ==
  /\ mpc \in {"idle", "quit"}
  /\ quitting' = TRUE
  /\ resets' = resets
  /\ RaiseFlag

\* Mutant: a thread suspended on the semaphore is not woken.
WakeNobody ==
  /\ mpc = "wake"
  /\ mpc' = "loop"
  /\ UNCHANGED <<sharedVars, workerVars, k, quitting, awaited, got, next,
                 resets, late, threadShutdownRequested, exitCode>>

\* defaultThreadEnd wakes a thread suspended on the semaphore.
WakeThread ==
  /\ mpc = "wake"
  /\ sem' = IF Order[k] \in QuitOnEmpty THEN sem
            ELSE [sem EXCEPT ![Order[k]] = @ + 1]
  /\ mpc' = "loop"
  /\ UNCHANGED <<q, res, results, thread, loopLock, workerVars, k, quitting,
                 awaited, got, next, resets, late, threadShutdownRequested, exitCode>>

\* Mutant: loopLock is taken from the thread that holds it.
AwaitNoThreadEnd ==
  /\ mpc = "loop"
  /\ loopLock' = [loopLock EXCEPT ![Order[k]] = Main]
  /\ mpc' = "tidy"
  /\ UNCHANGED <<q, sem, res, results, thread, workerVars, k, quitting,
                 awaited, got, next, resets, late, threadShutdownRequested, exitCode>>

\* ... and waits for it to give loopLock back, then takes queue.lock.
AwaitThreadEnd ==
  /\ mpc = "loop"
  /\ loopLock[Order[k]] = None
  /\ loopLock' = [loopLock EXCEPT ![Order[k]] = Main]
  /\ mpc' = "tidy"
  /\ UNCHANGED <<q, sem, res, results, thread, workerVars, k, quitting,
                 awaited, got, next, resets, late, threadShutdownRequested, exitCode>>

\* queue.thread is still set: one SDL_SemWait and one pop per leftover.
Drain ==
  /\ mpc = "tidy"
  /\ thread[Order[k]] # None
  /\ q[Order[k]] # <<>>
  /\ sem[Order[k]] > 0
  /\ sem' = [sem EXCEPT ![Order[k]] = @ - 1]
  /\ q' = [q EXCEPT ![Order[k]] = Tail(@)]
  /\ UNCHANGED <<res, results, thread, loopLock, workerVars, mainVars,
                 threadShutdownRequested, exitCode>>

\* Mutant: resultsWaiting is not recreated.
FinishQueueKeepingResults ==
  /\ loopLock' = [loopLock EXCEPT ![Order[k]] = None]
  /\ IF k < Len(Order) THEN k' = k + 1 /\ mpc' = "wake"
                       ELSE k' = k     /\ mpc' = "lower"
  /\ UNCHANGED <<res, results, thread, workerVars, quitting, awaited, got,
                 next, resets, threadShutdownRequested, exitCode>>

\* The leftovers are gone: resultsWaiting is recreated, the locks are given
\* back and endThreads turns to the next queue or lowers the flag.
FinishQueue ==
  /\ res' = [res EXCEPT ![Order[k]] = 0]
  /\ loopLock' = [loopLock EXCEPT ![Order[k]] = None]
  /\ IF k < Len(Order) THEN k' = k + 1 /\ mpc' = "wake"
                       ELSE k' = k     /\ mpc' = "lower"
  /\ UNCHANGED <<results, thread, workerVars, quitting, awaited, got, next,
                 resets, threadShutdownRequested, exitCode>>

Drained ==
  /\ mpc = "tidy"
  /\ thread[Order[k]] # None
  /\ q[Order[k]] = <<>>
  /\ late' = late \cup {Order[k]}
  /\ UNCHANGED <<q, sem>>
  /\ FinishQueue

\* queue.thread is gone: reset the leftovers.
ClearLeftovers ==
  /\ mpc = "tidy"
  /\ thread[Order[k]] = None
  /\ q' = [q EXCEPT ![Order[k]] = <<>>]
  /\ sem' = [sem EXCEPT ![Order[k]] = 0]
  /\ late' = late \ {Order[k]}
  /\ FinishQueue

LowerFlag ==
  /\ mpc = "lower"
  /\ threadShutdownRequested' = FALSE
  /\ mpc' = IF quitting THEN "stopped" ELSE "restart"
  /\ late' = {qq \in late : quitting \/ \E s \in Slot : pc[qq][s] = "bail"}
  /\ UNCHANGED <<sharedVars, workerVars, k, quitting, awaited, got, next,
                 resets, exitCode>>

\* startEventQueue.
RestartEventQueue ==
  /\ mpc = "restart"
  /\ Push(EventQueue, EventInstr)
  /\ mpc' = IF resets = 0 THEN "idle" ELSE "clearcache"
  /\ UNCHANGED <<k, quitting, awaited, got, next, resets,
                 threadShutdownRequested, exitCode>>

\* resetSub empties the cache queues without taking their locks.
ClearCacheQueues ==
  /\ mpc = "clearcache"
  /\ q' = [qq \in Queue |-> IF qq \in QuitOnEmpty THEN <<>> ELSE q[qq]]
  /\ mpc' = "idle"
  /\ UNCHANGED <<sem, res, results, thread, loopLock, workerVars, k, quitting,
                 awaited, got, next, resets, late, threadShutdownRequested, exitCode>>

Stopped ==
  /\ mpc = "stopped"
  /\ UNCHANGED vars

\* What the script thread does of itself once a call is under way ...
MainStep ==
  \/ ResultArrives
  \/ PopResult
  \/ mpc = "quit" /\ Quit
  \/ WakeThread
  \/ AwaitThreadEnd
  \/ Drain
  \/ Drained
  \/ ClearLeftovers
  \/ LowerFlag
  \/ RestartEventQueue
  \/ ClearCacheQueues

\* ... and what the script or the player decides.
Script ==
  \/ \E qq \in Queue : Submit(qq)
  \/ \E qq \in Queue : \E ids \in SUBSET Instr : ClearCache(qq, ids)
  \/ CloseWhileWaiting
  \/ Reset
  \/ mpc = "idle" /\ Quit

Next ==
  \/ \E qq \in Queue, s \in Slot : Worker(qq, s)
  \/ MainStep
  \/ Script
  \/ Stopped

Spec == Init /\ [][Next]_vars

\* Every thread is scheduled and every execute() returns; spin locks are
\* contended by at most two threads, so weak fairness is enough.
Fairness ==
  /\ \A qq \in Queue, s \in Slot : WF_vars(Worker(qq, s))
  /\ WF_vars(MainStep)

FairSpec == Spec /\ Fairness
-----------------------------------------------------------------------------
(* Properties *)

Live == WorkerPC \ {"none", "exit"}

\* queue.thread names the one thread that serves the queue, and loopLock is
\* held by exactly the thread that is inside asyncLoop: two threads of a queue
\* may exist at once (one leaving, one not yet in), never two that serve it.
OneServer ==
  \A qq \in Queue, s \in Slot :
    /\ pc[qq][s] \in Live <=> thread[qq] = s
    /\ pc[qq][s] \notin {"none", "start"} <=> loopLock[qq] = s

\* Unless a quit is under way, a queued instruction has a thread to run it:
\* "Runs thread if it is not already running" in queue().  The one exception is a
\* queue whose thread endThreads met before it ran, and that read the flag before it
\* was lowered: it leaves when it comes to run again, with instructions queued or not.
NoOrphan ==
  ~threadShutdownRequested /\ ~exitCode =>
    \A qq \in Queue \ late : q[qq] # <<>> => thread[qq] # None

Holding == {"recheck", "fetch", "bail"}

\* instructionsWaiting covers the queue: every queued instruction has a post
\* that its thread has not consumed, or has consumed and will act on.
SemCovers ==
  \A qq \in Queue \ QuitOnEmpty :
    thread[qq] # None =>
      \/ Len(q[qq]) <= sem[qq]
      \/ /\ Len(q[qq]) = sem[qq] + 1
         /\ pc[qq][thread[qq]] \in Holding

\* The drain of defaultThreadEnd finds a thread that has not run, leftovers and no post.
DrainSuspends ==
  /\ mpc = "tidy" /\ thread[Order[k]] # None /\ q[Order[k]] # <<>>
  /\ sem[Order[k]] = 0

\* "this should never suspend": the SDL_SemWait of defaultThreadEnd, made with
\* queue.lock and loopLock held, finds the semaphore posted in every queue that posts
\* it at all, whatever came before; in the others it can be suspended.
DrainIsCovered == DrainSuspends => Order[k] \in QuitOnEmpty

Busy == {"exec", "post", "terminated"}
Idle(qq) == \A s \in Slot : pc[qq][s] \notin Busy

\* "No locks here because all the threads were already killed": resetSub empties the
\* cache queues unlocked.  A thread that endThreads met too early may be there, but
\* it has no instruction and there is none for it to take.
UnlockedClearIsSafe ==
  mpc = "clearcache" => \A qq \in QuitOnEmpty : q[qq] = <<>> /\ Idle(qq)

QueueGone(qq) ==
  /\ thread[qq] = None /\ loopLock[qq] = None
  /\ q[qq] = <<>> /\ sem[qq] = 0 /\ res[qq] = 0

Emptied(qq) ==
  /\ q[qq] = <<>> /\ res[qq] = 0 /\ Idle(qq)
  /\ qq \notin late => QueueGone(qq)

\* When endThreads returns no instruction is left or being carried out and no result
\* waits to be taken for a later one's; and nothing at all is left of a queue, neither
\* its thread nor a post, but where the thread had not run.
NothingSurvivesEndThreads ==
  mpc \in {"lower", "stopped"} => \A qq \in Queue : Emptied(qq)

\* What makes the two properties above inductive: who may hold loopLock, when
\* the flag is up, and what endThreads leaves of the queues it is done with.
MainLock ==
  \A qq \in Queue : loopLock[qq] = Main <=> mpc = "tidy" /\ Order[k] = qq

FlagUp == threadShutdownRequested <=> mpc \in {"wake", "loop", "tidy", "lower"}

Past(qq) ==
  \E i \in 1..Len(Order) :
    Order[i] = qq /\ (i < k \/ mpc \in {"lower", "stopped"})

ShutdownInv ==
  /\ FlagUp
  /\ ~threadShutdownRequested =>
       \A qq \in Queue \ late, s \in Slot : pc[qq][s] # "bail"
  /\ \A qq \in Queue, s \in Slot : pc[qq][s] = "terminated" => exitCode
  /\ threadShutdownRequested \/ mpc = "stopped" =>
       \A qq \in Queue : Past(qq) => Emptied(qq)

\* The value playSoundThreaded pops is the one its own instruction left, even
\* after resets and threads that ended by an exception.
OwnResult ==
  mpc = "pop" => results[awaited[1]] = <<awaited[2]>>

\* endThreads returns whatever the threads are doing when it is called, unless it is
\* suspended in its drain.
EndThreadsReturns ==
  threadShutdownRequested ~> ~threadShutdownRequested \/ DrainSuspends

\* A blocking load or playSound returns.
BlockingCallReturns == mpc = "await" ~> mpc # "await"

Queued(i) ==
  \E qq \in Queue \ (Resident \cup late) : \E n \in 1..Len(q[qq]) : q[qq][n] = i

\* Every queued instruction is taken or dropped, also when it arrives while
\* the thread of a QuitOnEmpty queue is deciding to leave; unless the queue's thread
\* is one endThreads met too early, or endThreads never returns.
EveryInstructionTaken ==
  \A i \in 1..MaxSubmit : Queued(i) ~> ~Queued(i) \/ exitCode \/ DrainSuspends

\* The queues as their clients see them.
Running == [qq \in Queue |->
  IF \E s \in Slot : pc[qq][s] = "exec"
    THEN cur[qq][CHOOSE s \in Slot : pc[qq][s] = "exec"] ELSE None]

Abs == INSTANCE SerialExecutor WITH
         Cancellable <- QuitOnEmpty, pending <- q, running <- Running

\* The executor is a serial executor: no instruction overtakes another, runs
\* twice, or is dropped under a thread that is running its queue.
IsSerialExecutor == Abs!Spec
=============================================================================
