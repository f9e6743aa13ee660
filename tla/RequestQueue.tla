---------------------------- MODULE RequestQueue ----------------------------
(***************************************************************************)
(* The request queue of server.c and the four threads around it:           *)
(*   ordinary  ordinary_interface_main, which receives and pushes,         *)
(*   worker    worker_main, which pops and processes,                      *)
(*   admin     admin_interface_main, which does not touch the queue,       *)
(*   main      main, which waits for the stop flag and shuts down.         *)
(* The queue is the linked list of Request nodes (head, tail, next), its   *)
(* mutex and its condition variable.  A request is its number in the order *)
(* of allocation; what it carries does not matter here.                    *)
(***************************************************************************)
EXTENDS Naturals, Sequences

CONSTANT MaxRequests        \* bound on the requests a behaviour allocates

ASSUME MaxRequestsAssumption == MaxRequests \in Nat

NIL == 0                    \* the NULL pointer
Request == 1..MaxRequests
Thread == {"ordinary", "worker", "main"}

VARIABLES
    head, tail, next,       \* the list; next is the field of each node
    queue_depth,            \* g_state->queue_depth
    mutex,                  \* "free", its owner, or "destroyed"
    g_running,              \* the stop flag, cleared by handle_stop_signal
    opc, wpc, apc, mpc,     \* where each thread is
    allocated,              \* requests allocated by the ordinary thread
    r,                      \* the local r of worker_main
    linked, taken, served   \* how many were linked, unlinked, processed

queueVars == <<head, tail, next, queue_depth>>
countVars == <<allocated, linked, taken, served>>
vars == <<queueVars, mutex, g_running, opc, wpc, apc, mpc, r, countVars>>

Init ==
    /\ head = NIL /\ tail = NIL
    /\ next = [q \in Request |-> NIL]
    /\ queue_depth = 0
    /\ mutex = "free"
    /\ g_running = TRUE
    /\ opc = "loop" /\ wpc = "loop" /\ apc = "loop" /\ mpc = "sleep"
    /\ r = NIL
    /\ allocated = 0 /\ linked = 0 /\ taken = 0 /\ served = 0

-----------------------------------------------------------------------------
(* The mutex and the condition variable, which only the worker waits on.    *)

Acquire(t) == mutex = "free" /\ mutex' = t
Release(t) == mutex = t /\ mutex' = "free"

\* pthread_cond_signal and pthread_cond_broadcast: with one waiter they do
\* the same, and do nothing when the worker is not waiting.
WakeWorker == wpc' = IF wpc = "wait" THEN "relock" ELSE wpc

-----------------------------------------------------------------------------
(* The ordinary thread.                                                    *)

\* while (g_running): poll, then the scan over the ready descriptors.
OrdinaryLoop ==
    /\ opc = "loop"
    /\ opc' = IF g_running THEN "scan" ELSE "done"
    /\ UNCHANGED <<queueVars, mutex, g_running, wpc, apc, mpc, r, countVars>>

\* poll fails for another reason than a signal: the thread ends by itself.
OrdinaryPollFails ==
    /\ opc = "scan"
    /\ opc' = "done"
    /\ UNCHANGED <<queueVars, mutex, g_running, wpc, apc, mpc, r, countVars>>

\* No descriptor is left in this scan (or poll was interrupted).
OrdinaryScanEnd ==
    /\ opc = "scan"
    /\ opc' = "loop"
    /\ UNCHANGED <<queueVars, mutex, g_running, wpc, apc, mpc, r, countVars>>

\* The next ready descriptor: recv_message starts to read a frame.
OrdinaryRecvStart ==
    /\ opc = "scan"
    /\ opc' = "recv"
    /\ UNCHANGED <<queueVars, mutex, g_running, wpc, apc, mpc, r, countVars>>

\* The frame ends the connection, or is answered by this thread alone
\* (CONNECT, BYE, job queries, refusals): nothing reaches the queue.
OrdinaryRecvOther ==
    /\ opc = "recv"
    /\ opc' = "scan"
    /\ UNCHANGED <<queueVars, mutex, g_running, wpc, apc, mpc, r, countVars>>

\* The frame is a request for the worker: calloc, then queue_push is entered.
OrdinaryRecvRequest ==
    /\ opc = "recv"
    /\ allocated < MaxRequests
    /\ allocated' = allocated + 1
    /\ next' = [next EXCEPT ![allocated + 1] = NIL]
    /\ opc' = "lock"
    /\ UNCHANGED <<head, tail, queue_depth, mutex, g_running, wpc, apc, mpc, r,
                   linked, taken, served>>

PushLock ==
    /\ opc = "lock"
    /\ Acquire("ordinary")
    /\ opc' = "link"
    /\ UNCHANGED <<queueVars, g_running, wpc, apc, mpc, r, countVars>>

PushLink ==
    /\ opc = "link"
    /\ \/ /\ tail = NIL
          /\ head' = allocated
          /\ next' = next
       \/ /\ tail # NIL
          /\ next' = [next EXCEPT ![tail] = allocated]
          /\ head' = head
    /\ tail' = allocated
    /\ linked' = linked + 1
    /\ opc' = "count"
    /\ UNCHANGED <<queue_depth, mutex, g_running, wpc, apc, mpc, r,
                   allocated, taken, served>>

PushCount ==
    /\ opc = "count"
    /\ queue_depth' = queue_depth + 1
    /\ opc' = "signal"
    /\ UNCHANGED <<head, tail, next, mutex, g_running, wpc, apc, mpc, r, countVars>>

\* Mutant: the worker is signalled only when a request was already waiting.
PushSignal_NotFirst ==
    /\ opc = "signal"
    /\ wpc' = IF wpc = "wait" /\ queue_depth > 1 THEN "relock" ELSE wpc
    /\ opc' = "unlock"
    /\ UNCHANGED <<queueVars, mutex, g_running, apc, mpc, r, countVars>>

PushSignal ==
    /\ opc = "signal"
    /\ WakeWorker
    /\ opc' = "unlock"
    /\ UNCHANGED <<queueVars, mutex, g_running, apc, mpc, r, countVars>>

PushUnlock ==
    /\ opc = "unlock"
    /\ Release("ordinary")
    /\ opc' = "scan"
    /\ UNCHANGED <<queueVars, g_running, wpc, apc, mpc, r, countVars>>

-----------------------------------------------------------------------------
(* The worker thread.                                                      *)

\* Mutant: while (1), the worker drains the queue after the stop.
WorkerLoop_Drains ==
    /\ wpc = "loop"
    /\ wpc' = "lock"
    /\ UNCHANGED <<queueVars, mutex, g_running, opc, apc, mpc, r, countVars>>

WorkerLoop ==
    /\ wpc = "loop"
    /\ wpc' = IF g_running THEN "lock" ELSE "done"
    /\ UNCHANGED <<queueVars, mutex, g_running, opc, apc, mpc, r, countVars>>

\* Entering queue_pop, or returning inside pthread_cond_wait: the mutex is
\* taken and the condition of the while is evaluated next.
PopLock ==
    /\ wpc \in {"lock", "relock"}
    /\ Acquire("worker")
    /\ wpc' = "test"
    /\ UNCHANGED <<queueVars, g_running, opc, apc, mpc, r, countVars>>

\* while (q->head == NULL && g_running), then if (q->head == NULL).  The stop
\* flag is read without any lock, so it may be cleared right after this step.
PopTest ==
    /\ wpc = "test"
    /\ wpc' = IF head # NIL THEN "take"
              ELSE IF g_running THEN "enterwait" ELSE "empty"
    /\ UNCHANGED <<queueVars, mutex, g_running, opc, apc, mpc, r, countVars>>

\* pthread_cond_wait: releasing the mutex and starting to wait is one step.
PopWait ==
    /\ wpc = "enterwait"
    /\ Release("worker")
    /\ wpc' = "wait"
    /\ UNCHANGED <<queueVars, g_running, opc, apc, mpc, r, countVars>>

\* pthread_cond_wait may return although nobody signalled.
PopSpurious ==
    /\ wpc = "wait"
    /\ wpc' = "relock"
    /\ UNCHANGED <<queueVars, mutex, g_running, opc, apc, mpc, r, countVars>>

\* queue_pop returns NULL and worker_main breaks.
PopEmpty ==
    /\ wpc = "empty"
    /\ Release("worker")
    /\ wpc' = "done"
    /\ UNCHANGED <<queueVars, g_running, opc, apc, mpc, r, countVars>>

\* Mutant: tail keeps pointing to the node that was taken (and freed).
tail_after_pop_Kept == tail

\* When the last element leaves, tail is reset too.
tail_after_pop == IF next[head] = NIL THEN NIL ELSE tail

PopTake ==
    /\ wpc = "take"
    /\ r' = head
    /\ head' = next[head]
    /\ tail' = tail_after_pop
    /\ taken' = taken + 1
    /\ wpc' = "count"
    /\ UNCHANGED <<next, queue_depth, mutex, g_running, opc, apc, mpc,
                   allocated, linked, served>>

\* Mutant: the statistic is not decremented.
depth_after_pop_Kept == queue_depth

depth_after_pop == IF queue_depth > 0 THEN queue_depth - 1 ELSE queue_depth

PopCount ==
    /\ wpc = "count"
    /\ queue_depth' = depth_after_pop
    /\ wpc' = "unlock"
    /\ UNCHANGED <<head, tail, next, mutex, g_running, opc, apc, mpc, r, countVars>>

PopUnlock ==
    /\ wpc = "unlock"
    /\ Release("worker")
    /\ wpc' = "process"
    /\ UNCHANGED <<queueVars, g_running, opc, apc, mpc, r, countVars>>

\* Mutant: the statistic is decremented a second time.
WorkerProcess_Counts ==
    /\ wpc = "process"
    /\ served' = served + 1
    /\ queue_depth' = queue_depth - 1
    /\ r' = NIL
    /\ wpc' = "loop"
    /\ UNCHANGED <<head, tail, next, mutex, g_running, opc, apc, mpc,
                   allocated, linked, taken>>

\* process_request (module Jobs has its steps) and the two calls of free.
WorkerProcess ==
    /\ wpc = "process"
    /\ served' = served + 1
    /\ r' = NIL
    /\ wpc' = "loop"
    /\ UNCHANGED <<queueVars, mutex, g_running, opc, apc, mpc,
                   allocated, linked, taken>>

-----------------------------------------------------------------------------
(* The admin thread, the main thread and the stop signal.                  *)

\* The loop ends when the stop flag is seen clear, or when poll fails.
AdminLeave ==
    /\ apc = "loop"
    /\ apc' = "done"
    /\ UNCHANGED <<queueVars, mutex, g_running, opc, wpc, mpc, r, countVars>>

\* SIGINT or SIGTERM, at any moment.
handle_stop_signal ==
    /\ g_running
    /\ g_running' = FALSE
    /\ UNCHANGED <<queueVars, mutex, opc, wpc, apc, mpc, r, countVars>>

MainWake ==
    /\ mpc = "sleep"
    /\ ~g_running
    /\ mpc' = "joinOrdinary"
    /\ UNCHANGED <<queueVars, mutex, g_running, opc, wpc, apc, r, countVars>>

MainJoinOrdinary ==
    /\ mpc = "joinOrdinary"
    /\ opc = "done"
    /\ mpc' = "joinAdmin"
    /\ UNCHANGED <<queueVars, mutex, g_running, opc, wpc, apc, r, countVars>>

MainJoinAdmin ==
    /\ mpc = "joinAdmin"
    /\ apc = "done"
    /\ mpc' = "lock"
    /\ UNCHANGED <<queueVars, mutex, g_running, opc, wpc, apc, r, countVars>>

\* Mutant: the broadcast is made without the mutex.
MainLock_Unlocked ==
    /\ mpc = "lock"
    /\ WakeWorker
    /\ mpc' = "joinWorker"
    /\ UNCHANGED <<queueVars, mutex, g_running, opc, apc, r, countVars>>

MainLock ==
    /\ mpc = "lock"
    /\ Acquire("main")
    /\ mpc' = "broadcast"
    /\ UNCHANGED <<queueVars, g_running, opc, wpc, apc, r, countVars>>

MainBroadcast ==
    /\ mpc = "broadcast"
    /\ WakeWorker
    /\ mpc' = "unlock"
    /\ UNCHANGED <<queueVars, mutex, g_running, opc, apc, r, countVars>>

MainUnlock ==
    /\ mpc = "unlock"
    /\ Release("main")
    /\ mpc' = "joinWorker"
    /\ UNCHANGED <<queueVars, g_running, opc, wpc, apc, r, countVars>>

\* Mutant: the worker is not joined before the queue is destroyed.
MainJoinWorker_Skips ==
    /\ mpc = "joinWorker"
    /\ mpc' = "destroy"
    /\ UNCHANGED <<queueVars, mutex, g_running, opc, wpc, apc, r, countVars>>

MainJoinWorker ==
    /\ mpc = "joinWorker"
    /\ wpc = "done"
    /\ mpc' = "destroy"
    /\ UNCHANGED <<queueVars, mutex, g_running, opc, wpc, apc, r, countVars>>

MainDestroy ==
    /\ mpc = "destroy"
    /\ mutex' = "destroyed"
    /\ mpc' = "exit"
    /\ UNCHANGED <<queueVars, g_running, opc, wpc, apc, r, countVars>>

\* The process has exited.
Exited == mpc = "exit" /\ UNCHANGED vars

-----------------------------------------------------------------------------
OrdinaryHandle ==
    OrdinaryRecvOther \/ OrdinaryRecvRequest

Ordinary ==
    \/ OrdinaryLoop \/ OrdinaryPollFails \/ OrdinaryScanEnd \/ OrdinaryRecvStart
    \/ OrdinaryHandle
    \/ PushLock \/ PushLink \/ PushCount \/ PushSignal \/ PushUnlock

Worker ==
    \/ WorkerLoop \/ PopLock \/ PopTest \/ PopWait \/ PopSpurious \/ PopEmpty
    \/ PopTake \/ PopCount \/ PopUnlock \/ WorkerProcess

Main ==
    \/ MainWake \/ MainJoinOrdinary \/ MainJoinAdmin \/ MainLock
    \/ MainBroadcast \/ MainUnlock \/ MainJoinWorker \/ MainDestroy

Next == Ordinary \/ Worker \/ AdminLeave \/ Main \/ handle_stop_signal \/ Exited

Safe == Init /\ [][Next]_vars

\* The scheduler runs every thread that can go on; nothing is asked of the
\* order in which the mutex is granted.  PopSpurious is nobody's duty.  A scan
\* ends because it visits at most nfds descriptors: strong fairness says so.
ThreadFairness ==
    /\ WF_vars(OrdinaryLoop) /\ SF_vars(OrdinaryScanEnd)
    /\ WF_vars(PushLock \/ PushLink \/ PushCount \/ PushSignal \/ PushUnlock)
    /\ WF_vars(WorkerLoop \/ PopLock \/ PopTest \/ PopWait \/ PopEmpty
               \/ PopTake \/ PopCount \/ PopUnlock)
    /\ WF_vars(AdminLeave /\ ~g_running)
    /\ WF_vars(Main)

\* What the threads cannot force: a peer completes the frame it began or
\* closes, and takes the answer that is written to it.
PeerFairness == WF_vars(OrdinaryHandle) /\ WF_vars(WorkerProcess)

Spec == Safe /\ ThreadFairness /\ PeerFairness
-----------------------------------------------------------------------------
(* Properties.                                                             *)

TypeOK ==
    /\ head \in Request \union {NIL} /\ tail \in Request \union {NIL}
    /\ next \in [Request -> Request \union {NIL}]
    /\ queue_depth \in Nat
    /\ mutex \in Thread \union {"free", "destroyed"}
    /\ g_running \in BOOLEAN
    /\ opc \in {"loop", "scan", "recv", "lock", "link", "count", "signal",
                "unlock", "done"}
    /\ wpc \in {"loop", "lock", "test", "enterwait", "wait", "relock", "empty",
                "take", "count", "unlock", "process", "done"}
    /\ apc \in {"loop", "done"}
    /\ mpc \in {"sleep", "joinOrdinary", "joinAdmin", "lock", "broadcast",
                "unlock", "joinWorker", "destroy", "exit"}
    /\ r \in Request \union {NIL}
    /\ allocated \in 0..MaxRequests /\ linked \in 0..MaxRequests
    /\ taken \in 0..MaxRequests /\ served \in 0..MaxRequests

\* queue_push and queue_pop keep the linked list intact at every step: it holds
\* exactly the requests linked and not yet taken, oldest first, ending at tail,
\* and both ends are NULL exactly when it is empty (server.c:481-487, 576-582).
ListIsQueue ==
    /\ head = IF taken = linked THEN NIL ELSE taken + 1
    /\ tail = IF taken = linked THEN NIL ELSE linked
    /\ \A q \in taken + 1 .. linked : next[q] = IF q = linked THEN NIL ELSE q + 1

\* Whenever nobody holds the mutex, the statistic queue_depth is the length of
\* the list ("pastram statistica din SharedState sincronizata cu operatiile pe
\* coada", server.c:585): the test queue_depth > 0 never hides a drift.
DepthExact == mutex = "free" => queue_depth = linked - taken

\* The worker waits on the condition variable only while there is nothing to
\* do or the signal for it is still to come: never with a request in the list
\* and the mutex free, and never once main has broadcast the shutdown, however
\* the stop signal falls between the test of g_running and the wait
\* (server.c:570-572, 1418-1420).
NoLostWakeup ==
    wpc = "wait" =>
        /\ head # NIL => opc \in {"count", "signal"}
        /\ mpc \in {"sleep", "joinOrdinary", "joinAdmin", "lock", "broadcast"}

\* The mutex and the condition variable are destroyed only when no thread can
\* use them again (server.c:1421-1424).
DestroySafe ==
    mutex = "destroyed" => opc = "done" /\ wpc = "done" /\ apc = "done"

\* The queue with its lock, condition variable and linked list implements the
\* abstract queue: FIFO service, one request at a time, none twice, and at
\* most one request served after the stop flag is cleared.
Fifo == INSTANCE RequestFifo WITH
    pending <- [i \in 1..(linked - taken) |-> taken + i],
    lastPut <- linked,
    serving <- r,
    worker  <- IF wpc = "done" \/ (wpc = "loop" /\ ~g_running) THEN "gone"
               ELSE IF r # NIL THEN "busy" ELSE "idle",
    stopped <- ~g_running

ImplementsFifo == Fifo!Safe

\* A request in the list is processed, unless the server is told to stop.
EveryRequestServed ==
    \A q \in Request : (linked >= q) ~> (served >= q \/ ~g_running)

\* After SIGINT or SIGTERM the process exits: no thread is joined while it
\* waits for something that will not come (server.c:1412-1430).
ShutdownCompletes == ~g_running ~> mpc = "exit"
-----------------------------------------------------------------------------
(* The inductive invariant behind the safety properties: who holds the mutex *)
(* where, what the counters owe each other in the middle of an operation, and *)
(* what the worker has seen.                                               *)

MutexHeld ==
    /\ mutex = "ordinary" <=> opc \in {"link", "count", "signal", "unlock"}
    /\ mutex = "worker" <=>
         wpc \in {"test", "enterwait", "empty", "take", "count", "unlock"}
    /\ mutex = "main" <=> mpc \in {"broadcast", "unlock"}
    /\ mutex = "destroyed" <=> mpc = "exit"

Counts ==
    /\ allocated = IF opc \in {"lock", "link"} THEN linked + 1 ELSE linked
    /\ taken <= linked
    /\ r = IF wpc \in {"count", "unlock", "process"} THEN taken ELSE NIL
    /\ taken = IF wpc \in {"count", "unlock", "process"} THEN served + 1 ELSE served
    /\ queue_depth = CASE opc = "count" -> linked - taken - 1
                       [] wpc = "count" -> linked - taken + 1
                       [] OTHER -> linked - taken
    /\ \A q \in Request : q > linked => next[q] = NIL

WorkerSaw ==
    /\ wpc = "take" => head # NIL
    /\ wpc = "enterwait" => head = NIL
    /\ wpc \in {"empty", "done"} => ~g_running
    /\ wpc \in {"wait", "enterwait"} =>
         mpc \in {"sleep", "joinOrdinary", "joinAdmin", "lock", "broadcast"}
    /\ wpc = "wait" /\ head # NIL => opc \in {"count", "signal"}

ShutdownOrder ==
    /\ mpc # "sleep" => ~g_running
    /\ mpc \notin {"sleep", "joinOrdinary"} => opc = "done"
    /\ mpc \notin {"sleep", "joinOrdinary", "joinAdmin"} => apc = "done"
    /\ mpc \in {"destroy", "exit"} => wpc = "done"

IInv == TypeOK /\ MutexHeld /\ Counts /\ ListIsQueue /\ WorkerSaw /\ ShutdownOrder
=============================================================================
