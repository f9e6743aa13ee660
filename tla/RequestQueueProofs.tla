------------------------- MODULE RequestQueueProofs -------------------------
(***************************************************************************)
(* The safety properties of RequestQueue for every bound on the number of  *)
(* requests.  They follow from IInv, which is inductive: InitIInv, one     *)
(* lemma per thread (OrdinaryIInv, WorkerIInv, MainIInv), and InvariantIInv *)
(* that puts them together.                                                *)
(***************************************************************************)
EXTENDS RequestQueue, SequenceTheorems, TLAPS

\* The zeroed queue of queue_init satisfies the invariant.
LEMMA InitIInv == Init => IInv
  BY MaxRequestsAssumption DEF Init, IInv, TypeOK, MutexHeld, Counts, ListIsQueue,
     WorkerSaw, ShutdownOrder, Thread, Request, NIL

\* Every step of ordinary_interface_main, the steps of queue_push included,
\* preserves the invariant.
LEMMA OrdinaryIInv == IInv /\ Ordinary => IInv'
<1> SUFFICES ASSUME IInv, Ordinary PROVE IInv'
  OBVIOUS
<1> USE MaxRequestsAssumption DEF IInv, TypeOK, MutexHeld, Counts, ListIsQueue,
     WorkerSaw, ShutdownOrder, Thread, Request, NIL, queueVars, countVars
<1>1. CASE OrdinaryLoop
  BY <1>1 DEF OrdinaryLoop
<1>2. CASE OrdinaryPollFails
  BY <1>2 DEF OrdinaryPollFails
<1>3. CASE OrdinaryScanEnd
  BY <1>3 DEF OrdinaryScanEnd
<1>4. CASE OrdinaryRecvStart
  BY <1>4 DEF OrdinaryRecvStart
<1>5. CASE OrdinaryRecvOther
  BY <1>5 DEF OrdinaryRecvOther
<1>6. CASE OrdinaryRecvRequest
  <2> USE <1>6 DEF OrdinaryRecvRequest
  <2>1. /\ allocated = linked
        /\ allocated' = linked + 1
        /\ linked + 1 \in Request
    OBVIOUS
  <2>2. next' = next
    BY <2>1
  <2> QED
    BY <2>1, <2>2
<1>7. CASE PushLock
  BY <1>7 DEF PushLock, Acquire
<1>8. CASE PushLink
  <2> USE <1>8 DEF PushLink
  <2>1. /\ linked < MaxRequests
        /\ linked' = linked + 1
        /\ allocated = linked + 1
        /\ tail' = linked + 1
        /\ tail = NIL <=> taken = linked
    OBVIOUS
  <2>2. TypeOK'
    <3>1. next' \in [Request -> Request \union {NIL}]
      BY <2>1
    <3> QED
      BY <2>1, <3>1
  <2>3. MutexHeld' /\ ShutdownOrder'
    OBVIOUS
  <2>4. Counts'
    BY SMTT(30), <2>1
  <2>5. ListIsQueue'
    <3>1. CASE tail = NIL
      BY <2>1, <3>1
    <3>2. CASE tail # NIL
      <4>1. /\ taken < linked
            /\ tail = linked
            /\ head = taken + 1
        BY <2>1, <3>2
      <4>2. next' = [next EXCEPT ![linked] = linked + 1]
        BY <2>1, <3>2, <4>1
      <4>3. ASSUME NEW q \in taken + 1 .. linked + 1
            PROVE  next'[q] = IF q = linked + 1 THEN NIL ELSE q + 1
        BY SMTT(30), <2>1, <4>1, <4>2
      <4> QED
        BY <2>1, <3>2, <4>1, <4>3
    <3> QED
      BY <3>1, <3>2
  <2>6. WorkerSaw'
    BY <2>1
  <2> QED
    BY <2>2, <2>3, <2>4, <2>5, <2>6
<1>9. CASE PushCount
  BY <1>9 DEF PushCount
<1>10. CASE PushSignal
  BY <1>10 DEF PushSignal, WakeWorker
<1>11. CASE PushUnlock
  BY <1>11 DEF PushUnlock, Release
<1> QED
  BY <1>1, <1>2, <1>3, <1>4, <1>5, <1>6, <1>7, <1>8, <1>9, <1>10, <1>11
     DEF Ordinary, OrdinaryHandle

\* Every step of worker_main, the steps of queue_pop included, preserves the
\* invariant.
LEMMA WorkerIInv == IInv /\ Worker => IInv'
<1> SUFFICES ASSUME IInv, Worker PROVE IInv'
  OBVIOUS
<1> USE MaxRequestsAssumption DEF IInv, TypeOK, MutexHeld, Counts, ListIsQueue,
     WorkerSaw, ShutdownOrder, Thread, Request, NIL, queueVars, countVars
<1>1. CASE WorkerLoop
  BY <1>1 DEF WorkerLoop
<1>2. CASE PopLock
  BY <1>2 DEF PopLock, Acquire
<1>3. CASE PopTest
  BY <1>3 DEF PopTest
<1>4. CASE PopWait
  BY <1>4 DEF PopWait, Release
<1>5. CASE PopSpurious
  BY <1>5 DEF PopSpurious
<1>6. CASE PopEmpty
  BY <1>6 DEF PopEmpty, Release
<1>7. CASE PopTake
  <2> USE <1>7 DEF PopTake, tail_after_pop
  <2>1. /\ taken < linked
        /\ head = taken + 1
        /\ r' = taken + 1
        /\ taken' = taken + 1
        /\ next[head] = IF taken + 1 = linked THEN NIL ELSE taken + 2
        /\ opc \notin {"link", "count", "signal", "unlock"}
    OBVIOUS
  <2>2. TypeOK'
    BY <2>1
  <2>3. MutexHeld' /\ WorkerSaw' /\ ShutdownOrder'
    BY <2>1
  <2>4. Counts'
    BY <2>1
  <2>5. ListIsQueue'
    BY SMTT(30), <2>1
  <2> QED
    BY <2>2, <2>3, <2>4, <2>5
<1>8. CASE PopCount
  BY <1>8 DEF PopCount, depth_after_pop
<1>9. CASE PopUnlock
  BY <1>9 DEF PopUnlock, Release
<1>10. CASE WorkerProcess
  BY <1>10 DEF WorkerProcess
<1> QED
  BY <1>1, <1>2, <1>3, <1>4, <1>5, <1>6, <1>7, <1>8, <1>9, <1>10 DEF Worker

\* Every step of the shutdown in main preserves the invariant.
LEMMA MainIInv == IInv /\ Main => IInv'
<1> SUFFICES ASSUME IInv, Main PROVE IInv'
  OBVIOUS
<1> USE MaxRequestsAssumption DEF IInv, TypeOK, MutexHeld, Counts, ListIsQueue,
     WorkerSaw, ShutdownOrder, Thread, Request, NIL, queueVars, countVars
<1>1. CASE MainWake
  BY <1>1 DEF MainWake
<1>2. CASE MainJoinOrdinary
  BY <1>2 DEF MainJoinOrdinary
<1>3. CASE MainJoinAdmin
  BY <1>3 DEF MainJoinAdmin
<1>4. CASE MainLock
  BY <1>4 DEF MainLock, Acquire
<1>5. CASE MainBroadcast
  BY <1>5 DEF MainBroadcast, WakeWorker
<1>6. CASE MainUnlock
  BY <1>6 DEF MainUnlock, Release
<1>7. CASE MainJoinWorker
  BY <1>7 DEF MainJoinWorker
<1>8. CASE MainDestroy
  BY <1>8 DEF MainDestroy
<1> QED
  BY <1>1, <1>2, <1>3, <1>4, <1>5, <1>6, <1>7, <1>8 DEF Main

\* IInv is an invariant of the queue and its threads.
THEOREM InvariantIInv == Spec => []IInv
<1>1. ASSUME IInv, [Next]_vars
      PROVE  IInv'
  <2>1. CASE Ordinary
    BY <1>1, <2>1, OrdinaryIInv
  <2>2. CASE Worker
    BY <1>1, <2>2, WorkerIInv
  <2>3. CASE Main
    BY <1>1, <2>3, MainIInv
  <2>4. CASE AdminLeave
    BY <1>1, <2>4 DEF AdminLeave, IInv, TypeOK, MutexHeld, Counts, ListIsQueue,
       WorkerSaw, ShutdownOrder, queueVars, countVars
  <2>5. CASE handle_stop_signal
    <3> USE <1>1, <2>5 DEF handle_stop_signal, IInv, queueVars, countVars
    <3>1. TypeOK'
      <4>1. g_running' \in BOOLEAN
        BY DEF handle_stop_signal
      <4> QED
        BY <4>1 DEF TypeOK
    <3>2. MutexHeld' /\ ListIsQueue'
      BY DEF MutexHeld, ListIsQueue
    <3>3. Counts'
      BY DEF Counts
    <3>4. WorkerSaw' /\ ShutdownOrder'
      BY DEF WorkerSaw, ShutdownOrder
    <3> QED
      BY <3>1, <3>2, <3>3, <3>4
  <2>6. CASE UNCHANGED vars
    BY <1>1, <2>6 DEF vars, IInv, TypeOK, MutexHeld, Counts, ListIsQueue,
       WorkerSaw, ShutdownOrder, queueVars, countVars
  <2> QED
    BY <1>1, <2>1, <2>2, <2>3, <2>4, <2>5, <2>6 DEF Next, Exited
<1> QED
  BY <1>1, InitIInv, PTL DEF Spec, Safe

\* Type correctness of the queue and its threads.
THEOREM TypeCorrect == Spec => []TypeOK
  BY InvariantIInv, PTL DEF IInv

\* Whatever the interleaving of queue_push and queue_pop, the linked list is
\* the queue of the requests not yet taken.
THEOREM ListCorrect == Spec => []ListIsQueue
  BY InvariantIInv, PTL DEF IInv

\* queue_depth is the length of the list whenever the mutex is free.
THEOREM DepthCorrect == Spec => []DepthExact
<1>1. IInv => DepthExact
  BY DEF IInv, MutexHeld, Counts, DepthExact
<1> QED
  BY <1>1, InvariantIInv, PTL

\* No wakeup of the worker is lost, neither a push's nor the shutdown's.
THEOREM WakeupCorrect == Spec => []NoLostWakeup
<1>1. IInv => NoLostWakeup
  BY DEF IInv, WorkerSaw, NoLostWakeup
<1> QED
  BY <1>1, InvariantIInv, PTL

\* The mutex is destroyed only after the last thread that uses it has ended.
THEOREM DestroyCorrect == Spec => []DestroySafe
<1>1. IInv => DestroySafe
  BY DEF IInv, MutexHeld, ShutdownOrder, DestroySafe
<1> QED
  BY <1>1, InvariantIInv, PTL

\* The queue implements RequestFifo: linking a request is Put, taking it is
\* Take, processing it is Serve, the stop signal is Stop, and the worker's
\* exit from an empty queue is Leave; every other step leaves the abstract
\* queue as it is.
THEOREM Refinement == Spec => ImplementsFifo
<1> USE DEF NIL
<1>1. Init => Fifo!Init
  BY DEF Init, Fifo!Init
<1>2. ASSUME IInv, [Next]_vars
      PROVE  [Fifo!Next]_(Fifo!vars)
  <2> USE <1>2, MaxRequestsAssumption DEF IInv, Request, queueVars, countVars, Fifo!vars
  <2>1. CASE PushLink
    <3>1. /\ linked \in Nat /\ taken \in Nat /\ taken <= linked
          /\ linked < MaxRequests
          /\ linked' = linked + 1
          /\ UNCHANGED <<taken, served, r, wpc, g_running>>
      BY <2>1 DEF PushLink, TypeOK, Counts
    <3>2. [i \in 1..(linked' - taken') |-> taken' + i]
            = Append([i \in 1..(linked - taken) |-> taken + i], linked + 1)
      BY <3>1
    <3>3. Fifo!Put
      BY <3>1, <3>2 DEF Fifo!Put
    <3> QED
      BY <3>3 DEF Fifo!Next
  <2>2. CASE PopTake
    <3>1. /\ linked \in Nat /\ taken \in Nat /\ taken < linked
          /\ taken' = taken + 1
          /\ r = NIL /\ r' = taken + 1
          /\ wpc = "take" /\ wpc' = "count"
          /\ UNCHANGED <<linked, served, g_running>>
      BY <2>2 DEF PopTake, tail_after_pop, TypeOK, Counts, WorkerSaw, ListIsQueue
    <3> DEFINE before == [i \in 1..(linked - taken) |-> taken + i]
               after == [i \in 1..(linked' - taken') |-> taken' + i]
    <3>2. /\ before \in Seq(Nat) /\ Len(before) = linked - taken
          /\ after \in Seq(Nat) /\ Len(after) = linked - taken - 1
      BY <3>1
    <3>3. before # <<>> /\ Head(before) = taken + 1
      BY <3>1, <3>2
    <3>4. after = Tail(before)
      <4>1. Tail(before) \in Seq(Nat) /\ Len(Tail(before)) = linked - taken - 1
        BY <3>1, <3>2, <3>3
      <4>2. \A i \in 1..Len(after) : after[i] = Tail(before)[i]
        BY <3>1, <3>2, <3>3
      <4> HIDE DEF before, after
      <4> QED
        BY <3>2, <4>1, <4>2, SeqEqual
    <3>5. Fifo!Take
      <4> HIDE DEF before, after
      <4>1. r' = Head(before) /\ after = Tail(before) /\ before # <<>>
        BY <3>1, <3>3, <3>4
      <4> USE DEF before, after
      <4> QED
        BY ONLY SMTT(30), <3>1, <4>1 DEF Fifo!Take, NIL
    <3> QED
      BY <3>5 DEF Fifo!Next
  <2>3. CASE WorkerProcess
    <3>1. Fifo!Serve
      BY <2>3 DEF WorkerProcess, Fifo!Serve, TypeOK, Counts
    <3> QED
      BY <3>1 DEF Fifo!Next
  <2>4. CASE PopEmpty
    <3>1. Fifo!Leave
      BY <2>4 DEF PopEmpty, Release, WorkerSaw, Counts, Fifo!Leave
    <3> QED
      BY <3>1 DEF Fifo!Next
  <2>5. CASE handle_stop_signal
    <3>1. Fifo!Stop
      BY <2>5 DEF handle_stop_signal, TypeOK, Counts, WorkerSaw, Fifo!Stop
    <3> QED
      BY <3>1 DEF Fifo!Next
  <2>6. CASE \/ OrdinaryLoop \/ OrdinaryPollFails \/ OrdinaryScanEnd
             \/ OrdinaryRecvStart \/ OrdinaryHandle
             \/ PushLock \/ PushCount \/ PushSignal \/ PushUnlock
             \/ AdminLeave \/ Main \/ UNCHANGED vars
    <3>1. UNCHANGED <<linked, taken, served, r, g_running>>
      BY <2>6 DEF OrdinaryLoop, OrdinaryPollFails, OrdinaryScanEnd,
         OrdinaryRecvStart, OrdinaryHandle, OrdinaryRecvOther,
         OrdinaryRecvRequest, PushLock, PushCount, PushSignal, PushUnlock,
         AdminLeave, Main, MainWake, MainJoinOrdinary, MainJoinAdmin, MainLock,
         MainBroadcast, MainUnlock, MainJoinWorker, MainDestroy, vars
    <3>2. \/ wpc' = wpc
          \/ wpc = "wait" /\ wpc' = "relock"
      BY <2>6 DEF OrdinaryLoop, OrdinaryPollFails, OrdinaryScanEnd,
         OrdinaryRecvStart, OrdinaryHandle, OrdinaryRecvOther,
         OrdinaryRecvRequest, PushLock, PushCount, PushSignal, PushUnlock,
         AdminLeave, Main, MainWake, MainJoinOrdinary, MainJoinAdmin, MainLock,
         MainBroadcast, MainUnlock, MainJoinWorker, MainDestroy, vars, WakeWorker
    <3> QED
      BY <3>1, <3>2
  <2>7. CASE \/ WorkerLoop \/ PopLock \/ PopTest \/ PopWait \/ PopSpurious
             \/ PopCount \/ PopUnlock
    <3>1. UNCHANGED <<linked, taken, served, r, g_running>>
      BY <2>7 DEF WorkerLoop, PopLock, PopTest, PopWait, PopSpurious, PopCount,
         PopUnlock
    <3>2. /\ wpc # "done"
          /\ wpc = "loop" => wpc' = IF g_running THEN "lock" ELSE "done"
          /\ wpc # "loop" => wpc' \notin {"loop", "done"}
      BY <2>7 DEF WorkerLoop, PopLock, PopTest, PopWait, PopSpurious, PopCount,
         PopUnlock
    <3> QED
      BY <3>1, <3>2 DEF TypeOK, Counts
  <2> QED
    BY <2>1, <2>2, <2>3, <2>4, <2>5, <2>6, <2>7
       DEF Next, Ordinary, Worker, Exited
<1> QED
  BY <1>1, <1>2, InvariantIInv, PTL DEF Spec, Safe, ImplementsFifo, Fifo!Safe
=============================================================================
