----------------------------- MODULE JobsProofs -----------------------------
(***************************************************************************)
(* Proofs about Jobs, for any size of the ring and of the client table and *)
(* any number of requests and cancellations: its types, the cancellations, *)
(* the statistics, and what the job ring holds and reports.                *)
(***************************************************************************)
EXTENDS Jobs, Integers, FiniteSetTheorems, SequenceTheorems, TLAPS

\* The sizes are natural numbers (model.h:29-32).
LEMMA Sizes ==
    /\ MAX_JOBS \in Nat /\ LAST_TABLE \in Nat
    /\ MaxClients \in Nat /\ MaxRequests \in Nat
    BY JobsAssumption

-----------------------------------------------------------------------------
(* Types.  TypeOK needs to know that a busy worker has a request, and that  *)
(* job ids are given out no faster than requests come in.                  *)

BusyHasRequest == pc # "idle" => r \in Request

JobsFollowRequests == next_job_id <= submitted + 1

TypeInv == TypeOK /\ BusyHasRequest /\ JobsFollowRequests

\* The initial state is typed (state_init).
LEMMA InitTypeInv == Init => TypeInv
<1> SUFFICES ASSUME Init PROVE TypeInv
    OBVIOUS
<1>1. NoJob \in Job
    BY Sizes DEF NoJob, Job, Status, Result
<1>2. jobs \in [Slot -> Job] /\ last_job_by_client \in [0..LAST_TABLE - 1 -> 0..MaxRequests]
    BY <1>1, Sizes DEF Init
<1>3. resp_ok \in BOOLEAN /\ response_sent \in BOOLEAN
    BY Zenon DEF Init
<1>4. slot \in Slot \union {NULL} /\ r \in Request \union {NoRequest}
    BY DEF Init
<1>5. acked \in [Client -> Nat] /\ granted \in [Client -> Nat]
    BY DEF Init
<1>6. queue \in Seq(Request) /\ answers \in Seq(Answer)
    BY DEF Init
<1>7. /\ next_client_id \in 1..MaxClients + 1 /\ next_job_id \in 1..MaxRequests + 1
      /\ active_client_id \in 0..MaxClients /\ cancel_client_id \in 0..MaxClients
      /\ submitted \in 0..MaxRequests /\ next_job_id <= submitted + 1
    BY Sizes DEF Init
<1>8. /\ total_commands \in Nat /\ failed_commands \in Nat /\ cancelled_commands \in Nat
      /\ connected \subseteq Client /\ registered \subseteq connected
      /\ shared \subseteq 1..MaxRequests
      /\ waiting \subseteq Client /\ owed \subseteq Client /\ pc = "idle"
    BY DEF Init
<1> QED
    BY <1>2, <1>3, <1>4, <1>5, <1>6, <1>7, <1>8
    DEF TypeInv, TypeOK, BusyHasRequest, JobsFollowRequests

\* job_find returns a slot or NULL.
LEMMA FindType == ASSUME NEW j PROVE job_find(j) \in Slot \union {NULL}
    BY DEF job_find

\* The steps of the ordinary and of the admin thread keep the types.
LEMMA ClientTypeInv ==
    ASSUME TypeInv, NEW c \in Client,
           Connect \/ Leave(c) \/ AdminCancel(c) \/ \E op \in Op : Submit(c, op)
    PROVE  TypeInv'
<1>1. CASE Connect
    <2>1. next_client_id \in Client /\ next_client_id' \in 1..MaxClients + 1
        BY <1>1, Sizes DEF Connect, TypeInv, TypeOK, Client
    <2>2. connected' \subseteq Client /\ registered' \subseteq connected'
        BY <1>1, <2>1 DEF Connect, TypeInv, TypeOK
    <2> QED
        BY <1>1, <2>1, <2>2
        DEF Connect, TypeInv, TypeOK, BusyHasRequest, JobsFollowRequests,
            ringVars, workVars, statVars, cancelVars, trafficVars
<1>2. CASE Leave(c)
    BY <1>2
    DEF Leave, TypeInv, TypeOK, BusyHasRequest, JobsFollowRequests,
        ringVars, workVars, statVars, cancelVars
<1>3. CASE AdminCancel(c)
    <2>1. acked' \in [Client -> Nat] /\ owed' \subseteq Client /\ granted' = granted
        BY <1>3 DEF AdminCancel, TypeInv, TypeOK
    <2>2. cancel_client_id' \in 0..MaxClients
        BY <1>3, Sizes DEF AdminCancel, Client
    <2> QED
        BY <1>3, <2>1, <2>2
        DEF AdminCancel, TypeInv, TypeOK, BusyHasRequest, JobsFollowRequests,
            clientVars, ringVars, workVars, statVars, trafficVars
<1>4. ASSUME NEW op \in Op, Submit(c, op) PROVE TypeInv'
    <2>1. next_job_id \in 1..MaxRequests /\ submitted \in 0..MaxRequests - 1
        BY <1>4, Sizes DEF Submit, TypeInv, TypeOK, JobsFollowRequests
    <2>2. /\ next_job_id' \in {next_job_id, next_job_id + 1}
          /\ submitted' = submitted + 1
        BY <1>4 DEF Submit, job_create, ringVars
    <2>3. queue' \in Seq(Request)
        <3> DEFINE q == [client_id |-> c, op |-> op,
                         job_id |-> IF is_processing_op(op) THEN next_job_id ELSE 0]
        <3>1. q \in Request
            BY <2>1, Sizes DEF Request
        <3> QED
            BY <1>4, <3>1 DEF Submit, TypeInv, TypeOK
    <2>4. jobs' \in [Slot -> Job]
        <3> DEFINE job == [job_id |-> next_job_id, client_id |-> c,
                           status |-> "QUEUED", result |-> "queued"]
        <3>1. job \in Job
            BY <2>1, Sizes DEF Job, Client, Status, Result
        <3>2. jobs' = jobs \/ jobs' = [jobs EXCEPT ![slot_of(next_job_id)] = job]
            BY <1>4 DEF Submit, job_create, ringVars
        <3> QED
            BY <3>1, <3>2 DEF TypeInv, TypeOK
    <2>5. last_job_by_client' \in [0..LAST_TABLE - 1 -> 0..MaxRequests]
        <3>1. \/ last_job_by_client' = last_job_by_client
              \/ last_job_by_client' = [last_job_by_client EXCEPT ![c] = next_job_id]
            BY <1>4 DEF Submit, job_create, note_last, ringVars
        <3>2. last_job_by_client \in [0..LAST_TABLE - 1 -> 0..MaxRequests]
            BY DEF TypeInv, TypeOK
        <3>3. next_job_id \in 0..MaxRequests
            BY <2>1, Sizes
        <3> QED
            BY <3>1, <3>2, <3>3
    <2>6. shared' \subseteq 1..MaxRequests
        BY <1>4, <2>1 DEF Submit, job_create, TypeInv, TypeOK
    <2> QED
        BY SMTT(30), <1>4, <2>1, <2>2, <2>3, <2>4, <2>5, <2>6, Sizes
        DEF Submit, TypeInv, TypeOK, BusyHasRequest, JobsFollowRequests,
            clientVars, workVars, statVars, cancelVars
<1> QED
    BY <1>1, <1>2, <1>3, <1>4

\* An answer of the worker is appended with its type.
LEMMA AnsweredType ==
    ASSUME TypeInv, pc # "idle", NEW ok \in BOOLEAN, Answered(ok)
    PROVE  /\ answers' \in Seq(Answer) /\ waiting' \subseteq Client
           /\ UNCHANGED <<queue, submitted>>
<1> DEFINE a == [client_id |-> r.client_id, op |-> r.op, job_id |-> r.job_id, ok |-> ok]
<1>1. a \in Answer
    BY DEF TypeInv, BusyHasRequest, Request, Answer
<1> QED
    BY <1>1 DEF Answered, TypeInv, TypeOK

\* The steps of process_request keep the types.
LEMMA WorkerTypeInv == ASSUME TypeInv, process_request PROVE TypeInv'
<1> USE DEF TypeInv, BusyHasRequest, JobsFollowRequests
<1>1. CASE Begin
    <2>1. Head(queue) \in Request /\ Tail(queue) \in Seq(Request)
        BY <1>1 DEF Begin, TypeOK
    <2>2. resp_ok' \in BOOLEAN /\ response_sent' \in BOOLEAN
        BY <1>1, Zenon DEF Begin
    <2>3. active_client_id' \in 0..MaxClients
        BY <1>1, <2>1, Sizes DEF Begin, Request, Client
    <2>4. r' \in Request /\ queue' \in Seq(Request)
        BY <1>1, <2>1 DEF Begin
    <2> QED
        BY <1>1, <2>2, <2>3, <2>4
        DEF Begin, TypeOK, Goto, clientVars, ringVars, statVars, cancelVars
<1>2. CASE JobUpdateFind
    BY <1>2, FindType
    DEF JobUpdateFind, found, AfterUpdate, TypeOK, Goto, clientVars, ringVars, statVars,
        cancelVars, trafficVars
<1>3. CASE JobUpdateStatus
    <2>1. jobs' \in [Slot -> Job]
        <3> DEFINE st == IF pc = "statusRun" THEN "RUNNING" ELSE final_status
        <3>1. st \in Status
            BY DEF final_status, Status
        <3>2. jobs' = [jobs EXCEPT ![slot].status = st]
            BY <1>3 DEF JobUpdateStatus
        <3> QED
            BY ZenonT(30), <3>1, <3>2 DEF TypeOK, Job
    <2> QED
        BY <1>3, <2>1
        DEF JobUpdateStatus, TypeOK, Goto, clientVars, statVars, cancelVars, trafficVars
<1>4. CASE JobUpdateResult
    <2>1. jobs' \in [Slot -> Job]
        <3> DEFINE res == IF pc = "resultRun" THEN "running" ELSE "response"
        <3>1. res \in Result
            BY DEF Result
        <3>2. jobs' = [jobs EXCEPT ![slot].result = res]
            BY <1>4 DEF JobUpdateResult
        <3> QED
            BY <3>1, <3>2 DEF TypeOK, Job
    <2> QED
        BY <1>4, <2>1
        DEF JobUpdateResult, AfterUpdate, TypeOK, Goto, clientVars, statVars, cancelVars,
            trafficVars
<1>5. CASE CancelTest
    BY <1>5
    DEF CancelTest, TypeOK, Goto, clientVars, ringVars, statVars, cancelVars, trafficVars
<1>6. CASE CancelClear
    BY <1>6, Sizes
    DEF CancelClear, TypeOK, Goto, Request, clientVars, ringVars, trafficVars
<1>7. CASE Exec
    <2>1. PICK ok \in BOOLEAN :
            /\ resp_ok' = ok
            /\ \/ response_sent' = TRUE /\ Answered(TRUE)
               \/ UNCHANGED <<response_sent, trafficVars>>
        BY <1>7 DEF Exec
    <2>2. /\ answers' \in Seq(Answer) /\ waiting' \subseteq Client
          /\ UNCHANGED <<queue, submitted>> /\ response_sent' \in BOOLEAN
        BY <1>7, <2>1, AnsweredType DEF Exec, TypeOK, trafficVars
    <2> QED
        BY <1>7, <2>1, <2>2 DEF Exec, TypeOK, Goto, clientVars, ringVars, statVars, cancelVars
<1>8. CASE Finish
    BY <1>8
    DEF Finish, TypeOK, Goto, clientVars, ringVars, cancelVars, trafficVars
<1>9. CASE Respond
    <2>1. /\ answers' \in Seq(Answer) /\ waiting' \subseteq Client
          /\ UNCHANGED <<queue, submitted>>
        BY <1>9, AnsweredType DEF Respond, TypeOK, trafficVars
    <2> QED
        BY <1>9, <2>1 DEF Respond, TypeOK, Goto, clientVars, ringVars, statVars, cancelVars
<1>10. CASE Clear
    <2>1. resp_ok' \in BOOLEAN /\ response_sent' \in BOOLEAN
        BY <1>10, Zenon DEF Clear
    <2>2. active_client_id' \in 0..MaxClients
        BY <1>10, Sizes DEF Clear, TypeOK
    <2>3. r' \in Request \union {NoRequest} /\ slot' \in Slot \union {NULL}
        BY <1>10 DEF Clear
    <2> QED
        BY <1>10, <2>1, <2>2, <2>3
        DEF Clear, TypeOK, Goto, clientVars, ringVars, statVars, cancelVars, trafficVars
<1> QED
    BY <1>1, <1>2, <1>3, <1>4, <1>5, <1>6, <1>7, <1>8, <1>9, <1>10 DEF process_request

\* Every step keeps the types.
LEMMA StepTypeInv == ASSUME TypeInv, [Next]_vars PROVE TypeInv'
<1>1. CASE Next
    <2>1. CASE Connect
        <3>1. MaxClients >= 1 => 1 \in Client
            BY Sizes DEF Client
        <3>2. next_client_id <= MaxClients /\ next_client_id >= 1 /\ next_client_id \in Nat
            BY <2>1, Sizes DEF Connect, TypeInv, TypeOK
        <3> QED
            BY <2>1, <3>1, <3>2, Sizes, ClientTypeInv
    <2>2. CASE process_request
        BY <2>2, WorkerTypeInv
    <2> QED
        BY <1>1, <2>1, <2>2, ClientTypeInv DEF Next
<1>2. CASE UNCHANGED vars
    BY <1>2
    DEF TypeInv, TypeOK, BusyHasRequest, JobsFollowRequests, vars, clientVars, ringVars,
        workVars, statVars, cancelVars, trafficVars
<1> QED
    BY <1>1, <1>2

\* TypeInv is an invariant.
LEMMA TypeInvHolds == Spec => []TypeInv
<1>1. TypeInv /\ [Next]_vars => TypeInv'
    BY StepTypeInv
<1> QED
    BY <1>1, InitTypeInv, PTL DEF Spec, Safe

\* Every state of the job tracking is typed: job ids fit the ring and the last
\* job table, whatever slot a late job_update writes to (server.c:393-426).
THEOREM JobsTypeCorrect == Spec => []TypeOK
<1>1. TypeInv => TypeOK
    BY DEF TypeInv
<1> QED
    BY <1>1, TypeInvHolds, PTL

-----------------------------------------------------------------------------
(* Cancellation.  CancelAtMostOnce is not inductive: the worker that has    *)
(* seen the cancellation and not yet cleared it will carry one out, and a   *)
(* pending cancel_client_id may still be seen.  Both are covered by         *)
(* acknowledgements that have not been used up.                            *)

Clearing(c) == pc = "cancelClear" /\ r.client_id = c

CancelInv ==
    /\ acked \in [Client -> Nat] /\ granted \in [Client -> Nat]
    /\ \A c \in Client :
         /\ granted[c] <= acked[c]
         /\ Clearing(c) \/ cancel_client_id = c => granted[c] + 1 <= acked[c]

\* The steps of process_request keep the account of the cancellations.
LEMMA WorkerCancelInv == ASSUME CancelInv, process_request PROVE CancelInv'
<1> USE DEF CancelInv, Clearing
<1>1. CASE CancelTest
    BY <1>1 DEF CancelTest, Goto, cancelVars
<1>2. CASE CancelClear
    <2>1. /\ cancel_client_id' = 0 /\ acked' = acked /\ pc' = "finish"
          /\ granted' = [granted EXCEPT ![r.client_id] = @ + 1]
        BY <1>2 DEF CancelClear, Goto
    <2>2. granted' \in [Client -> Nat]
        <3>1. CASE r.client_id \in Client
            <4>1. granted[r.client_id] + 1 \in Nat
                BY <3>1
            <4> QED
                BY <2>1, <4>1
        <3>2. CASE r.client_id \notin Client
            BY <2>1, <3>2
        <3> QED
            BY <3>1, <3>2
    <2>3. ASSUME NEW c \in Client PROVE granted'[c] <= acked'[c] /\ cancel_client_id' # c
        <3>1. c # 0
            BY Sizes DEF Client
        <3>2. CASE r.client_id = c
            <4>1. granted[c] + 1 <= acked[c] /\ granted'[c] = granted[c] + 1
                BY <1>2, <2>1, <3>2 DEF CancelClear
            <4> QED
                BY <2>1, <3>1, <4>1
        <3>3. CASE r.client_id # c
            BY <2>1, <3>1, <3>3
        <3> QED
            BY <3>2, <3>3
    <2> QED
        BY <2>1, <2>2, <2>3
<1>3. CASE Begin
    BY <1>3 DEF Begin, Goto, cancelVars
<1>4. CASE JobUpdateFind \/ JobUpdateStatus \/ JobUpdateResult
    BY <1>4 DEF JobUpdateFind, JobUpdateStatus, JobUpdateResult, AfterUpdate, Goto, cancelVars
<1>5. CASE Exec \/ Finish \/ Respond \/ Clear
    BY <1>5 DEF Exec, Finish, Respond, Clear, Goto, cancelVars
<1> QED
    BY <1>1, <1>2, <1>3, <1>4, <1>5 DEF process_request

\* An acknowledged cancellation rejects at most one command, and only of the
\* client it was asked for: the unlocked test and reset of cancel_client_id
\* can lose a cancellation and never carry one out twice (server.c:810-814,
\* 1143).
THEOREM CancelCorrect == Spec => []CancelAtMostOnce
<1> USE DEF CancelInv, Clearing
<1>1. Init => CancelInv
    BY DEF Init, Client
<1>2. CancelInv /\ [Next]_vars => CancelInv'
    <2> SUFFICES ASSUME CancelInv, [Next]_vars PROVE CancelInv'
        OBVIOUS
    <2>1. CASE Connect
        BY <2>1 DEF Connect, workVars, cancelVars
    <2>2. ASSUME NEW c \in Client, Leave(c) PROVE CancelInv'
        BY <2>2 DEF Leave, workVars, cancelVars
    <2>3. ASSUME NEW c \in Client, AdminCancel(c) PROVE CancelInv'
        BY <2>3 DEF AdminCancel, workVars
    <2>4. ASSUME NEW c \in Client, NEW op \in Op, Submit(c, op) PROVE CancelInv'
        BY <2>4 DEF Submit, workVars, cancelVars
    <2>5. CASE process_request
        BY <2>5, WorkerCancelInv
    <2>6. CASE UNCHANGED vars
        BY <2>6 DEF vars, workVars, cancelVars
    <2> QED
        BY <2>1, <2>2, <2>3, <2>4, <2>5, <2>6 DEF Next
<1>3. CancelInv => CancelAtMostOnce
    BY DEF CancelAtMostOnce
<1> QED
    BY <1>1, <1>2, <1>3, PTL DEF Spec, Safe

-----------------------------------------------------------------------------
(* Statistics.  Between Begin and Clear the counters and the answers are    *)
(* apart by what the worker has still to do for the request it has.         *)

After == {"findEnd", "statusEnd", "resultEnd", "respond"}

Unanswered == IF pc \in {"idle", "clear"} \/ response_sent THEN 0 ELSE 1
Uncounted == IF pc \in After \union {"idle", "clear"} THEN 0 ELSE 1
FailureDue == IF pc \in After /\ ~resp_ok THEN 1 ELSE 0
CancelDue == IF pc = "finish" /\ ~resp_ok THEN 1 ELSE 0
FailedAnswers == {i \in DOMAIN answers : ~answers[i].ok}

SentInv ==
    /\ response_sent => resp_ok /\ pc \in After \union {"finish", "clear"}
    /\ pc = "cancelClear" => ~resp_ok

StatInv ==
    /\ SentInv
    /\ submitted = Len(answers) + Len(queue) + Unanswered
    /\ total_commands + Uncounted = Len(answers) + Unanswered
    /\ failed_commands = Cardinality(FailedAnswers) + FailureDue
    /\ cancelled_commands <= failed_commands + CancelDue

\* The answers with OP_ERROR are finitely many; one more answer adds itself.
LEMMA FailedFinite ==
    ASSUME TypeOK PROVE IsFiniteSet(FailedAnswers) /\ Cardinality(FailedAnswers) \in Nat
<1>1. Len(answers) \in Nat /\ DOMAIN answers = 1..Len(answers)
    BY DEF TypeOK
<1>2. IsFiniteSet(1..Len(answers))
    BY <1>1, FS_Interval
<1>3. FailedAnswers \in SUBSET (1..Len(answers))
    BY <1>1 DEF FailedAnswers
<1> QED
    BY <1>2, <1>3, FS_Subset, FS_CardinalityType

\* An answer with OP_ERROR adds one to them, any other answer none.
LEMMA AnsweredFailed ==
    ASSUME TypeOK, NEW ok \in BOOLEAN, Answered(ok)
    PROVE  /\ Len(answers') = Len(answers) + 1
           /\ Cardinality(FailedAnswers') = Cardinality(FailedAnswers) + (IF ok THEN 0 ELSE 1)
<1>1. PICK a : a = [client_id |-> r.client_id, op |-> r.op, job_id |-> r.job_id, ok |-> ok]
    OBVIOUS
<1>2. answers' = Append(answers, a) /\ answers \in Seq(Answer) /\ a.ok = ok
    BY <1>1 DEF Answered, TypeOK
<1>3. PICK n \in Nat : n = Len(answers)
    BY <1>2
<1>4. /\ Len(answers') = n + 1 /\ DOMAIN answers = 1..n /\ DOMAIN answers' = 1..n + 1
      /\ \A i \in 1..n : answers'[i] = answers[i]
      /\ answers'[n + 1] = a
    BY <1>2, <1>3
<1>5. CASE ok
    <2>1. \A i \in 1..n + 1 : ~answers'[i].ok <=> i \in 1..n /\ ~answers[i].ok
        <3>1. \A i \in 1..n + 1 : i \in 1..n \/ i = n + 1
            OBVIOUS
        <3>2. n + 1 \notin 1..n
            OBVIOUS
        <3>3. answers'[n + 1].ok
            BY <1>2, <1>4, <1>5, Zenon
        <3> QED
            BY <1>4, <3>1, <3>2, <3>3, Zenon
    <2>2. FailedAnswers' = {i \in 1..n + 1 : ~answers'[i].ok}
        BY <1>4, Zenon DEF FailedAnswers
    <2>3. FailedAnswers = {i \in 1..n : ~answers[i].ok}
        BY <1>4, Zenon DEF FailedAnswers
    <2>4. FailedAnswers' = FailedAnswers
        BY <2>1, <2>2, <2>3, <1>3
    <2> QED
        BY <1>3, <1>4, <1>5, <2>4, FailedFinite
<1>6. CASE ~ok
    <2>1. FailedAnswers' = FailedAnswers \union {n + 1} /\ n + 1 \notin FailedAnswers
        BY <1>2, <1>3, <1>4, <1>6 DEF FailedAnswers
    <2>2. Cardinality(FailedAnswers') = Cardinality(FailedAnswers) + 1
        BY <2>1, FailedFinite, FS_AddElement
    <2> QED
        BY <1>3, <1>4, <1>6, <2>2
<1> QED
    BY <1>5, <1>6

\* The steps of the ordinary and of the admin thread keep the account: only
\* a request that is pushed counts.
LEMMA ClientStatInv ==
    ASSUME TypeOK, StatInv, NEW c \in Client,
           Connect \/ Leave(c) \/ AdminCancel(c) \/ \E op \in Op : Submit(c, op)
    PROVE  StatInv'
<1>1. answers' = answers /\ UNCHANGED <<pc, resp_ok, response_sent>> /\ UNCHANGED statVars
    BY DEF Connect, Leave, AdminCancel, Submit, workVars, trafficVars
<1>2. /\ Unanswered' = Unanswered /\ Uncounted' = Uncounted /\ SentInv'
      /\ FailureDue' = FailureDue /\ CancelDue' = CancelDue /\ FailedAnswers' = FailedAnswers
    BY <1>1
    DEF StatInv, Unanswered, Uncounted, SentInv, FailureDue, CancelDue, FailedAnswers
<1>3. submitted' = Len(answers') + Len(queue') + Unanswered'
    <2>1. PICK n \in Nat, k \in Nat, u \in Nat :
            n = Len(answers) /\ k = Len(queue) /\ u = Unanswered
        BY DEF TypeOK, Unanswered
    <2>2. submitted = n + k + u
        BY <2>1 DEF StatInv
    <2>3. CASE UNCHANGED <<queue, submitted>>
        BY <1>1, <1>2, <2>1, <2>2, <2>3
    <2>4. ASSUME NEW op \in Op, Submit(c, op)
          PROVE  Len(queue') = k + 1 /\ submitted' = submitted + 1
        BY <2>1, <2>4 DEF Submit, TypeOK
    <2>5. UNCHANGED <<queue, submitted>> \/ (Len(queue') = k + 1 /\ submitted' = submitted + 1)
        BY <2>4 DEF Connect, Leave, AdminCancel, trafficVars
    <2>6. CASE Len(queue') = k + 1 /\ submitted' = submitted + 1
        <3>1. submitted' = n + (k + 1) + u
            BY <2>2, <2>6
        <3> QED
            BY <1>1, <1>2, <2>1, <2>6, <3>1
    <2> QED
        BY <2>3, <2>5, <2>6
<1> QED
    BY <1>1, <1>2, <1>3 DEF StatInv, statVars

\* The steps of process_request keep the account.
LEMMA WorkerStatInv ==
    ASSUME TypeInv, StatInv, process_request PROVE StatInv'
<1>1. PICK n \in Nat, k \in Nat, f \in Nat :
        n = Len(answers) /\ k = Len(queue) /\ f = Cardinality(FailedAnswers)
    BY FailedFinite DEF TypeInv, TypeOK
<1>2. PICK t \in Nat, d \in Nat, g \in Nat, m \in Nat :
        t = total_commands /\ d = failed_commands /\ g = cancelled_commands /\ m = submitted
    BY DEF TypeInv, TypeOK
<1>3. /\ m = n + k + Unanswered /\ t + Uncounted = n + Unanswered
      /\ d = f + FailureDue /\ g <= d + CancelDue
    BY <1>1, <1>2 DEF StatInv
<1>4. SentInv /\ resp_ok \in BOOLEAN /\ response_sent \in BOOLEAN
    BY DEF StatInv, TypeInv, TypeOK
<1> DEFINE Same == answers' = answers
           Kept == /\ Unanswered' = Unanswered /\ Uncounted' = Uncounted
                   /\ FailureDue' = FailureDue /\ CancelDue' = CancelDue
           Counts == UNCHANGED statVars
<1>5. ASSUME Same PROVE Cardinality(FailedAnswers') = f /\ Len(answers') = n
    BY <1>1, <1>5 DEF FailedAnswers
<1>6. ASSUME Same, Kept, Counts, SentInv', UNCHANGED <<queue, submitted>> PROVE StatInv'
    BY <1>6 DEF StatInv, FailedAnswers, statVars
<1>7. CASE JobUpdateFind \/ JobUpdateStatus \/ JobUpdateResult \/ CancelTest \/ Clear
    <2>1. Same /\ Counts /\ UNCHANGED <<queue, submitted>>
        BY <1>7
        DEF JobUpdateFind, JobUpdateStatus, JobUpdateResult, CancelTest, Clear, statVars,
            trafficVars
    <2>2. SentInv'
        BY <1>4, <1>7
        DEF JobUpdateFind, JobUpdateStatus, JobUpdateResult, AfterUpdate, CancelTest, Clear,
            Goto, SentInv, After
    <2>3. Kept
        BY <1>4, <1>7
        DEF JobUpdateFind, JobUpdateStatus, JobUpdateResult, AfterUpdate, CancelTest, Clear,
            Goto, SentInv, After, Unanswered, Uncounted, FailureDue, CancelDue
    <2> QED
        BY <1>6, <2>1, <2>2, <2>3
<1>8. CASE Begin
    <2>1. Same /\ Counts /\ submitted' = submitted /\ Len(queue') = k - 1 /\ k - 1 \in Nat
        BY <1>1, <1>8 DEF Begin, TypeInv, TypeOK
    <2>2. /\ Unanswered = 0 /\ Uncounted = 0 /\ FailureDue = 0 /\ CancelDue = 0
          /\ pc' \in {"findRun", "cancelTest"} /\ response_sent' = FALSE
        BY <1>8 DEF Begin, Goto, Unanswered, Uncounted, FailureDue, CancelDue, After
    <2>3. /\ Unanswered' = 1 /\ Uncounted' = 1 /\ FailureDue' = 0 /\ CancelDue' = 0 /\ SentInv'
        BY <2>2 DEF Unanswered, Uncounted, FailureDue, CancelDue, After, SentInv
    <2>4. m = n + (k - 1) + 1 /\ t + 1 = n + 1 /\ d = f + 0 /\ g <= d + 0
        BY <1>3, <2>2
    <2> QED
        BY <1>2, <1>5, <2>1, <2>3, <2>4 DEF StatInv, statVars
<1>9. CASE CancelClear
    <2>1. /\ Same /\ UNCHANGED <<queue, submitted, total_commands, failed_commands>>
          /\ cancelled_commands' = g + 1 /\ pc = "cancelClear" /\ pc' = "finish"
          /\ UNCHANGED <<resp_ok, response_sent>>
        BY <1>2, <1>9 DEF CancelClear, Goto, trafficVars
    <2>2. ~resp_ok /\ ~response_sent
        BY <1>4, <2>1 DEF SentInv, After
    <2>3. /\ Unanswered = 1 /\ Uncounted = 1 /\ FailureDue = 0 /\ CancelDue = 0
          /\ Unanswered' = 1 /\ Uncounted' = 1 /\ FailureDue' = 0 /\ CancelDue' = 1 /\ SentInv'
        BY <2>1, <2>2 DEF Unanswered, Uncounted, FailureDue, CancelDue, After, SentInv
    <2>4. m = n + k + 1 /\ t + 1 = n + 1 /\ d = f + 0 /\ g + 1 <= d + 1
        BY <1>3, <2>3
    <2> QED
        BY <1>1, <1>2, <1>5, <2>1, <2>3, <2>4 DEF StatInv
<1>10. CASE Exec
    <2>1. PICK ok \in BOOLEAN :
            /\ resp_ok' = ok
            /\ \/ response_sent' = TRUE /\ ok /\ Answered(TRUE)
               \/ UNCHANGED <<response_sent, trafficVars>>
        BY <1>10 DEF Exec
    <2>2. pc = "exec" /\ pc' = "finish" /\ Counts /\ ~response_sent
        BY <1>4, <1>10 DEF Exec, Goto, SentInv, After
    <2>3. /\ Unanswered = 1 /\ Uncounted = 1 /\ FailureDue = 0 /\ CancelDue = 0
          /\ Uncounted' = 1 /\ FailureDue' = 0 /\ CancelDue' \in {0, 1}
        BY <2>2 DEF Unanswered, Uncounted, FailureDue, CancelDue, After
    <2>4. PICK e \in {0, 1} : e = CancelDue'
        BY <2>3
    <2>5. CASE UNCHANGED <<response_sent, trafficVars>>
        <3>1. Unanswered' = 1 /\ SentInv' /\ Same /\ UNCHANGED <<queue, submitted>>
            BY <2>2, <2>5 DEF Unanswered, SentInv, trafficVars
        <3>2. m = n + k + 1 /\ t + 1 = n + 1 /\ d = f + 0 /\ g <= d + e
            BY <1>3, <2>3
        <3> QED
            BY <1>1, <1>2, <1>5, <2>2, <2>3, <2>4, <3>1, <3>2 DEF StatInv, statVars
    <2>6. CASE response_sent' = TRUE /\ ok /\ Answered(TRUE)
        <3>1. Len(answers') = n + 1 /\ Cardinality(FailedAnswers') = f + 0
            BY <1>1, <2>6, AnsweredFailed DEF TypeInv
        <3>2. Unanswered' = 0 /\ SentInv' /\ UNCHANGED <<queue, submitted>>
            BY <2>1, <2>2, <2>6 DEF Unanswered, SentInv, Answered
        <3>3. m = (n + 1) + k + 0 /\ t + 1 = (n + 1) + 0 /\ d = (f + 0) + 0 /\ g <= d + e
            BY <1>3, <2>3
        <3> QED
            BY <1>1, <1>2, <2>2, <2>3, <2>4, <3>1, <3>2, <3>3 DEF StatInv, statVars
    <2> QED
        BY <2>1, <2>5, <2>6
<1>11. CASE Finish
    <2>1. /\ Same /\ UNCHANGED <<queue, submitted, cancelled_commands, resp_ok, response_sent>>
          /\ total_commands' = t + 1 /\ failed_commands' = IF resp_ok THEN d ELSE d + 1
          /\ pc = "finish" /\ pc' \in {"findEnd", "respond"}
        BY <1>2, <1>11 DEF Finish, Goto, trafficVars
    <2>2. /\ Unanswered' = Unanswered /\ Unanswered \in {0, 1}
          /\ Uncounted = 1 /\ FailureDue = 0 /\ Uncounted' = 0 /\ CancelDue' = 0
          /\ SentInv'
        BY <1>4, <2>1 DEF Unanswered, Uncounted, FailureDue, CancelDue, After, SentInv
    <2>3. /\ CancelDue = IF resp_ok THEN 0 ELSE 1
          /\ FailureDue' = IF resp_ok THEN 0 ELSE 1
        BY <1>4, <2>1 DEF FailureDue, CancelDue, After
    <2>4. /\ m = n + k + Unanswered /\ t + 1 + 0 = n + Unanswered
        BY <1>3, <2>2
    <2>5. /\ failed_commands' = f + FailureDue' /\ g <= failed_commands' + 0
        BY <1>3, <2>1, <2>2, <2>3
    <2> QED
        BY <1>1, <1>2, <1>5, <2>1, <2>2, <2>4, <2>5 DEF StatInv
<1>12. CASE Respond
    <2>1. Counts /\ pc = "respond" /\ pc' = "clear" /\ UNCHANGED <<resp_ok, response_sent>>
        BY <1>12 DEF Respond, Goto
    <2>2. /\ Uncounted = 0 /\ CancelDue = 0 /\ Unanswered = IF response_sent THEN 0 ELSE 1
          /\ FailureDue = IF resp_ok THEN 0 ELSE 1
          /\ Unanswered' = 0 /\ Uncounted' = 0 /\ FailureDue' = 0 /\ CancelDue' = 0
          /\ SentInv'
        BY <1>4, <2>1 DEF Unanswered, Uncounted, FailureDue, CancelDue, After, SentInv
    <2>3. CASE response_sent
        <3>1. Same /\ UNCHANGED <<queue, submitted>>
            BY <1>12, <2>3 DEF Respond, trafficVars
        <3>2. m = n + k + 0 /\ t + 0 = n + 0 /\ d = f + 0 /\ g <= d + 0
            BY <1>3, <1>4, <2>2, <2>3 DEF SentInv
        <3> QED
            BY <1>1, <1>2, <1>5, <2>1, <2>2, <3>1, <3>2 DEF StatInv, statVars
    <2>4. CASE ~response_sent
        <3>1. Answered(resp_ok)
            BY <1>12, <2>4 DEF Respond
        <3>2. /\ Len(answers') = n + 1
              /\ Cardinality(FailedAnswers') = f + (IF resp_ok THEN 0 ELSE 1)
            BY <1>1, <1>4, <3>1, AnsweredFailed DEF TypeInv
        <3>3. UNCHANGED <<queue, submitted>>
            BY <3>1 DEF Answered
        <3>4. /\ m = (n + 1) + k + 0 /\ t + 0 = (n + 1) + 0
              /\ d = (f + (IF resp_ok THEN 0 ELSE 1)) + 0 /\ g <= d + 0
            BY <1>3, <2>2, <2>4
        <3> QED
            BY <1>1, <1>2, <2>1, <2>2, <3>2, <3>3, <3>4 DEF StatInv, statVars
    <2> QED
        BY <2>3, <2>4
<1> QED
    BY <1>7, <1>8, <1>9, <1>10, <1>11, <1>12 DEF process_request

\* StatInv is an invariant.
LEMMA StatInvHolds == Spec => []StatInv
<1>1. Init => StatInv
    <2> SUFFICES ASSUME Init PROVE StatInv
        OBVIOUS
    <2>1. FailedAnswers = {} /\ Len(answers) = 0 /\ Len(queue) = 0
        BY DEF Init, FailedAnswers
    <2>2. Cardinality(FailedAnswers) = 0
        BY <2>1, FS_EmptySet
    <2>3. /\ Unanswered = 0 /\ Uncounted = 0 /\ FailureDue = 0 /\ CancelDue = 0 /\ SentInv
        BY DEF Init, Unanswered, Uncounted, FailureDue, CancelDue, SentInv, After
    <2> QED
        BY <2>1, <2>2, <2>3 DEF Init, StatInv
<1>2. TypeInv /\ StatInv /\ [Next]_vars => StatInv'
    <2> SUFFICES ASSUME TypeInv, StatInv, [Next]_vars PROVE StatInv'
        OBVIOUS
    <2>1. CASE Connect
        <3>1. 1 \in Client
            BY <2>1, Sizes DEF Connect, TypeInv, TypeOK, Client
        <3> QED
            BY <2>1, <3>1, ClientStatInv DEF TypeInv
    <2>2. ASSUME NEW c \in Client, Leave(c) \/ AdminCancel(c) \/ \E op \in Op : Submit(c, op)
          PROVE  StatInv'
        BY <2>2, ClientStatInv DEF TypeInv
    <2>3. CASE process_request
        BY <2>3, WorkerStatInv
    <2>4. CASE UNCHANGED vars
        BY <2>4
        DEF StatInv, SentInv, Unanswered, Uncounted, FailureDue, CancelDue, FailedAnswers,
            vars, workVars, statVars, trafficVars
    <2> QED
        BY <2>1, <2>2, <2>3, <2>4 DEF Next
<1> QED
    BY <1>1, <1>2, TypeInvHolds, PTL DEF Spec, Safe

\* Between two requests the statistics account for every answer: each request
\* taken was answered once, a download by its file, and the failures are the
\* answers with OP_ERROR, the cancelled ones among them (server.c:893-915).
THEOREM StatisticsCorrect == Spec => []StatisticsMatchAnswers
<1>1. TypeInv /\ StatInv => StatisticsMatchAnswers
    <2> SUFFICES ASSUME TypeInv, StatInv, pc = "idle" PROVE StatisticsMatchAnswers
        BY DEF StatisticsMatchAnswers
    <2>1. /\ Unanswered = 0 /\ Uncounted = 0 /\ FailureDue = 0 /\ CancelDue = 0
        BY DEF Unanswered, Uncounted, FailureDue, CancelDue, After
    <2>2. PICK n \in Nat, k \in Nat, f \in Nat :
            n = Len(answers) /\ k = Len(queue) /\ f = Cardinality(FailedAnswers)
        BY FailedFinite DEF TypeInv, TypeOK
    <2>3. /\ submitted = n + k + 0 /\ total_commands + 0 = n + 0
          /\ failed_commands = f + 0 /\ cancelled_commands <= failed_commands + 0
        BY <2>1, <2>2 DEF StatInv
    <2>4. /\ submitted = n + k /\ total_commands = n
          /\ failed_commands = f /\ cancelled_commands <= failed_commands
        BY <2>3 DEF TypeInv, TypeOK
    <2> QED
        BY <2>2, <2>4, Zenon DEF StatisticsMatchAnswers, FailedAnswers
<1> QED
    BY <1>1, TypeInvHolds, StatInvHolds, PTL

-----------------------------------------------------------------------------
(* A due cancellation.  The client that is owed a rejection is the one that  *)
(* cancel_client_id names, and what the worker is about to clear is pending. *)

OwedInv ==
    /\ owed \subseteq {cancel_client_id}
    /\ pc = "cancelClear" => cancel_client_id # 0 /\ owed \subseteq {r.client_id}

\* Every step keeps OwedInv, whichever thread takes it.
LEMMA StepOwedInv ==
    ASSUME TypeInv, OwedInv, [Next]_vars PROVE OwedInv'
<1>1. CASE Connect
    BY <1>1 DEF OwedInv, Connect, workVars, cancelVars
<1>2. ASSUME NEW c \in Client, Leave(c) PROVE OwedInv'
    BY <1>2 DEF OwedInv, Leave, workVars, cancelVars
<1>3. ASSUME NEW c \in Client, NEW op \in Op, Submit(c, op) PROVE OwedInv'
    BY <1>3 DEF OwedInv, Submit, workVars, cancelVars
<1>4. ASSUME NEW c \in Client, AdminCancel(c) PROVE OwedInv'
    <2>1. /\ cancel_client_id' = c /\ c # 0 /\ UNCHANGED <<pc, r>>
          /\ owed' = IF cancel_client_id = 0 THEN {c} ELSE owed \intersect {c}
        BY <1>4, Sizes DEF AdminCancel, workVars, Client
    <2>2. owed' \subseteq {c}
        BY <2>1
    <2>3. pc = "cancelClear" => owed' \subseteq {r.client_id}
        BY <2>1 DEF OwedInv
    <2> QED
        BY <2>1, <2>2, <2>3 DEF OwedInv
<1>5. CASE CancelTest
    <2>1. pc' = "cancelClear" => cancel_client_id = r.client_id /\ r.client_id # 0
        BY <1>5, Sizes DEF CancelTest, Goto, TypeInv, BusyHasRequest, Request, Client
    <2> QED
        BY <1>5, <2>1 DEF OwedInv, CancelTest, Goto, cancelVars
<1>6. CASE CancelClear
    BY <1>6 DEF OwedInv, CancelClear, Goto
<1>7. CASE Begin \/ JobUpdateFind \/ JobUpdateStatus \/ JobUpdateResult
    BY <1>7
    DEF OwedInv, Begin, JobUpdateFind, JobUpdateStatus, JobUpdateResult, AfterUpdate, Goto,
        cancelVars
<1>8. CASE Exec \/ Finish \/ Respond \/ Clear
    BY <1>8 DEF OwedInv, Exec, Finish, Respond, Clear, Goto, cancelVars
<1>9. CASE UNCHANGED vars
    BY <1>9 DEF OwedInv, vars, workVars, cancelVars
<1> QED
    BY <1>1, <1>2, <1>3, <1>4, <1>5, <1>6, <1>7, <1>8, <1>9 DEF Next, process_request

\* The command that is tested next for a client is rejected when a
\* cancellation was acknowledged for it while none was pending and none for
\* another client came since, even when the acknowledgement comes while the
\* worker is busy with another client or with an earlier step of the command
\* (server.c:810-814, 1135-1145).
THEOREM CancelIsHonoured == Spec => CancelHonoured
<1> DEFINE Honour == \A c \in Client : c \in owed /\ r.client_id = c /\ pc = "cancelTest"
                         => pc' # "exec"
<1>1. Init => OwedInv
    BY DEF Init, OwedInv
<1>2. TypeInv /\ OwedInv /\ [Next]_vars => OwedInv'
    BY StepOwedInv
<1>3. TypeInv /\ OwedInv /\ [Next]_vars => [Honour]_vars
    <2> SUFFICES ASSUME OwedInv, [Next]_vars,
                        NEW c \in Client, c \in owed, r.client_id = c, pc = "cancelTest"
                 PROVE  pc' # "exec"
        OBVIOUS
    <2>1. cancel_client_id = r.client_id
        BY DEF OwedInv
    <2>2. CASE process_request
        BY <2>1, <2>2
        DEF process_request, Begin, JobUpdateFind, JobUpdateStatus, JobUpdateResult, CancelTest,
            CancelClear, Exec, Finish, Respond, Clear, Goto
    <2>3. CASE ~process_request
        <3>1. pc' = pc
            BY <2>3
            DEF Next, Connect, Leave, AdminCancel, Submit, workVars, vars
        <3> QED
            BY <3>1
    <2> QED
        BY <2>2, <2>3
<1>4. CancelHonoured <=> [][Honour]_vars
    BY PTL DEF CancelHonoured
<1> QED
    BY <1>1, <1>2, <1>3, <1>4, TypeInvHolds, PTL DEF Spec, Safe

-----------------------------------------------------------------------------
(* Residues.  The only facts about % that the ring needs: two numbers less   *)
(* than M apart have different residues, two that are M apart the same.    *)

\* Division with a remainder.
LEMMA Remainder ==
    ASSUME NEW M \in Nat \ {0}, NEW j \in Nat
    PROVE  \E q \in Nat, m \in 0..M - 1 : j = M * q + m /\ m = j % M
<1>1. j = M * (j \div M) + (j % M) /\ (j \div M) \in Nat /\ j % M \in 0..M - 1
    OBVIOUS
<1> QED
    BY <1>1

\* Zero is the only multiple of M between -M and M.
LEMMA SmallMultiple ==
    ASSUME NEW M \in Nat \ {0}, NEW q \in Int, NEW d \in Int, d = M * q, 0 - M < d, d < M
    PROVE  d = 0
<1>1. CASE q >= 1
    <2>1. M * q >= M
        BY <1>1
    <2> QED
        BY <2>1
<1>2. CASE q <= 0 - 1
    <2>1. M * q <= 0 - M
        BY <1>2
    <2> QED
        BY <2>1
<1>3. CASE q = 0
    BY <1>3
<1> QED
    BY <1>1, <1>2, <1>3

\* Jobs less than MAX_JOBS apart have different slots.
LEMMA SlotsDiffer ==
    ASSUME NEW j \in Nat, NEW k \in Nat, j < k, k - j < MAX_JOBS
    PROVE  slot_of(j) # slot_of(k)
<1>1. PICK M \in Nat \ {0} : M = MAX_JOBS
    BY JobsAssumption
<1> SUFFICES ASSUME j % M = k % M PROVE FALSE
    BY <1>1 DEF slot_of
<1>2. PICK q1 \in Nat, m1 \in 0..M - 1 : j = M * q1 + m1 /\ m1 = j % M
    BY Remainder
<1>3. PICK q2 \in Nat, m2 \in 0..M - 1 : k = M * q2 + m2 /\ m2 = k % M
    BY Remainder
<1>4. k - j = M * (q2 - q1)
    BY <1>2, <1>3
<1>5. q2 - q1 \in Int /\ k - j \in Int /\ 0 - M < k - j /\ k - j < M
    BY <1>1
<1>6. k - j = 0
    BY <1>4, <1>5, SmallMultiple
<1> QED
    BY <1>6

\* MAX_JOBS jobs later the same slot comes round again.
LEMMA SlotComesRound ==
    ASSUME NEW j \in Nat, NEW k \in Nat, k = j + MAX_JOBS
    PROVE  slot_of(j) = slot_of(k)
<1>1. PICK M \in Nat \ {0} : M = MAX_JOBS
    BY JobsAssumption
<1>2. PICK q1 \in Nat, m1 \in 0..M - 1 : j = M * q1 + m1 /\ m1 = j % M
    BY Remainder
<1>3. PICK q2 \in Nat, m2 \in 0..M - 1 : k = M * q2 + m2 /\ m2 = k % M
    BY Remainder
<1>4. m2 - m1 = M * (q1 + 1 - q2)
    <2>1. M * (q1 + 1) = M * q1 + M
        OBVIOUS
    <2>2. M * (q1 + 1 - q2) = M * (q1 + 1) - M * q2
        OBVIOUS
    <2>3. PICK a \in Int, b \in Int, e \in Int :
            a = M * q1 /\ b = M * q2 /\ e = M * (q1 + 1 - q2)
        OBVIOUS
    <2>4. e = a + M - b /\ j = a + m1 /\ j + M = b + m2
        BY <1>1, <1>2, <1>3, <2>1, <2>2, <2>3
    <2>5. m2 - m1 = e
        BY <2>4
    <2> QED
        BY <2>3, <2>5
<1>5. q1 + 1 - q2 \in Int /\ m2 - m1 \in Int /\ 0 - M < m2 - m1 /\ m2 - m1 < M
    OBVIOUS
<1>6. m2 - m1 = 0
    BY <1>4, <1>5, SmallMultiple
<1>7. m2 = m1
    BY <1>6
<1> QED
    BY <1>1, <1>2, <1>3, <1>7, Zenon DEF slot_of

\* The slot of a job is a slot, and NULL is none.
LEMMA SlotType ==
    /\ \A j \in Nat : slot_of(j) \in Slot
    /\ NULL \notin Slot
<1>1. PICK M \in Nat \ {0} : M = MAX_JOBS
    BY JobsAssumption
<1>2. \A j \in Nat : j % M \in 0..M - 1
    OBVIOUS
<1>3. M \notin 0..M - 1
    OBVIOUS
<1> QED
    BY <1>1, <1>2, <1>3 DEF slot_of, Slot, NULL

-----------------------------------------------------------------------------
(* The ring.  A slot holds the youngest job of its residue modulo MAX_JOBS:  *)
(* the last MAX_JOBS jobs and no other are in the ring.                    *)

InRing(j) == 0 < j /\ j < next_job_id /\ next_job_id <= j + MAX_JOBS

RingInv ==
    /\ \A s \in Slot : jobs[s].job_id # 0 =>
         InRing(jobs[s].job_id) /\ s = slot_of(jobs[s].job_id)
    /\ \A j \in 1..MaxRequests : InRing(j) => jobs[slot_of(j)].job_id = j

\* job_update changes neither the id nor the client of a job.
LEMMA UpdateEffect ==
    ASSUME TypeOK, JobUpdateStatus \/ JobUpdateResult
    PROVE  /\ UNCHANGED <<next_job_id, last_job_by_client>>
           /\ slot \in Slot => \A s \in Slot \ {slot} : jobs'[s] = jobs[s]
           /\ \A s \in Slot :
                jobs'[s].job_id = jobs[s].job_id /\ jobs'[s].client_id = jobs[s].client_id
<1>1. UNCHANGED <<next_job_id, last_job_by_client>>
    BY DEF JobUpdateStatus, JobUpdateResult
<1>2. jobs \in [Slot -> Job]
    BY DEF TypeOK
<1>3. CASE JobUpdateStatus
    BY <1>1, <1>2, <1>3 DEF JobUpdateStatus, Job
<1>4. CASE JobUpdateResult
    BY <1>1, <1>2, <1>4 DEF JobUpdateResult, Job
<1> QED
    BY <1>3, <1>4

\* What job_create leaves in the ring and in the table of last jobs.
LEMMA CreateEffect ==
    ASSUME TypeInv, NEW c \in Client, NEW op \in Op, Submit(c, op), is_processing_op(op)
    PROVE  \E n \in 1..MaxRequests :
             /\ n = next_job_id /\ next_job_id' = n + 1
             /\ slot_of(n) \in Slot /\ jobs'[slot_of(n)].job_id = n
             /\ jobs'[slot_of(n)].client_id = c
             /\ jobs'[slot_of(n)].status = "QUEUED" /\ jobs'[slot_of(n)].result = "queued"
             /\ \A s \in Slot \ {slot_of(n)} : jobs'[s] = jobs[s]
             /\ note_last(c, n)
<1>1. PICK n \in 1..MaxRequests : n = next_job_id
    BY Sizes DEF Submit, TypeInv, TypeOK, JobsFollowRequests
<1>2. slot_of(n) \in Slot
    BY SlotType
<1>3. /\ next_job_id' = n + 1 /\ note_last(c, n)
      /\ jobs' = [jobs EXCEPT ![slot_of(n)] = [job_id |-> n, client_id |-> c,
                                               status |-> "QUEUED", result |-> "queued"]]
    BY <1>1 DEF Submit, job_create
<1>4. jobs \in [Slot -> Job]
    BY DEF TypeInv, TypeOK
<1>5. /\ jobs'[slot_of(n)] = [job_id |-> n, client_id |-> c,
                              status |-> "QUEUED", result |-> "queued"]
      /\ \A s \in Slot \ {slot_of(n)} : jobs'[s] = jobs[s]
    BY <1>2, <1>3, <1>4
<1> QED
    BY <1>1, <1>2, <1>3, <1>5

\* Only job_create and job_update touch the ring.
LEMMA RingSteps ==
    ASSUME [Next]_vars
    PROVE  \/ UNCHANGED ringVars
           \/ JobUpdateStatus \/ JobUpdateResult
           \/ \E c \in Client, op \in Op : Submit(c, op) /\ is_processing_op(op)
<1>1. ASSUME NEW c \in Client, NEW op \in Op, Submit(c, op), ~is_processing_op(op)
      PROVE  UNCHANGED ringVars
    BY <1>1 DEF Submit
<1>2. CASE Connect \/ UNCHANGED vars \/ \E c \in Client : Leave(c) \/ AdminCancel(c)
    BY <1>2 DEF Connect, Leave, AdminCancel, vars
<1>3. CASE process_request
    BY <1>3
    DEF process_request, Begin, JobUpdateFind, CancelTest, CancelClear, Exec, Finish, Respond,
        Clear
<1> QED
    BY <1>1, <1>2, <1>3 DEF Next

\* Every step keeps RingInv: a job that is created takes over the slot of the
\* one that leaves the ring.
LEMMA StepRingInv == ASSUME TypeInv, RingInv, [Next]_vars PROVE RingInv'
<1>1. CASE UNCHANGED ringVars
    BY <1>1 DEF RingInv, InRing, ringVars
<1>2. CASE JobUpdateStatus \/ JobUpdateResult
    <2>1. \A s \in Slot : jobs'[s].job_id = jobs[s].job_id
        BY <1>2, UpdateEffect DEF TypeInv
    <2>2. next_job_id' = next_job_id
        BY <1>2, UpdateEffect DEF TypeInv
    <2>3. \A j : InRing(j)' <=> InRing(j)
        BY <2>2 DEF InRing
    <2>4. \A j \in 1..MaxRequests : slot_of(j) \in Slot
        BY SlotType
    <2> QED
        BY <2>1, <2>3, <2>4 DEF RingInv
<1>3. ASSUME NEW c \in Client, NEW op \in Op, Submit(c, op), is_processing_op(op) PROVE RingInv'
    <2>1. PICK n \in 1..MaxRequests :
            /\ n = next_job_id /\ next_job_id' = n + 1
            /\ slot_of(n) \in Slot /\ jobs'[slot_of(n)].job_id = n
            /\ \A s \in Slot \ {slot_of(n)} : jobs'[s] = jobs[s]
        BY <1>3, CreateEffect
    <2>2. n \in Nat /\ MAX_JOBS \in Nat \ {0}
        BY JobsAssumption
    <2>3. ASSUME NEW s \in Slot, jobs'[s].job_id # 0
          PROVE  InRing(jobs[s].job_id)' /\ s = slot_of(jobs'[s].job_id)
        <3>1. CASE s = slot_of(n)
            BY <2>1, <2>2, <3>1 DEF InRing
        <3>2. CASE s # slot_of(n)
            <4>1. PICK j \in Nat : j = jobs[s].job_id
                BY DEF TypeInv, TypeOK, Job
            <4>2. jobs'[s].job_id = j /\ j # 0 /\ s = slot_of(j) /\ 0 < j /\ j < n
                  /\ n <= j + MAX_JOBS
                BY <2>1, <2>3, <3>2, <4>1 DEF RingInv, InRing
            <4>3. n # j + MAX_JOBS
                BY <2>2, <3>2, <4>2, SlotComesRound
            <4> QED
                BY <2>1, <2>2, <4>2, <4>3 DEF InRing
        <3> QED
            BY <3>1, <3>2
    <2>4. ASSUME NEW j \in 1..MaxRequests, InRing(j)' PROVE jobs'[slot_of(j)].job_id = j
        <3>1. 0 < j /\ j < n + 1 /\ n + 1 <= j + MAX_JOBS /\ j \in Nat
            BY <2>1, <2>4 DEF InRing
        <3>2. CASE j = n
            BY <2>1, <3>2
        <3>3. CASE j < n
            <4>1. n - j < MAX_JOBS /\ slot_of(j) \in Slot
                BY <2>2, <3>1, SlotType
            <4>2. slot_of(j) # slot_of(n)
                BY <2>2, <3>1, <3>3, <4>1, SlotsDiffer
            <4>3. InRing(j)
                BY <2>1, <2>2, <3>1, <3>3 DEF InRing
            <4> QED
                BY <2>1, <4>1, <4>2, <4>3 DEF RingInv
        <3> QED
            BY <2>2, <3>1, <3>2, <3>3
    <2> QED
        BY <2>3, <2>4 DEF RingInv
<1> QED
    BY <1>1, <1>2, <1>3, RingSteps

\* RingInv is an invariant.
LEMMA RingInvHolds == Spec => []RingInv
<1>1. Init => RingInv
    <2> SUFFICES ASSUME Init PROVE RingInv
        OBVIOUS
    <2>1. \A s \in Slot : jobs[s].job_id = 0
        BY DEF Init, NoJob
    <2>2. \A j \in 1..MaxRequests : ~InRing(j)
        BY Sizes DEF Init, InRing
    <2> QED
        BY <2>1, <2>2 DEF RingInv
<1>2. TypeInv /\ RingInv /\ [Next]_vars => RingInv'
    BY StepRingInv
<1> QED
    BY <1>1, <1>2, TypeInvHolds, PTL DEF Spec, Safe

\* job_find finds every job of the ring, in its slot ...
LEMMA FindInRing ==
    ASSUME TypeInv, RingInv, NEW j \in Nat, InRing(j)
    PROVE  /\ slot_of(j) \in Slot /\ jobs[slot_of(j)].job_id = j
           /\ job_find(j) = slot_of(j) /\ job_find(j) # NULL
<1>1. j \in 1..MaxRequests
    BY Sizes DEF InRing, TypeInv, TypeOK
<1>2. slot_of(j) \in Slot /\ jobs[slot_of(j)].job_id = j /\ j # 0
    BY <1>1, SlotType DEF RingInv
<1>3. \A s \in Slot : jobs[s].job_id = j => s = slot_of(j)
    BY <1>2 DEF RingInv
<1> QED
    BY <1>2, <1>3, SlotType DEF job_find

\* ... and no other.
LEMMA FoundInRing ==
    ASSUME TypeInv, RingInv, NEW j \in Nat, j # 0, job_find(j) # NULL
    PROVE  InRing(j) /\ job_find(j) = slot_of(j)
<1>1. PICK s \in Slot : jobs[s].job_id = j
    BY DEF job_find
<1> QED
    BY <1>1, FindInRing DEF RingInv

-----------------------------------------------------------------------------
(* The last job of a client whose id indexes the table.  Its entry is the    *)
(* client's youngest job: every job in the ring is at most its client's     *)
(* entry, and the entry, as long as it is in the ring, is a job of the      *)
(* client.                                                                 *)

Listed == {c \in Client : c < LAST_TABLE}

Noted(s) ==
    LET c == jobs[s].client_id
    IN  IF jobs[s].job_id = 0 THEN c = 0
        ELSE c \in Client /\ (c \in Listed => jobs[s].job_id <= last_job_by_client[c])

EntryOf(c) ==
    LET l == last_job_by_client[c]
    IN  l # 0 => l < next_job_id /\ (InRing(l) => jobs[slot_of(l)].client_id = c)

LastInv == (\A s \in Slot : Noted(s)) /\ (\A c \in Listed : EntryOf(c))

\* The entry of a client that is listed is a natural number.
LEMMA EntryType ==
    ASSUME TypeInv
    PROVE  \A c \in Listed : c \in 0..LAST_TABLE - 1 /\ last_job_by_client[c] \in Nat
<1>1. \A c \in Listed : c \in 0..LAST_TABLE - 1
    BY Sizes DEF Listed, Client
<1>2. last_job_by_client \in [0..LAST_TABLE - 1 -> 0..MaxRequests]
    BY DEF TypeInv, TypeOK
<1> QED
    BY <1>1, <1>2, Sizes

\* Every step keeps LastInv.
LEMMA StepLastInv ==
    ASSUME TypeInv, RingInv, LastInv, [Next]_vars PROVE LastInv'
<1>1. CASE UNCHANGED ringVars
    BY <1>1 DEF LastInv, Noted, EntryOf, InRing, ringVars
<1>2. CASE JobUpdateStatus \/ JobUpdateResult
    <2>1. /\ UNCHANGED <<next_job_id, last_job_by_client>>
          /\ \A s \in Slot :
               jobs'[s].job_id = jobs[s].job_id /\ jobs'[s].client_id = jobs[s].client_id
        BY <1>2, UpdateEffect DEF TypeInv
    <2>2. ASSUME NEW s \in Slot PROVE Noted(s)'
        BY <2>1 DEF LastInv, Noted
    <2>3. ASSUME NEW c \in Listed PROVE EntryOf(c)'
        <3>1. PICK l \in Nat : l = last_job_by_client[c]
            BY EntryType
        <3>2. slot_of(l) \in Slot /\ (InRing(l)' <=> InRing(l)) /\ last_job_by_client'[c] = l
            BY <2>1, <3>1, SlotType DEF InRing
        <3>3. l # 0 => l < next_job_id /\ (InRing(l) => jobs[slot_of(l)].client_id = c)
            BY <3>1 DEF LastInv, EntryOf
        <3> QED
            BY <2>1, <3>2, <3>3 DEF EntryOf
    <2> QED
        BY <2>2, <2>3 DEF LastInv
<1>3. ASSUME NEW c \in Client, NEW op \in Op, Submit(c, op), is_processing_op(op) PROVE LastInv'
    <2>1. PICK n \in 1..MaxRequests :
            /\ n = next_job_id /\ next_job_id' = n + 1
            /\ slot_of(n) \in Slot /\ jobs'[slot_of(n)].job_id = n
            /\ jobs'[slot_of(n)].client_id = c
            /\ \A s \in Slot \ {slot_of(n)} : jobs'[s] = jobs[s]
            /\ note_last(c, n)
        BY <1>3, CreateEffect
    <2>2. last_job_by_client' = IF c \in Listed THEN [last_job_by_client EXCEPT ![c] = n]
                                ELSE last_job_by_client
        BY <2>1 DEF note_last, Listed
    <2>3. /\ c \in Listed => last_job_by_client'[c] = n
          /\ \A b \in Listed \ {c} : last_job_by_client'[b] = last_job_by_client[b]
          /\ \A b \in Listed : last_job_by_client[b] \in Nat
        BY <2>2, EntryType DEF TypeInv, TypeOK
    <2>4. n # 0 /\ n \in Nat /\ MAX_JOBS \in Nat \ {0}
        BY JobsAssumption
    <2>5. ASSUME NEW s \in Slot PROVE Noted(s)'
        <3>1. CASE s = slot_of(n)
            BY <2>1, <2>3, <2>4, <3>1 DEF Noted
        <3>2. CASE s # slot_of(n) /\ jobs[s].job_id = 0
            BY <2>1, <3>2 DEF LastInv, Noted
        <3>3. CASE s # slot_of(n) /\ jobs[s].job_id # 0
            <4>1. PICK j \in Nat : j = jobs[s].job_id
                BY Sizes DEF TypeInv, TypeOK, Job
            <4>2. PICK b \in Client :
                    b = jobs[s].client_id /\ (b \in Listed => j <= last_job_by_client[b])
                BY <3>3, <4>1 DEF LastInv, Noted
            <4>3. j < n
                BY <2>1, <3>3, <4>1 DEF RingInv, InRing
            <4>4. jobs'[s].job_id = j /\ jobs'[s].client_id = b
                BY <2>1, <3>3, <4>1, <4>2
            <4>5. b \in Listed => j <= last_job_by_client'[b]
                <5>1. CASE b = c
                    BY <2>3, <2>4, <4>3, <5>1
                <5>2. CASE b # c
                    BY <2>3, <4>2, <5>2
                <5> QED
                    BY <5>1, <5>2
            <4> QED
                BY <3>3, <4>1, <4>4, <4>5 DEF Noted
        <3> QED
            BY <3>1, <3>2, <3>3
    <2>6. ASSUME NEW b \in Listed PROVE EntryOf(b)'
        <3>1. CASE b = c
            BY <2>1, <2>3, <2>4, <3>1 DEF EntryOf
        <3>2. CASE b # c
            <4>1. PICK l \in Nat : l = last_job_by_client[b]
                BY <2>3
            <4>2. last_job_by_client'[b] = l
                BY <2>3, <3>2, <4>1
            <4>3. l # 0 => l < n
                BY <2>1, <4>1 DEF LastInv, EntryOf
            <4>4. ASSUME l # 0, InRing(l)' PROVE jobs'[slot_of(l)].client_id = b
                <5>1. 0 < l /\ l < n /\ n - l < MAX_JOBS
                    BY <2>1, <2>4, <4>3, <4>4 DEF InRing
                <5>2. slot_of(l) \in Slot /\ slot_of(l) # slot_of(n)
                    BY <2>4, <5>1, SlotType, SlotsDiffer
                <5>3. InRing(l)
                    BY <2>1, <2>4, <5>1 DEF InRing
                <5>4. jobs[slot_of(l)].client_id = b
                    BY <4>1, <4>4, <5>3 DEF LastInv, EntryOf
                <5> QED
                    BY <2>1, <5>2, <5>4
            <4> QED
                BY <2>1, <2>4, <4>2, <4>3, <4>4 DEF EntryOf
        <3> QED
            BY <3>1, <3>2
    <2> QED
        BY <2>5, <2>6 DEF LastInv
<1> QED
    BY <1>1, <1>2, <1>3, RingSteps

\* "status" and "result" without a job id find the client's latest job, as long
\* as the ring has it and its id indexes last_job_by_client, however many other
\* clients have outgrown the table (README.md:95-96, server.c:405, 430).
THEOREM LastJobResolves == Spec => []LastResolvesInTable
<1>1. Init => LastInv
    <2> SUFFICES ASSUME Init PROVE LastInv
        OBVIOUS
    <2>1. \A s \in Slot : jobs[s].job_id = 0 /\ jobs[s].client_id = 0
        BY DEF Init, NoJob
    <2>2. \A c \in Listed : last_job_by_client[c] = 0
        BY Sizes DEF Init, Listed, Client
    <2> QED
        BY <2>1, <2>2 DEF LastInv, Noted, EntryOf
<1>2. TypeInv /\ RingInv /\ LastInv /\ [Next]_vars => LastInv'
    BY StepLastInv
<1>3. TypeInv /\ RingInv /\ LastInv => LastResolvesInTable
    <2> SUFFICES ASSUME TypeInv, RingInv, LastInv,
                        NEW s \in Slot, NEW c, c = jobs[s].client_id, c \in registered,
                        c < LAST_TABLE,
                        \A t \in Slot : jobs[t].client_id = c => jobs[t].job_id <= jobs[s].job_id
                 PROVE  respond_job_info(c, parse_last(c)) = s
        BY DEF LastResolvesInTable, LatestOfClient
    <2>1. c \in Client /\ c # 0 /\ c \in Listed
        BY DEF TypeInv, TypeOK, Client, Listed
    <2>2. PICK j \in Nat, l \in Nat : j = jobs[s].job_id /\ l = last_job_by_client[c]
        <3>1. jobs[s].job_id \in Nat
            BY DEF TypeInv, TypeOK, Job
        <3>2. last_job_by_client[c] \in Nat
            BY <2>1, EntryType
        <3> QED
            BY <3>1, <3>2
    <2>3. j # 0 /\ j <= l
        BY <2>1, <2>2 DEF LastInv, Noted, EntryOf
    <2>4. InRing(j) /\ s = slot_of(j)
        BY <2>2, <2>3 DEF RingInv
    <2>5. l # 0 /\ l < next_job_id
        BY <2>1, <2>2, <2>3 DEF LastInv, Noted, EntryOf
    <2>6. InRing(l)
        <3>1. PICK next \in Nat : next = next_job_id
            BY DEF TypeInv, TypeOK
        <3>2. l # 0 /\ l < next
            BY <2>5, <3>1
        <3>3. next <= j + MAX_JOBS
            BY <2>4, <3>1 DEF InRing
        <3>4. MAX_JOBS \in Nat
            BY JobsAssumption
        <3>5. next <= l + MAX_JOBS
            BY <2>3, <3>1, <3>3, <3>4
        <3>6. 0 < l
            BY <3>2
        <3> QED
            BY <3>1, <3>2, <3>5, <3>6 DEF InRing
    <2>7. /\ slot_of(l) \in Slot /\ jobs[slot_of(l)].job_id = l
          /\ job_find(l) = slot_of(l) /\ job_find(l) # NULL
        BY <2>6, FindInRing
    <2>8. jobs[slot_of(l)].client_id = c
        BY <2>1, <2>2, <2>5, <2>6 DEF LastInv, Noted, EntryOf
    <2>9. l <= j
        BY <2>2, <2>7, <2>8
    <2>10. l = j
        BY <2>3, <2>9
    <2>11. parse_last(c) = l
        BY <2>1, <2>2 DEF parse_last
    <2> QED
        BY <2>4, <2>5, <2>7, <2>8, <2>10, <2>11 DEF respond_job_info
<1> QED
    BY <1>1, <1>2, <1>3, TypeInvHolds, RingInvHolds, PTL DEF Spec, Safe

-----------------------------------------------------------------------------
(* Job ids and the queue.  Job ids grow along the queue, from the job of the *)
(* worker to the next one.  The worker's pointer, while it has one, is to   *)
(* the slot of its job; a younger job in that slot has been created since   *)
(* job_find.                                                               *)

InOrder(i) ==
    queue[i].job_id > 0 =>
        /\ queue[i].job_id < next_job_id
        /\ r.job_id < queue[i].job_id
        /\ \A k \in DOMAIN queue : k < i => queue[k].job_id < queue[i].job_id

ServedJob == r.job_id > 0 => r.job_id < next_job_id

AtJob ==
    /\ pc = "idle" => r.job_id = 0
    /\ pc \in Updating \union {"findRun", "findEnd"} => r.job_id > 0
    /\ pc \in Updating => slot = slot_of(r.job_id)

SharedSlot ==
    pc \in Updating =>
        \A j \in 1..MaxRequests :
            r.job_id < j /\ j < next_job_id /\ slot_of(j) = slot => j \in shared

OrderInv == (\A i \in DOMAIN queue : InOrder(i)) /\ ServedJob /\ AtJob /\ SharedSlot

\* The worker's request and those of the queue have natural numbers as jobs.
LEMMA JobIds ==
    ASSUME TypeInv
    PROVE  /\ r.job_id \in Nat /\ next_job_id \in Nat
           /\ Len(queue) \in Nat /\ DOMAIN queue = 1..Len(queue)
           /\ \A i \in DOMAIN queue : queue[i].job_id \in Nat /\ queue[i] \in Request
<1>1. \A q \in Request : q.job_id \in Nat
    BY Sizes DEF Request
<1>2. r.job_id \in Nat /\ next_job_id \in Nat
    BY <1>1, Sizes DEF TypeInv, TypeOK, NoRequest
<1>3. queue \in Seq(Request)
    BY DEF TypeInv, TypeOK
<1> QED
    BY <1>1, <1>2, <1>3

\* A request that is pushed is the youngest.
LEMMA SubmitOrderInv ==
    ASSUME TypeInv, OrderInv, NEW c \in Client, NEW op \in Op, Submit(c, op) PROVE OrderInv'
<1>1. PICK n \in Nat, x \in Nat, y \in Nat, j \in Nat :
        n = Len(queue) /\ x = next_job_id /\ y = r.job_id
        /\ j = IF is_processing_op(op) THEN x ELSE 0
    BY JobIds
<1>2. PICK q : q.job_id = j /\ queue' = Append(queue, q)
    BY <1>1 DEF Submit
<1>3. /\ DOMAIN queue = 1..n /\ DOMAIN queue' = 1..n + 1 /\ queue'[n + 1] = q
      /\ Len(queue') = n + 1 /\ \A i \in 1..n : queue'[i] = queue[i]
    BY <1>1, <1>2 DEF TypeInv, TypeOK
<1>4. UNCHANGED <<r, pc, slot>>
    BY DEF Submit, workVars
<1>5. PICK z \in Nat : z = next_job_id' /\ z <= x + 1 /\ x <= z /\ (j > 0 => j = x /\ z = x + 1)
    BY <1>1 DEF Submit, job_create, ringVars
<1>6. y > 0 => y < x
    BY <1>1 DEF OrderInv, ServedJob
<1>7. ASSUME NEW i \in 1..n
      PROVE  /\ queue[i].job_id \in Nat
             /\ queue[i].job_id > 0 =>
                  /\ queue[i].job_id < x
                  /\ y < queue[i].job_id
                  /\ \A k \in 1..n : k < i => queue[k].job_id < queue[i].job_id
    BY <1>1, <1>3, JobIds DEF OrderInv, InOrder
<1>8. ASSUME NEW i \in 1..n + 1 PROVE InOrder(i)'
    <2>1. CASE i = n + 1
        <3>1. \A k \in 1..n + 1 : k < i => k \in 1..n
            BY <2>1
        <3>2. \A k \in 1..n : j > 0 => queue[k].job_id < j
            BY <1>5, <1>7
        <3>3. j > 0 => y < j
            BY <1>5, <1>6
        <3>4. j > 0 => j < z
            BY <1>5, <2>1
        <3>5. \A k \in 1..n + 1 : j > 0 /\ k < i => queue'[k].job_id < j
            BY <1>3, <3>1, <3>2
        <3> QED
            BY <1>1, <1>2, <1>3, <1>4, <1>5, <2>1, <3>3, <3>4, <3>5 DEF InOrder
    <2>2. CASE i \in 1..n
        <3>1. PICK m \in Nat : m = queue[i].job_id
            BY <1>7, <2>2
        <3>2. queue'[i].job_id = m
            BY <1>3, <2>2, <3>1
        <3>3. m > 0 => m < z /\ y < m
            BY <1>5, <1>7, <2>2, <3>1
        <3>4. \A k \in 1..n + 1 : m > 0 /\ k < i => queue'[k].job_id < m
            <4>1. \A k \in 1..n + 1 : k < i => k \in 1..n
                BY <2>2
            <4> QED
                BY <1>3, <1>7, <2>2, <3>1, <4>1
        <3> QED
            BY <1>1, <1>3, <1>4, <1>5, <3>2, <3>3, <3>4 DEF InOrder
    <2> QED
        BY <2>1, <2>2
<1>9. ServedJob'
    <2>1. y > 0 => y < z
        BY <1>5, <1>6
    <2> QED
        BY <1>1, <1>3, <1>4, <1>5, <2>1 DEF ServedJob
<1>10. AtJob'
    BY <1>4 DEF OrderInv, AtJob
<1>11. SharedSlot'
    <2> SUFFICES ASSUME pc \in Updating, NEW k \in 1..MaxRequests,
                        y < k, k < z, slot_of(k) = slot
                 PROVE  k \in shared'
        BY <1>1, <1>4, <1>5 DEF SharedSlot
    <2>1. CASE k < x
        <3>1. k \in shared
            BY <1>1, <2>1 DEF OrderInv, SharedSlot
        <3> QED
            BY <3>1 DEF Submit, job_create
    <2>2. CASE ~(k < x)
        <3>1. k = x /\ z = x + 1
            BY <1>5, <2>2
        <3>2. is_processing_op(op)
            BY <1>1, <1>5, <3>1 DEF Submit, ringVars
        <3> QED
            BY <1>1, <3>1, <3>2 DEF Submit, job_create
    <2> QED
        BY <2>1, <2>2
<1> QED
    BY <1>3, <1>8, <1>9, <1>10, <1>11 DEF OrderInv

\* The oldest request becomes the worker's.
LEMMA BeginOrderInv ==
    ASSUME TypeInv, OrderInv, Begin PROVE OrderInv'
<1>1. PICK n \in Nat, x \in Nat, y \in Nat :
        n = Len(queue) /\ x = next_job_id /\ n >= 1 /\ y = queue[1].job_id
    <2>1. Len(queue) >= 1
        BY DEF Begin, TypeInv, TypeOK
    <2>2. 1 \in DOMAIN queue
        BY <2>1, JobIds
    <2> QED
        BY <2>1, <2>2, JobIds
<1>2. /\ DOMAIN queue = 1..n /\ DOMAIN queue' = 1..n - 1 /\ Len(queue') = n - 1
      /\ r' = queue[1] /\ \A i \in 1..n - 1 : queue'[i] = queue[i + 1]
    BY <1>1 DEF Begin, TypeInv, TypeOK
<1>3. next_job_id' = x
    BY <1>1 DEF Begin, ringVars
<1>4. ASSUME NEW i \in 1..n
      PROVE  /\ queue[i].job_id \in Nat
             /\ queue[i].job_id > 0 =>
                  /\ queue[i].job_id < x
                  /\ \A k \in 1..n : k < i => queue[k].job_id < queue[i].job_id
    BY <1>1, <1>2, JobIds DEF OrderInv, InOrder
<1>5. ASSUME NEW i \in 1..n - 1 PROVE InOrder(i)'
    <2>1. i + 1 \in 1..n /\ 1 \in 1..n /\ 1 < i + 1
        BY <1>1
    <2>2. PICK m \in Nat : m = queue[i + 1].job_id
        BY <1>4, <2>1
    <2>3. queue'[i].job_id = m
        BY <1>2, <2>2
    <2>4. m > 0 => m < x
        BY <1>1, <1>4, <2>1, <2>2
    <2>5. m > 0 => y < m
        BY <1>1, <1>4, <2>1, <2>2
    <2>6. \A k \in 1..n - 1 : m > 0 /\ k < i => queue'[k].job_id < m
        <3>1. \A k \in 1..n - 1 : k < i => k + 1 \in 1..n /\ k + 1 < i + 1
            BY <1>1
        <3> QED
            BY <1>2, <1>4, <2>1, <2>2, <3>1
    <2> QED
        BY <1>1, <1>2, <1>3, <2>3, <2>4, <2>5, <2>6 DEF InOrder
<1>6. ServedJob'
    <2>1. 1 \in 1..n
        BY <1>1
    <2>2. y > 0 => y < x
        BY <1>1, <1>4, <2>1
    <2> QED
        BY <1>1, <1>2, <1>3, <2>2 DEF ServedJob
<1>7. AtJob' /\ SharedSlot'
    <2>1. pc' = IF y > 0 THEN "findRun" ELSE "cancelTest"
        BY <1>1, <1>2 DEF Begin, Goto
    <2> QED
        BY <1>1, <1>2, <2>1 DEF AtJob, SharedSlot, Updating
<1> QED
    BY <1>2, <1>5, <1>6, <1>7 DEF OrderInv

\* Every step keeps OrderInv; job_find finds the worker's job.
LEMMA StepOrderInv ==
    ASSUME TypeInv, RingInv, OrderInv, [Next]_vars PROVE OrderInv'
<1>1. ASSUME UNCHANGED <<queue, next_job_id, r>>, AtJob', SharedSlot' PROVE OrderInv'
    BY <1>1 DEF OrderInv, InOrder, ServedJob
<1>2. CASE Connect \/ UNCHANGED vars \/ \E c \in Client : Leave(c) \/ AdminCancel(c)
    <2>1. UNCHANGED <<queue, next_job_id, r, pc, slot, shared>>
        BY <1>2 DEF Connect, Leave, AdminCancel, vars, workVars, ringVars, trafficVars
    <2>2. AtJob' /\ SharedSlot'
        BY <2>1 DEF OrderInv, AtJob, SharedSlot
    <2> QED
        BY <1>1, <2>1, <2>2
<1>3. CASE JobUpdateFind
    <2>1. UNCHANGED <<queue, next_job_id, r, shared>> /\ slot' = found
        BY <1>3 DEF JobUpdateFind, ringVars, trafficVars
    <2>2. r.job_id > 0 /\ r.job_id \in Nat
        BY <1>3, JobIds DEF JobUpdateFind, OrderInv, AtJob
    <2>3. CASE found = NULL
        <3>1. pc' \in {"cancelTest", "respond"}
            BY <1>3, <2>3 DEF JobUpdateFind, AfterUpdate, Goto
        <3>2. AtJob' /\ SharedSlot'
            BY <3>1 DEF AtJob, SharedSlot, Updating
        <3> QED
            BY <1>1, <2>1, <3>2
    <2>4. CASE found # NULL
        <3>1. PICK i \in Nat : i = r.job_id /\ i > 0
            BY <2>2
        <3>2. InRing(i) /\ found = slot_of(i)
            BY <2>4, <3>1, FoundInRing DEF found
        <3>3. AtJob'
            BY <1>3, <2>1, <2>2, <3>1, <3>2, <2>4 DEF JobUpdateFind, AtJob, Updating, Goto
        <3>4. ASSUME NEW j \in 1..MaxRequests, i < j, j < next_job_id PROVE slot_of(j) # slot_of(i)
            <4>1. PICK M \in Nat, x \in Nat : M = MAX_JOBS /\ x = next_job_id
                BY JobIds, Sizes
            <4>2. x <= i + M /\ j < x /\ j \in Nat
                BY <3>2, <3>4, <4>1, Sizes DEF InRing
            <4>3. j - i < M
                BY <4>2, <3>4
            <4> QED
                BY <3>4, <4>1, <4>2, <4>3, SlotsDiffer
        <3>5. SharedSlot'
            BY <2>1, <3>1, <3>2, <3>4 DEF SharedSlot
        <3> QED
            BY <1>1, <2>1, <3>3, <3>5
    <2> QED
        BY <2>3, <2>4
<1>4. CASE JobUpdateStatus \/ JobUpdateResult
    <2>1. UNCHANGED <<queue, next_job_id, r, slot, shared>> /\ pc \in Updating
        BY <1>4 DEF JobUpdateStatus, JobUpdateResult, trafficVars, Updating
    <2>2. AtJob' /\ SharedSlot'
        BY <1>4, <2>1
        DEF JobUpdateStatus, JobUpdateResult, AfterUpdate, Goto, OrderInv, AtJob, SharedSlot,
            Updating
    <2> QED
        BY <1>1, <2>1, <2>2
<1>5. CASE CancelTest \/ CancelClear \/ Exec \/ Finish \/ Respond
    <2>1. UNCHANGED <<queue, next_job_id, r, slot>> /\ pc' \notin Updating
        BY <1>5
        DEF CancelTest, CancelClear, Exec, Finish, Respond, Answered, Goto, ringVars, trafficVars,
            Updating
    <2>2. AtJob' /\ SharedSlot'
        BY <1>5, <2>1
        DEF CancelTest, CancelClear, Exec, Finish, Respond, Goto, OrderInv, AtJob, SharedSlot
    <2> QED
        BY <1>1, <2>1, <2>2
<1>6. CASE Clear
    <2>1. UNCHANGED <<queue, next_job_id>> /\ r'.job_id = 0 /\ pc' = "idle"
        BY <1>6 DEF Clear, Goto, NoRequest, ringVars, trafficVars
    <2>2. AtJob' /\ ServedJob' /\ SharedSlot'
        BY <2>1 DEF AtJob, ServedJob, SharedSlot, Updating
    <2>3. ASSUME NEW i \in DOMAIN queue PROVE InOrder(i)'
        <3>1. r.job_id \in Nat /\ queue[i].job_id \in Nat
            BY JobIds
        <3> QED
            BY <2>1, <3>1 DEF OrderInv, InOrder
    <2> QED
        BY <2>1, <2>2, <2>3 DEF OrderInv
<1> QED
    BY <1>2, <1>3, <1>4, <1>5, <1>6, SubmitOrderInv, BeginOrderInv DEF Next, process_request

-----------------------------------------------------------------------------
(* What the ring says.  A step writes to the slot of a job that stays in the *)
(* ring only when it is a job_update of that very job, or of one that had   *)
(* the slot when the job was created.                                      *)

\* Two jobs of the ring have two slots.
LEMMA RingSlotsDiffer ==
    ASSUME TypeInv, RingInv, NEW j \in Nat, NEW k \in Nat, InRing(j), InRing(k), j # k
    PROVE  slot_of(j) # slot_of(k)
    BY FindInRing

\* No other step changes the slot of a job while it is in the ring.
LEMMA SlotKept ==
    ASSUME TypeInv, RingInv, OrderInv, [Next]_vars,
           NEW j \in Nat, 0 < j, j < next_job_id, InRing(j)'
    PROVE  /\ InRing(j)
           /\ \/ jobs'[slot_of(j)] = jobs[slot_of(j)]
              \/ /\ JobUpdateStatus \/ JobUpdateResult
                 /\ j = r.job_id \/ (r.job_id < j /\ j \in shared)
<1>1. CASE UNCHANGED ringVars
    BY <1>1 DEF InRing, ringVars
<1>2. CASE JobUpdateStatus \/ JobUpdateResult
    <2>1. /\ next_job_id' = next_job_id
          /\ slot \in Slot => \A s \in Slot \ {slot} : jobs'[s] = jobs[s]
        BY <1>2, UpdateEffect DEF TypeInv
    <2>2. InRing(j)
        BY <2>1 DEF InRing
    <2>3. pc \in Updating
        BY <1>2 DEF JobUpdateStatus, JobUpdateResult, Updating
    <2>4. PICK i \in Nat, x \in Nat, M \in Nat :
            i = r.job_id /\ i > 0 /\ slot = slot_of(i) /\ x = next_job_id /\ M = MAX_JOBS
        BY <2>3, JobIds, Sizes DEF OrderInv, AtJob
    <2>5. slot \in Slot /\ slot_of(j) \in Slot
        BY <2>4, SlotType
    <2>6. i < x
        BY <2>4 DEF OrderInv, ServedJob
    <2>7. CASE slot_of(j) = slot /\ j < i
        <3>1. x <= j + M /\ 0 < i
            BY <2>2, <2>4 DEF InRing
        <3>2. x <= i + M
            BY <2>7, <3>1
        <3>3. InRing(i)
            BY <2>4, <2>6, <3>1, <3>2 DEF InRing
        <3> QED
            BY <2>2, <2>4, <2>7, <3>3, RingSlotsDiffer
    <2>8. CASE slot_of(j) = slot /\ i < j
        <3>1. j \in 1..MaxRequests
            BY Sizes DEF TypeInv, TypeOK
        <3>2. j \in shared
            BY <2>3, <2>4, <2>8, <3>1 DEF OrderInv, SharedSlot
        <3> QED
            BY <1>2, <2>2, <2>4, <2>8, <3>2
    <2>9. CASE slot_of(j) # slot
        BY <2>1, <2>2, <2>5, <2>9
    <2>10. CASE j = i
        BY <1>2, <2>2, <2>4, <2>10
    <2>11. j < i \/ i < j \/ j = i
        OBVIOUS
    <2> QED
        BY <2>7, <2>8, <2>9, <2>10, <2>11
<1>3. ASSUME NEW c \in Client, NEW op \in Op, Submit(c, op), is_processing_op(op)
      PROVE  InRing(j) /\ jobs'[slot_of(j)] = jobs[slot_of(j)]
    <2>1. PICK n \in 1..MaxRequests :
            /\ n = next_job_id /\ next_job_id' = n + 1
            /\ \A s \in Slot \ {slot_of(n)} : jobs'[s] = jobs[s]
        BY <1>3, CreateEffect
    <2>2. PICK M \in Nat : M = MAX_JOBS
        BY Sizes
    <2>3. n \in Nat /\ j < n /\ n - j < M /\ n <= j + M
        BY <2>1, <2>2 DEF InRing
    <2>4. slot_of(j) # slot_of(n)
        BY <2>2, <2>3, SlotsDiffer
    <2> QED
        BY <2>1, <2>2, <2>3, <2>4, SlotType DEF InRing
<1> QED
    BY <1>1, <1>2, <1>3, RingSteps

\* What is in the queue after a step was in it before or is pushed by the step.
LEMMA QueueSteps ==
    ASSUME TypeInv, [Next]_vars, NEW i \in DOMAIN queue'
    PROVE  \/ \E k \in DOMAIN queue : queue'[i] = queue[k]
           \/ \E c \in Client, op \in Op :
                /\ Submit(c, op)
                /\ queue'[i].job_id = IF is_processing_op(op) THEN next_job_id ELSE 0
<1>1. CASE queue' = queue
    BY <1>1
<1>2. ASSUME NEW c \in Client, NEW op \in Op, Submit(c, op)
      PROVE  \/ \E k \in DOMAIN queue : queue'[i] = queue[k]
             \/ queue'[i].job_id = IF is_processing_op(op) THEN next_job_id ELSE 0
    <2>1. PICK n \in Nat : n = Len(queue) /\ DOMAIN queue = 1..n
        BY JobIds
    <2>2. PICK j : j = IF is_processing_op(op) THEN next_job_id ELSE 0
        OBVIOUS
    <2>3. PICK q : q.job_id = j /\ queue' = Append(queue, q)
        BY <1>2, <2>2 DEF Submit
    <2>4. /\ DOMAIN queue' = 1..n + 1 /\ queue'[n + 1] = q
          /\ \A k \in 1..n : queue'[k] = queue[k]
        BY <2>1, <2>3 DEF TypeInv, TypeOK
    <2>5. i \in 1..n \/ i = n + 1
        BY <2>4
    <2> QED
        BY <2>1, <2>2, <2>3, <2>4, <2>5
<1>3. CASE Begin
    <2>1. PICK n \in Nat : n = Len(queue) /\ DOMAIN queue = 1..n
        BY JobIds
    <2>2. /\ n >= 1 /\ DOMAIN queue' = 1..n - 1
          /\ \A k \in 1..n - 1 : queue'[k] = queue[k + 1]
        BY <1>3, <2>1 DEF Begin, TypeInv, TypeOK
    <2>3. i + 1 \in 1..n
        BY <2>2
    <2> QED
        BY <2>1, <2>2, <2>3
<1>4. CASE Connect \/ UNCHANGED vars \/ \E c \in Client : Leave(c) \/ AdminCancel(c)
    <2>1. queue' = queue
        BY <1>4 DEF Connect, Leave, AdminCancel, vars, trafficVars
    <2> QED
        BY <1>1, <2>1
<1>5. CASE process_request /\ ~Begin
    <2>1. queue' = queue
        BY <1>5
        DEF process_request, JobUpdateFind, JobUpdateStatus, JobUpdateResult, CancelTest,
            CancelClear, Exec, Finish, Respond, Clear, Answered, trafficVars
    <2> QED
        BY <1>1, <2>1
<1> QED
    BY <1>2, <1>3, <1>4, <1>5 DEF Next

QueuedInv ==
    \A i \in DOMAIN queue :
        LET j == queue[i].job_id
        IN  InRing(j) /\ j \notin shared =>
              jobs[slot_of(j)].status = "QUEUED" /\ jobs[slot_of(j)].result = "queued"

\* Once a job has shared its slot it is in shared.
LEMMA SharedGrows == ASSUME [Next]_vars PROVE \A j : j \in shared => j \in shared'
<1>1. ASSUME NEW c \in Client, NEW op \in Op, Submit(c, op)
      PROVE  \A j : j \in shared => j \in shared'
    BY <1>1 DEF Submit, job_create
<1>2. CASE Connect \/ UNCHANGED vars \/ \E c \in Client : Leave(c) \/ AdminCancel(c)
    BY <1>2 DEF Connect, Leave, AdminCancel, vars
<1>3. CASE process_request
    BY <1>3
    DEF process_request, Begin, JobUpdateFind, JobUpdateStatus, JobUpdateResult, CancelTest,
        CancelClear, Exec, Finish, Respond, Clear
<1> QED
    BY <1>1, <1>2, <1>3 DEF Next

\* A job of the queue is not touched before its turn comes.
LEMMA StepQueuedInv ==
    ASSUME TypeInv, RingInv, OrderInv, QueuedInv, [Next]_vars PROVE QueuedInv'
<1> SUFFICES ASSUME NEW i \in DOMAIN queue', NEW j, j = queue'[i].job_id,
                    InRing(j)', j \notin shared'
             PROVE  jobs'[slot_of(j)].status = "QUEUED" /\ jobs'[slot_of(j)].result = "queued"
    BY DEF QueuedInv, InRing
<1>1. j > 0 /\ j \notin shared
    BY SharedGrows DEF InRing
<1>2. ASSUME NEW k \in DOMAIN queue, queue'[i] = queue[k]
      PROVE  jobs'[slot_of(j)].status = "QUEUED" /\ jobs'[slot_of(j)].result = "queued"
    <2>1. j \in Nat /\ j = queue[k].job_id
        BY <1>2, JobIds
    <2>2. j < next_job_id /\ r.job_id < j /\ r.job_id \in Nat
        BY <1>1, <2>1, JobIds DEF OrderInv, InOrder
    <2>3. j # r.job_id /\ 0 < j
        BY <1>1, <2>1, <2>2
    <2>4. jobs'[slot_of(j)] = jobs[slot_of(j)] /\ InRing(j)
        BY <1>1, <2>1, <2>2, <2>3, SlotKept
    <2> QED
        BY <1>1, <2>1, <2>4 DEF QueuedInv
<1>3. ASSUME NEW c \in Client, NEW op \in Op, Submit(c, op),
             j = IF is_processing_op(op) THEN next_job_id ELSE 0
      PROVE  jobs'[slot_of(j)].status = "QUEUED" /\ jobs'[slot_of(j)].result = "queued"
    <2>1. is_processing_op(op) /\ j = next_job_id
        BY <1>1, <1>3
    <2> QED
        BY <1>3, <2>1, CreateEffect
<1> QED
    BY <1>2, <1>3, QueueSteps

-----------------------------------------------------------------------------
(* How jobs end.  The worker records the outcome of its job before it        *)
(* answers; only a download has its answer, the file, before.              *)

Recorded(j, ok) ==
    /\ jobs[slot_of(j)].status = IF ok THEN "DONE" ELSE "ERROR"
    /\ jobs[slot_of(j)].result = "response"

EndInv ==
    InRing(r.job_id) =>
        /\ pc = "resultEnd" => jobs[slot_of(r.job_id)].status = final_status
        /\ pc \in {"respond", "clear"} => Recorded(r.job_id, resp_ok)

\* Steps of the other threads leave the worker's job as it is, or overwrite it
\* with a new one.
LEMMA ClientEndInv ==
    ASSUME TypeInv, RingInv, OrderInv, EndInv, [Next]_vars, ~process_request
    PROVE  EndInv'
<1>1. UNCHANGED workVars
    BY DEF Next, Connect, Leave, AdminCancel, Submit, vars
<1>2. PICK j \in Nat : j = r.job_id /\ r'.job_id = j
    BY <1>1, JobIds DEF workVars
<1> SUFFICES ASSUME InRing(j)'
             PROVE  /\ pc = "resultEnd" => jobs'[slot_of(j)].status = final_status
                    /\ pc \in {"respond", "clear"} => Recorded(j, resp_ok)'
    BY <1>1, <1>2 DEF EndInv, Recorded, final_status, InRing, workVars
<1>3. 0 < j /\ j < next_job_id
    <2>1. 0 < j
        BY DEF InRing
    <2> QED
        BY <1>2, <2>1 DEF OrderInv, ServedJob
<1>4. ~JobUpdateStatus /\ ~JobUpdateResult
    BY DEF process_request
<1>5. jobs'[slot_of(j)] = jobs[slot_of(j)] /\ InRing(j)
    BY <1>3, <1>4, SlotKept
<1> QED
    BY <1>1, <1>2, <1>5 DEF EndInv, Recorded, workVars

\* The worker records the outcome on its way to the answer.
LEMMA WorkerEndInv ==
    ASSUME TypeInv, RingInv, OrderInv, EndInv, process_request
    PROVE  EndInv'
<1>1. CASE JobUpdateStatus
    <2>1. /\ pc' \in {"resultRun", "resultEnd"} /\ (pc' = "resultEnd" => pc = "statusEnd")
          /\ pc \in Updating
          /\ jobs' = [jobs EXCEPT ![slot].status =
                        IF pc = "statusRun" THEN "RUNNING" ELSE final_status]
          /\ r' = r /\ resp_ok' = resp_ok
        BY <1>1 DEF JobUpdateStatus, Goto, Updating
    <2>2. slot \in Slot /\ slot = slot_of(r.job_id)
        BY <2>1, JobIds, SlotType DEF OrderInv, AtJob
    <2>3. jobs \in [Slot -> Job]
        BY DEF TypeInv, TypeOK
    <2>4. pc = "statusEnd" => jobs'[slot].status = final_status
        BY <2>1, <2>2, <2>3 DEF Job
    <2> QED
        BY <2>1, <2>2, <2>4 DEF EndInv, final_status
<1>2. CASE JobUpdateResult
    <2>1. /\ pc' \in {"cancelTest", "respond"} /\ (pc' = "respond" => pc = "resultEnd")
          /\ pc \in Updating
          /\ jobs' = [jobs EXCEPT ![slot].result =
                        IF pc = "resultRun" THEN "running" ELSE "response"]
          /\ UNCHANGED <<r, resp_ok, next_job_id>>
        BY <1>2 DEF JobUpdateResult, AfterUpdate, Goto, Updating
    <2>2. slot \in Slot /\ slot = slot_of(r.job_id)
        BY <2>1, JobIds, SlotType DEF OrderInv, AtJob
    <2>3. jobs \in [Slot -> Job]
        BY DEF TypeInv, TypeOK
    <2>4. pc = "resultEnd" /\ InRing(r.job_id) =>
            jobs'[slot].result = "response" /\ jobs'[slot].status = final_status
        BY <2>1, <2>2, <2>3 DEF Job, EndInv
    <2>5. pc = "resultEnd" /\ InRing(r.job_id) => Recorded(r.job_id, resp_ok)'
        BY <2>1, <2>2, <2>4 DEF Recorded, final_status
    <2>6. InRing(r.job_id)' => InRing(r.job_id)
        BY <2>1 DEF InRing
    <2> QED
        BY <2>1, <2>5, <2>6 DEF EndInv
<1>3. CASE JobUpdateFind
    <2>1. PICK j \in Nat : j = r.job_id /\ r'.job_id = j
        BY <1>3, JobIds DEF JobUpdateFind
    <2>2. CASE InRing(j)
        <3>1. found # NULL
            BY <2>1, <2>2, FindInRing DEF found
        <3>2. pc' \in {"statusRun", "statusEnd"}
            BY <1>3, <3>1 DEF JobUpdateFind, Goto
        <3> QED
            BY <3>2 DEF EndInv
    <2>3. CASE ~InRing(j)
        <3>1. ~InRing(j)'
            BY <1>3, <2>3 DEF JobUpdateFind, InRing, ringVars
        <3> QED
            BY <2>1, <3>1 DEF EndInv, InRing
    <2> QED
        BY <2>2, <2>3
<1>4. CASE Finish
    <2>1. pc' \in {"findEnd", "respond"} /\ (pc' = "respond" => ~(r.job_id > 0)) /\ r' = r
        BY <1>4 DEF Finish, Goto
    <2>2. r.job_id \in Nat
        BY JobIds
    <2> QED
        BY <2>1, <2>2 DEF EndInv, InRing
<1>5. CASE Respond
    <2>1. pc = "respond" /\ pc' = "clear" /\ UNCHANGED <<r, resp_ok, jobs, next_job_id>>
        BY <1>5 DEF Respond, Goto, ringVars
    <2> QED
        BY <2>1 DEF EndInv, Recorded, InRing
<1>6. CASE Begin \/ CancelTest \/ CancelClear \/ Exec \/ Clear
    <2>1. pc' \notin {"resultEnd", "respond", "clear"}
        BY <1>6 DEF Begin, CancelTest, CancelClear, Exec, Clear, Goto
    <2> QED
        BY <2>1 DEF EndInv
<1> QED
    BY <1>1, <1>2, <1>3, <1>4, <1>5, <1>6 DEF process_request

AnswerOK(a) ==
    a.job_id > 0 =>
        /\ a.job_id < next_job_id
        /\ \A k \in DOMAIN queue : queue[k].job_id > 0 => a.job_id < queue[k].job_id
        /\ r.job_id > 0 => a.job_id <= r.job_id
        /\ a.job_id = r.job_id =>
             /\ (response_sent /\ a.op = "download") \/ pc = "clear"
             /\ a.ok = resp_ok
        /\ a.job_id # r.job_id /\ InRing(a.job_id) => Recorded(a.job_id, a.ok)

AnswerInv == \A i \in DOMAIN answers : AnswerOK(answers[i])

\* Answers have natural numbers as jobs.
LEMMA AnswerIds == ASSUME TypeInv PROVE \A i \in DOMAIN answers : answers[i].job_id \in Nat
<1>1. \A a \in Answer : a.job_id \in Nat
    BY Sizes DEF Answer
<1>2. answers \in Seq(Answer)
    BY DEF TypeInv, TypeOK
<1> QED
    BY <1>1, <1>2

\* An answer stays true: its job is older than every job to come, and has
\* been finished with.
LEMMA AnswerStays ==
    ASSUME TypeInv, RingInv, OrderInv, EndInv, SentInv, [Next]_vars,
           NEW a, a.job_id \in Nat, AnswerOK(a)
    PROVE  AnswerOK(a)'
<1> SUFFICES ASSUME a.job_id > 0 PROVE AnswerOK(a)'
    BY DEF AnswerOK
<1>1. PICK j \in Nat : j = a.job_id /\ 0 < j
    OBVIOUS
<1>2. j < next_job_id /\ \A k \in DOMAIN queue : queue[k].job_id > 0 => j < queue[k].job_id
    BY <1>1 DEF AnswerOK
<1>3. j < next_job_id'
    <2>1. CASE UNCHANGED ringVars \/ JobUpdateStatus \/ JobUpdateResult
        BY <1>2, <2>1 DEF ringVars, JobUpdateStatus, JobUpdateResult
    <2>2. ASSUME NEW c \in Client, NEW op \in Op, Submit(c, op), is_processing_op(op)
          PROVE  j < next_job_id'
        BY <1>2, <2>2, CreateEffect
    <2> QED
        BY <2>1, <2>2, RingSteps
<1>4. \A i \in DOMAIN queue' : queue'[i].job_id > 0 => j < queue'[i].job_id
    <2> SUFFICES ASSUME NEW i \in DOMAIN queue', queue'[i].job_id > 0
                 PROVE  j < queue'[i].job_id
        OBVIOUS
    <2>1. CASE \E k \in DOMAIN queue : queue'[i] = queue[k]
        BY <1>2, <2>1
    <2>2. ASSUME NEW op \in Op,
                 queue'[i].job_id = IF is_processing_op(op) THEN next_job_id ELSE 0
          PROVE  j < queue'[i].job_id
        BY <1>2, <2>2
    <2> QED
        BY <2>1, <2>2, QueueSteps
<1>5. \/ r' = r /\ ~Begin /\ ~Clear
      \/ Begin /\ r' \in {queue[k] : k \in DOMAIN queue} /\ r.job_id = 0
      \/ Clear /\ r'.job_id = 0 /\ pc = "clear" /\ jobs' = jobs
    <2>1. CASE Begin
        <3>1. Len(queue) >= 1 /\ r' = queue[1]
            BY <2>1 DEF Begin, TypeInv, TypeOK
        <3>2. 1 \in DOMAIN queue
            BY <3>1, JobIds
        <3> QED
            BY <2>1, <3>1, <3>2 DEF Begin, OrderInv, AtJob
    <2>2. CASE Clear
        BY <2>2 DEF Clear, NoRequest, ringVars
    <2>3. CASE process_request /\ ~Begin /\ ~Clear
        BY <2>3
        DEF process_request, JobUpdateFind, JobUpdateStatus, JobUpdateResult, CancelTest,
            CancelClear, Exec, Finish, Respond
    <2>4. CASE ~process_request
        BY <2>4
        DEF process_request, Next, Connect, Leave, AdminCancel, Submit, vars, workVars
    <2> QED
        BY <2>1, <2>2, <2>3, <2>4
<1>6. r'.job_id > 0 => j <= r'.job_id
    <2>1. CASE r' = r
        BY <1>1, <2>1 DEF AnswerOK
    <2>2. ASSUME NEW k \in DOMAIN queue, r' = queue[k] PROVE r'.job_id > 0 => j <= r'.job_id
        BY <1>2, <2>2, JobIds
    <2> QED
        BY <1>5, <2>1, <2>2
<1>7. j = r'.job_id =>
        ((response_sent' /\ a.op = "download") \/ pc' = "clear") /\ a.ok = resp_ok'
    <2> SUFFICES ASSUME j = r'.job_id
                 PROVE ((response_sent' /\ a.op = "download") \/ pc' = "clear") /\ a.ok = resp_ok'
        OBVIOUS
    <2>1. r' = r /\ ~Begin /\ ~Clear
        <3>1. ASSUME NEW k \in DOMAIN queue PROVE r' # queue[k]
            <4>1. queue[k].job_id # j
                BY <1>1, <1>2, JobIds
            <4> QED
                BY <4>1
        <3> QED
            BY <1>1, <1>5, <3>1
    <2>2. ((response_sent /\ a.op = "download") \/ pc = "clear") /\ a.ok = resp_ok
        BY <1>1, <2>1 DEF AnswerOK
    <2>3. CASE ~process_request
        <3>1. UNCHANGED <<pc, resp_ok, response_sent>>
            BY <2>3 DEF Next, Connect, Leave, AdminCancel, Submit, vars, workVars
        <3> QED
            BY <2>2, <3>1
    <2>4. CASE process_request
        <3>1. pc # "clear" => response_sent /\ pc \in After \union {"finish"}
            BY <2>2 DEF SentInv
        <3>2. UNCHANGED <<resp_ok, response_sent>> /\ pc # "clear"
            BY <2>1, <2>4, <3>1
            DEF process_request, JobUpdateFind, JobUpdateStatus, JobUpdateResult, CancelTest,
                CancelClear, Exec, Finish, Respond, After
        <3> QED
            BY <2>2, <3>2
    <2> QED
        BY <2>3, <2>4
<1>8. ASSUME j # r'.job_id, InRing(j)' PROVE Recorded(j, a.ok)'
    <2>1. /\ InRing(j)
          /\ \/ jobs'[slot_of(j)] = jobs[slot_of(j)]
             \/ /\ JobUpdateStatus \/ JobUpdateResult
                /\ j = r.job_id \/ r.job_id < j
        BY <1>1, <1>2, <1>8, SlotKept
    <2>4. JobUpdateStatus \/ JobUpdateResult => r.job_id \in Nat /\ j <= r.job_id
        <3>1. JobUpdateStatus \/ JobUpdateResult => r.job_id > 0
            BY DEF JobUpdateStatus, JobUpdateResult, OrderInv, AtJob, Updating
        <3> QED
            BY <1>1, <3>1, JobIds DEF AnswerOK
    <2>2. CASE j # r.job_id
        BY <1>1, <2>1, <2>2, <2>4 DEF AnswerOK, Recorded
    <2>3. CASE j = r.job_id
        <3>1. Clear /\ pc = "clear" /\ jobs' = jobs
            BY <1>1, <1>5, <1>8, <2>3
        <3>2. Recorded(j, resp_ok) /\ a.ok = resp_ok
            BY <1>1, <2>1, <2>3, <3>1 DEF EndInv, AnswerOK
        <3> QED
            BY <3>1, <3>2 DEF Recorded
    <2> QED
        BY <2>2, <2>3
<1> QED
    BY <1>1, <1>3, <1>4, <1>6, <1>7, <1>8 DEF AnswerOK

\* The worker's answer, when it sends one, is about its own job and true.
LEMMA AnswerAdded ==
    ASSUME TypeInv, OrderInv, EndInv, SentInv, [Next]_vars, NEW ok \in BOOLEAN,
           NEW a, a.job_id = r.job_id, a.op = r.op, a.ok = ok,
           \/ Exec /\ response_sent' /\ r.op = "download" /\ resp_ok' = ok
           \/ Respond /\ resp_ok = ok
    PROVE  AnswerOK(a)'
<1>1. /\ UNCHANGED <<r, queue, next_job_id>> /\ resp_ok' = ok
      /\ (response_sent' /\ r.op = "download") \/ pc' = "clear"
    BY DEF Exec, Respond, Answered, Goto, ringVars, trafficVars
<1>2. a.job_id \in Nat
    BY JobIds
<1>3. a.job_id > 0 => a.job_id < next_job_id'
    BY <1>1 DEF OrderInv, ServedJob
<1>4. \A k \in DOMAIN queue' : queue'[k].job_id > 0 => a.job_id < queue'[k].job_id
    BY <1>1 DEF OrderInv, InOrder
<1> QED
    BY <1>1, <1>2, <1>3, <1>4 DEF AnswerOK

\* A step answers the worker's request or sends no answer.
LEMMA AnswerSteps ==
    ASSUME TypeInv, SentInv, [Next]_vars
    PROVE  \/ answers' = answers
           \/ \E ok \in BOOLEAN :
                /\ Answered(ok)
                /\ \/ Exec /\ response_sent' /\ r.op = "download" /\ resp_ok' = ok
                   \/ Respond /\ resp_ok = ok
<1>1. CASE Exec
    BY <1>1 DEF Exec, trafficVars
<1>2. CASE Respond
    BY <1>2 DEF Respond, trafficVars, TypeInv, TypeOK
<1>3. CASE process_request /\ ~Exec /\ ~Respond
    BY <1>3
    DEF process_request, Begin, JobUpdateFind, JobUpdateStatus, JobUpdateResult, CancelTest,
        CancelClear, Finish, Clear, trafficVars
<1>4. CASE ~process_request
    BY <1>4 DEF Next, Connect, Leave, AdminCancel, Submit, vars, trafficVars
<1> QED
    BY <1>1, <1>2, <1>3, <1>4

\* Every answer sent so far stays true.
LEMMA StepAnswerInv ==
    ASSUME TypeInv, RingInv, OrderInv, EndInv, SentInv, AnswerInv, [Next]_vars
    PROVE  AnswerInv'
<1>1. PICK n \in Nat : n = Len(answers) /\ DOMAIN answers = 1..n
    BY DEF TypeInv, TypeOK
<1>2. ASSUME NEW i \in 1..n, answers'[i] = answers[i] PROVE AnswerOK(answers[i])'
    <2>1. PICK a : a = answers[i]
        OBVIOUS
    <2>2. a.job_id \in Nat
        BY <1>1, <2>1, AnswerIds
    <2>3. AnswerOK(a)
        BY <1>1, <2>1 DEF AnswerInv
    <2>4. AnswerOK(a)'
        BY <2>2, <2>3, AnswerStays
    <2> QED
        BY <1>2, <2>1, <2>4 DEF AnswerOK
<1>3. CASE answers' = answers
    BY <1>1, <1>2, <1>3 DEF AnswerInv
<1>4. ASSUME NEW ok \in BOOLEAN, Answered(ok),
             \/ Exec /\ response_sent' /\ r.op = "download" /\ resp_ok' = ok
             \/ Respond /\ resp_ok = ok
      PROVE  AnswerInv'
    <2>1. PICK a : a = [client_id |-> r.client_id, op |-> r.op, job_id |-> r.job_id, ok |-> ok]
        OBVIOUS
    <2>2. a.job_id = r.job_id /\ a.op = r.op /\ a.ok = ok
        BY <2>1
    <2>3. AnswerOK(a)'
        BY <1>4, <2>2, AnswerAdded
    <2>4. /\ DOMAIN answers' = 1..n + 1 /\ answers'[n + 1] = a
          /\ \A i \in 1..n : answers'[i] = answers[i]
        BY <1>1, <1>4, <2>1 DEF Answered, TypeInv, TypeOK
    <2>5. ASSUME NEW i \in 1..n + 1 PROVE AnswerOK(answers[i])'
        <3>1. CASE i = n + 1
            BY <2>3, <2>4, <3>1 DEF AnswerOK
        <3>2. CASE i \in 1..n
            BY <1>2, <2>4, <3>2
        <3> QED
            BY <3>1, <3>2
    <2> QED
        BY <2>4, <2>5 DEF AnswerInv
<1> QED
    BY <1>3, <1>4, AnswerSteps

-----------------------------------------------------------------------------
(* How many jobs are unfinished.  Jobs are finished in the order in which    *)
(* they are created: all that are younger than an unfinished one are        *)
(* unfinished too, so that the oldest of at most MAX_JOBS is in the ring.   *)

YoungerToo ==
    \A j \in Outstanding \ {0} : \A k \in 1..MaxRequests :
        j <= k /\ k < next_job_id => k \in Outstanding

\* What is unfinished: the job of the worker until the answer, and the queue.
LEMMA OutstandingIs ==
    \A j : j \in Outstanding <=>
             \/ \E i \in DOMAIN queue : j = queue[i].job_id
             \/ pc \notin {"idle", "respond", "clear"} /\ j = r.job_id
    BY DEF Outstanding

\* A request that is pushed adds the youngest job, or none.
LEMMA SubmitYounger ==
    ASSUME TypeInv, YoungerToo, NEW c \in Client, NEW op \in Op, Submit(c, op) PROVE YoungerToo'
<1>1. PICK n \in Nat, x \in Nat, j \in Nat :
        n = Len(queue) /\ x = next_job_id /\ j = IF is_processing_op(op) THEN x ELSE 0
    BY JobIds
<1>2. PICK q : q.job_id = j /\ queue' = Append(queue, q)
    BY <1>1 DEF Submit
<1>3. /\ DOMAIN queue = 1..n /\ DOMAIN queue' = 1..n + 1 /\ queue'[n + 1] = q
      /\ \A i \in 1..n : queue'[i] = queue[i]
    BY <1>1, <1>2 DEF TypeInv, TypeOK
<1>4. UNCHANGED <<r, pc>>
    BY DEF Submit, workVars
<1>5. \A k : k \in Outstanding' <=> k \in Outstanding \/ k = j
    <2>1. \A i \in 1..n + 1 : i \in 1..n \/ i = n + 1
        OBVIOUS
    <2>2. n + 1 \in 1..n + 1 /\ \A i \in 1..n : i \in 1..n + 1
        OBVIOUS
    <2>3. \A k : (\E i \in 1..n + 1 : k = queue'[i].job_id) <=>
                   (\E i \in 1..n : k = queue[i].job_id) \/ k = j
        BY <1>2, <1>3, <2>1, <2>2
    <2>4. PICK w : w = IF pc \in {"idle", "respond", "clear"} THEN {} ELSE {r.job_id}
        OBVIOUS
    <2>5. /\ Outstanding = {queue[i].job_id : i \in 1..n} \union w
          /\ Outstanding' = {queue'[i].job_id : i \in 1..n + 1} \union w
        BY <1>3, <1>4, <2>4 DEF Outstanding
    <2> QED
        BY ONLY <2>3, <2>5
<1>6. next_job_id' = IF j = 0 THEN x ELSE x + 1
    <2>1. x # 0
        BY <1>1 DEF TypeInv, TypeOK
    <2> QED
        BY <1>1, <2>1 DEF Submit, job_create, ringVars
<1> SUFFICES ASSUME NEW i \in Outstanding', i # 0, NEW k \in 1..MaxRequests,
                    i <= k, k < next_job_id'
             PROVE  k \in Outstanding'
    BY DEF YoungerToo
<1>7. CASE k < x
    <2>1. i # j
        BY <1>1, <1>7
    <2> QED
        BY <1>1, <1>5, <1>7, <2>1 DEF YoungerToo
<1>8. CASE ~(k < x)
    <2>1. k = x /\ j # 0
        BY <1>1, <1>6, <1>8
    <2> QED
        BY <1>1, <1>5, <2>1
<1> QED
    BY <1>7, <1>8

\* A step that finishes the job of the worker, or none, leaves the younger ones.
LEMMA FinishedYounger ==
    ASSUME TypeInv, OrderInv, YoungerToo, UNCHANGED <<queue, next_job_id>>,
           \A j : j \in Outstanding' <=>
                    \/ \E i \in DOMAIN queue : j = queue[i].job_id
                    \/ j \in Outstanding /\ j # r.job_id
    PROVE  YoungerToo'
<1> SUFFICES ASSUME NEW j \in Outstanding', j # 0, NEW k \in 1..MaxRequests,
                    j <= k, k < next_job_id
             PROVE  k \in Outstanding'
    BY DEF YoungerToo
<1>1. j \in Outstanding
    BY OutstandingIs
<1>2. k \in Outstanding
    BY <1>1 DEF YoungerToo
<1>3. CASE k # r.job_id
    BY <1>2, <1>3
<1>4. CASE k = r.job_id
    <2>1. PICK i \in DOMAIN queue : j = queue[i].job_id
        <3>1. j # r.job_id \/ \E i \in DOMAIN queue : j = queue[i].job_id
            OBVIOUS
        <3> QED
            BY <1>1, <3>1, OutstandingIs
    <2>2. j \in Nat /\ r.job_id \in Nat
        BY <2>1, JobIds
    <2>3. r.job_id < j
        BY <2>1, <2>2 DEF OrderInv, InOrder
    <2> QED
        BY <1>4, <2>2, <2>3
<1> QED
    BY <1>3, <1>4

\* Every step keeps YoungerToo.
LEMMA StepYounger ==
    ASSUME TypeInv, OrderInv, YoungerToo, [Next]_vars PROVE YoungerToo'
<1> DEFINE Gone == {"idle", "respond", "clear"}
<1>1. ASSUME UNCHANGED <<queue, next_job_id, r>>, pc \in Gone <=> pc' \in Gone PROVE YoungerToo'
    <2>1. Outstanding' = Outstanding
        BY <1>1 DEF Outstanding
    <2> QED
        BY <1>1, <2>1 DEF YoungerToo
<1>2. CASE Connect \/ UNCHANGED vars \/ \E c \in Client : Leave(c) \/ AdminCancel(c)
    <2>1. UNCHANGED <<queue, next_job_id, r, pc>>
        BY <1>2 DEF Connect, Leave, AdminCancel, vars, workVars, ringVars, trafficVars
    <2> QED
        BY <1>1, <2>1
<1>3. CASE JobUpdateStatus \/ CancelTest \/ CancelClear \/ Exec
    <2>1. /\ UNCHANGED <<queue, next_job_id, r>> /\ pc \notin Gone /\ pc' \notin Gone
        BY <1>3
        DEF JobUpdateStatus, CancelTest, CancelClear, Exec, Answered, Goto, ringVars, trafficVars
    <2> QED
        BY <1>1, <2>1
<1>4. CASE JobUpdateFind \/ JobUpdateResult \/ Finish
    <2>1. UNCHANGED <<queue, next_job_id, r>> /\ pc \notin Gone
        BY <1>4 DEF JobUpdateFind, JobUpdateResult, Finish, ringVars, trafficVars
    <2>2. CASE pc' \notin Gone
        BY <1>1, <2>1, <2>2
    <2>3. CASE pc' \in Gone
        <3>1. \A j : j \in Outstanding' <=> \E i \in DOMAIN queue : j = queue[i].job_id
            BY <2>1, <2>3 DEF Outstanding
        <3>2. \A j : j \in Outstanding <=>
                \/ \E i \in DOMAIN queue : j = queue[i].job_id
                \/ j = r.job_id
            BY <2>1 DEF Outstanding
        <3> QED
            BY <2>1, <3>1, <3>2, FinishedYounger
    <2> QED
        BY <2>2, <2>3
<1>5. CASE Respond
    BY <1>1, <1>5 DEF Respond, Answered, Goto, ringVars, trafficVars
<1>6. CASE Clear
    <2>1. UNCHANGED <<queue, next_job_id>> /\ pc \in Gone /\ pc' \in Gone
        BY <1>6 DEF Clear, Goto, ringVars, trafficVars
    <2>2. Outstanding' = Outstanding
        BY <2>1 DEF Outstanding
    <2> QED
        BY <2>1, <2>2 DEF YoungerToo
<1>7. CASE Begin
    <2>1. PICK n \in Nat : n = Len(queue)
        BY JobIds
    <2>2. /\ n >= 1 /\ DOMAIN queue = 1..n /\ DOMAIN queue' = 1..n - 1 /\ r' = queue[1]
          /\ \A i \in 1..n - 1 : queue'[i] = queue[i + 1]
        BY <1>7, <2>1 DEF Begin, TypeInv, TypeOK
    <2>3. pc \in Gone /\ pc' \notin Gone /\ next_job_id' = next_job_id
        BY <1>7 DEF Begin, Goto, ringVars
    <2>4. ASSUME NEW j
          PROVE  (\E i \in 1..n : j = queue[i].job_id) <=>
                   (\E i \in 1..n - 1 : j = queue'[i].job_id) \/ j = r'.job_id
        <3>1. 1 \in 1..n /\ \A i \in 1..n - 1 : i + 1 \in 1..n
            BY <2>2
        <3>2. ASSUME NEW i \in 1..n
              PROVE  i = 1 \/ \E k \in 1..n - 1 : queue'[k] = queue[i]
            <4>1. CASE i # 1
                <5>1. i - 1 \in 1..n - 1 /\ (i - 1) + 1 = i
                    BY <2>2, <4>1
                <5>2. queue'[i - 1] = queue[i]
                    BY <2>2, <5>1
                <5> QED
                    BY <5>1, <5>2
            <4> QED
                BY <4>1
        <3> QED
            BY ONLY <2>2, <3>1, <3>2, Zenon
    <2>5. \A j : j \in Outstanding' <=> j \in Outstanding
        <3> SUFFICES ASSUME NEW j PROVE j \in Outstanding' <=> j \in Outstanding
            OBVIOUS
        <3>1. j \in Outstanding <=> \E i \in 1..n : j = queue[i].job_id
            BY <2>2, <2>3, OutstandingIs
        <3>2. Outstanding' = {queue'[i].job_id : i \in 1..n - 1} \union {r'.job_id}
            BY <2>2, <2>3 DEF Outstanding
        <3> QED
            BY <2>4, <3>1, <3>2
    <2> QED
        BY <2>3, <2>5 DEF YoungerToo
<1> QED
    BY <1>2, <1>3, <1>4, <1>5, <1>6, <1>7, SubmitYounger DEF Next, process_request

\* The unfinished jobs have been created.
LEMMA OutstandingCreated ==
    ASSUME TypeInv, OrderInv, NEW j \in Outstanding, j # 0
    PROVE  j \in Nat /\ 0 < j /\ j < next_job_id
<1>1. CASE j = r.job_id
    BY <1>1, JobIds DEF OrderInv, ServedJob
<1>2. ASSUME NEW i \in DOMAIN queue, j = queue[i].job_id PROVE j \in Nat /\ j < next_job_id
    BY <1>2, JobIds DEF OrderInv, InOrder
<1> QED
    BY <1>1, <1>2, OutstandingIs

\* An unfinished job is in the ring unless more than MAX_JOBS are unfinished.
LEMMA UnfinishedInRing ==
    ASSUME TypeInv, OrderInv, YoungerToo, Cardinality(Outstanding \ {0}) <= MAX_JOBS,
           NEW j \in Outstanding \ {0}
    PROVE  InRing(j)
<1>1. PICK x \in Nat, m \in Nat : x = next_job_id /\ m = MaxRequests
    BY JobIds, Sizes
<1>2. j \in Nat /\ 0 < j /\ j < x
    BY <1>1, OutstandingCreated
<1>3. x <= m + 1
    BY <1>1 DEF TypeInv, TypeOK
<1> DEFINE O == Outstanding \ {0}
           I == j..x - 1
<1>4. IsFiniteSet(O)
    <2>1. \A k \in O : k \in 1..m
        <3> SUFFICES ASSUME NEW k \in O PROVE k \in 1..m
            OBVIOUS
        <3>1. k \in Nat /\ 0 < k /\ k < x
            BY <1>1, OutstandingCreated
        <3> QED
            BY <1>3, <3>1
    <2>2. O \subseteq 1..m
        BY <2>1
    <2>3. IsFiniteSet(1..m)
        BY FS_Interval
    <2> QED
        BY <2>2, <2>3, FS_Subset
<1>5. I \subseteq O
    <2> SUFFICES ASSUME NEW k \in I PROVE k \in O
        OBVIOUS
    <2>1. k \in 1..m /\ j <= k /\ k < x /\ k # 0
        BY <1>2, <1>3
    <2> QED
        BY <1>1, <2>1 DEF YoungerToo
<1>6. Cardinality(I) = x - j
    <2>1. Cardinality(I) = IF j > x - 1 THEN 0 ELSE (x - 1) - j + 1
        BY <1>2, FS_Interval
    <2> QED
        BY <1>2, <2>1
<1>7. PICK k \in Nat : k = Cardinality(O)
    <2> HIDE DEF O
    <2> QED
        BY <1>4, FS_CardinalityType
<1>8. x - j <= k
    <2>1. Cardinality(I) <= Cardinality(O)
        <3> HIDE DEF I, O
        <3> QED
            BY <1>4, <1>5, FS_Subset
    <2> QED
        BY <1>6, <1>7, <2>1
<1>9. PICK M \in Nat : M = MAX_JOBS
    BY Sizes
<1>10. k <= M
    BY <1>7, <1>9
<1>11. x <= j + M
    BY <1>2, <1>8, <1>10
<1> QED
    BY <1>1, <1>2, <1>9, <1>11 DEF InRing

-----------------------------------------------------------------------------
(* Together.                                                               *)

RingReport == OrderInv /\ QueuedInv /\ EndInv /\ AnswerInv /\ YoungerToo

\* The sent flag is part of the account of the statistics.
LEMMA SentInvHolds == Spec => []SentInv
<1>1. StatInv => SentInv
    BY DEF StatInv
<1> QED
    BY <1>1, StatInvHolds, PTL

\* What the ring reports is an invariant.
LEMMA RingReportHolds == Spec => []RingReport
<1>1. Init => RingReport
    <2> SUFFICES ASSUME Init PROVE RingReport
        OBVIOUS
    <2>1. DOMAIN queue = {} /\ DOMAIN answers = {} /\ pc = "idle" /\ r.job_id = 0
        BY DEF Init, NoRequest
    <2>2. OrderInv /\ QueuedInv /\ AnswerInv
        BY <2>1 DEF OrderInv, ServedJob, AtJob, SharedSlot, Updating, QueuedInv, AnswerInv
    <2>3. EndInv /\ YoungerToo
        BY <2>1 DEF EndInv, YoungerToo, Outstanding
    <2> QED
        BY <2>2, <2>3 DEF RingReport
<1>2. TypeInv /\ RingInv /\ SentInv /\ RingReport /\ [Next]_vars => RingReport'
    <2> SUFFICES ASSUME TypeInv, RingInv, SentInv, RingReport, [Next]_vars PROVE RingReport'
        OBVIOUS
    <2>1. OrderInv /\ QueuedInv /\ EndInv /\ AnswerInv /\ YoungerToo
        BY DEF RingReport
    <2>2. OrderInv'
        BY <2>1, StepOrderInv
    <2>3. QueuedInv'
        BY <2>1, StepQueuedInv
    <2>4. EndInv'
        BY <2>1, ClientEndInv, WorkerEndInv
    <2>5. AnswerInv'
        BY <2>1, StepAnswerInv
    <2>6. YoungerToo'
        BY <2>1, StepYounger
    <2> QED
        BY <2>2, <2>3, <2>4, <2>5, <2>6 DEF RingReport
<1> QED
    BY <1>1, <1>2, TypeInvHolds, RingInvHolds, SentInvHolds, PTL DEF Spec, Safe

\* While no more jobs are unfinished than the ring has slots all of them are in
\* it, and a job in the ring says QUEUED as long as its request is in the
\* queue, unless it was created in the very slot that job_update was writing
\* to: for any number of clients, whenever they leave (server.c:393-398,
\* 411-419).
THEOREM UnfinishedJobsAreKept == Spec => []RingHoldsOutstanding
<1>1. TypeInv /\ RingInv /\ RingReport => RingHoldsOutstanding
    <2> SUFFICES ASSUME TypeInv, RingInv, RingReport PROVE RingHoldsOutstanding
        OBVIOUS
    <2>1. OrderInv /\ QueuedInv /\ YoungerToo
        BY DEF RingReport
    <2>2. ASSUME Cardinality(Outstanding \ {0}) <= MAX_JOBS, NEW j \in Outstanding \ {0}
          PROVE  job_find(j) # NULL
        <3>1. InRing(j)
            BY <2>1, <2>2, UnfinishedInRing
        <3>2. j \in Nat
            BY <2>1, OutstandingCreated
        <3> QED
            BY <3>1, <3>2, FindInRing
    <2>3. ASSUME NEW i \in DOMAIN queue, NEW j, j = queue[i].job_id, NEW s, s = job_find(j),
                 j > 0, s # NULL, j \notin shared
          PROVE  jobs[s].status = "QUEUED" /\ jobs[s].result = "queued"
        <3>1. j \in Nat /\ j # 0
            BY <2>3, JobIds
        <3>2. InRing(j) /\ s = slot_of(j)
            BY <2>3, <3>1, FoundInRing
        <3> QED
            BY <2>1, <2>3, <3>2 DEF QueuedInv
    <2> QED
        BY <2>2, <2>3 DEF RingHoldsOutstanding
<1> QED
    BY <1>1, TypeInvHolds, RingInvHolds, RingReportHolds, PTL

\* A client that asks for the job it has just been answered about is told the
\* outcome it was answered, with its result, or that there is no such job any
\* more; only a download may still be RUNNING when its file has arrived
\* (server.c:902-915, 857).  However small the ring and whoever left early.
THEOREM AnswersAreRecorded == Spec => []AnsweredJobIsFinal
<1>1. TypeInv /\ RingInv /\ RingReport => AnsweredJobIsFinal
    <2> SUFFICES ASSUME TypeInv, RingInv, RingReport,
                        NEW i \in DOMAIN answers, NEW a, a = answers[i],
                        NEW s, s = respond_job_info(a.client_id, a.job_id),
                        a.job_id > 0, s # NULL, ~(a.op = "download" /\ r.job_id = a.job_id)
                 PROVE  /\ jobs[s].status = IF a.ok THEN "DONE" ELSE "ERROR"
                        /\ jobs[s].result = "response"
        BY DEF AnsweredJobIsFinal
    <2>1. PICK j \in Nat : j = a.job_id /\ j # 0
        BY AnswerIds
    <2>2. s = job_find(j) /\ job_find(j) # NULL
        BY <2>1 DEF respond_job_info
    <2>3. InRing(j) /\ s = slot_of(j)
        BY <2>1, <2>2, FoundInRing
    <2>4. AnswerOK(a)
        BY DEF RingReport, AnswerInv
    <2>5. CASE j # r.job_id
        BY <2>1, <2>3, <2>4, <2>5 DEF AnswerOK, Recorded
    <2>6. CASE j = r.job_id
        <3>1. pc = "clear" /\ a.ok = resp_ok
            BY <2>1, <2>4, <2>6 DEF AnswerOK
        <3>2. Recorded(j, resp_ok)
            BY <2>1, <2>3, <2>6, <3>1 DEF RingReport, EndInv
        <3> QED
            BY <2>3, <3>1, <3>2 DEF Recorded
    <2> QED
        BY <2>5, <2>6
<1> QED
    BY <1>1, TypeInvHolds, RingInvHolds, RingReportHolds, PTL

=============================================================================
