-------------------------------- MODULE Jobs --------------------------------
(***************************************************************************)
(* Job tracking and command cancellation in server.c.  Three threads share *)
(* SharedState without a lock: the ordinary thread creates jobs in a ring  *)
(* of MAX_JOBS slots, the worker updates them while it processes their     *)
(* requests, and the admin thread asks for cancellations.                  *)
(*                                                                         *)
(* The queue is the FIFO that RequestQueue implements.  Clients are their   *)
(* ids, and behave like client.c: one request at a time, the next one only *)
(* after the answer; with LeaveEarly they may also go away while waiting.  *)
(***************************************************************************)
EXTENDS Naturals, Sequences, FiniteSets

CONSTANTS
    MAX_JOBS,       \* slots of the ring
    MAX_CLIENTS,    \* slots of the client table
    LAST_TABLE,     \* entries of last_job_by_client
    MaxConnected,   \* how many clients come at the same time
    MaxClients,     \* bound on the ids given to clients
    MaxRequests,    \* bound on the requests submitted
    MaxCancels,     \* bound on the cancellations acknowledged
    LeaveEarly      \* may a client leave while it waits for an answer?

ASSUME JobsAssumption ==
    /\ {MAX_JOBS, MAX_CLIENTS, LAST_TABLE} \subseteq Nat \ {0}
    /\ {MaxConnected, MaxClients, MaxRequests, MaxCancels} \subseteq Nat
    /\ LeaveEarly \in BOOLEAN

NULL == MAX_JOBS                        \* the slot job_find returns for nothing
Client == 1..MaxClients
Slot == 0..MAX_JOBS - 1

\* UPLOAD_BEGIN, UPLOAD_CHUNK and unknown operations are "plain", the others
\* are told apart by how they are answered.
Op == {"plain", "exec", "download"}
is_processing_op(op) == op # "plain"

Request == [client_id : Client, op : Op, job_id : 0..MaxRequests]
Status == {"", "QUEUED", "RUNNING", "DONE", "ERROR"}
Result == {"", "queued", "running", "response"}
Job == [job_id : 0..MaxRequests, client_id : 0..MaxClients, status : Status, result : Result]
Answer == [client_id : Client, op : Op, job_id : 0..MaxRequests, ok : BOOLEAN]

VARIABLES
    next_client_id, connected, registered,  \* the clients
    next_job_id, jobs, last_job_by_client,  \* the job ring
    queue,                                  \* requests not yet taken, oldest first
    pc, r, slot, resp_ok, response_sent,    \* process_request and job_update
    active_client_id, cancel_client_id,
    total_commands, failed_commands, cancelled_commands,
    submitted, waiting,     \* how many requests, and who waits for an answer
    answers,                \* the answers sent, in order
    shared,                 \* jobs created in the slot the worker was updating
    acked, granted, owed    \* cancellations: acknowledged, carried out, due

clientVars == <<next_client_id, connected, registered>>
ringVars == <<next_job_id, jobs, last_job_by_client>>
workVars == <<pc, r, slot, resp_ok, response_sent, active_client_id>>
statVars == <<total_commands, failed_commands, cancelled_commands>>
cancelVars == <<cancel_client_id, acked, granted, owed>>
trafficVars == <<queue, submitted, waiting, answers>>
vars == <<clientVars, ringVars, shared, workVars, statVars, cancelVars, trafficVars>>

NoRequest == [client_id |-> 0, op |-> "plain", job_id |-> 0]
NoJob == [job_id |-> 0, client_id |-> 0, status |-> "", result |-> ""]

Init ==
    /\ next_client_id = 1 /\ connected = {} /\ registered = {}
    /\ next_job_id = 1
    /\ jobs = [s \in Slot |-> NoJob]
    /\ last_job_by_client = [c \in 0..LAST_TABLE - 1 |-> 0]
    /\ pc = "idle" /\ r = NoRequest /\ slot = NULL
    /\ resp_ok = TRUE /\ response_sent = FALSE
    /\ active_client_id = 0 /\ cancel_client_id = 0
    /\ total_commands = 0 /\ failed_commands = 0 /\ cancelled_commands = 0
    /\ queue = <<>> /\ submitted = 0 /\ waiting = {} /\ answers = <<>>
    /\ shared = {}
    /\ acked = [c \in Client |-> 0] /\ granted = [c \in Client |-> 0] /\ owed = {}

-----------------------------------------------------------------------------
(* The ordinary thread.                                                    *)

\* OP_CONNECT: the id is given in any case, the registration silently fails
\* when the table is full.
Connect ==
    /\ next_client_id <= MaxClients
    /\ Cardinality(connected) < MaxConnected
    /\ connected' = connected \union {next_client_id}
    /\ next_client_id' = next_client_id + 1
    /\ registered' = IF Cardinality(registered) < MAX_CLIENTS
                     THEN registered \union {next_client_id} ELSE registered
    /\ UNCHANGED <<ringVars, shared, workVars, statVars, cancelVars, trafficVars>>

\* OP_BYE or a lost connection; a request of the client stays in the queue.
Leave(c) ==
    /\ c \in connected
    /\ c \in waiting => LeaveEarly
    /\ connected' = connected \ {c}
    /\ registered' = registered \ {c}
    /\ waiting' = waiting \ {c}
    /\ UNCHANGED <<next_client_id, ringVars, shared, workVars, statVars, cancelVars,
                   queue, submitted, answers>>

slot_of(j) == j % MAX_JOBS

\* Mutant: the first job of a client stays its last one.
note_last_FirstOnly(c, j) ==
    last_job_by_client' = IF c < LAST_TABLE /\ last_job_by_client[c] = 0
                          THEN [last_job_by_client EXCEPT ![c] = j] ELSE last_job_by_client

\* Mutant: the id is read after the increment.
note_last_LateRead(c, j) ==
    last_job_by_client' = IF c < LAST_TABLE
                          THEN [last_job_by_client EXCEPT ![c] = j + 1] ELSE last_job_by_client

\* Only ids that index the table have a last job.
note_last(c, j) ==
    last_job_by_client' = IF c < LAST_TABLE
                          THEN [last_job_by_client EXCEPT ![c] = j] ELSE last_job_by_client

\* Where job_update holds the pointer that job_find returned.
Updating == {"statusRun", "resultRun", "statusEnd", "resultEnd"}

\* job_create: the new job takes its slot over from whatever job had it.
job_create(c) ==
    /\ shared' = IF pc \in Updating /\ slot = slot_of(next_job_id)
                 THEN shared \union {next_job_id} ELSE shared
    /\ next_job_id' = next_job_id + 1
    /\ jobs' = [jobs EXCEPT ![slot_of(next_job_id)] =
                  [job_id |-> next_job_id, client_id |-> c,
                   status |-> "QUEUED", result |-> "queued"]]
    /\ note_last(c, next_job_id)

\* A request for the worker: the job first, then the push.
Submit(c, op) ==
    /\ submitted < MaxRequests
    /\ c \in registered
    /\ c \notin waiting
    /\ IF is_processing_op(op) THEN job_create(c) ELSE UNCHANGED <<ringVars, shared>>
    /\ queue' = Append(queue, [client_id |-> c, op |-> op,
                  job_id |-> IF is_processing_op(op) THEN next_job_id ELSE 0])
    /\ submitted' = submitted + 1
    /\ waiting' = waiting \union {c}
    /\ UNCHANGED <<clientVars, workVars, statVars, cancelVars, answers>>

\* OP_JOB_STATUS and OP_JOB_RESULT change nothing.  parse_job_id_payload for
\* an empty payload or "last", and what respond_job_info finds (0: nothing).
parse_last(c) == IF c < LAST_TABLE THEN last_job_by_client[c] ELSE 0
job_find(j) == IF \E s \in Slot : jobs[s].job_id = j
               THEN CHOOSE s \in Slot : jobs[s].job_id = j ELSE NULL
respond_job_info(c, j) ==
    IF j > 0 /\ job_find(j) # NULL /\ jobs[job_find(j)].client_id = c
    THEN job_find(j) ELSE NULL

-----------------------------------------------------------------------------
(* The worker: process_request.                                            *)

Goto(l) == pc' = l

\* The request is taken and becomes the active command.
Begin ==
    /\ pc = "idle"
    /\ queue # <<>>
    /\ r' = Head(queue) /\ queue' = Tail(queue)
    /\ active_client_id' = Head(queue).client_id
    /\ resp_ok' = TRUE /\ response_sent' = FALSE
    /\ Goto(IF Head(queue).job_id > 0 THEN "findRun" ELSE "cancelTest")
    /\ UNCHANGED <<slot, shared, clientVars, ringVars, statVars, cancelVars,
                   submitted, waiting, answers>>

\* job_update in three steps: job_find; the status; the result.  The pointer
\* found may be to a slot that is taken over before it is written.

AfterUpdate == IF pc \in {"findRun", "resultRun"} THEN "cancelTest" ELSE "respond"

\* Mutant: the job updated is the client's last one.
found_Last == job_find(parse_last(r.client_id))

found == job_find(r.job_id)

\* Mutant: every job that ended is DONE.
final_status_Done == "DONE"

final_status == IF resp_ok THEN "DONE" ELSE "ERROR"

JobUpdateFind ==
    /\ pc \in {"findRun", "findEnd"}
    /\ slot' = found
    /\ Goto(IF found = NULL THEN AfterUpdate
            ELSE IF pc = "findRun" THEN "statusRun" ELSE "statusEnd")
    /\ UNCHANGED <<shared, r, resp_ok, response_sent, active_client_id, clientVars, ringVars,
                   statVars, cancelVars, trafficVars>>

JobUpdateStatus ==
    /\ pc \in {"statusRun", "statusEnd"}
    /\ jobs' = [jobs EXCEPT ![slot].status =
                  IF pc = "statusRun" THEN "RUNNING" ELSE final_status]
    /\ Goto(IF pc = "statusRun" THEN "resultRun" ELSE "resultEnd")
    /\ UNCHANGED <<shared, r, slot, resp_ok, response_sent, active_client_id, clientVars,
                   next_job_id, last_job_by_client, statVars, cancelVars, trafficVars>>

JobUpdateResult ==
    /\ pc \in {"resultRun", "resultEnd"}
    /\ jobs' = [jobs EXCEPT ![slot].result =
                  IF pc = "resultRun" THEN "running" ELSE "response"]
    /\ Goto(AfterUpdate)
    /\ UNCHANGED <<shared, r, slot, resp_ok, response_sent, active_client_id, clientVars,
                   next_job_id, last_job_by_client, statVars, cancelVars, trafficVars>>

\* The cancellation is tested, and cleared in a later step.
CancelTest ==
    /\ pc = "cancelTest"
    /\ \/ /\ cancel_client_id = r.client_id
          /\ resp_ok' = FALSE
          /\ Goto("cancelClear")
       \/ /\ cancel_client_id # r.client_id
          /\ resp_ok' = resp_ok
          /\ Goto("exec")
    /\ UNCHANGED <<shared, r, slot, response_sent, active_client_id, clientVars, ringVars,
                   statVars, cancelVars, trafficVars>>

\* Mutant: the cancellation stays pending.
CancelClear_Stays ==
    /\ pc = "cancelClear"
    /\ cancelled_commands' = cancelled_commands + 1
    /\ cancel_client_id' = cancel_client_id
    /\ granted' = [granted EXCEPT ![r.client_id] = @ + 1]
    /\ owed' = owed \ {r.client_id}
    /\ Goto("finish")
    /\ UNCHANGED <<shared, r, slot, resp_ok, response_sent, active_client_id, clientVars, ringVars,
                   total_commands, failed_commands, acked, trafficVars>>

CancelClear ==
    /\ pc = "cancelClear"
    /\ cancelled_commands' = cancelled_commands + 1
    /\ cancel_client_id' = 0
    /\ granted' = [granted EXCEPT ![r.client_id] = @ + 1]
    /\ owed' = owed \ {r.client_id}
    /\ Goto("finish")
    /\ UNCHANGED <<shared, r, slot, resp_ok, response_sent, active_client_id, clientVars, ringVars,
                   total_commands, failed_commands, acked, trafficVars>>

Answered(ok) ==
    /\ answers' = Append(answers, [client_id |-> r.client_id, op |-> r.op,
                                   job_id |-> r.job_id, ok |-> ok])
    /\ waiting' = waiting \ {r.client_id}
    /\ UNCHANGED <<queue, submitted>>

\* The operation itself, which may fail.  A download that succeeds has by then
\* sent the whole file: it is its own answer.
Exec ==
    /\ pc = "exec"
    /\ \E ok \in BOOLEAN :
         /\ resp_ok' = ok
         /\ \/ /\ r.op = "download" /\ ok
               /\ response_sent' = TRUE
               /\ Answered(TRUE)
            \/ /\ ~(r.op = "download" /\ ok)
               /\ UNCHANGED <<response_sent, trafficVars>>
    /\ Goto("finish")
    /\ UNCHANGED <<shared, r, slot, active_client_id, clientVars, ringVars, statVars, cancelVars>>

Finish ==
    /\ pc = "finish"
    /\ total_commands' = total_commands + 1
    /\ failed_commands' = IF resp_ok THEN failed_commands ELSE failed_commands + 1
    /\ Goto(IF r.job_id > 0 THEN "findEnd" ELSE "respond")
    /\ UNCHANGED <<shared, r, slot, resp_ok, response_sent, active_client_id, clientVars, ringVars,
                   cancelled_commands, cancelVars, trafficVars>>

\* Mutant: response_sent is not looked at.
Respond_Always ==
    /\ pc = "respond"
    /\ Answered(resp_ok)
    /\ Goto("clear")
    /\ UNCHANGED <<shared, r, slot, resp_ok, response_sent, active_client_id, clientVars, ringVars,
                   statVars, cancelVars>>

\* Mutant: only a client that is still there is answered.
Respond_Present ==
    /\ pc = "respond"
    /\ IF response_sent \/ r.client_id \notin registered
       THEN UNCHANGED trafficVars ELSE Answered(resp_ok)
    /\ Goto("clear")
    /\ UNCHANGED <<shared, r, slot, resp_ok, response_sent, active_client_id, clientVars, ringVars,
                   statVars, cancelVars>>

Respond ==
    /\ pc = "respond"
    /\ IF response_sent THEN UNCHANGED trafficVars ELSE Answered(resp_ok)
    /\ Goto("clear")
    /\ UNCHANGED <<shared, r, slot, resp_ok, response_sent, active_client_id, clientVars, ringVars,
                   statVars, cancelVars>>

\* Mutant: the end of a command also clears a cancellation meant for the next.
Clear_Both ==
    /\ pc = "clear"
    /\ active_client_id' = 0 /\ cancel_client_id' = 0
    /\ r' = NoRequest /\ slot' = NULL
    /\ resp_ok' = TRUE /\ response_sent' = FALSE
    /\ Goto("idle")
    /\ UNCHANGED <<shared, clientVars, ringVars, statVars, acked, granted, owed, trafficVars>>

Clear ==
    /\ pc = "clear"
    /\ active_client_id' = IF active_client_id = r.client_id THEN 0 ELSE active_client_id
    /\ r' = NoRequest /\ slot' = NULL
    /\ resp_ok' = TRUE /\ response_sent' = FALSE
    /\ Goto("idle")
    /\ UNCHANGED <<shared, clientVars, ringVars, statVars, cancelVars, trafficVars>>

-----------------------------------------------------------------------------
(* The admin thread: OP_ADMIN_CANCEL answered with "cancel requested".     *)

TotalAcked == Cardinality({p \in Client \X (1..MaxCancels) : p[2] <= acked[p[1]]})

AdminCancel(c) ==
    /\ TotalAcked < MaxCancels
    /\ active_client_id = c \/ c \in registered
    /\ cancel_client_id' = c
    /\ acked' = [acked EXCEPT ![c] = @ + 1]
    /\ owed' = IF cancel_client_id = 0 THEN {c} ELSE owed \intersect {c}
    /\ UNCHANGED <<shared, granted, clientVars, ringVars, workVars, statVars, trafficVars>>

-----------------------------------------------------------------------------
process_request ==
    \/ Begin \/ JobUpdateFind \/ JobUpdateStatus \/ JobUpdateResult
    \/ CancelTest \/ CancelClear \/ Exec \/ Finish \/ Respond \/ Clear

Next ==
    \/ Connect
    \/ \E c \in Client : Leave(c) \/ AdminCancel(c) \/ \E op \in Op : Submit(c, op)
    \/ process_request

Safe == Init /\ [][Next]_vars

\* The worker thread goes on with the request it has, and takes the next one.
Spec == Safe /\ WF_vars(process_request)

-----------------------------------------------------------------------------
(* Properties.                                                             *)

TypeOK ==
    /\ next_client_id \in 1..MaxClients + 1
    /\ connected \subseteq Client /\ registered \subseteq connected
    /\ next_job_id \in 1..MaxRequests + 1
    /\ jobs \in [Slot -> Job]
    /\ last_job_by_client \in [0..LAST_TABLE - 1 -> 0..MaxRequests]
    /\ queue \in Seq(Request)
    /\ pc \in {"idle", "findRun", "statusRun", "resultRun", "cancelTest", "cancelClear",
               "exec", "finish", "findEnd", "statusEnd", "resultEnd", "respond", "clear"}
    /\ r \in Request \union {NoRequest}
    /\ slot \in Slot \union {NULL}
    /\ resp_ok \in BOOLEAN /\ response_sent \in BOOLEAN
    /\ active_client_id \in 0..MaxClients /\ cancel_client_id \in 0..MaxClients
    /\ total_commands \in Nat /\ failed_commands \in Nat /\ cancelled_commands \in Nat
    /\ submitted \in 0..MaxRequests /\ waiting \subseteq Client
    /\ answers \in Seq(Answer)
    /\ shared \subseteq 1..MaxRequests
    /\ acked \in [Client -> Nat] /\ granted \in [Client -> Nat] /\ owed \subseteq Client

\* The jobs of the requests the worker has not finished with.
Outstanding ==
    {queue[i].job_id : i \in DOMAIN queue} \union
    (IF pc \in {"idle", "respond", "clear"} THEN {} ELSE {r.job_id})

\* While no more jobs are unfinished than the ring has slots, all of them are
\* in it: job_create takes over the slot of unfinished work only when there is
\* no finished job left (server.c:393-398).  A job in the ring whose request is
\* still in the queue says QUEUED, unless it was created in the very slot that
\* job_update held a pointer to: no other late update of an overwritten job
\* lands in its slot (server.c:411-419).
RingHoldsOutstanding ==
    /\ Cardinality(Outstanding \ {0}) <= MAX_JOBS =>
         \A j \in Outstanding \ {0} : job_find(j) # NULL
    /\ \A i \in DOMAIN queue :
         LET j == queue[i].job_id
             s == job_find(j)
         IN  j > 0 /\ s # NULL /\ j \notin shared =>
               jobs[s].status = "QUEUED" /\ jobs[s].result = "queued"

\* A client that asks for the job it has just been answered about is told the
\* outcome it was answered, with its result; only a download may still be
\* RUNNING when its file has arrived (server.c:902-915, 857).
AnsweredJobIsFinal ==
    \A i \in DOMAIN answers :
        LET a == answers[i]
            s == respond_job_info(a.client_id, a.job_id)
        IN  a.job_id > 0 /\ s # NULL /\ ~(a.op = "download" /\ r.job_id = a.job_id) =>
              /\ jobs[s].status = IF a.ok THEN "DONE" ELSE "ERROR"
              /\ jobs[s].result = "response"

\* Between two requests the statistics account for every answer: each request
\* taken was answered once, and the failures are the answers with OP_ERROR,
\* the cancelled ones among them (server.c:893-915).
StatisticsMatchAnswers ==
    pc = "idle" =>
        /\ submitted = Len(answers) + Len(queue)
        /\ total_commands = Len(answers)
        /\ failed_commands = Cardinality({i \in DOMAIN answers : ~answers[i].ok})
        /\ cancelled_commands <= failed_commands

\* An acknowledged cancellation rejects at most one command, and only of the
\* client it was asked for, however often the admin and the worker interleave
\* between the test of cancel_client_id and its reset (server.c:810-814, 1143).
CancelAtMostOnce ==
    \A c \in Client : granted[c] <= acked[c]

\* The command that is rejected or executed next for a client whose
\* cancellation was acknowledged is rejected (docs/SRS.md:37), when none was
\* pending at the time (server.c:1144), and none for another client came since:
\* cancel_client_id has room for one, a second overwrites it, or is wiped with
\* it between the worker's test and its reset (server.c:810-814).
CancelHonoured ==
    [][\A c \in Client : c \in owed /\ r.client_id = c /\ pc = "cancelTest"
           => pc' # "exec"]_vars

\* The slot has the latest job in the ring of its client, who is connected.
LatestOfClient(s) ==
    /\ jobs[s].client_id \in registered
    /\ \A t \in Slot : jobs[t].client_id = jobs[s].client_id => jobs[t].job_id <= jobs[s].job_id

\* "status" and "result" without a job id find the client's latest job, as
\* long as the ring has it, whatever its client's id (README.md:95-96); the
\* ids outgrow last_job_by_client (server.c:404, 430).
LastResolves ==
    \A s \in Slot : LatestOfClient(s) =>
        respond_job_info(jobs[s].client_id, parse_last(jobs[s].client_id)) = s

\* They do for the clients whose ids index last_job_by_client, however many
\* came before and after, left, or went once around the ring (server.c:405, 430).
LastResolvesInTable ==
    \A s \in Slot : LatestOfClient(s) /\ jobs[s].client_id < LAST_TABLE =>
        respond_job_info(jobs[s].client_id, parse_last(jobs[s].client_id)) = s

\* Every request that was submitted is answered, whether its client is still
\* there or not: as long as answers are due, the next one comes (the queue is
\* first in, first out; server.c:897-915).
EveryRequestAnswered ==
    \/ []<>(Len(answers) = submitted)
    \/ []<><<answers' # answers>>_answers
=============================================================================
