# A TLA+ verification of sql-code-generator

This directory models the server of sql-code-generator in TLA+, checks the
models with TLC on small instances, and proves the central results with TLAPS
for every size. Paths below are relative to the repository root,
`src/server.c` being the server and `src/model.c` the ER model.

## The system

A server accepts ER diagrams as JSON, generates `CREATE TABLE` statements for
them, and validates batches of `INSERT` statements against the diagram and the
rows accepted so far. Ordinary clients talk to it over one port, a single
admin over another. One process runs four threads and forks a child per batch:

| Part | State it keeps | Operations | Interacts with |
|---|---|---|---|
| Request queue and threads (`server.c`) | linked list `head`/`tail`, mutex, condition variable, `g_running`, `queue_depth` | `queue_push`, `queue_pop`, `worker_main`, the two interface loops, signal handler, shutdown in `main` | ordinary thread pushes, worker pops, `main` joins |
| Job tracking and cancellation (`server.c`, `model.h`) | ring `jobs[128]`, `last_job_by_client[128]`, `cancel_client_id`, the active command, statistics | `job_create`, `job_update`, `job_find`, `respond_job_info`, `process_request`, `OP_ADMIN_CANCEL` | written by ordinary, worker and admin thread without a lock |
| ER store and validator (`model.c`) | `tables[32]` with columns and rows | `load_er_json`, `generate_sql`, `validate_insert_batch`, `apply_insert_batch`, `child_validate_insert` | written by the worker, read by the child process and by the admin reports |
| Connections and client table (`server.c`) | poll arrays, `clients[128]`, address table, `next_client_id` | `accept_client`, `register_client`, `remove_pollfd`, CONNECT, BYE, admin disconnect | ordinary and admin thread, kernel descriptor table; the worker answers on stored descriptors |
| Admin channel (`server.c`, `admin_client.c`) | `admin_fd`, `admin_last`, block list; the client's menu | login, reports, disconnect, cancel, block, timeout, goodbye | reads everything, writes cancellation and block list |
| Wire protocol (`protocol.c`) | none | `read_full`, `write_full`, `send_message`, `recv_message` | every socket |
| File transfer and ordinary client (`client.c`, `server.c`) | upload file per client id, generated file, one connection and the loop of the client | `request_text`, `upload_file`, `download_sql_file`, `append_upload_chunk`, `send_generated_sql_file` | the ordinary thread queues its requests, the worker answers |
| Configuration (`server.c`) | `g_cfg` | `cfg_load`: defaults, file, environment, arguments | before the threads start |
| History and reports | circular history, counters | `history_add`, `admin_report` | three writers, no lock |
| Python client, logging, documentation tools | | | the first sends the sequences of `client.c`, the others only write |

What is hard to test here: the interleaving of the threads around the queue,
the stop signal that may arrive between any two instructions, shared state
written without locks, pointers and descriptor numbers that are kept while
somebody else may reuse what they stand for, tables of fixed size at their
limit, and operations of several steps that fail in the middle.

## Modules

| Module | What it is |
|---|---|
| `RequestFifo` | what the request queue promises, without locks or pointers |
| `RequestQueue` | the queue, its mutex and condition variable, the four threads and the shutdown |
| `RequestQueueProofs` | the safety properties of `RequestQueue` and the refinement of `RequestFifo`, proved |
| `Jobs` | the job ring, `process_request` and cancellation |
| `JobsProofs` | types, statistics, cancellation, and what the ring tells about jobs, proved |
| `ErStore` | loading a schema, validating and applying batches, the generated SQL |
| `ErStoreProofs` | its types, constraints, all-or-nothing and the validator against the SQL, proved |
| `Connections` | descriptors, the client and address tables, the ordinary and the admin thread on them |
| `ConnectionsProofs` | the safety properties of its passing run, proved |
| `MessageChannel` | what `send_message` and `recv_message` promise: whole messages in order |
| `Wire` | headers and payloads cut into pieces by `write` and `recv`; refines `MessageChannel` |
| `WireProofs` | the safety half of that refinement, proved |
| `Transfer` | sessions of ordinary clients: commands, uploads and downloads in chunks, and the server's side of them |
| `TransferProofs` | its three safety properties, proved |
| `AdminSession` | the admin's loop with its clock and timeout, and runs of the admin client |
| `AdminSessionProofs` | its four safety properties, proved |
| `Config` | the sources of the configuration and their precedence |
| `ConfigProofs` | its two properties, proved |
| `MC_*` | instances for TLC; `MC_ErStore` holds a small copy of `examples/er_schema.json` |

`RequestQueue`, `Jobs`, `ErStore` and `Connections`, whose tables, counters
and races can go out of range, have a type invariant of their own; in the
smaller modules the other properties look at every variable that could.

Definitions named `X_Something` next to a definition `X`, with a comment that
begins with "Mutant", are plausible wrong versions of `X`. They are used by no
specification; substituting one for `X` must make TLC report the property that
it is paired with in `PROJECT.json`. They show that the properties can fail.

Each module takes from the one below it what that one promises: `Wire` turns
bytes into whole messages in order, which `Transfer`, `AdminSession` and
`Connections` take as their connections; `RequestQueue` implements the FIFO
that `Jobs`, `Transfer` and `Connections` have as `queue`; and `Transfer` and
`Jobs` leave to `ErStore` whether a batch is accepted.

### RequestQueue

A request is its number in the order of allocation, 0 is `NULL`. `opc`, `wpc`,
`apc`, `mpc` say where the ordinary, worker, admin and main thread are; every
access to shared memory between two synchronisation points is a step. The
signal handler is a step that can happen at any time. `pthread_cond_wait`
releases the mutex and begins to wait in one step, may wake spuriously, and
returns through a second acquisition. The ghosts `linked`, `taken`, `served`
count, they guide no step. Processing of a request is one step here; `Jobs`
has its steps. Thread creation failing at start-up is left out.

Run `queue` (four requests): the list is exactly the queue (`ListIsQueue`),
the statistic does not drift (`DepthExact`), the worker never sleeps through a
push or through the shutdown (`NoLostWakeup`), the mutex is destroyed last
(`DestroySafe`), every step is a step of `RequestFifo` or changes nothing of
it (`ImplementsFifo`), a linked request is served unless the server stops, and
the shutdown completes. Three requests already give every shape of the list:
one in processing, a list of one and a list of two.

Fairness: weak fairness of each thread, nothing about the order in which the
mutex is granted; strong fairness of the end of a scan, because a scan visits
a bounded array; and `PeerFairness`, that a peer completes the frame it began,
or closes, and takes its answer. The last is an assumption about the peers:
the sockets block and have no timeout, so one silent peer in the middle of a
frame stops the ordinary thread and with it the shutdown.

### Jobs

The three threads write `SharedState` without a lock, so `job_update` is three
steps (find, status, result) and the cancellation is tested and cleared in
different steps. `job_create` and the push are one step: until the push nobody
else knows the job, and a write through an old pointer in between leaves what
the same write leaves afterwards. The queue is the FIFO that `RequestQueue` is
proved to implement. Operations differ by how they are answered: `plain` ones
have no job, `exec` ones are answered after the job has been recorded, and a
`download` that succeeds is its own answer, before it. Clients behave like
`client.c`: one request, then its answer; `LeaveEarly` lets them go away while
they wait. Times and texts are left out.

Run `jobs` is the hostile instance: a ring of two slots, one place in the
client table, three client ids of which the last has no entry in
`last_job_by_client`, three requests, two cancellations, clients that leave
while they wait. Jobs that are queued or running are overwritten in it, by
early leavers and by downloads that are answered before their job is updated.

- Unfinished jobs are in the ring as long as there are no more of them than
  slots, and a job whose request is queued says QUEUED
  (`RingHoldsOutstanding`). The exception is named by the ghost `shared`: a job
  created in the very slot whose pointer `job_update` holds is written by the
  late update (`src/server.c:411-419`).
- An answered job says how it ended, or is gone (`AnsweredJobIsFinal`).
- "last" finds the latest job for the clients whose id indexes
  `last_job_by_client` (`LastResolvesInTable`).
- The next command of a client whose cancellation was acknowledged is rejected
  (`CancelHonoured`); a cancellation rejects at most one command and only its
  client's (`CancelAtMostOnce`).
- Each request is answered (`EveryRequestAnswered`, under weak fairness of the
  worker, which assumes that its answers do not block), whether its job was
  overwritten or its client has gone, and the statistics agree with the
  answers (`StatisticsMatchAnswers`).

`cancel_client_id` holds one id. `CancelHonoured` says what that leaves: a
cancellation is kept if none was pending when it came, and no other client's
came before it was tested. Two acknowledged cancellations are lost otherwise: a
pending one when a second overwrites it (`src/server.c:1144`), and one that
comes between the worker's test and its reset, which is wiped with the one
carried out (`src/server.c:810-814`).

Run `jobs_last` is violated: ids grow with every CONNECT, and from
`LAST_TABLE` (128 in the code) on they have no entry in `last_job_by_client`.
For such a client "last" is never found (`src/server.c:404`, `430`), though
`README.md:95-96` promises it to everybody.

Deadlock is not checked in these runs: once the bounded number of requests has
been answered, the server rightly waits for ever.

### ErStore

A table has a name, columns and rows; a value is a text or `NULL`. An upload
is read in steps, one table and one relation at a time, because the admin
thread can see the store in between and a bad table ends the load with the
tables read so far; columns beyond `MAX_COLUMNS` and tables beyond
`MAX_TABLES` are not looked at. `child_validate_insert` validates in the child,
or fails; `apply_insert_batch` validates again and stores one row per step. A
row is appended without a test, as in the code. One behind `rows[MAX_ROWS]` is
undefined behaviour: it is stored, and the model ends there in the phase
`undefined`. JSON and SQL are read by cJSON and pg_query; an upload is given as
its table descriptions, each well formed or not, and a payload as its tuples.
The column map of more than `MAX_COLUMNS` listed columns is left out.

Run `store_integrity` (tables and rows limited to two, columns to three, three
uploads of which one fails half way, one has too many tables and one too many
columns, all batches of one and two of nine tuples and the malformed ones):

- at every step the rows satisfy the clauses of the SQL that `generate_sql`
  writes for the schema (`ConstraintsKept`), and a batch is applied whole or
  not at all (`InsertAllOrNothing`). Neither says anything of a store that a
  row was written behind;
- what the validator decides agrees with those clauses
  (`ValidatorAgreesWithSql`). They are stated of a finished store, without the
  order of its rows, so the comparison shows where the validator is stricter
  than SQL: a row that refers to itself, or to a row further down, which SQL
  allows within one statement, is refused (`RefersAhead`), and so is a row for
  a full table. There are no other differences. The types of the columns are no
  part of it: neither the validator nor the model looks at them;
- the tables and columns stay within their arrays (`TypeOK`); the rows do not.

Run `store_capacity` is violated: the capacity test does not count the rows of
the batch itself (`src/model.c:878`), so that a batch of two rows for a table
with one free place is stored (`WithinStorage`). A known limit beside it: the
payloads write `NULL`, for `null` in lower case is taken for a text and passes
as the value of a NOT NULL column (`src/model.c:576`).

### Connections

Connections are numbered as they are made; `conn` is the kernel's table, from
descriptor to connection, and `accept` returns the lowest free descriptor, as
the kernel does. `remove_pollfd` is run by the ordinary and by the admin
thread and is seven steps: `close`; then `client_remove_fd`, which finds the
entry, clears it, tests `client_count`, loads it and stores it
(`src/server.c:608-618`); then `fd_addr_remove` with the poll vector.
`register_client` is four: the `fd` that takes the slot, the id and address, and
the load and store of the counter. A separate test and load cover both builds,
the one that loads the counter once and the one that loads it twice. The
ghosts `turned` and `stray` record who was refused service and whose answer went
to somebody else, `cut` who was closed while it waited, `struck` whose entry the
admin thread has found or cleared. The scans of the client table, `fd_addr_set`
and `fd_addr_remove` are one step each. Peers send whole messages and CONNECT
once, like `client.c`. The timeout may strike at any moment. The poll vector is
a set: its order decides only who is served first. Commands of the admin
that are refused, login and reports change nothing and are left out, and so
are the descriptors of the files and pipes the worker opens.

Run `connections_table` (three descriptors, three connections, two addresses,
an admin that comes, goes and disconnects, clients that leave while they
wait):

- the client table lists no closed and no wrong connection except in the named
  windows, and no connection twice (`ClientTableTrue`);
- the admin's poll vector has room (`AdminVectorFits`);
- the client count is the number of entries whenever the ordinary thread waits
  (`ClientCountExact`), as long as no removal of the admin's descriptor has
  matched a client's entry. That is the only way for the two threads to come
  to change the counter together. After it the count may be wrong, and
  negative: both threads may pass the test `> 0` and then take their
  decrements. It falls as low as -2 in this run, and never lower (`TypeOK`);
- a registered client is told to CONNECT first only if the admin thread found
  or cleared its entry (`MembersServedUnlessStruck`);
- an answer goes to another connection only if its sender's was closed while
  the sender waited (`AnswerToSenderUnlessCut`);
- what has hung up is closed and forgotten (`DeadForgotten`). Fairness: each
  thread finishes the removal it began, and `poll` keeps reporting a connection
  that hung up, so it is handled in the end; nothing is assumed about
  accepting, about the peers or about the worker.

The three "unless" are what the code cannot promise, and two runs show it:

- `connections_members` (violated): `remove_pollfd` closes the descriptor before
  it clears the tables (`src/server.c:945-956`), so a client that is given the
  number of the leaving admin, and registers, is removed from the table by the
  admin thread, though it is connected.
- `connections_answer` (violated): with clients that leave early the reuse of
  a descriptor number sends an answer to a stranger.

The admin thread also shuts down the descriptor it looked up a moment before,
which may be another client's by then (`src/server.c:1126-1132`). TLC uses one
assignment of addresses, in which successive connections differ; the theorems
hold for all of them.

With three connections the admin and two clients are open together, or one of
them comes after another has gone and gets its number; deadlock is not
checked, since the bounded number of connections is used up in the end.

### Wire and MessageChannel

The stream is a sequence of units, each marked with its message, its part and
its place, so that a receiver that puts a message together from the wrong
units has the message `Corrupt`. A `write` moves any number of the units that
are left and that the buffer has room for, a `recv` any number of those that
are there. The sender may close, or its process end, between any two units,
and what is still under way may then be lost. Header two units, payloads of
none, two and three of which three are too long, a buffer of three, four
messages: every cut of a message falls into a header, between header and
payload, and into a payload, with the buffer full and not.

Run `wire`: `received` and `sent` implement `MessageChannel`, with its
liveness; that includes that no message is delivered twice, in part, or after
the receiver has given up. `send_message` returns (`SendReturns`), under weak
fairness of the writer and of the receiver. The latter assumes a peer that
reads or closes, which both clients do; the server's sockets have no timeout
that would enforce it. There is one writer. Two threads can write to one
socket, for `OP_ADMIN_DISCONNECT` sends its error from the admin thread
(`src/server.c:1131`) while the worker may be sending an answer to the same
client: their units then mix, and the client, which is shut down next, may
read a broken message instead of the error. The model takes the error as a
whole message (`Transfer`).

### Transfer

A client is at a place of its program: `stage` is the option of the command
line it has reached (`main` acts on them in a fixed order) or the loop, `pc`
the message it waits for. `request_text`, `upload_file` and
`download_sql_file` are one action for the request and one for each message
received, with their local failures: a file that cannot be created, read or
written, and a client that is killed. On the server the ordinary thread
answers CONNECT, BYE and the job queries itself and queues the rest, and the
worker runs the branches of `process_request` for them. A file is a sequence
of chunks, and `parsed` is what cJSON makes of one: the first value in it. The
admin may disconnect a client at any point: an error that nobody asked for
arrives, and the connection is dead (`cut`). A client that has left the
command line's options behind goes on in its loop with a dead or refused
connection, like the code.

Run `transfer`: two clients with two and one commands; client 1 may upload a
diagram of two chunks or one with a bad table, download and ask for its job,
client 2 uploads another diagram or inserts. Client 1 suffers one fault at
most. Requests and answers stay paired (`InSync`); a reported success is what
the server did for that request (`ReportsTrue`); the diagram changes only at
the END of an upload, and comes from the whole file that this very client has
sent (`DiagramIsTheUpload`); and every command comes back to the prompt or ends
the client (`CommandReturns`), under weak fairness of the server's threads and
of a client that waits. Two chunks are enough for the first, a middle and the
last answer of an upload; two clients for the files to be confused and the
queue to mix; one command before another for a leftover of the first to meet
the second, and three commands of a single client show nothing new.

The END of a file with a bad table or column is answered with an error, and
has replaced the diagram all the same: `load_er_json` drops the old one first
and leaves the tables before the bad one (`src/model.c:384`,
`src/server.c:841`). `schema` is then that file, for its prefix; `ErStore` has
the tables.

A known limit is excluded by name. `gave_up` marks a client that left a
download before its last message: `download_sql_file` sends its request before
it creates the local file, and returns in the middle when a write fails
(`src/client.c:206-209`, `src/client.c:234-239`). The server's messages stay
in the socket and the loop takes them for the answers of the next commands.
All three safety properties exclude such a client; `CommandReturns` does not.

### AdminSession

The clock is relative: `idle` is `time(NULL) - admin_last` in seconds, capped
at `MaxIdle`, and a tick is possible while `poll` waits (one second at most),
in `recv_message` on half a message, or anywhere else at most `MaxDelay` times
a round: the thread has other work to do and may not be scheduled. A round is
`poll`, the timeout test, the listening socket, the admin's descriptor, in the
code's order. Runs of the admin client log in, make one request or open the
menu, and say goodbye, or fail, or are killed, also with half a message
written. A login that is refused, or sent with a wrong token, is left out: the
client sends the one fixed token, and the server would answer and change
nothing.

Run `admin_session` (two runs, timeout of two seconds, delay of one): the open
connection is the one the thread knows (`OpenIsAdmin`); an idle admin is
dropped after `admin_timeout_sec + 1 + 2 * MaxDelay` seconds at the latest
(`IdleDropped`), and a message sent earlier than `2 * MaxDelay` before the
timeout is never lost to it although the test comes first (`ActiveKept`); TLC
refutes both bounds when they are one second tighter. A new admin is refused
only because of one that has not said goodbye (`RefusedForOther`). It may be
refused because of one that is gone: the listening socket is scanned first, so
the hang-up of an admin that exited without goodbye is seen after the newcomer
of the same `poll`. Each request of the client comes back
(`EveryAdminAnswered`). Fairness: the thread, reading clients, and that half a
message is completed or its sender goes away. The last is an assumption about
the peer: half a message holds the thread in `recv_message`, where no timeout
is tested.

### Config

An input is an argument vector, an environment and a file system; the run
`config` takes every vector of up to three of eight texts, all pairs of two
options with good, bad and misleading values, four environments, three file
systems, and both builds (with and without libconfig). The arguments are
scanned twice, first for `-c`, as in the code. `PrecedenceKept` compares the
result with the order of the sources stated at once, `OnlyOptionsStart` says
which arguments start the server. Limits of the code that the first property
excludes by name (`Plain`) or repeats:

- the two scans disagree when `-c` is the value of another option (`-p -c
  file`);
- the fallback parser takes a setting from a comment, for it looks for words
  anywhere in the line;
- with libconfig the timeout has no upper limit, from every other source it is
  86400, and one bad line refuses the whole file, where the fallback parser
  skips the line.

## Proofs

`RequestQueueProofs` proves, for every value of `MaxRequests`: `TypeCorrect`,
`ListCorrect`, `DepthCorrect`, `WakeupCorrect`, `DestroyCorrect` and
`Refinement`. The properties are not inductive by themselves. `IInv` adds who
holds the mutex at which place (`MutexHeld`: without it push and pop could
interleave), what the counters owe each other in the middle of an operation
(`Counts`), what the worker has seen and may still rely on (`WorkerSaw`: an
`enterwait` worker holds the mutex and saw an empty list, and main has not yet
broadcast) and the order of the shutdown (`ShutdownOrder`). One lemma per
thread shows that its steps preserve `IInv`. The refinement maps the list to
the sequence `taken+1 .. linked`, which `ListIsQueue` justifies.

The other proof modules are built the same way: a type invariant and a few
named conjuncts, each of which says what one part of the program relies on in
the middle of an operation; a lemma per action, or group of actions, that they
are preserved; and the theorems at the end. TLC checked each inductive
invariant on the instance of its run before it was proved. All constants are
arbitrary within the `ASSUME` of the module, and except for the one writer of
`WireIsChannel` no theorem has a further hypothesis about them.

**Jobs.** `JobsTypeCorrect`, `StatisticsCorrect`, `CancelCorrect`,
`CancelIsHonoured`, `LastJobResolves`, `UnfinishedJobsAreKept` and
`AnswersAreRecorded`: with clients that leave early, full tables, ids beyond
`last_job_by_client`, rings smaller than the number of clients and any number
of cancellations.

- Types need that a busy worker has a request and that job ids grow no faster
  than requests are submitted, which bounds `last_job_by_client`.
- `StatInv` and `SentInv`: a request has one answer when it is done, and at
  every step of the worker the counters owe exactly what `Unanswered`,
  `Uncounted`, `FailureDue` and `CancelDue` say.
- `CancelInv` and `OwedInv`: a cancellation the worker has seen and not yet
  cleared, and one that is pending, are each covered by an acknowledgement not
  used up; and a cancellation that is owed is the one pending.
- `RingInv` and `LastInv`: a job whose id is one of the last `MAX_JOBS` sits in
  the slot its id gives it, and a client whose id indexes the table has its
  latest job noted.
- `OrderInv`: the ids in the queue are in order and younger than the worker's,
  so the unfinished jobs fit the ring only if the oldest does (`YoungerToo`);
  and where `job_update` keeps a pointer, a job in that slot is the worker's or
  in `shared`. `QueuedInv`, `EndInv` and `AnswerInv` say what is recorded of a
  job before and after its answer.

**ErStore.** `StoreTypeCorrect`, `ConstraintsCorrect`, `InsertsAreWhole` and
`ValidatorAgrees`, for any schemas, payloads and limits. `InputAssumption`
says what cJSON and pg_query may give. Because
`validate_insert_batch` runs before `apply_insert_batch`, which stores one row
per step, the invariant is about the batch as well as the store: `BatchFits`;
`Pending`, that every row left would still be accepted against the store as it
is now; `Unloaded`, that there are no rows while a schema is being read; and
`RowsKept`, the clauses cell by cell. `AppliedInv` adds that the store is what
it was before the batch and the rows so far. For `ValidatorAgrees` the store
after the first `k` rows of a batch is described by the place of each row in
it (`SpotOrder`, `RowsAfterIs`), and the test of a row by `row_ok` is compared
with the clauses of that store, and of the whole one.

**Connections.** `ConnectionsTypeCorrect`, `TableIsTrue`,
`AdminVectorIsBounded`, `CountIsExact`, `MembersAreServed` and
`AnswersReachTheirSender`, with two threads that close descriptors and change
the tables and the counter step by step without a lock, and an admin that
comes, leaves, times out and disconnects.

- `KernelInv` says which connection is open on which descriptor, `OrdinaryInv`
  and `AdminInv` what each thread in the middle of a removal or a registration
  knows, `AddressInv` and `TableInv` what the tables say outside the windows;
  with the types they are `IInv`. `IdInv` bounds the ids by the connections
  that have one.
- `HighInv` and `LowInv` bound the counter: a lost decrement keeps a value that
  was no greater than the number of members, and a thread begins a decrement
  only from a counter it has seen above zero, so that each of the two can take
  it one below what the other has stored. The four together are `Inv`.
- `ExactInv`: as long as the admin's removals have matched no entry (`struck`),
  the admin thread is in none of the steps that change table and counter, and
  what the ordinary thread has loaded is the counter.
- `ServedInv`: a member that has its descriptor, and whose entry the admin
  thread has not met, is in the table.
- `SentInv`: the descriptor of a request, queued or with the worker, is its
  sender's until the sender is cut off.

**Wire.** `WireIsChannel`: with one writer, `Spec` implements
`MessageChannel!Spec`, for any sizes and any cut of the messages. `InOrder`
says that the units of the stream follow each other, begin with the one the
reader awaits and end where the writer goes on; so a header that is half read
is always that of the message next in order, and its length is the right one.
The hypothesis `Writers = {w}` is the model's one writer (see Wire).

**Transfer.** `ClientsStayInSync`, `ReportsAreTrue` and
`DiagramsComeFromUploads`, for any number of clients, commands, files and
chunks. For every client that has not given up a download, `SentInv` says that
at most one request of it is anywhere in the server, `FromInv` that what is
under way answers it (`AnswerFits`, `Arriving`), `FileInv` that the upload
file of its id holds the chunks sent so far, `EndInv` and `ReportInv` what an
END and a report stand for. The clients' invariants are independent of each
other, and that is why the proof carries over to any number of them.

**AdminSession.** `OneAdmin`, `IdleAdminDropped`, `ActiveAdminKept` and
`RefusedOnlyForOther`, for any timeout and any delay. `Listening` and
`OneOpen` are about the sockets, `Dialogue` about who has to speak, `Timing`
bounds `idle` by what the round has left to do, and `Fresh` says that a
message that `poll` has not reported in this round was sent in this round or
in the last one.

**Config.** `OnlyOptionsStarted` needs that the scan for options is always at
an odd place (`AtOption`). `PrecedenceIsKept` follows `cfg_load` from source
to source (`LoadInv`): at each step a field has the value of the last valid
text among the places read so far in the source being read, or else that of an
earlier source. The search for the path of the file steps by one where the
scan for options steps by two; `Plain` is what makes the two meet. The
assumption `ConfigAssumption` gives the shape of the inputs: texts, and lines
with a key.

Only model-checked, and why:

- liveness, since the prover does not handle fairness: `EveryRequestServed`,
  `ShutdownCompletes`, `EveryRequestAnswered`, `DeadForgotten`,
  `CommandReturns`, `SendReturns`, `EveryAdminAnswered`, and the liveness half
  of `ImplementsChannel`;
- `WithinStorage`, `LastResolves`, `MembersServed` and `AnswerToSender`, which
  the code violates.

Every safety invariant and every action property of the passing runs is stated
by a theorem.

## Not modelled, and plan

All modules of the plan are written and their safety properties proved. What
could be added: the second OP_CONNECT of one connection in `Connections`, and
a `Wire` with two writers, whose mixed messages would be a known limit like
the others.

Not modelled:

- a connection that sends OP_CONNECT twice: it takes two slots of the client
  table and frees one. No client of the repository does it;
- two threads inside `send_message` on one socket (see Wire);
- the history: `history_add` is called by three threads without a lock, so two
  entries can take one place and the count can lose one. It holds formatted
  lines for the admin's report and guides nothing;
- reports, login and the other requests that change no state, except that they
  are answered (`AdminSession`);
- interrupted system calls (tried again, no effect), failing `malloc` and
  `pthread_create`, sockets that cannot be opened at start-up, a full listen
  queue;
- logging, the ncurses drawing, the Python client beyond the sequences it
  shares with the command line of `client.c`, `tools/md_to_pdf.py`, cJSON and
  libpg_query.
