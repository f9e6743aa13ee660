------------------------------ MODULE Transfer ------------------------------
(***************************************************************************)
(* The sessions of the ordinary client (client.c) with the server: the     *)
(* commands of the command line and of the interactive loop, the upload of *)
(* a schema and the download of the generated SQL in chunks, and the       *)
(* server's side of them.  The ordinary thread answers CONNECT, BYE and    *)
(* the job queries itself and queues the rest for the one worker, so the   *)
(* answers to a client that has two requests under way may come in any     *)
(* order.                                                                  *)
(*                                                                         *)
(* A file is the sequence of its chunks <<file, i>>; <<file, 0>> is a      *)
(* chunk written in part.  Messages are whole and in order (Wire).  Each   *)
(* request has its number n, repeated in its answers: only the properties  *)
(* look at it.                                                             *)
(***************************************************************************)
EXTENDS Integers, Sequences, SequencesExt

CONSTANTS
    Clients,
    Files,          \* the files there are
    Local,          \* the files each client may upload
    Chunks,         \* how many chunks each file has
    Schemas,        \* the files that hold an ER diagram in JSON
    Broken,         \* those whose diagram has a bad table or column description
    Commands,       \* the commands of each client, apart from uploads
    SqlChunks,      \* chunks of a generated SQL file
    MaxCommands,    \* bound on the commands of each client
    MaxFaults       \* bound on the local files that each client fails to read or
                    \* write, its being killed, and its being disconnected

\* The commands that one text answers.
TextOps == {"GENERATE_SQL", "VALIDATE_INSERT", "JOB_STATUS"}

ASSUME TransferAssumption ==
    /\ Commands \in [Clients -> SUBSET (TextOps \union {"DOWNLOAD_SQL"})]
    /\ Local \in [Clients -> SUBSET Files]
    /\ Schemas \subseteq Files /\ Broken \subseteq Files \ Schemas
    /\ Chunks \in [Files -> Nat] /\ \A f \in Schemas \union Broken : Chunks[f] > 0
    /\ {MaxCommands, MaxFaults} \subseteq [Clients -> Nat] /\ SqlChunks \in Nat

VARIABLES
    stage,          \* which command line option a client has reached
    pc,             \* what a client waits for
    file, at,       \* the file it uploads, and how many chunks it has sent
    saw_begin, out, \* its download: begun, and the local file so far
    to, from,       \* the two directions of its connection
    commands,       \* how many commands it has started
    asked,          \* how many requests it has sent
    report,         \* what its last command reported as a success
    gave_up,        \* has it left a download before its last message?
    queue, upload,  \* the server: requests, upload files
    schema,         \* the file its diagram is of; of a broken one, the tables
                    \* before the bad description
    answer,         \* what the server did last for that command
    cut,            \* the clients whose connection the admin has shut down
    faults

clientVars == <<stage, pc, file, at, saw_begin, out, commands, asked, report,
                gave_up>>
serverVars == <<queue, upload, schema, cut>>
vars == <<clientVars, to, from, serverVars, answer, faults>>

NoFile == "no file"
content(f) == [i \in 1..Chunks[f] |-> <<f, i>>]
Nothing == [n |-> 0, data |-> <<>>]

\* The options of the command line, in the order in which main acts on them.
Rank == [UPLOAD |-> 1, GENERATE_SQL |-> 2, DOWNLOAD_SQL |-> 3, VALIDATE_INSERT |-> 4]
Repl == 5

Init ==
    /\ stage = [c \in Clients |-> 0] /\ pc = [c \in Clients |-> "connect"]
    /\ file = [c \in Clients |-> NoFile] /\ at = [c \in Clients |-> 0]
    /\ saw_begin = [c \in Clients |-> FALSE] /\ out = [c \in Clients |-> <<>>]
    /\ to = [c \in Clients |-> <<[op |-> "CONNECT", n |-> 1, data |-> <<>>]>>]
    /\ from = [c \in Clients |-> <<>>]
    /\ commands = [c \in Clients |-> 0] /\ asked = [c \in Clients |-> 1]
    /\ report = [c \in Clients |-> Nothing] /\ gave_up = [c \in Clients |-> FALSE]
    /\ answer = [c \in Clients |-> Nothing]
    /\ queue = <<>> /\ upload = [c \in Clients |-> <<>>] /\ schema = NoFile
    /\ faults = [c \in Clients |-> 0] /\ cut = {}

-----------------------------------------------------------------------------
(* The client.                                                             *)

\* Nothing goes wrong, or one more thing does.
fault(c, is) ==
    /\ faults' = [faults EXCEPT ![c] = @ + IF is THEN 1 ELSE 0]
    /\ is => faults[c] < MaxFaults[c]

send_message(c, op, data) ==
    /\ asked' = [asked EXCEPT ![c] = @ + 1]
    /\ to' = [to EXCEPT ![c] = Append(@, [op |-> op, n |-> asked[c] + 1, data |-> data])]

\* A command ends: a failure ends the program before the loop, not in it.
ended(s, ok) == IF ok \/ s = Repl THEN "prompt" ELSE "closed"

\* The end of a command, or of the program, ends its local variables.
locals == <<file, at, saw_begin, out>>
Goes(c, where) ==
    /\ pc' = [pc EXCEPT ![c] = where]
    /\ file' = [file EXCEPT ![c] = NoFile] /\ at' = [at EXCEPT ![c] = 0]
    /\ saw_begin' = [saw_begin EXCEPT ![c] = FALSE] /\ out' = [out EXCEPT ![c] = <<>>]
Return(c, ok) == Goes(c, ended(stage[c], ok))

\* A command is a later option of the command line, or a line of the loop; it
\* may have ended when its request is sent (begun is FALSE).
Start(c, op, begun, where) ==
    /\ pc[c] = "prompt" /\ commands[c] < MaxCommands[c]
    /\ commands' = [commands EXCEPT ![c] = @ + 1]
    /\ report' = [report EXCEPT ![c] = Nothing] /\ answer' = [answer EXCEPT ![c] = Nothing]
    /\ \E s \in {Repl} \union {Rank[o] : o \in {op} \intersect DOMAIN Rank} :
         /\ stage[c] < s \/ s = Repl
         /\ stage' = [stage EXCEPT ![c] = s]
         /\ pc' = [pc EXCEPT ![c] = IF begun THEN where ELSE ended(s, FALSE)]

request_text(c, op) ==
    /\ Start(c, op, TRUE, "text")
    /\ send_message(c, op, <<>>)
    /\ UNCHANGED <<faults, gave_up, locals, from, serverVars>>

upload_file(c, f) ==
    /\ Start(c, "UPLOAD", TRUE, "upload")
    /\ send_message(c, "UPLOAD_BEGIN", <<>>)
    /\ file' = [file EXCEPT ![c] = f]
    /\ UNCHANGED <<faults, gave_up, at, saw_begin, out, from, serverVars>>

\* The request is sent before the local file is created: if that fails the
\* command ends and the server's messages are still to come.
download_sql_file(c) ==
    /\ "DOWNLOAD_SQL" \in Commands[c]
    /\ \E opened \in BOOLEAN :
         /\ fault(c, ~opened)
         /\ Start(c, "DOWNLOAD_SQL", opened, "saving")
         /\ gave_up' = [gave_up EXCEPT ![c] = @ \/ ~opened]
    /\ send_message(c, "DOWNLOAD_SQL", <<>>)
    /\ UNCHANGED <<locals, from, serverVars>>

\* quit, exit and --no-repl.
Bye(c) ==
    /\ pc[c] = "prompt"
    /\ pc' = [pc EXCEPT ![c] = "bye"]
    /\ send_message(c, "BYE", <<>>)
    /\ UNCHANGED <<faults, gave_up, stage, locals, commands, report, from, serverVars, answer>>

\* End of input, a local error that ends the program, or a signal.
Leave(c) ==
    /\ pc[c] # "closed" /\ fault(c, pc[c] # "prompt")
    /\ Goes(c, "closed") /\ from' = [from EXCEPT ![c] = <<>>]
    /\ UNCHANGED <<gave_up, stage, commands, asked, report, to, serverVars, answer>>

\* recv_message: the client takes the next message, whatever it answers.
Recv(c) == from[c] # <<>> /\ from' = [from EXCEPT ![c] = Tail(@)]
Got(c) == Head(from[c])
Success(c, data) == report' = [report EXCEPT ![c] = [n |-> asked[c], data |-> data]]

RecvText(c) ==
    /\ pc[c] \in {"connect", "text"} /\ Recv(c)
    /\ Return(c, Got(c).op = "OK")
    /\ UNCHANGED <<faults, gave_up, stage, commands, asked, report, to, serverVars, answer>>

more(c) == at[c] < Chunks[file[c]]

\* The answer to BEGIN or to a chunk: the next chunk, or END after the last.
RecvUpload(c) ==
    /\ pc[c] = "upload" /\ Recv(c)
    /\ Got(c).op = "OK"
    /\ IF more(c)
       THEN /\ send_message(c, "UPLOAD_CHUNK", <<file[c], at[c] + 1>>)
            /\ at' = [at EXCEPT ![c] = @ + 1] /\ pc' = pc
       ELSE /\ send_message(c, "UPLOAD_END", file[c])
            /\ pc' = [pc EXCEPT ![c] = "end"] /\ at' = at
    /\ UNCHANGED <<faults, gave_up, stage, file, saw_begin, out, commands, report,
                   serverVars, answer>>

\* It is refused, or the local file cannot be read on: no END is sent.
UploadFails(c) ==
    /\ pc[c] = "upload" /\ Recv(c)
    /\ fault(c, Got(c).op = "OK")
    /\ Return(c, FALSE)
    /\ UNCHANGED <<gave_up, stage, commands, asked, report, to, serverVars, answer>>

RecvEnd(c) ==
    /\ pc[c] = "end" /\ Recv(c)
    /\ Return(c, Got(c).op = "OK")
    /\ IF Got(c).op = "OK" THEN Success(c, content(file[c])) ELSE report' = report
    /\ UNCHANGED <<faults, gave_up, stage, commands, asked, to, serverVars, answer>>

RecvDownload(c) ==
    /\ pc[c] = "saving" /\ Recv(c)
    /\ \/ /\ Got(c).op = "DOWNLOAD_BEGIN"
          /\ saw_begin' = [saw_begin EXCEPT ![c] = TRUE]
          /\ UNCHANGED <<pc, file, at, out, report>>
       \/ /\ Got(c).op = "DOWNLOAD_CHUNK" /\ saw_begin[c]
          /\ out' = [out EXCEPT ![c] = Append(@, Got(c).data)]
          /\ UNCHANGED <<pc, file, at, saw_begin, report>>
       \/ /\ Got(c).op = "DOWNLOAD_END"
          /\ Return(c, TRUE) /\ Success(c, out[c])
    /\ UNCHANGED <<faults, gave_up, stage, commands, asked, to, serverVars, answer>>

\* An error or any other message, a chunk too early, or a failed local write.
DownloadFails(c) ==
    /\ pc[c] = "saving" /\ Recv(c)
    /\ \/ Got(c).op \in {"OK", "ERROR"} /\ UNCHANGED <<gave_up, faults>>
       \/ Got(c).op = "DOWNLOAD_CHUNK" /\ ~saw_begin[c] /\ UNCHANGED <<gave_up, faults>>
       \/ /\ Got(c).op = "DOWNLOAD_CHUNK" /\ saw_begin[c] /\ fault(c, TRUE)
          /\ gave_up' = [gave_up EXCEPT ![c] = TRUE]
    /\ Return(c, FALSE)
    /\ UNCHANGED <<stage, commands, asked, report, to, serverVars, answer>>

RecvBye(c) ==
    /\ pc[c] = "bye" /\ Recv(c)
    /\ Goes(c, "closed")
    /\ UNCHANGED <<faults, gave_up, stage, commands, asked, report, to, serverVars, answer>>

\* The server has shut the connection down; what is still on the way may be
\* lost.  In the loop the client goes on with a dead connection.
RecvCut(c) ==
    /\ c \in cut /\ pc[c] \notin {"prompt", "closed"}
    /\ from' = [from EXCEPT ![c] = <<>>]
    /\ IF pc[c] = "bye" THEN Goes(c, "closed") ELSE Return(c, FALSE)
    /\ UNCHANGED <<faults, gave_up, stage, commands, asked, report, to, serverVars, answer>>

-----------------------------------------------------------------------------
(* The server.                                                             *)

\* What is sent to a client that has closed, or that was cut off, is lost.
respond(c, msgs) ==
    from' = IF pc[c] = "closed" \/ c \in cut THEN from ELSE [from EXCEPT ![c] = @ \o msgs]

Message(op, q, data) == [op |-> op, n |-> q.n, data |-> data]

\* The ordinary thread.  A job query may fail; the others never do.
OrdinaryReads(c) ==
    /\ to[c] # <<>>
    /\ to' = [to EXCEPT ![c] = Tail(@)]
    /\ LET q == Head(to[c])
       IN  IF q.op \in {"CONNECT", "BYE", "JOB_STATUS"}
           THEN /\ \E op \in IF q.op = "JOB_STATUS" THEN {"OK", "ERROR"} ELSE {"OK"} :
                      respond(c, <<Message(op, q, <<>>)>>)
                /\ queue' = queue
           ELSE queue' = Append(queue, [q EXCEPT !.data = <<c, q.data>>]) /\ from' = from
    /\ UNCHANGED <<faults, clientVars, upload, schema, answer, cut>>

\* OP_ADMIN_DISCONNECT: an error that nobody asked for, and shutdown.
Disconnect(c) ==
    /\ c \notin cut /\ pc[c] # "closed" /\ fault(c, TRUE)
    /\ \A m \in Range(to[c]) : m.op # "CONNECT"
    /\ respond(c, <<[op |-> "ERROR", n |-> 0, data |-> <<>>]>>)
    /\ cut' = cut \union {c}
    /\ UNCHANGED <<clientVars, to, queue, upload, schema, answer>>

\* The ordinary thread closes it, with what the client has sent meanwhile.
OrdinaryCloses(c) ==
    /\ c \in cut /\ to[c] # <<>>
    /\ to' = [to EXCEPT ![c] = <<>>]
    /\ UNCHANGED <<faults, clientVars, from, serverVars, answer>>

client_id(q) == q.data[1]
payload(q) == q.data[2]

upload_path(c) == c

\* Mutant: BEGIN does not empty the file that an earlier upload left.
upload_begin_Kept(c) == upload

upload_begin(c) == [upload EXCEPT ![upload_path(c)] = <<>>]

append_upload_chunk(c, chunk) == [upload EXCEPT ![upload_path(c)] = Append(@, chunk)]

\* cJSON reads the first value of the text and does not look at the rest.
parsed(text) == {f \in Schemas \union Broken : IsPrefix(content(f), text)}

\* load_er_json drops the old diagram before it reads the first table, so a bad
\* description further on leaves the tables before it, and the answer is an error.
load_answer(f) == IF f \in Schemas THEN "OK" ELSE "ERROR"

sql_of(s) == [i \in 1..SqlChunks |-> <<s, i>>]

Took(q) == queue # <<>> /\ q = Head(queue) /\ queue' = Tail(queue)
Did(q, data) == answer' = [answer EXCEPT ![client_id(q)] = [n |-> q.n, data |-> data]]

\* process_request for the uploads.
ProcessUpload(q) ==
    /\ Took(q)
    /\ LET c == client_id(q)
       IN  \/ /\ q.op = "UPLOAD_BEGIN"
              /\ upload' = upload_begin(c)
              /\ respond(c, <<Message("OK", q, <<>>)>>) /\ Did(q, <<>>) /\ schema' = schema
           \/ /\ q.op = "UPLOAD_CHUNK"
              /\ upload' = append_upload_chunk(c, payload(q))
              /\ respond(c, <<Message("OK", q, <<>>)>>) /\ Did(q, <<>>) /\ schema' = schema
           \/ /\ q.op = "UPLOAD_END" /\ upload' = upload
              /\ LET P == parsed(upload[upload_path(c)])
                 IN  \/ \E f \in P :
                          /\ schema' = f
                          /\ respond(c, <<Message(load_answer(f), q, <<>>)>>)
                          /\ Did(q, IF f \in Schemas THEN content(f) ELSE <<>>)
                     \/ /\ P = {} /\ schema' = schema
                        /\ respond(c, <<Message("ERROR", q, <<>>)>>) /\ Did(q, <<>>)
    /\ UNCHANGED <<faults, clientVars, to, cut>>

\* The commands answered by one text: an INSERT may be refused (ErStore).
ProcessText(q) ==
    /\ Took(q) /\ q.op \in {"GENERATE_SQL", "VALIDATE_INSERT"}
    /\ \E op \in IF q.op = "GENERATE_SQL" THEN {"OK"} ELSE {"OK", "ERROR"} :
         respond(client_id(q), <<Message(op, q, <<>>)>>)
    /\ Did(q, <<>>)
    /\ UNCHANGED <<faults, clientVars, to, upload, schema, cut>>

\* Mutants: a read error ends the transfer as if the file had ended; it ends
\* it without a word; the text of an ordinary answer follows the transfer.
last_message_Done(sent, q) == <<Message("DOWNLOAD_END", q, <<>>)>>
last_message_Silent(sent, q) ==
    IF sent = SqlChunks THEN <<Message("DOWNLOAD_END", q, <<>>)>> ELSE <<>>
last_message_Twice(sent, q) == <<Message("DOWNLOAD_END", q, <<>>), Message("OK", q, <<>>)>>

\* After the chunks sent: the end of the file, or the error of a failed read.
last_message(sent, q) ==
    <<Message(IF sent = SqlChunks THEN "DOWNLOAD_END" ELSE "ERROR", q, <<>>)>>

send_generated_sql_file(q) ==
    /\ Took(q) /\ q.op = "DOWNLOAD_SQL"
    /\ \E sent \in 0..SqlChunks :
         respond(client_id(q),
                 <<Message("DOWNLOAD_BEGIN", q, <<>>)>>
                   \o [i \in 1..sent |-> Message("DOWNLOAD_CHUNK", q, sql_of(schema)[i])]
                   \o last_message(sent, q))
    /\ Did(q, sql_of(schema))
    /\ UNCHANGED <<faults, clientVars, to, upload, schema, cut>>

\* A request the admin has cancelled (Jobs), or a server file that cannot be
\* opened or written: an error, and at most a part of a chunk in the file.
ProcessFails(q) ==
    /\ Took(q)
    /\ respond(client_id(q), <<Message("ERROR", q, <<>>)>>) /\ Did(q, <<>>)
    /\ \/ upload' = upload
       \/ q.op = "UPLOAD_CHUNK"
          /\ upload' = append_upload_chunk(client_id(q), <<payload(q)[1], 0>>)
    /\ UNCHANGED <<faults, clientVars, to, schema, cut>>

-----------------------------------------------------------------------------

Receive(c) ==
    \/ RecvText(c) \/ RecvUpload(c) \/ UploadFails(c) \/ RecvEnd(c)
    \/ RecvDownload(c) \/ DownloadFails(c) \/ RecvBye(c) \/ RecvCut(c)

Worker ==
    \E q \in {queue[i] : i \in 1..Len(queue)} :
        ProcessUpload(q) \/ ProcessText(q) \/ send_generated_sql_file(q) \/ ProcessFails(q)

Next ==
    \/ \E c \in Clients :
         \/ download_sql_file(c) \/ Bye(c) \/ Leave(c)
         \/ \E op \in TextOps \intersect Commands[c] : request_text(c, op)
         \/ \E f \in Local[c] : upload_file(c, f)
         \/ Receive(c) \/ OrdinaryReads(c) \/ OrdinaryCloses(c) \/ Disconnect(c)
    \/ Worker

\* The threads of the server go on, and a client that waits reads what comes.
Fairness ==
    /\ WF_vars(Worker)
    /\ \A c \in Clients : WF_vars(Receive(c)) /\ WF_vars(OrdinaryReads(c))

Spec == Init /\ [][Next]_vars
FairSpec == Spec /\ Fairness

-----------------------------------------------------------------------------

\* Every message of client c that is still under way, in either direction.
Pending(c) ==
    {m.n : m \in Range(to[c]) \union Range(from[c])}
      \union {q.n : q \in {p \in Range(queue) : client_id(p) = c}}

\* request_text "sends a request and waits for the answer": what a client
\* reads belongs to its last request, and at its prompt nothing is on the way,
\* unless it gave up a download whose messages were still to come, or was cut off.
InSync ==
    \A c \in Clients \ cut : ~gave_up[c] =>
        /\ pc[c] = "prompt" => Pending(c) = {}
        /\ pc[c] # "closed" => Pending(c) \subseteq {asked[c]}

\* What a client reports is what the server did for that request: an upload
\* confirmed is the client's whole file parsed by load_er_json, and a file
\* "saved" is the whole SQL of generate_sql; again unless it gave up a download.
ReportsTrue ==
    \A c \in Clients : ~gave_up[c] => report[c] \in {Nothing, answer[c]}

\* The diagram is replaced only when the END of an upload is processed, and by
\* the tables of the very file that this client has sent whole, never by what an
\* earlier upload or another client left behind (server.c:836-850).  Of a file
\* with a bad description these are the tables before it, and the END that fails
\* has replaced the old diagram all the same.
DiagramIsTheUpload ==
    [][schema' # schema =>
         LET c == client_id(Head(queue))
         IN  /\ Head(queue).op = "UPLOAD_END"
             /\ ~gave_up[c] => schema' = payload(Head(queue))]_vars

\* Every command comes back to the prompt, or the client is gone.
CommandReturns ==
    \A c \in Clients : pc[c] # "prompt" ~> pc[c] \in {"prompt", "closed"}
=============================================================================
