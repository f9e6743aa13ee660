--------------------------- MODULE TransferProofs ---------------------------
(***************************************************************************)
(* Proofs about Transfer, for any clients, files, faults and numbers of    *)
(* commands: a client is in step with the server, what it reports is true, *)
(* and the diagram is replaced only by the file that an upload has sent.   *)
(***************************************************************************)
EXTENDS Transfer, SequenceTheorems, TLAPS

-----------------------------------------------------------------------------
(* What can be under way for a client.                                       *)

AnyFile == Files \union {NoFile}
Data == {<<>>} \union AnyFile \union (AnyFile \X Nat)
Ops == TextOps \union {"CONNECT", "BYE", "UPLOAD_BEGIN", "UPLOAD_CHUNK", "UPLOAD_END",
                       "DOWNLOAD_SQL", "DOWNLOAD_BEGIN", "DOWNLOAD_CHUNK", "DOWNLOAD_END",
                       "OK", "ERROR"}
Messages == [op : Ops, n : Nat, data : Data]
Requests == [op : Ops, n : Nat, data : Clients \X Data]
States == {"connect", "prompt", "text", "upload", "end", "saving", "bye", "closed"}

TypeInv ==
    /\ pc \in [Clients -> States] /\ asked \in [Clients -> Nat]
    /\ file \in [Clients -> AnyFile] /\ at \in [Clients -> Nat]
    /\ saw_begin \in [Clients -> BOOLEAN] /\ gave_up \in [Clients -> BOOLEAN]
    /\ DOMAIN out = Clients /\ DOMAIN report = Clients /\ DOMAIN answer = Clients
    /\ DOMAIN upload = Clients
    /\ to \in [Clients -> Seq(Messages)] /\ from \in [Clients -> Seq(Messages)]
    /\ queue \in Seq(Requests) /\ cut \in SUBSET Clients /\ schema \in AnyFile

\* The places of a client in the queue; whether the server owes it an answer.
Mine(c) == {i \in 1..Len(queue) : client_id(queue[i]) = c}
Answered(c) == to[c] = <<>> /\ Mine(c) = {}

\* The answers that wait for a client, without the admin's last word.
Rest(c) == Len(from[c]) - (IF c \in cut /\ from[c] # <<>> THEN 1 ELSE 0)

\* The first k chunks of a file.
FirstChunks(f, k) == [i \in 1..k |-> <<f, i>>]

\* A request of this kind is the one that the client waits for.
Fits(c, op, n, data) ==
    /\ pc[c] # "prompt" /\ n = asked[c]
    /\ pc[c] = "connect" => op = "CONNECT"
    /\ pc[c] = "bye" => op = "BYE"
    /\ pc[c] = "text" => op \in TextOps
    /\ pc[c] = "end" => op = "UPLOAD_END" /\ data = file[c]
    /\ pc[c] = "saving" => op = "DOWNLOAD_SQL" /\ ~saw_begin[c] /\ out[c] = <<>>
    /\ pc[c] = "upload" =>
         \/ op = "UPLOAD_BEGIN" /\ at[c] = 0
         \/ /\ op = "UPLOAD_CHUNK" /\ at[c] > 0 /\ data = <<file[c], at[c]>>
            /\ upload[c] = FirstChunks(file[c], at[c] - 1)

SentFits(c, k) == Fits(c, to[c][k].op, to[c][k].n, to[c][k].data)
QueuedFits(c, i) == Fits(c, queue[i].op, queue[i].n, payload(queue[i]))

\* A client that is not cut off has sent at most one request that has no
\* answer yet, and waits for that answer.
SentInv(c) ==
    c \notin cut /\ pc[c] # "closed" =>
        /\ \A k \in 1..Len(to[c]) : k = 1 /\ Mine(c) = {} /\ SentFits(c, k)
        /\ \A i \in Mine(c) : QueuedFits(c, i) /\ \A j \in Mine(c) : j = i

\* The rest of the download of the first e chunks of file s, of which the
\* client has o; b is 1 if its first message is still to come.
Arriving(c, s, e, o, b) ==
    /\ o <= e /\ b = (IF saw_begin[c] THEN 0 ELSE 1) /\ (b = 1 => o = 0)
    /\ out[c] = FirstChunks(s, o)
    /\ answer[c] = [n |-> asked[c], data |-> FirstChunks(s, SqlChunks)]
    /\ Rest(c) = b + (e - o) + 1
    /\ b = 1 => from[c][1].op = "DOWNLOAD_BEGIN"
    /\ \A j \in 1..(e - o) :
         from[c][b + j].op = "DOWNLOAD_CHUNK" /\ from[c][b + j].data = <<s, o + j>>
    /\ from[c][b + (e - o) + 1].op = IF e = SqlChunks THEN "DOWNLOAD_END" ELSE "ERROR"

\* What an answer that has come says of the server.
AnswerFits(c) ==
    /\ pc[c] # "saving" => Rest(c) = 1
    /\ pc[c] = "upload" /\ from[c][1].op = "OK" => upload[c] = FirstChunks(file[c], at[c])
    /\ pc[c] = "end" /\ from[c][1].op = "OK" =>
         answer[c] = [n |-> asked[c], data |-> content(file[c])]
    /\ pc[c] = "saving" =>
         \/ Rest(c) = 1 /\ from[c][1].op = "ERROR"
         \/ \E s \in AnyFile, e \in 0..SqlChunks, o \in 0..SqlChunks, b \in 0..1 :
              Arriving(c, s, e, o, b)

FromInv(c) ==
    pc[c] # "closed" =>
        /\ c \in cut /\ from[c] # <<>> => from[c][Len(from[c])].op = "ERROR"
        /\ Rest(c) > 0 =>
             /\ Answered(c) /\ pc[c] # "prompt" /\ AnswerFits(c)
             /\ \A j \in 1..Rest(c) : from[c][j].n = asked[c]

\* Its local variables last as long as the command that has them.
FileInv(c) ==
    /\ pc[c] \in {"upload", "end"} => file[c] \in Files /\ at[c] <= Chunks[file[c]]
    /\ pc[c] \notin {"upload", "end"} => at[c] = 0
    /\ pc[c] # "saving" => ~saw_begin[c] /\ out[c] = <<>>

\* The END of an upload is processed before anything else of its client, and
\* the server then has the whole file; true also of a client that is gone.
Whole(c, f) == f \in Files /\ upload[c] = content(f)
SentWhole(c, k) == Whole(c, to[c][k].data)
QueuedWhole(c, i) == Whole(c, payload(queue[i]))
EndInv(c) ==
    /\ \A k \in 1..Len(to[c]) : to[c][k].op = "UPLOAD_END" =>
         k = 1 /\ Mine(c) = {} /\ SentWhole(c, k)
    /\ \A i \in Mine(c) : queue[i].op = "UPLOAD_END" =>
         QueuedWhole(c, i) /\ \A j \in Mine(c) : ~(j < i)

\* Only a command that has ended has a report.  Once it has one nothing is under way
\* that changes the server's last answer.
ReportInv(c) ==
    report[c] # Nothing =>
        /\ pc[c] \in {"prompt", "bye", "closed"} /\ report[c] = answer[c] /\ Mine(c) = {}
        /\ \A k \in 1..Len(to[c]) : to[c][k].op = "BYE"

Steady(c) == SentInv(c) /\ FromInv(c) /\ FileInv(c) /\ EndInv(c) /\ ReportInv(c)
ClientsInv == \A c \in Clients : ~gave_up[c] => Steady(c)
IInv == TypeInv /\ ClientsInv

-----------------------------------------------------------------------------
(* Types.                                                                    *)

\* The messages are messages.
LEMMA MessageType ==
    ASSUME NEW op \in Ops, NEW n \in Nat, NEW data \in Data
    PROVE  [op |-> op, n |-> n, data |-> data] \in Messages
    BY DEF Messages

\* Chunks and files are data.
LEMMA DataType ==
    /\ <<>> \in Data
    /\ \A f \in AnyFile : f \in Data
    /\ \A f \in AnyFile, k \in Nat : <<f, k>> \in Data
    BY DEF Data

\* send_message puts one message more on the way.
LEMMA SendType ==
    ASSUME TypeInv, NEW c \in Clients, NEW op \in Ops, NEW data \in Data,
           send_message(c, op, data)
    PROVE  /\ to' \in [Clients -> Seq(Messages)] /\ asked' \in [Clients -> Nat]
           /\ asked' = [asked EXCEPT ![c] = asked[c] + 1]
           /\ \A d \in Clients : d # c => to'[d] = to[d]
           /\ to'[c] = Append(to[c], [op |-> op, n |-> asked'[c], data |-> data])
<1>1. asked' \in [Clients -> Nat] /\ asked' = [asked EXCEPT ![c] = asked[c] + 1]
    BY DEF send_message, TypeInv
<1>2. PICK m \in Messages : m = [op |-> op, n |-> asked[c] + 1, data |-> data]
    <2>1. asked[c] + 1 \in Nat
        BY DEF TypeInv
    <2> QED
        BY <2>1, MessageType
<1>3. to' = [to EXCEPT ![c] = Append(to[c], m)] /\ to \in [Clients -> Seq(Messages)]
    BY <1>2 DEF send_message, TypeInv
<1>4. asked'[c] = asked[c] + 1
    BY <1>1 DEF TypeInv
<1> QED
    BY <1>1, <1>2, <1>3, <1>4

\* The ends of commands.
LEMMA EndsType ==
    ASSUME NEW c \in Clients, NEW ok
    PROVE  ended(stage[c], ok) \in {"prompt", "closed"}
    BY DEF ended

\* What the client keeps for itself; the connection; the server.
LocalType ==
    /\ pc \in [Clients -> States] /\ asked \in [Clients -> Nat]
    /\ file \in [Clients -> AnyFile] /\ at \in [Clients -> Nat]
    /\ saw_begin \in [Clients -> BOOLEAN] /\ gave_up \in [Clients -> BOOLEAN]
    /\ DOMAIN out = Clients /\ DOMAIN report = Clients
WireType == to \in [Clients -> Seq(Messages)] /\ from \in [Clients -> Seq(Messages)]
ServerType ==
    /\ DOMAIN answer = Clients /\ DOMAIN upload = Clients
    /\ queue \in Seq(Requests) /\ cut \in SUBSET Clients /\ schema \in AnyFile

\* Goes resets the local variables and Start the answers.
LEMMA GoesType ==
    ASSUME TypeInv, NEW c \in Clients, NEW where \in States, Goes(c, where)
    PROVE  /\ pc' \in [Clients -> States] /\ pc'[c] = where
           /\ file' \in [Clients -> AnyFile] /\ at' \in [Clients -> Nat]
           /\ saw_begin' \in [Clients -> BOOLEAN] /\ DOMAIN out' = Clients
           /\ \A d \in Clients : d # c =>
                /\ pc'[d] = pc[d] /\ file'[d] = file[d] /\ at'[d] = at[d]
                /\ saw_begin'[d] = saw_begin[d] /\ out'[d] = out[d]
    BY DEF Goes, TypeInv, AnyFile

\* The same of Return, which ends a command.
LEMMA ReturnType ==
    ASSUME TypeInv, NEW c \in Clients, NEW ok, Return(c, ok)
    PROVE  /\ pc' \in [Clients -> States] /\ pc'[c] \in {"prompt", "closed"}
           /\ file' \in [Clients -> AnyFile] /\ at' \in [Clients -> Nat]
           /\ saw_begin' \in [Clients -> BOOLEAN] /\ DOMAIN out' = Clients
           /\ \A d \in Clients : d # c =>
                /\ pc'[d] = pc[d] /\ file'[d] = file[d] /\ at'[d] = at[d]
                /\ saw_begin'[d] = saw_begin[d] /\ out'[d] = out[d]
<1>1. PICK w \in {"prompt", "closed"} : w = ended(stage[c], ok)
    BY EndsType
<1>2. w \in States /\ Goes(c, w)
    BY <1>1 DEF States, Return
<1> QED
    BY <1>1, <1>2, GoesType

\* Start moves the client from its prompt.
LEMMA StartType ==
    ASSUME TypeInv, NEW c \in Clients, NEW op, NEW begun \in BOOLEAN, NEW where \in States,
           Start(c, op, begun, where)
    PROVE  /\ pc[c] = "prompt" /\ pc' \in [Clients -> States]
           /\ begun => pc'[c] = where
           /\ DOMAIN report' = Clients /\ report'[c] = Nothing
           /\ DOMAIN answer' = Clients /\ answer'[c] = Nothing
           /\ \A d \in Clients : d # c =>
                pc'[d] = pc[d] /\ report'[d] = report[d] /\ answer'[d] = answer[d]
<1>1. PICK s : pc' = [pc EXCEPT ![c] = IF begun THEN where ELSE ended(s, FALSE)]
    BY DEF Start
<1>2. PICK w \in States : w = (IF begun THEN where ELSE ended(s, FALSE)) /\ (begun => w = where)
    BY DEF ended, States
<1>3. pc' = [pc EXCEPT ![c] = w] /\ pc \in [Clients -> States]
    BY <1>1, <1>2 DEF TypeInv
<1>4. DOMAIN report' = Clients /\ DOMAIN answer' = Clients /\ report'[c] = Nothing
      /\ answer'[c] = Nothing /\ pc[c] = "prompt"
      /\ \A d \in Clients : d # c => report'[d] = report[d] /\ answer'[d] = answer[d]
    BY DEF Start, TypeInv
<1> QED
    BY <1>2, <1>3, <1>4

\* respond sends to one client, or to nobody.
LEMMA RespondType ==
    ASSUME TypeInv, NEW c \in Clients, NEW msgs \in Seq(Messages), respond(c, msgs)
    PROVE  /\ from' \in [Clients -> Seq(Messages)]
           /\ \A d \in Clients : d # c => from'[d] = from[d]
           /\ pc[c] # "closed" /\ c \notin cut => from'[c] = from[c] \o msgs
           /\ pc[c] = "closed" \/ c \in cut => from'[c] = from[c]
    BY DEF respond, TypeInv

\* Recv takes the first message.
LEMMA RecvType ==
    ASSUME TypeInv, NEW c \in Clients, Recv(c)
    PROVE  /\ from[c] # <<>> /\ from'[c] = Tail(from[c])
           /\ from' \in [Clients -> Seq(Messages)]
           /\ \A d \in Clients : d # c => from'[d] = from[d]
           /\ Got(c) = from[c][1] /\ Got(c) \in Messages
    BY DEF Recv, TypeInv, Got

\* The client's requests keep the types.
LEMMA RequestsType ==
    ASSUME TypeInv, NEW c \in Clients,
           \/ \E op \in TextOps : request_text(c, op)
           \/ \E f \in Files : upload_file(c, f)
           \/ download_sql_file(c) \/ Bye(c)
    PROVE  TypeInv'
<1>1. CASE \E op \in TextOps : request_text(c, op)
    <2>1. PICK op \in TextOps : request_text(c, op)
        BY <1>1
    <2>2. Start(c, op, TRUE, "text") /\ send_message(c, op, <<>>)
        BY <2>1 DEF request_text
    <2>3. "text" \in States /\ op \in Ops /\ <<>> \in Data
        BY DEF States, Ops, Data
    <2>4. pc' \in [Clients -> States] /\ DOMAIN report' = Clients /\ DOMAIN answer' = Clients
        BY <2>2, <2>3, StartType
    <2>5. to' \in [Clients -> Seq(Messages)] /\ asked' \in [Clients -> Nat]
        BY <2>2, <2>3, SendType
    <2> QED
        BY <2>1, <2>4, <2>5 DEF request_text, TypeInv, locals, serverVars
<1>2. CASE \E f \in Files : upload_file(c, f)
    <2>1. PICK f \in Files : upload_file(c, f)
        BY <1>2
    <2>2. Start(c, "UPLOAD", TRUE, "upload") /\ send_message(c, "UPLOAD_BEGIN", <<>>)
        BY <2>1 DEF upload_file
    <2>3. "upload" \in States /\ "UPLOAD_BEGIN" \in Ops /\ <<>> \in Data
        BY DEF States, Ops, Data
    <2>4. pc' \in [Clients -> States] /\ DOMAIN report' = Clients /\ DOMAIN answer' = Clients
        BY <2>2, <2>3, StartType
    <2>5. to' \in [Clients -> Seq(Messages)] /\ asked' \in [Clients -> Nat]
        BY <2>2, <2>3, SendType
    <2> QED
        BY <2>1, <2>4, <2>5 DEF upload_file, TypeInv, serverVars, AnyFile
<1>3. CASE download_sql_file(c)
    <2>1. PICK opened \in BOOLEAN :
            /\ Start(c, "DOWNLOAD_SQL", opened, "saving")
            /\ gave_up' = [gave_up EXCEPT ![c] = @ \/ ~opened]
        BY <1>3 DEF download_sql_file
    <2>2. send_message(c, "DOWNLOAD_SQL", <<>>)
        BY <1>3 DEF download_sql_file
    <2>3. "saving" \in States /\ "DOWNLOAD_SQL" \in Ops /\ <<>> \in Data
        BY DEF States, Ops, Data
    <2>4. pc' \in [Clients -> States] /\ DOMAIN report' = Clients /\ DOMAIN answer' = Clients
        BY <2>1, <2>3, StartType
    <2>5. to' \in [Clients -> Seq(Messages)] /\ asked' \in [Clients -> Nat]
        BY <2>2, <2>3, SendType
    <2>6. gave_up' \in [Clients -> BOOLEAN]
        BY <2>1 DEF TypeInv
    <2> QED
        BY <1>3, <2>4, <2>5, <2>6 DEF download_sql_file, TypeInv, serverVars, locals
<1>4. CASE Bye(c)
    <2>1. "BYE" \in Ops /\ <<>> \in Data
        BY DEF Ops, Data
    <2>2. to' \in [Clients -> Seq(Messages)] /\ asked' \in [Clients -> Nat]
        BY <1>4, <2>1, SendType DEF Bye
    <2> QED
        BY <1>4, <2>2 DEF Bye, TypeInv, serverVars, locals, States
<1> QED
    BY <1>1, <1>2, <1>3, <1>4

\* So do its reading and its leaving.
LEMMA ReceiveType ==
    ASSUME TypeInv, NEW c \in Clients, Receive(c) \/ Leave(c)
    PROVE  TypeInv'
<1>1. CASE RecvText(c)
    <2>1. Recv(c) /\ Return(c, Got(c).op = "OK")
        BY <1>1 DEF RecvText
    <2> QED
        BY <1>1, <2>1, RecvType, ReturnType DEF RecvText, TypeInv, serverVars
<1>2. CASE RecvUpload(c)
    <2>1. Recv(c)
        BY <1>2 DEF RecvUpload
    <2>2. to' \in [Clients -> Seq(Messages)] /\ asked' \in [Clients -> Nat]
        <3>1. file[c] \in Data /\ <<file[c], at[c] + 1>> \in Data
            <4>1. file[c] \in AnyFile /\ at[c] + 1 \in Nat
                BY DEF TypeInv
            <4> QED
                BY <4>1, DataType
        <3>2. "UPLOAD_CHUNK" \in Ops /\ "UPLOAD_END" \in Ops
            BY DEF Ops
        <3>3. \/ send_message(c, "UPLOAD_CHUNK", <<file[c], at[c] + 1>>)
              \/ send_message(c, "UPLOAD_END", file[c])
            BY <1>2 DEF RecvUpload
        <3>4. CASE send_message(c, "UPLOAD_CHUNK", <<file[c], at[c] + 1>>)
            BY <3>1, <3>2, <3>4, SendType
        <3>5. CASE send_message(c, "UPLOAD_END", file[c])
            BY <3>1, <3>2, <3>5, SendType
        <3> QED
            BY <3>3, <3>4, <3>5
    <2>3. at' \in [Clients -> Nat] /\ pc' \in [Clients -> States]
        <3>1. \/ at' = [at EXCEPT ![c] = @ + 1] /\ pc' = pc
              \/ pc' = [pc EXCEPT ![c] = "end"] /\ at' = at
            BY <1>2 DEF RecvUpload
        <3> QED
            <4>1. [at EXCEPT ![c] = @ + 1] \in [Clients -> Nat]
                BY DEF TypeInv
            <4>2. [pc EXCEPT ![c] = "end"] \in [Clients -> States]
                BY DEF TypeInv, States
            <4> QED
                BY <3>1, <4>1, <4>2 DEF TypeInv
    <2> QED
        BY <1>2, <2>1, <2>2, <2>3, RecvType DEF RecvUpload, TypeInv, serverVars
<1>3. CASE UploadFails(c)
    <2>1. Recv(c) /\ Return(c, FALSE)
        BY <1>3 DEF UploadFails
    <2> QED
        BY <1>3, <2>1, RecvType, ReturnType DEF UploadFails, TypeInv, serverVars
<1>4. CASE RecvEnd(c)
    <2>1. Recv(c) /\ Return(c, Got(c).op = "OK")
        BY <1>4 DEF RecvEnd
    <2>2. DOMAIN report' = Clients
        BY <1>4 DEF RecvEnd, Success, TypeInv
    <2> QED
        BY <1>4, <2>1, <2>2, RecvType, ReturnType DEF RecvEnd, TypeInv, serverVars
<1>5. CASE RecvDownload(c)
    <2>1. Recv(c)
        BY <1>5 DEF RecvDownload
    <2>2. LocalType'
        <3>1. CASE saw_begin' = [saw_begin EXCEPT ![c] = TRUE]
                   /\ UNCHANGED <<pc, file, at, out, report>>
            BY <1>5, <3>1 DEF RecvDownload, LocalType, TypeInv
        <3>2. CASE out' = [out EXCEPT ![c] = Append(@, Got(c).data)]
                   /\ UNCHANGED <<pc, file, at, saw_begin, report>>
            BY <1>5, <3>2 DEF RecvDownload, LocalType, TypeInv
        <3>3. CASE Return(c, TRUE) /\ Success(c, out[c])
            BY <1>5, <3>3, ReturnType DEF RecvDownload, LocalType, TypeInv, Success
        <3> QED
            BY <1>5, <3>1, <3>2, <3>3 DEF RecvDownload
    <2> QED
        BY <1>5, <2>1, <2>2, RecvType DEF RecvDownload, LocalType, TypeInv, serverVars
<1>6. CASE DownloadFails(c)
    <2>1. Recv(c) /\ Return(c, FALSE)
        BY <1>6 DEF DownloadFails
    <2>2. gave_up' \in [Clients -> BOOLEAN]
        BY <1>6 DEF DownloadFails, TypeInv
    <2> QED
        BY <1>6, <2>1, <2>2, RecvType, ReturnType DEF DownloadFails, TypeInv, serverVars
<1>7. CASE RecvBye(c)
    <2>1. Recv(c) /\ Goes(c, "closed") /\ "closed" \in States
        BY <1>7 DEF RecvBye, States
    <2> QED
        BY <1>7, <2>1, RecvType, GoesType DEF RecvBye, TypeInv, serverVars
<1>8. CASE RecvCut(c) \/ Leave(c)
    <2>1. from' \in [Clients -> Seq(Messages)]
        <3>1. <<>> \in Seq(Messages)
            OBVIOUS
        <3> QED
            BY <1>8, <3>1 DEF RecvCut, Leave, TypeInv
    <2>2. PICK w \in {"closed", "prompt"} : Goes(c, w)
        BY <1>8, EndsType DEF RecvCut, Leave, Return
    <2>3. w \in States
        BY DEF States
    <2> QED
        BY <1>8, <2>1, <2>2, <2>3, GoesType DEF RecvCut, Leave, TypeInv, serverVars
<1> QED
    BY <1>1, <1>2, <1>3, <1>4, <1>5, <1>6, <1>7, <1>8 DEF Receive

\* What the worker takes from the queue, and what it leaves there.
LEMMA TookType ==
    ASSUME TypeInv, NEW q, Took(q)
    PROVE  /\ queue # <<>> /\ q = queue[1] /\ q \in Requests /\ queue' \in Seq(Requests)
           /\ client_id(q) \in Clients /\ payload(q) \in Data
           /\ q.op \in Ops /\ q.n \in Nat
           /\ Len(queue') = Len(queue) - 1 /\ Len(queue) \in Nat
           /\ \A i \in 1..Len(queue') : i + 1 \in 1..Len(queue) /\ queue'[i] = queue[i + 1]
<1>1. queue # <<>> /\ q = queue[1] /\ queue \in Seq(Requests) /\ queue' = Tail(queue)
    BY DEF Took, TypeInv
<1>2. q \in Requests
    BY <1>1
<1>3. client_id(q) \in Clients /\ payload(q) \in Data /\ q.op \in Ops /\ q.n \in Nat
    BY <1>2 DEF Requests, client_id, payload
<1> QED
    BY <1>1, <1>2, <1>3

\* The messages that the worker sends.
LEMMA WorkerMessages ==
    ASSUME TypeInv, NEW q, Took(q)
    PROVE  /\ <<Message("OK", q, <<>>)>> \in Seq(Messages)
           /\ <<Message("ERROR", q, <<>>)>> \in Seq(Messages)
           /\ Message("DOWNLOAD_BEGIN", q, <<>>) \in Messages
           /\ \A sent \in 0..SqlChunks : last_message(sent, q) \in Seq(Messages)
           /\ \A i \in 1..SqlChunks : Message("DOWNLOAD_CHUNK", q, sql_of(schema)[i]) \in Messages
<1>1. q.n \in Nat /\ <<>> \in Data
    BY TookType, DataType
<1>2. "OK" \in Ops /\ "ERROR" \in Ops /\ "DOWNLOAD_BEGIN" \in Ops /\ "DOWNLOAD_CHUNK" \in Ops
      /\ "DOWNLOAD_END" \in Ops
    BY DEF Ops
<1>3. \A op \in Ops : Message(op, q, <<>>) \in Messages
    BY <1>1, MessageType DEF Message
<1>4. ASSUME NEW i \in 1..SqlChunks
      PROVE  Message("DOWNLOAD_CHUNK", q, sql_of(schema)[i]) \in Messages
    <2>1. sql_of(schema)[i] = <<schema, i>> /\ i \in Nat /\ schema \in AnyFile
        BY TransferAssumption DEF sql_of, TypeInv
    <2>2. sql_of(schema)[i] \in Data
        BY <2>1, DataType
    <2> QED
        BY <1>1, <1>2, <2>2, MessageType DEF Message
<1> QED
    BY <1>2, <1>3, <1>4 DEF last_message

\* The chunks in the middle of a download.
ChunkMessages(q, sent) ==
    [i \in 1..sent |-> Message("DOWNLOAD_CHUNK", q, sql_of(schema)[i])]

\* They are messages, with what comes before and after them.
LEMMA DownloadType ==
    ASSUME TypeInv, NEW q, Took(q), NEW sent \in 0..SqlChunks
    PROVE  /\ <<Message("DOWNLOAD_BEGIN", q, <<>>)>> \o ChunkMessages(q, sent)
                \o last_message(sent, q) \in Seq(Messages)
           /\ ChunkMessages(q, sent) \in Seq(Messages) /\ Len(ChunkMessages(q, sent)) = sent
<1>1. sent \in Nat /\ \A i \in 1..sent : i \in 1..SqlChunks
    BY TransferAssumption
<1>2. ChunkMessages(q, sent) \in [1..sent -> Messages]
    BY <1>1, WorkerMessages DEF ChunkMessages
<1>3. ChunkMessages(q, sent) \in Seq(Messages) /\ Len(ChunkMessages(q, sent)) = sent
    BY <1>1, <1>2 DEF ChunkMessages
<1>4. last_message(sent, q) \in Seq(Messages)
      /\ <<Message("DOWNLOAD_BEGIN", q, <<>>)>> \in Seq(Messages)
    BY WorkerMessages
<1> QED
    BY <1>3, <1>4

\* The worker keeps the types.
LEMMA WorkerType ==
    ASSUME TypeInv, NEW q,
           ProcessUpload(q) \/ ProcessText(q) \/ send_generated_sql_file(q) \/ ProcessFails(q)
    PROVE  TypeInv'
<1>1. Took(q) /\ pc' = pc /\ asked' = asked /\ file' = file /\ at' = at /\ out' = out
      /\ saw_begin' = saw_begin /\ gave_up' = gave_up /\ report' = report /\ to' = to /\ cut' = cut
    BY DEF ProcessUpload, ProcessText, send_generated_sql_file, ProcessFails, clientVars
<1>2. queue' \in Seq(Requests) /\ client_id(q) \in Clients
    BY <1>1, TookType
<1>3. \E data : Did(q, data)
    BY DEF ProcessUpload, ProcessText, send_generated_sql_file, ProcessFails
<1>4. DOMAIN answer' = Clients
    BY <1>3 DEF Did, TypeInv
<1>5. upload' = upload \/ \E x : upload' = [upload EXCEPT ![client_id(q)] = x]
    BY DEF ProcessUpload, ProcessText, send_generated_sql_file, ProcessFails, upload_begin,
           append_upload_chunk, upload_path
<1>6. DOMAIN upload' = Clients
    BY <1>5 DEF TypeInv
<1>7. schema' = schema \/ schema' \in Schemas \union Broken
    BY DEF ProcessUpload, ProcessText, send_generated_sql_file, ProcessFails, parsed
<1>8. schema' \in AnyFile
    BY <1>7, TransferAssumption DEF TypeInv, AnyFile
<1>9. \E msgs \in Seq(Messages) : respond(client_id(q), msgs)
    <2>1. CASE ProcessUpload(q)
        BY <1>1, <2>1, WorkerMessages DEF ProcessUpload, load_answer
    <2>2. CASE ProcessText(q)
        BY <1>1, <2>2, WorkerMessages DEF ProcessText
    <2>3. CASE send_generated_sql_file(q)
        BY <1>1, <2>3, DownloadType DEF send_generated_sql_file, ChunkMessages
    <2>4. CASE ProcessFails(q)
        BY <1>1, <2>4, WorkerMessages DEF ProcessFails
    <2> QED
        BY <2>1, <2>2, <2>3, <2>4
<1>10. from' \in [Clients -> Seq(Messages)]
    BY <1>2, <1>9, RespondType
<1> QED
    BY <1>1, <1>2, <1>4, <1>6, <1>8, <1>10 DEF TypeInv

\* What the ordinary thread queues.
Entry(c, m) == [m EXCEPT !.data = <<c, m.data>>]

\* The ordinary thread reads one message: it answers it, or queues it.
LEMMA OrdinaryReadsType ==
    ASSUME TypeInv, NEW c \in Clients, OrdinaryReads(c)
    PROVE  /\ TypeInv' /\ to[c] # <<>> /\ to'[c] = Tail(to[c]) /\ to[c][1] \in Messages
           /\ \A d \in Clients : d # c => to'[d] = to[d] /\ from'[d] = from[d]
           /\ \/ /\ to[c][1].op \in {"CONNECT", "BYE", "JOB_STATUS"} /\ queue' = queue
                 /\ pc[c] = "closed" \/ c \in cut => from'[c] = from[c]
                 /\ pc[c] # "closed" /\ c \notin cut =>
                      \E m \in Messages : /\ m.n = to[c][1].n
                                          /\ from'[c] = from[c] \o <<m>>
              \/ /\ to[c][1].op \notin {"CONNECT", "BYE", "JOB_STATUS"} /\ from' = from
                 /\ Entry(c, to[c][1]) \in Requests
                 /\ queue' = Append(queue, Entry(c, to[c][1]))
<1>1. to[c] # <<>> /\ to' = [to EXCEPT ![c] = Tail(@)] /\ UNCHANGED <<clientVars, upload, schema,
                                                                       answer, cut>>
    BY DEF OrdinaryReads
<1>2. to[c][1] \in Messages /\ Head(to[c]) = to[c][1] /\ to' \in [Clients -> Seq(Messages)]
      /\ to'[c] = Tail(to[c]) /\ \A d \in Clients : d # c => to'[d] = to[d]
    BY <1>1 DEF TypeInv
<1>3. PICK q \in Messages : q = to[c][1] /\ q = Head(to[c])
    BY <1>2
<1>4. q.n \in Nat /\ q.op \in Ops /\ q.data \in Data
    BY DEF Messages
<1>5. CASE q.op \in {"CONNECT", "BYE", "JOB_STATUS"}
    <2>1. PICK op \in {"OK", "ERROR"} : respond(c, <<Message(op, q, <<>>)>>)
        BY <1>3, <1>5 DEF OrdinaryReads
    <2>2. queue' = queue
        BY <1>3, <1>5 DEF OrdinaryReads
    <2>3. PICK m \in Messages : m = Message(op, q, <<>>)
        <3>1. op \in Ops /\ <<>> \in Data
            BY DEF Ops, Data
        <3> QED
            BY <1>4, <3>1, MessageType DEF Message
    <2>4. m.n = q.n
        BY <2>3 DEF Message
    <2>5. <<m>> \in Seq(Messages) /\ respond(c, <<m>>)
        BY <2>1, <2>3
    <2>6. /\ from' \in [Clients -> Seq(Messages)]
          /\ \A d \in Clients : d # c => from'[d] = from[d]
          /\ pc[c] # "closed" /\ c \notin cut => from'[c] = from[c] \o <<m>>
          /\ pc[c] = "closed" \/ c \in cut => from'[c] = from[c]
        BY <2>5, RespondType
    <2>7. TypeInv'
        BY <1>1, <1>2, <2>2, <2>6 DEF TypeInv, clientVars
    <2> QED
        <3>1. pc[c] # "closed" /\ c \notin cut =>
                \E x \in Messages : x.n = to[c][1].n /\ from'[c] = from[c] \o <<x>>
            BY <1>3, <2>4, <2>6
        <3>2. to[c][1].op \in {"CONNECT", "BYE", "JOB_STATUS"}
            BY <1>3, <1>5
        <3>3. pc[c] = "closed" \/ c \in cut => from'[c] = from[c]
            BY <2>6
        <3>4. \A d \in Clients : d # c => to'[d] = to[d] /\ from'[d] = from[d]
            BY <1>2, <2>6
        <3>5. to[c] # <<>> /\ to'[c] = Tail(to[c]) /\ to[c][1] \in Messages
            BY <1>1, <1>2
        <3> QED
            BY <2>2, <2>7, <3>1, <3>2, <3>3, <3>4, <3>5
<1>6. CASE q.op \notin {"CONNECT", "BYE", "JOB_STATUS"}
    <2>1. queue' = Append(queue, Entry(c, q)) /\ from' = from
        BY <1>3, <1>6 DEF OrdinaryReads, Entry
    <2>2. Entry(c, q) \in Requests
        BY <1>4 DEF Entry, Messages, Requests
    <2>3. TypeInv'
        BY <1>1, <1>2, <2>1, <2>2 DEF TypeInv, clientVars
    <2> QED
        <3>1. to[c][1].op \notin {"CONNECT", "BYE", "JOB_STATUS"}
            BY <1>3, <1>6
        <3>2. \A d \in Clients : d # c => to'[d] = to[d] /\ from'[d] = from[d]
            BY <1>2, <2>1
        <3>3. to[c] # <<>> /\ to'[c] = Tail(to[c]) /\ to[c][1] \in Messages
            BY <1>1, <1>2
        <3> QED
            BY <1>3, <2>1, <2>2, <2>3, <3>1, <3>2, <3>3
<1> QED
    BY <1>5, <1>6

\* So do the two ends of a connection.
LEMMA ClosingType ==
    ASSUME TypeInv, NEW c \in Clients, OrdinaryCloses(c) \/ Disconnect(c)
    PROVE  TypeInv'
<1>1. CASE OrdinaryCloses(c)
    <2>1. <<>> \in Seq(Messages)
        OBVIOUS
    <2>2. to' \in [Clients -> Seq(Messages)]
        BY <1>1, <2>1 DEF OrdinaryCloses, TypeInv
    <2> QED
        BY <1>1, <2>2 DEF OrdinaryCloses, TypeInv, clientVars, serverVars
<1>2. CASE Disconnect(c)
    <2>1. PICK m \in Messages : m = [op |-> "ERROR", n |-> 0, data |-> <<>>]
        <3>1. "ERROR" \in Ops /\ 0 \in Nat /\ <<>> \in Data
            BY DEF Ops, Data
        <3> QED
            BY <3>1 DEF Messages
    <2>2. <<m>> \in Seq(Messages) /\ respond(c, <<m>>)
        BY <1>2, <2>1 DEF Disconnect
    <2>3. from' \in [Clients -> Seq(Messages)]
        BY <2>2, RespondType
    <2> QED
        BY <1>2, <2>3 DEF Disconnect, TypeInv, clientVars
<1> QED
    BY <1>1, <1>2

\* Every step keeps TypeInv.
LEMMA StepType == ASSUME TypeInv, [Next]_vars PROVE TypeInv'
<1>1. CASE UNCHANGED vars
    BY <1>1 DEF TypeInv, vars, clientVars, serverVars
<1>2. CASE Worker
    BY <1>2, WorkerType DEF Worker
<1>3. ASSUME NEW c \in Clients, download_sql_file(c) \/ Bye(c) \/ Leave(c) PROVE TypeInv'
    BY <1>3, RequestsType, ReceiveType
<1>4. ASSUME NEW c \in Clients, NEW op \in TextOps \intersect Commands[c], request_text(c, op)
      PROVE  TypeInv'
    BY <1>4, RequestsType
<1>5. ASSUME NEW c \in Clients, NEW f \in Local[c], upload_file(c, f) PROVE TypeInv'
    <2>1. f \in Files
        BY TransferAssumption
    <2> QED
        BY <1>5, <2>1, RequestsType
<1>6. ASSUME NEW c \in Clients, Receive(c) \/ OrdinaryReads(c) \/ OrdinaryCloses(c) \/ Disconnect(c)
      PROVE  TypeInv'
    BY <1>6, ReceiveType, OrdinaryReadsType, ClosingType
<1> QED
    BY <1>1, <1>2, <1>3, <1>4, <1>5, <1>6 DEF Next

-----------------------------------------------------------------------------
(* What concerns one client is not disturbed by the others.                  *)

\* How many answers wait.
LEMMA RestOf ==
    ASSUME TypeInv, NEW c \in Clients
    PROVE  /\ Rest(c) \in Nat /\ Len(from[c]) \in Nat /\ Rest(c) <= Len(from[c])
           /\ from[c] \in Seq(Messages)
           /\ from[c] = <<>> => Rest(c) = 0
           /\ c \notin cut => Rest(c) = Len(from[c])
           /\ c \in cut /\ from[c] # <<>> => Rest(c) = Len(from[c]) - 1
<1>1. PICK len \in Nat : len = Len(from[c])
    BY DEF TypeInv
<1>2. from[c] \in Seq(Messages) /\ (from[c] = <<>> => len = 0) /\ (from[c] # <<>> => len > 0)
    BY <1>1 DEF TypeInv
<1>3. CASE c \in cut /\ from[c] # <<>>
    <2>1. Rest(c) = len - 1
        BY <1>1, <1>3 DEF Rest
    <2> QED
        BY <1>1, <1>2, <1>3, <2>1
<1>4. CASE ~(c \in cut /\ from[c] # <<>>)
    <2>1. Rest(c) = len - 0
        BY <1>1, <1>4 DEF Rest
    <2> QED
        BY <1>1, <1>2, <1>4, <2>1
<1> QED
    BY <1>3, <1>4

\* Everything about client c, and its places in the queue.
Unmoved(c) ==
    /\ pc'[c] = pc[c] /\ asked'[c] = asked[c] /\ file'[c] = file[c] /\ at'[c] = at[c]
    /\ saw_begin'[c] = saw_begin[c] /\ out'[c] = out[c] /\ report'[c] = report[c]
    /\ gave_up'[c] = gave_up[c] /\ to'[c] = to[c] /\ from'[c] = from[c]
    /\ upload'[c] = upload[c] /\ answer'[c] = answer[c] /\ (c \in cut' <=> c \in cut)
QueueKept(c) ==
    \E k \in 0..1 : \A i \in Mine(c)' :
        i \in Nat /\ i + k \in Mine(c) /\ queue'[i] = queue[i + k]

\* The queue is left alone, and the places of a client in it.
LEMMA QueueAlone ==
    ASSUME TypeInv, NEW c \in Clients, queue' = queue
    PROVE  QueueKept(c) /\ Mine(c)' = Mine(c)
<1>1. Mine(c)' = Mine(c)
    BY DEF Mine, client_id
<1>2. \A i \in Mine(c)' : i \in Nat /\ i + 0 \in Mine(c) /\ queue'[i] = queue[i + 0]
    BY <1>1 DEF Mine
<1> QED
    BY <1>1, <1>2 DEF QueueKept

\* The head is taken: every other place is one nearer.
LEMMA QueueTail ==
    ASSUME TypeInv, NEW c \in Clients, NEW q, Took(q)
    PROVE  /\ QueueKept(c)
           /\ \A i \in Mine(c)' : i \in Nat /\ i + 1 \in Mine(c) /\ queue'[i] = queue[i + 1]
<1>1. \A i \in 1..Len(queue') : i + 1 \in 1..Len(queue) /\ queue'[i] = queue[i + 1]
    BY TookType
<1>2. \A i \in Mine(c)' : i \in Nat /\ i + 1 \in Mine(c) /\ queue'[i] = queue[i + 1]
    BY <1>1 DEF Mine, client_id
<1> QED
    BY <1>2 DEF QueueKept

\* A request of another client is added, or one of its own.
LEMMA QueueAppend ==
    ASSUME TypeInv, NEW c \in Clients, NEW e \in Requests, queue' = Append(queue, e)
    PROVE  /\ client_id(e) # c => QueueKept(c)
           /\ \A i \in Mine(c)' :
                \/ i \in Mine(c) /\ queue'[i] = queue[i]
                \/ i = Len(queue) + 1 /\ queue'[i] = e
<1>1. PICK len \in Nat : len = Len(queue)
    BY DEF TypeInv
<1>2. \A i \in 1..Len(queue') :
        (i \in 1..len /\ queue'[i] = queue[i]) \/ (i = len + 1 /\ queue'[i] = e)
    BY <1>1 DEF TypeInv
<1>3. \A i \in Mine(c)' : \/ i \in Mine(c) /\ queue'[i] = queue[i] /\ i \in Nat
                          \/ i = len + 1 /\ queue'[i] = e /\ client_id(e) = c
    BY <1>1, <1>2 DEF Mine, client_id
<1>4. ASSUME client_id(e) # c PROVE QueueKept(c)
    <2>1. ASSUME NEW i \in Mine(c)'
          PROVE  i \in Nat /\ i + 0 \in Mine(c) /\ queue'[i] = queue[i + 0]
        <3>1. i \in Mine(c) /\ queue'[i] = queue[i] /\ i \in Nat
            BY <1>3, <1>4
        <3>2. i + 0 = i
            BY <3>1
        <3> QED
            BY <3>1, <3>2
    <2>2. \E k \in 0..1 : k = 0
        OBVIOUS
    <2> QED
        BY <2>1, <2>2 DEF QueueKept
<1> QED
    BY <1>1, <1>3, <1>4

\* So a step of the others keeps the client's invariant.
LEMMA Frame ==
    ASSUME NEW c \in Clients, Unmoved(c), QueueKept(c), Steady(c)
    PROVE  Steady(c)'
<1>1. PICK k \in 0..1 : \A i \in Mine(c)' :
        i \in Nat /\ i + k \in Mine(c) /\ queue'[i] = queue[i + k]
    BY DEF QueueKept
<1>2. Mine(c) = {} => Mine(c)' = {}
    BY <1>1
<1>3. \A op, n, data : Fits(c, op, n, data) => Fits(c, op, n, data)'
    BY DEF Fits, Unmoved
<1>4. SentInv(c)'
    <2>1. SUFFICES ASSUME c \notin cut', pc'[c] # "closed" PROVE SentInv(c)'
        BY DEF SentInv
    <2>2. c \notin cut /\ pc[c] # "closed" /\ to'[c] = to[c]
        BY <2>1 DEF Unmoved
    <2>3. ASSUME NEW j \in 1..Len(to'[c])
          PROVE  j = 1 /\ Mine(c)' = {} /\ SentFits(c, j)'
        <3>1. j = 1 /\ Mine(c) = {} /\ SentFits(c, j)
            BY <2>2 DEF SentInv, Steady
        <3> QED
            BY <1>2, <1>3, <2>2, <3>1 DEF SentFits
    <2>4. ASSUME NEW i \in Mine(c)'
          PROVE  QueuedFits(c, i)' /\ \A j \in Mine(c)' : j = i
        <3>1. i + k \in Mine(c) /\ queue'[i] = queue[i + k] /\ i \in Nat
            BY <1>1
        <3>2. \A j \in Mine(c)' : j \in Nat /\ j + k = i + k
            BY <1>1, <2>2, <3>1 DEF SentInv, Steady
        <3>3. QueuedFits(c, i + k)
            BY <2>2, <3>1 DEF SentInv, Steady
        <3> QED
            BY <1>3, <3>1, <3>2, <3>3 DEF QueuedFits, payload
    <2> QED
        BY <2>3, <2>4 DEF SentInv
<1>5. Rest(c)' = Rest(c)
    BY DEF Rest, Unmoved
<1>6. \A s, e, o, b : Arriving(c, s, e, o, b) => Arriving(c, s, e, o, b)'
    BY <1>5 DEF Arriving, Unmoved
<1>7. AnswerFits(c) => AnswerFits(c)'
    BY <1>5, <1>6 DEF AnswerFits, Unmoved, content
<1>8. FromInv(c)'
    BY <1>2, <1>5, <1>7 DEF FromInv, Unmoved, Answered, Steady
<1>9. FileInv(c)' /\ ReportInv(c)'
    BY <1>2 DEF FileInv, ReportInv, Unmoved, Steady
<1>10. EndInv(c)'
    <2>1. ASSUME NEW j \in 1..Len(to'[c]), to'[c][j].op = "UPLOAD_END"
          PROVE  j = 1 /\ Mine(c)' = {} /\ SentWhole(c, j)'
        BY <1>2, <2>1 DEF EndInv, Unmoved, Steady, SentWhole, Whole, content
    <2>2. ASSUME NEW i \in Mine(c)', queue'[i].op = "UPLOAD_END"
          PROVE  QueuedWhole(c, i)' /\ \A j \in Mine(c)' : ~(j < i)
        <3>1. i + k \in Mine(c) /\ queue'[i] = queue[i + k] /\ i \in Nat
            BY <1>1
        <3>2. \A j \in Mine(c)' : j \in Nat /\ ~(j + k < i + k)
            BY <1>1, <2>2, <3>1 DEF EndInv, Steady
        <3>3. QueuedWhole(c, i + k)
            BY <2>2, <3>1 DEF EndInv, Steady
        <3> QED
            BY <3>1, <3>2, <3>3 DEF Unmoved, QueuedWhole, Whole, payload, content
    <2> QED
        BY <2>1, <2>2 DEF EndInv
<1> QED
    BY <1>4, <1>8, <1>9, <1>10 DEF Steady

-----------------------------------------------------------------------------
(* The client's own steps.                                                   *)

\* The client sends request m, and waits for its answer.
Asks(c, m) ==
    /\ to'[c] = Append(to[c], m) /\ queue' = queue /\ upload' = upload /\ cut' = cut
    /\ Fits(c, m.op, m.n, m.data)'

\* The messages on their way to the server once m has been sent.
LEMMA SentPlaces ==
    ASSUME TypeInv, NEW c \in Clients, NEW m \in Messages, Asks(c, m)
    PROVE  /\ Mine(c)' = Mine(c)
           /\ \A k \in 1..Len(to'[c]) :
                \/ k \in 1..Len(to[c]) /\ to'[c][k] = to[c][k]
                \/ k = Len(to[c]) + 1 /\ to'[c][k] = m
           /\ to[c] = <<>> => \A k \in 1..Len(to'[c]) : k = 1 /\ to'[c][k] = m
<1>1. Mine(c)' = Mine(c)
    BY QueueAlone DEF Asks
<1>2. PICK len \in Nat : len = Len(to[c]) /\ (to[c] = <<>> => len = 0)
    BY DEF TypeInv
<1>3. \A k \in 1..Len(to'[c]) :
        (k \in 1..len /\ to'[c][k] = to[c][k]) \/ (k = len + 1 /\ to'[c][k] = m)
    BY <1>2 DEF TypeInv, Asks
<1> QED
    BY <1>1, <1>2, <1>3

\* If nothing else is under way, m is all that is.
LEMMA AsksSent ==
    ASSUME TypeInv, NEW c \in Clients, NEW m \in Messages, Asks(c, m), c \in cut \/ Answered(c)
    PROVE  SentInv(c)'
<1>1. SUFFICES ASSUME c \notin cut', pc'[c] # "closed" PROVE SentInv(c)'
    BY DEF SentInv
<1>2. to[c] = <<>> /\ Mine(c) = {}
    BY <1>1 DEF Asks, Answered
<1>3. Mine(c)' = {} /\ \A k \in 1..Len(to'[c]) : k = 1 /\ to'[c][k] = m
    BY <1>2, SentPlaces
<1>4. ASSUME NEW k \in 1..Len(to'[c]) PROVE k = 1 /\ SentFits(c, k)'
    BY <1>3 DEF Asks, SentFits
<1> QED
    BY <1>3, <1>4 DEF SentInv

\* An END is sent after the whole file, with nothing else under way.
LEMMA AsksEnd ==
    ASSUME TypeInv, NEW c \in Clients, NEW m \in Messages, Asks(c, m), EndInv(c),
           m.op = "UPLOAD_END" => Answered(c) /\ Whole(c, m.data)
    PROVE  EndInv(c)'
<1>1. Mine(c)' = Mine(c) /\ queue' = queue /\ upload' = upload
    BY SentPlaces DEF Asks
<1>2. ASSUME NEW k \in 1..Len(to'[c]), to'[c][k].op = "UPLOAD_END"
      PROVE  k = 1 /\ Mine(c)' = {} /\ SentWhole(c, k)'
    <2>1. CASE k \in 1..Len(to[c]) /\ to'[c][k] = to[c][k]
        BY <1>1, <1>2, <2>1 DEF EndInv, SentWhole, Whole, content
    <2>2. CASE k = Len(to[c]) + 1 /\ to'[c][k] = m
        <3>1. Answered(c) /\ Whole(c, m.data)
            BY <1>2, <2>2
        <3>2. k = 1
            BY <3>1, SentPlaces DEF Answered
        <3> QED
            BY <1>1, <2>2, <3>1, <3>2 DEF Answered, SentWhole, Whole, content
    <2> QED
        BY <2>1, <2>2, SentPlaces
<1>3. ASSUME NEW i \in Mine(c)', queue'[i].op = "UPLOAD_END"
      PROVE  QueuedWhole(c, i)' /\ \A j \in Mine(c)' : ~(j < i)
    BY <1>1, <1>3 DEF EndInv, QueuedWhole, Whole, content, payload
<1> QED
    BY <1>2, <1>3 DEF EndInv

\* At the prompt of a client that is in step nothing is under way.
LEMMA QuietPrompt ==
    ASSUME TypeInv, NEW c \in Clients, Steady(c), pc[c] = "prompt"
    PROVE  Rest(c) = 0 /\ (c \in cut \/ Answered(c))
<1>1. Rest(c) = 0
    BY RestOf DEF Steady, FromInv
<1>2. c \notin cut => Answered(c)
    <2>1. SUFFICES ASSUME c \notin cut PROVE Answered(c)
        OBVIOUS
    <2>2. (\A k \in 1..Len(to[c]) : FALSE) /\ Mine(c) = {}
        BY <2>1 DEF Steady, SentInv, SentFits, QueuedFits, Fits
    <2>3. to[c] = <<>>
        BY <2>2 DEF TypeInv
    <2> QED
        BY <2>2, <2>3 DEF Answered
<1> QED
    BY <1>1, <1>2

\* A command of its prompt keeps the client in step.
LEMMA AsksFromPrompt ==
    ASSUME TypeInv, NEW c \in Clients, Steady(c), pc[c] = "prompt",
           NEW m \in Messages, Asks(c, m), m.op # "UPLOAD_END", from' = from,
           FileInv(c)', ReportInv(c)'
    PROVE  Steady(c)'
<1>1. Rest(c)' = 0
    BY QuietPrompt DEF Rest, Asks
<1>2. FromInv(c)'
    BY <1>1 DEF FromInv, Asks, Steady
<1>3. SentInv(c)' /\ EndInv(c)'
    BY QuietPrompt, AsksSent, AsksEnd DEF Steady
<1> QED
    BY <1>2, <1>3 DEF Steady

\* The client's requests keep it in step, unless it gives up a download.
LEMMA RequestsSteady ==
    ASSUME TypeInv, TypeInv', NEW c \in Clients, Steady(c), ~gave_up'[c],
           \/ \E op \in TextOps : request_text(c, op)
           \/ \E f \in Files : upload_file(c, f)
           \/ download_sql_file(c) \/ Bye(c)
    PROVE  Steady(c)'
<1>0. <<>> \in Data /\ "UPLOAD_BEGIN" \in Ops /\ "DOWNLOAD_SQL" \in Ops /\ "BYE" \in Ops
      /\ "UPLOAD_END" \notin TextOps /\ \A op \in TextOps : op \in Ops
    BY DEF Data, Ops, TextOps
<1>1. CASE \E op \in TextOps : request_text(c, op)
    <2>1. PICK op \in TextOps : request_text(c, op)
        BY <1>1
    <2>2. Start(c, op, TRUE, "text") /\ send_message(c, op, <<>>) /\ "text" \in States
        BY <2>1 DEF request_text, States
    <2>3. pc[c] = "prompt" /\ pc'[c] = "text" /\ report'[c] = Nothing
        BY <2>2, StartType
    <2>4. PICK m \in Messages : m = [op |-> op, n |-> asked'[c], data |-> <<>>]
        <3>1. asked'[c] \in Nat
            BY DEF TypeInv
        <3> QED
            BY <1>0, <3>1, MessageType
    <2>5. to'[c] = Append(to[c], m)
        BY <1>0, <2>2, <2>4, SendType
    <2>6. Asks(c, m) /\ from' = from /\ m.op # "UPLOAD_END"
        BY <1>0, <2>1, <2>3, <2>4, <2>5 DEF Asks, Fits, request_text, serverVars
    <2>7. FileInv(c)' /\ ReportInv(c)'
        BY <2>1, <2>3 DEF FileInv, ReportInv, request_text, locals, Steady
    <2> QED
        BY <2>3, <2>6, <2>7, AsksFromPrompt
<1>2. CASE \E f \in Files : upload_file(c, f)
    <2>1. PICK f \in Files : upload_file(c, f)
        BY <1>2
    <2>2. /\ Start(c, "UPLOAD", TRUE, "upload") /\ send_message(c, "UPLOAD_BEGIN", <<>>)
          /\ "upload" \in States
        BY <2>1 DEF upload_file, States
    <2>3. pc[c] = "prompt" /\ pc'[c] = "upload" /\ report'[c] = Nothing
        BY <2>2, StartType
    <2>4. PICK m \in Messages : m = [op |-> "UPLOAD_BEGIN", n |-> asked'[c], data |-> <<>>]
        <3>1. asked'[c] \in Nat
            BY DEF TypeInv
        <3> QED
            BY <1>0, <3>1, MessageType
    <2>5. to'[c] = Append(to[c], m)
        BY <1>0, <2>2, <2>4, SendType
    <2>6. file'[c] = f /\ at'[c] = 0
        BY <2>1, <2>3 DEF upload_file, TypeInv, Steady, FileInv
    <2>7. Asks(c, m) /\ from' = from /\ m.op # "UPLOAD_END"
        BY <2>1, <2>3, <2>4, <2>5, <2>6 DEF Asks, Fits, upload_file, serverVars
    <2>8. FileInv(c)' /\ ReportInv(c)'
        BY <2>1, <2>3, <2>6, TransferAssumption DEF FileInv, ReportInv, upload_file, Steady
    <2> QED
        BY <2>3, <2>7, <2>8, AsksFromPrompt
<1>3. CASE download_sql_file(c)
    <2>1. PICK opened \in BOOLEAN :
            /\ Start(c, "DOWNLOAD_SQL", opened, "saving")
            /\ gave_up' = [gave_up EXCEPT ![c] = @ \/ ~opened]
        BY <1>3 DEF download_sql_file
    <2>2. send_message(c, "DOWNLOAD_SQL", <<>>) /\ "saving" \in States
        BY <1>3 DEF download_sql_file, States
    <2>3. opened
        BY <2>1 DEF TypeInv
    <2>4. pc[c] = "prompt" /\ pc'[c] = "saving" /\ report'[c] = Nothing
        BY <2>1, <2>2, <2>3, StartType
    <2>5. PICK m \in Messages : m = [op |-> "DOWNLOAD_SQL", n |-> asked'[c], data |-> <<>>]
        <3>1. asked'[c] \in Nat
            BY DEF TypeInv
        <3> QED
            BY <1>0, <3>1, MessageType
    <2>6. to'[c] = Append(to[c], m)
        BY <1>0, <2>2, <2>5, SendType
    <2>7. ~saw_begin'[c] /\ out'[c] = <<>>
        BY <1>3, <2>4 DEF download_sql_file, locals, Steady, FileInv
    <2>8. Asks(c, m) /\ from' = from /\ m.op # "UPLOAD_END"
        BY <1>3, <2>4, <2>5, <2>6, <2>7 DEF Asks, Fits, download_sql_file, serverVars
    <2>9. FileInv(c)' /\ ReportInv(c)'
        BY <1>3, <2>4 DEF FileInv, ReportInv, download_sql_file, locals, Steady
    <2> QED
        BY <2>4, <2>8, <2>9, AsksFromPrompt
<1>4. CASE Bye(c)
    <2>1. pc[c] = "prompt" /\ pc'[c] = "bye" /\ send_message(c, "BYE", <<>>)
          /\ report' = report /\ answer' = answer
        BY <1>4 DEF Bye, TypeInv
    <2>2. PICK m \in Messages : m = [op |-> "BYE", n |-> asked'[c], data |-> <<>>]
        <3>1. asked'[c] \in Nat
            BY DEF TypeInv
        <3> QED
            BY <1>0, <3>1, MessageType
    <2>3. to'[c] = Append(to[c], m)
        BY <1>0, <2>1, <2>2, SendType
    <2>4. Asks(c, m) /\ from' = from /\ m.op # "UPLOAD_END"
        BY <1>4, <2>1, <2>2, <2>3 DEF Asks, Fits, Bye, serverVars
    <2>5. FileInv(c)'
        BY <1>4, <2>1 DEF FileInv, Bye, locals, Steady
    <2>6. ReportInv(c)'
        BY <2>1, <2>2, <2>4, SentPlaces DEF ReportInv, Steady
    <2> QED
        BY <2>1, <2>4, <2>5, <2>6, AsksFromPrompt
<1> QED
    BY <1>1, <1>2, <1>3, <1>4

\* What is left when the client has read one message.
LEMMA ReadOne ==
    ASSUME TypeInv, TypeInv', NEW c \in Clients, from[c] # <<>>, from'[c] = Tail(from[c]),
           cut' = cut
    PROVE  /\ Rest(c) = 0 => Rest(c)' = 0
           /\ Rest(c) > 0 => Rest(c)' = Rest(c) - 1
           /\ \A j \in 1..Len(from'[c]) : j + 1 \in 1..Len(from[c]) /\ from'[c][j] = from[c][j + 1]
           /\ from'[c] # <<>> => from'[c][Len(from'[c])] = from[c][Len(from[c])]
<1>0. PICK s \in Seq(Messages) : s = from[c] /\ from'[c] = Tail(s)
    BY DEF TypeInv
<1>1. PICK len \in Nat \ {0} : len = Len(from[c])
    <2>1. Len(s) \in Nat /\ Len(s) # 0
        BY <1>0
    <2> QED
        BY <1>0, <2>1
<1>2. Len(from'[c]) = len - 1 /\ \A j \in 1..len - 1 : from'[c][j] = from[c][j + 1]
    <2>1. Len(s) = len /\ s # <<>>
        BY <1>0, <1>1
    <2>2. Len(Tail(s)) = len - 1 /\ \A j \in 1..len - 1 : Tail(s)[j] = s[j + 1]
        BY <1>1, <2>1
    <2> QED
        BY <1>0, <2>2
<1>3. from'[c] # <<>> => len - 1 > 0
    <2>1. PICK t \in Seq(Messages) : t = from'[c]
        BY DEF TypeInv
    <2>2. t # <<>> => Len(t) > 0
        OBVIOUS
    <2> QED
        BY <1>2, <2>1, <2>2
<1>4. /\ c \notin cut => Rest(c) = len /\ Rest(c)' = len - 1
      /\ c \in cut /\ len = 1 => Rest(c) = 0 /\ Rest(c)' = 0
      /\ c \in cut /\ len > 1 => Rest(c) = len - 1 /\ Rest(c)' = len - 2
    <2>1. len = 1 => from'[c] = <<>>
        <3>1. PICK t \in Seq(Messages) : t = from'[c]
            BY DEF TypeInv
        <3>2. len = 1 => Len(t) = 0
            BY <1>2, <3>1
        <3>3. Len(t) = 0 => t = <<>>
            OBVIOUS
        <3> QED
            BY <3>1, <3>2, <3>3
    <2>2. len > 1 => from'[c] # <<>>
        BY <1>2
    <2>3. CASE c \notin cut
        <3>1. Rest(c) = len - 0 /\ Rest(c)' = (len - 1) - 0
            BY <1>1, <1>2, <2>3 DEF Rest
        <3> QED
            BY <2>3, <3>1
    <2>4. CASE c \in cut /\ len = 1
        <3>1. Rest(c) = len - 1 /\ Rest(c)' = (len - 1) - 0
            BY <1>1, <1>2, <2>1, <2>4 DEF Rest
        <3> QED
            BY <2>4, <3>1
    <2>5. CASE c \in cut /\ len > 1
        <3>1. Rest(c) = len - 1 /\ Rest(c)' = (len - 1) - 1
            BY <1>1, <1>2, <2>2, <2>5 DEF Rest
        <3> QED
            BY <2>5, <3>1
    <2> QED
        BY <2>3, <2>4, <2>5
<1>5. c \notin cut \/ (c \in cut /\ len = 1) \/ (c \in cut /\ len > 1)
    OBVIOUS
<1>6. (Rest(c) = 0 => Rest(c)' = 0) /\ (Rest(c) > 0 => Rest(c)' = Rest(c) - 1)
    BY <1>4, <1>5
<1>7. \A j \in 1..Len(from'[c]) : j + 1 \in 1..Len(from[c]) /\ from'[c][j] = from[c][j + 1]
    BY <1>1, <1>2
<1>8. from'[c] # <<>> => from'[c][Len(from'[c])] = from[c][Len(from[c])]
    <2>1. SUFFICES ASSUME from'[c] # <<>> PROVE from'[c][len - 1] = from[c][len]
        BY <1>1, <1>2
    <2>2. len - 1 \in 1..len - 1 /\ (len - 1) + 1 = len
        BY <1>3, <2>1
    <2> QED
        BY <1>2, <2>2
<1> QED
    BY <1>6, <1>7, <1>8

\* With nothing under way there is nothing to state of it.
LEMMA NothingSent ==
    ASSUME TypeInv, NEW c \in Clients, to[c] = <<>>, Mine(c) = {}
    PROVE  SentInv(c) /\ EndInv(c)
<1>1. \A k \in 1..Len(to[c]) : FALSE
    BY DEF TypeInv
<1> QED
    BY <1>1 DEF SentInv, EndInv

\* A message that is not an error is an answer.
LEMMA NotTheLastWord ==
    ASSUME TypeInv, NEW c \in Clients, Steady(c), pc[c] # "closed", from[c] # <<>>,
           from[c][1].op # "ERROR"
    PROVE  /\ Rest(c) > 0 /\ Answered(c) /\ AnswerFits(c)
           /\ \A j \in 1..Rest(c) : from[c][j].n = asked[c]
<1>1. c \in cut => from[c][Len(from[c])].op = "ERROR"
    BY DEF Steady, FromInv
<1>2. PICK len \in Nat \ {0} : len = Len(from[c])
    BY DEF TypeInv
<1>3. c \in cut => len # 1
    BY <1>1, <1>2
<1>4. Rest(c) > 0
    <2>1. (c \notin cut => Rest(c) = len) /\ (c \in cut => Rest(c) = len - 1)
        BY <1>2, RestOf
    <2> QED
        BY <1>3, <2>1
<1> QED
    BY <1>4 DEF Steady, FromInv

\* A command, or the program, ends.
Settles(c) ==
    /\ to'[c] = to[c] /\ queue' = queue /\ upload' = upload /\ answer' = answer /\ cut' = cut
    /\ pc'[c] \in {"prompt", "closed"} /\ at'[c] = 0 /\ ~saw_begin'[c] /\ out'[c] = <<>>

\* It leaves the client in step if nothing of the answer is still to come.
LEMMA Settled ==
    ASSUME TypeInv, TypeInv', NEW c \in Clients, Steady(c), Settles(c), pc[c] # "closed",
           \/ pc'[c] = "closed"
           \/ c \in cut /\ from'[c] = <<>>
           \/ from[c] # <<>> /\ from'[c] = Tail(from[c]) /\ Rest(c) <= 1,
           report'[c] = report[c] \/ (report'[c] = answer[c] /\ Answered(c))
    PROVE  Steady(c)'
<1>1. Mine(c)' = Mine(c) /\ queue' = queue /\ to'[c] = to[c] /\ upload' = upload /\ cut' = cut
      /\ answer' = answer
    BY QueueAlone DEF Settles
<1>2. EndInv(c)'
    BY <1>1 DEF Steady, EndInv, SentWhole, QueuedWhole, Whole, content, payload
<1>3. FileInv(c)'
    BY DEF Settles, FileInv
<1>4. ReportInv(c)'
    <2>1. CASE report'[c] = report[c]
        BY <1>1, <2>1 DEF ReportInv, Steady, Settles
    <2>2. CASE report'[c] = answer[c] /\ Answered(c)
        <3>1. Mine(c)' = {} /\ to'[c] = <<>>
            BY <1>1, <2>2 DEF Answered
        <3>2. \A k \in 1..Len(to'[c]) : FALSE
            BY <3>1 DEF TypeInv
        <3> QED
            BY <1>1, <2>2, <3>1, <3>2 DEF ReportInv, Settles
    <2> QED
        BY <2>1, <2>2
<1>5. CASE pc'[c] = "closed"
    BY <1>2, <1>3, <1>4, <1>5 DEF Steady, SentInv, FromInv
<1>6. CASE c \in cut /\ from'[c] = <<>>
    <2>1. Rest(c)' = 0
        BY <1>1, <1>6 DEF Rest
    <2> QED
        BY <1>1, <1>2, <1>3, <1>4, <1>6, <2>1 DEF Steady, SentInv, FromInv
<1>7. CASE from[c] # <<>> /\ from'[c] = Tail(from[c]) /\ Rest(c) <= 1
    <2>1. Rest(c)' = 0 /\ (from'[c] # <<>> => from'[c][Len(from'[c])] = from[c][Len(from[c])])
        BY <1>1, <1>7, ReadOne, RestOf
    <2>2. FromInv(c)'
        BY <1>1, <1>7, <2>1 DEF FromInv, Steady
    <2>3. SentInv(c)'
        <3>1. CASE c \in cut
            BY <1>1, <3>1 DEF SentInv
        <3>2. CASE c \notin cut
            <4>1. Rest(c) > 0
                BY <1>7, <3>2, RestOf DEF TypeInv
            <4>2. to[c] = <<>> /\ Mine(c) = {}
                BY <4>1 DEF Steady, FromInv, Answered
            <4>3. Mine(c)' = {} /\ \A k \in 1..Len(to'[c]) : FALSE
                BY <1>1, <4>2 DEF TypeInv
            <4> QED
                BY <4>3 DEF SentInv
        <3> QED
            BY <3>1, <3>2
    <2> QED
        BY <1>2, <1>3, <1>4, <2>2, <2>3 DEF Steady
<1> QED
    BY <1>5, <1>6, <1>7

\* Goes and Return leave nothing of the command's local variables.
LEMMA GoesResets ==
    ASSUME TypeInv, NEW c \in Clients, NEW where, Goes(c, where)
    PROVE  at'[c] = 0 /\ ~saw_begin'[c] /\ out'[c] = <<>>
    BY DEF Goes, TypeInv

\* Of a download the last message is no chunk, and the first is its BEGIN.
LEMMA DownloadHead ==
    ASSUME TypeInv, NEW c \in Clients, Steady(c), pc[c] = "saving", from[c] # <<>>
    PROVE  /\ from[c][1].op \notin {"DOWNLOAD_BEGIN", "DOWNLOAD_CHUNK"} => Rest(c) <= 1
           /\ from[c][1].op = "DOWNLOAD_CHUNK" => saw_begin[c]
           /\ from[c][1].op = "DOWNLOAD_END" =>
                Answered(c) /\ answer[c] = [n |-> asked[c], data |-> out[c]]
<1>1. (from[c][1].op = "ERROR" /\ Rest(c) = 0) \/ Rest(c) > 0
    BY NotTheLastWord, RestOf
<1>2. CASE from[c][1].op = "ERROR" /\ Rest(c) = 0
    BY <1>2
<1>3. CASE Rest(c) > 0
    <2>1. AnswerFits(c) /\ Answered(c)
        BY <1>3 DEF Steady, FromInv
    <2>2. CASE Rest(c) = 1 /\ from[c][1].op = "ERROR"
        BY <2>2
    <2>3. ASSUME NEW s \in AnyFile, NEW e \in 0..SqlChunks, NEW o \in 0..SqlChunks, NEW b \in 0..1,
                 Arriving(c, s, e, o, b)
          PROVE  /\ from[c][1].op \notin {"DOWNLOAD_BEGIN", "DOWNLOAD_CHUNK"} => Rest(c) <= 1
                 /\ from[c][1].op = "DOWNLOAD_CHUNK" => saw_begin[c]
                 /\ from[c][1].op = "DOWNLOAD_END" =>
                      Answered(c) /\ answer[c] = [n |-> asked[c], data |-> out[c]]
        <3>1. e \in Nat /\ o \in Nat /\ o <= e /\ SqlChunks \in Nat
            BY <2>3, TransferAssumption DEF Arriving
        <3>2. CASE b = 1
            BY <2>3, <3>2 DEF Arriving
        <3>3. CASE b = 0 /\ o < e
            <4>1. 1 \in 1..(e - o) /\ b + 1 = 1
                BY <3>1, <3>3
            <4>2. from[c][1].op = "DOWNLOAD_CHUNK" /\ saw_begin[c]
                BY <2>3, <3>3, <4>1 DEF Arriving
            <4> QED
                BY <4>2
        <3>4. CASE b = 0 /\ o = e
            <4>1. b + (e - o) + 1 = 1
                BY <3>1, <3>4
            <4>2. Rest(c) = 1
                BY <2>3, <4>1 DEF Arriving
            <4>3. from[c][1].op = IF e = SqlChunks THEN "DOWNLOAD_END" ELSE "ERROR"
                BY <2>3, <4>1 DEF Arriving
            <4>4. e = SqlChunks => out[c] = FirstChunks(s, SqlChunks)
                BY <2>3, <3>4 DEF Arriving
            <4> QED
                BY <2>1, <2>3, <4>2, <4>3, <4>4 DEF Arriving
        <3> QED
            BY <3>1, <3>2, <3>3, <3>4
    <2> QED
        BY <2>1, <2>2, <2>3 DEF AnswerFits
<1> QED
    BY <1>1, <1>2, <1>3

\* The steps that end a command keep the client in step.
LEMMA EndsSteady ==
    ASSUME TypeInv, TypeInv', NEW c \in Clients, Steady(c), ~gave_up'[c],
           \/ RecvText(c) \/ UploadFails(c) \/ RecvEnd(c) \/ DownloadFails(c)
           \/ RecvBye(c) \/ RecvCut(c) \/ Leave(c)
           \/ RecvDownload(c) /\ Return(c, TRUE) /\ Success(c, out[c])
                /\ Got(c).op = "DOWNLOAD_END"
    PROVE  Steady(c)'
<1>1. pc[c] # "closed" /\ \E w \in {"prompt", "closed"} : Goes(c, w)
    BY EndsType DEF RecvText, UploadFails, RecvEnd, DownloadFails, RecvBye, RecvCut, Leave,
                    RecvDownload, Return
<1>2. pc'[c] \in {"prompt", "closed"} /\ at'[c] = 0 /\ ~saw_begin'[c] /\ out'[c] = <<>>
    BY <1>1, GoesType, GoesResets DEF States
<1>3. to' = to /\ queue' = queue /\ upload' = upload /\ answer' = answer /\ cut' = cut
    BY DEF RecvText, UploadFails, RecvEnd, DownloadFails, RecvBye, RecvCut, Leave, RecvDownload,
           serverVars
<1>4. Settles(c)
    BY <1>2, <1>3 DEF Settles
<1>5. Rest(c) > 0 /\ pc[c] # "saving" => Rest(c) <= 1
    BY <1>1 DEF Steady, FromInv, AnswerFits
<1>6. pc[c] # "saving" => Rest(c) <= 1
    BY <1>5, RestOf
<1>7. CASE RecvText(c) \/ UploadFails(c) \/ RecvBye(c)
    <2>1. Recv(c) /\ report' = report /\ pc[c] # "saving"
        BY <1>7 DEF RecvText, UploadFails, RecvBye
    <2> QED
        BY <1>1, <1>4, <1>6, <2>1, RecvType, Settled
<1>8. CASE RecvEnd(c)
    <2>1. Recv(c) /\ pc[c] = "end"
        BY <1>8 DEF RecvEnd
    <2>2. report'[c] = report[c] \/ (report'[c] = answer[c] /\ Answered(c))
        <3>1. CASE Got(c).op # "OK"
            BY <1>8, <3>1 DEF RecvEnd
        <3>2. CASE Got(c).op = "OK"
            <4>1. report'[c] = [n |-> asked[c], data |-> content(file[c])]
                BY <1>8, <3>2 DEF RecvEnd, Success, TypeInv
            <4>2. from[c][1].op = "OK" /\ from[c] # <<>>
                BY <2>1, <3>2, RecvType
            <4>3. Answered(c) /\ AnswerFits(c)
                BY <1>1, <4>2, NotTheLastWord
            <4> QED
                BY <2>1, <4>1, <4>2, <4>3 DEF AnswerFits
        <3> QED
            BY <3>1, <3>2
    <2> QED
        BY <1>1, <1>4, <1>6, <2>1, <2>2, RecvType, Settled
<1>9. CASE DownloadFails(c)
    <2>1. Recv(c) /\ pc[c] = "saving" /\ report' = report
        BY <1>9 DEF DownloadFails
    <2>2. \/ Got(c).op \in {"OK", "ERROR"}
          \/ Got(c).op = "DOWNLOAD_CHUNK" /\ ~saw_begin[c]
        BY <1>9 DEF DownloadFails, TypeInv
    <2>3. from[c] # <<>> /\ Rest(c) <= 1
        BY <2>1, <2>2, RecvType, DownloadHead
    <2> QED
        BY <1>1, <1>4, <2>1, <2>3, RecvType, Settled
<1>10. CASE RecvCut(c) \/ Leave(c)
    <2>1. report' = report /\ (pc'[c] = "closed" \/ (c \in cut /\ from'[c] = <<>>))
        <3>1. CASE RecvCut(c)
            BY <3>1 DEF RecvCut, TypeInv
        <3>2. CASE Leave(c)
            BY <3>2, GoesType DEF Leave, States
        <3> QED
            BY <1>10, <3>1, <3>2
    <2> QED
        BY <1>1, <1>4, <2>1, Settled
<1>11. CASE RecvDownload(c) /\ Success(c, out[c]) /\ Got(c).op = "DOWNLOAD_END"
    <2>1. Recv(c) /\ pc[c] = "saving"
        BY <1>11 DEF RecvDownload
    <2>2. from[c] # <<>> /\ from[c][1].op = "DOWNLOAD_END"
        BY <1>11, <2>1, RecvType
    <2>3. Rest(c) <= 1 /\ Answered(c) /\ answer[c] = [n |-> asked[c], data |-> out[c]]
        BY <2>1, <2>2, DownloadHead
    <2>4. report'[c] = answer[c]
        BY <1>11, <2>3 DEF Success, TypeInv
    <2> QED
        BY <1>1, <1>4, <2>1, <2>3, <2>4, RecvType, Settled
<1> QED
    BY <1>7, <1>8, <1>9, <1>10, <1>11

ChunksOf(f) == {f} \X Nat

\* One chunk more of the first chunks of a file.
LEMMA OneChunkMore ==
    ASSUME NEW f, NEW k \in Nat
    PROVE  Append(FirstChunks(f, k), <<f, k + 1>>) = FirstChunks(f, k + 1)
<1>1. \A j \in Nat : <<f, j>> \in ChunksOf(f)
    BY DEF ChunksOf
<1>2. ASSUME NEW j \in Nat
      PROVE  FirstChunks(f, j) \in Seq(ChunksOf(f)) /\ Len(FirstChunks(f, j)) = j
    <2>1. FirstChunks(f, j) \in [1..j -> ChunksOf(f)]
        BY <1>1 DEF FirstChunks
    <2> QED
        BY <2>1 DEF FirstChunks
<1>3. PICK a \in Seq(ChunksOf(f)) : a = Append(FirstChunks(f, k), <<f, k + 1>>)
    <2>1. PICK x \in ChunksOf(f) : x = <<f, k + 1>>
        <3>1. PICK j \in Nat : j = k + 1
            OBVIOUS
        <3>2. <<f, j>> \in ChunksOf(f)
            BY <1>1
        <3> QED
            BY <3>1, <3>2
    <2>2. PICK s \in Seq(ChunksOf(f)) : s = FirstChunks(f, k)
        BY <1>2
    <2>3. Append(s, x) \in Seq(ChunksOf(f))
        OBVIOUS
    <2> QED
        BY <2>1, <2>2, <2>3
<1>4. PICK d \in Seq(ChunksOf(f)) : d = FirstChunks(f, k + 1) /\ Len(d) = k + 1
    BY <1>2
<1>5. Len(a) = k + 1 /\ \A i \in 1..k + 1 : a[i] = <<f, i>>
    BY <1>2, <1>3 DEF FirstChunks
<1>6. \A i \in 1..k + 1 : d[i] = <<f, i>>
    BY <1>4 DEF FirstChunks
<1>7. a = d
    <2>1. a \in [1..k + 1 -> ChunksOf(f)] /\ d \in [1..k + 1 -> ChunksOf(f)]
        BY <1>4, <1>5
    <2> QED
        BY SMTT(30), <1>5, <1>6, <2>1
<1> QED
    BY <1>3, <1>4, <1>7

\* No chunks are the empty file.
LEMMA NoChunk == ASSUME NEW f PROVE FirstChunks(f, 0) = <<>>
<1>1. FirstChunks(f, 0) \in Seq({}) /\ Len(FirstChunks(f, 0)) = 0
    BY DEF FirstChunks
<1> QED
    BY <1>1

\* The next message of an upload keeps the client in step.
LEMMA UploadSteady ==
    ASSUME TypeInv, TypeInv', NEW c \in Clients, Steady(c), RecvUpload(c)
    PROVE  Steady(c)'
<1>1. pc[c] = "upload" /\ Recv(c) /\ Got(c).op = "OK" /\ from[c] # <<>> /\ from'[c] = Tail(from[c])
      /\ from[c][1].op = "OK"
    BY RecvType DEF RecvUpload
<1>2. Rest(c) = 1 /\ Answered(c) /\ upload[c] = FirstChunks(file[c], at[c])
    BY <1>1, NotTheLastWord DEF AnswerFits
<1>3. file[c] \in Files /\ at[c] <= Chunks[file[c]] /\ at[c] \in Nat /\ Chunks[file[c]] \in Nat
      /\ asked'[c] \in Nat
    BY <1>1, TransferAssumption DEF Steady, FileInv, TypeInv
<1>4. queue' = queue /\ upload' = upload /\ cut' = cut /\ report' = report /\ file' = file
      /\ answer' = answer /\ saw_begin' = saw_begin /\ out' = out
    BY DEF RecvUpload, serverVars
<1>5. FromInv(c)'
    <2>1. Rest(c)' = 0 /\ (from'[c] # <<>> => from'[c][Len(from'[c])] = from[c][Len(from[c])])
        BY <1>1, <1>2, <1>4, ReadOne
    <2> QED
        BY <1>1, <1>4, <2>1 DEF FromInv, Steady
<1>6. ReportInv(c)'
    <2>1. report[c] = Nothing
        BY <1>1 DEF ReportInv, Steady
    <2> QED
        BY <1>4, <2>1 DEF ReportInv
<1>7. ASSUME NEW m \in Messages, Asks(c, m), FileInv(c)',
             m.op = "UPLOAD_END" => Whole(c, m.data)
      PROVE  Steady(c)'
    <2>1. SentInv(c)' /\ EndInv(c)'
        BY <1>2, <1>7, AsksSent, AsksEnd DEF Steady
    <2> QED
        BY <1>5, <1>6, <1>7, <2>1 DEF Steady
<1>8. CASE more(c)
    <2>1. /\ send_message(c, "UPLOAD_CHUNK", <<file[c], at[c] + 1>>)
          /\ at' = [at EXCEPT ![c] = @ + 1] /\ pc' = pc
        BY <1>8 DEF RecvUpload
    <2>2. PICK d \in Data : d = <<file[c], at[c] + 1>>
        <3>1. file[c] \in AnyFile /\ at[c] + 1 \in Nat
            BY <1>3 DEF AnyFile
        <3> QED
            BY <3>1, DataType
    <2>3. PICK m \in Messages : m = [op |-> "UPLOAD_CHUNK", n |-> asked'[c], data |-> d]
        <3>1. "UPLOAD_CHUNK" \in Ops
            BY DEF Ops
        <3> QED
            BY <1>3, <3>1, MessageType
    <2>4. to'[c] = Append(to[c], m)
        <3>1. "UPLOAD_CHUNK" \in Ops
            BY DEF Ops
        <3> QED
            BY ZenonT(30), <2>1, <2>2, <2>3, <3>1, SendType
    <2>5. at'[c] = at[c] + 1 /\ pc'[c] = "upload" /\ at'[c] - 1 = at[c] /\ at'[c] > 0
        BY SMTT(30), <1>1, <1>3, <2>1 DEF TypeInv
    <2>6. Asks(c, m)
        BY <1>2, <1>4, <2>2, <2>3, <2>4, <2>5 DEF Asks, Fits, FirstChunks
    <2>7. FileInv(c)'
        BY <1>1, <1>3, <1>4, <1>8, <2>5 DEF FileInv, more, Steady
    <2> QED
        BY <1>7, <2>3, <2>6, <2>7
<1>9. CASE ~more(c)
    <2>1. /\ send_message(c, "UPLOAD_END", file[c])
          /\ pc' = [pc EXCEPT ![c] = "end"] /\ at' = at
        BY <1>9 DEF RecvUpload
    <2>2. "UPLOAD_END" \in Ops /\ file[c] \in Data
        BY <1>3, DataType DEF Ops, AnyFile
    <2>3. PICK m \in Messages : m = [op |-> "UPLOAD_END", n |-> asked'[c], data |-> file[c]]
        BY <1>3, <2>2, MessageType
    <2>4. to'[c] = Append(to[c], m)
        BY <2>1, <2>2, <2>3, SendType
    <2>5. pc'[c] = "end"
        BY <2>1 DEF TypeInv
    <2>6. Asks(c, m)
        BY <1>4, <2>3, <2>4, <2>5 DEF Asks, Fits
    <2>7. FileInv(c)'
        BY <1>1, <1>3, <1>4, <2>1, <2>5 DEF FileInv, Steady
    <2>8. Whole(c, m.data)
        <3>1. at[c] = Chunks[file[c]]
            BY <1>3, <1>9 DEF more
        <3> QED
            BY <1>2, <1>3, <2>3, <3>1 DEF Whole, content, FirstChunks
    <2> QED
        BY <1>7, <2>3, <2>6, <2>7, <2>8
<1> QED
    BY <1>8, <1>9

\* A message of a download, but its last, keeps the client in step.
LEMMA DownloadSteady ==
    ASSUME TypeInv, TypeInv', NEW c \in Clients, Steady(c), RecvDownload(c),
           \/ /\ Got(c).op = "DOWNLOAD_BEGIN"
              /\ saw_begin' = [saw_begin EXCEPT ![c] = TRUE]
              /\ UNCHANGED <<pc, file, at, out, report>>
           \/ /\ Got(c).op = "DOWNLOAD_CHUNK" /\ saw_begin[c]
              /\ out' = [out EXCEPT ![c] = Append(@, Got(c).data)]
              /\ UNCHANGED <<pc, file, at, saw_begin, report>>
    PROVE  Steady(c)'
<1>1. /\ pc[c] = "saving" /\ pc' = pc /\ file' = file /\ at' = at /\ report' = report
      /\ asked' = asked /\ to' = to /\ queue' = queue /\ upload' = upload /\ answer' = answer
      /\ cut' = cut /\ Recv(c)
    BY DEF RecvDownload, serverVars
<1>2. /\ from[c] # <<>> /\ from'[c] = Tail(from[c]) /\ Got(c) = from[c][1]
      /\ from[c][1].op \in {"DOWNLOAD_BEGIN", "DOWNLOAD_CHUNK"}
    BY <1>1, RecvType
<1>3. Rest(c) > 0 /\ Answered(c) /\ AnswerFits(c) /\ \A j \in 1..Rest(c) : from[c][j].n = asked[c]
    BY <1>1, <1>2, NotTheLastWord
<1>4. PICK r \in Nat : r = Rest(c) /\ r > 0
    BY <1>3, RestOf
<1>5. /\ Rest(c)' = r - 1
      /\ \A j \in 1..Len(from'[c]) : j + 1 \in 1..Len(from[c]) /\ from'[c][j] = from[c][j + 1]
      /\ from'[c] # <<>> => from'[c][Len(from'[c])] = from[c][Len(from[c])]
    BY <1>1, <1>2, <1>4, ReadOne
<1>6. PICK len \in Nat : len = Len(from'[c]) /\ r - 1 <= len
    <2>1. Len(from'[c]) \in Nat /\ Rest(c)' <= Len(from'[c])
        <3>1. TypeInv /\ c \in Clients => Rest(c) <= Len(from[c]) /\ Len(from[c]) \in Nat
            BY RestOf
        <3>2. (TypeInv /\ c \in Clients => Rest(c) <= Len(from[c]) /\ Len(from[c]) \in Nat)'
            BY RestOf, PTL
        <3> QED
            BY <3>2
    <2> QED
        BY <1>5, <2>1
<1>7. PICK s \in AnyFile, e \in 0..SqlChunks, o \in 0..SqlChunks, b \in 0..1 :
        Arriving(c, s, e, o, b)
    BY <1>1, <1>2, <1>3 DEF AnswerFits
<1>8. /\ o <= e /\ b = (IF saw_begin[c] THEN 0 ELSE 1) /\ (b = 1 => o = 0)
      /\ out[c] = FirstChunks(s, o)
      /\ answer[c] = [n |-> asked[c], data |-> FirstChunks(s, SqlChunks)]
      /\ r = b + (e - o) + 1
      /\ b = 1 => from[c][1].op = "DOWNLOAD_BEGIN"
      /\ \A j \in 1..(e - o) :
           from[c][b + j].op = "DOWNLOAD_CHUNK" /\ from[c][b + j].data = <<s, o + j>>
      /\ from[c][b + (e - o) + 1].op = IF e = SqlChunks THEN "DOWNLOAD_END" ELSE "ERROR"
    BY <1>4, <1>7 DEF Arriving
<1>9. e \in Nat /\ o \in Nat /\ SqlChunks \in Nat
    BY TransferAssumption
<1>10. AnswerFits(c)'
    <2>1. CASE from[c][1].op = "DOWNLOAD_BEGIN"
        <3>1. b = 1
            <4>1. SUFFICES ASSUME b = 0 PROVE FALSE
                OBVIOUS
            <4>2. CASE o < e
                <5>1. 1 \in 1..(e - o) /\ b + 1 = 1
                    BY <1>9, <4>1, <4>2
                <5> QED
                    BY <1>8, <2>1, <5>1
            <4>3. CASE o = e
                <5>1. b + (e - o) + 1 = 1
                    BY <1>9, <4>1, <4>3
                <5> QED
                    BY <1>8, <2>1, <5>1
            <4> QED
                BY <1>8, <1>9, <4>2, <4>3
        <3>2. saw_begin'[c] /\ out' = out /\ o = 0
            BY <1>2, <1>8, <2>1, <3>1 DEF TypeInv
        <3>3. r = e + 2 /\ Rest(c)' = 0 + (e - 0) + 1 /\ e + 1 <= len
            BY <1>5, <1>6, <1>8, <1>9, <3>1, <3>2
        <3>4. ASSUME NEW j \in 1..(e - 0)
              PROVE  from'[c][0 + j].op = "DOWNLOAD_CHUNK" /\ from'[c][0 + j].data = <<s, 0 + j>>
            <4>1. j \in 1..len /\ j \in 1..(e - o) /\ b + j = j + 1 /\ 0 + j = j /\ o + j = j
                BY <1>9, <3>1, <3>2, <3>3
            <4>2. from'[c][j] = from[c][b + j]
                BY <1>5, <1>6, <4>1
            <4>3. from[c][b + j].op = "DOWNLOAD_CHUNK" /\ from[c][b + j].data = <<s, o + j>>
                BY <1>8, <4>1
            <4> QED
                BY <4>1, <4>2, <4>3
        <3>5. from'[c][0 + (e - 0) + 1].op = IF e = SqlChunks THEN "DOWNLOAD_END" ELSE "ERROR"
            <4>1. e + 1 \in 1..len /\ (e + 1) + 1 = b + (e - o) + 1 /\ 0 + (e - 0) + 1 = e + 1
                BY <1>9, <3>1, <3>2, <3>3
            <4>2. from'[c][e + 1] = from[c][b + (e - o) + 1]
                BY SMTT(30), <1>5, <1>6, <4>1
            <4> QED
                BY <1>8, <4>1, <4>2
        <3>6. Arriving(c, s, e, 0, 0)'
            BY <1>1, <1>8, <1>9, <3>2, <3>3, <3>4, <3>5 DEF Arriving
        <3>7. \E x \in 0..SqlChunks, y \in 0..1 : x = 0 /\ y = 0
            BY <1>9
        <3>8. \E x \in 0..SqlChunks, y \in 0..1 : Arriving(c, s, e, x, y)'
            BY <3>6, <3>7
        <3> QED
            BY <1>1, <3>8 DEF AnswerFits
    <2>2. CASE from[c][1].op = "DOWNLOAD_CHUNK"
        <3>1. saw_begin[c] /\ b = 0
            BY <1>1, <1>2, <1>8, <2>2, DownloadHead
        <3>2. o < e
            <4>1. SUFFICES ASSUME o = e PROVE FALSE
                BY <1>8, <1>9
            <4>2. b + (e - o) + 1 = 1
                BY <1>9, <3>1, <4>1
            <4> QED
                BY <1>8, <2>2, <4>2
        <3>3. PICK p \in 0..SqlChunks : p = o + 1 /\ p <= e
            BY <1>9, <3>2
        <3>4. saw_begin' = saw_begin /\ out'[c] = FirstChunks(s, p)
            <4>1. 1 \in 1..(e - o) /\ b + 1 = 1 /\ o + 1 = p
                BY <1>9, <3>1, <3>2, <3>3
            <4>2. from[c][1].data = <<s, p>>
                BY <1>8, <4>1
            <4>3. out'[c] = Append(out[c], from[c][1].data) /\ saw_begin' = saw_begin
                BY <1>2, <2>2 DEF TypeInv
            <4>4. Append(FirstChunks(s, o), <<s, o + 1>>) = FirstChunks(s, o + 1)
                BY <1>9, OneChunkMore
            <4> QED
                BY <1>8, <3>3, <4>2, <4>3, <4>4
        <3>5. Rest(c)' = 0 + (e - p) + 1 /\ (e - p) + 1 <= len
            BY <1>5, <1>6, <1>8, <1>9, <3>1, <3>3
        <3>6. ASSUME NEW j \in 1..(e - p)
              PROVE  from'[c][0 + j].op = "DOWNLOAD_CHUNK" /\ from'[c][0 + j].data = <<s, p + j>>
            <4>1. j \in 1..len /\ j + 1 \in 1..(e - o) /\ b + (j + 1) = j + 1 /\ 0 + j = j
                  /\ o + (j + 1) = p + j
                BY <1>9, <3>1, <3>3, <3>5
            <4>2. from'[c][j] = from[c][b + (j + 1)]
                BY <1>5, <1>6, <4>1
            <4>3. PICK k \in 1..(e - o) : k = j + 1
                BY <4>1
            <4>4. from[c][b + k].op = "DOWNLOAD_CHUNK" /\ from[c][b + k].data = <<s, o + k>>
                BY <1>8
            <4> QED
                BY <4>1, <4>2, <4>3, <4>4
        <3>7. from'[c][0 + (e - p) + 1].op = IF e = SqlChunks THEN "DOWNLOAD_END" ELSE "ERROR"
            <4>1. PICK j \in 1..len : /\ j = (e - p) + 1 /\ j = 0 + (e - p) + 1
                                      /\ j + 1 = b + (e - o) + 1
                BY <1>9, <3>1, <3>3, <3>5
            <4>2. from'[c][j] = from[c][b + (e - o) + 1]
                BY <1>5, <1>6, <4>1
            <4> QED
                BY <1>8, <4>1, <4>2
        <3>8. Arriving(c, s, e, p, 0)'
            BY <1>1, <1>8, <1>9, <3>1, <3>3, <3>4, <3>5, <3>6, <3>7 DEF Arriving
        <3>9. \E y \in 0..1 : y = 0
            OBVIOUS
        <3>10. \E y \in 0..1 : Arriving(c, s, e, p, y)'
            BY <3>8, <3>9
        <3> QED
            BY <1>1, <3>10 DEF AnswerFits
    <2> QED
        BY <1>2, <2>1, <2>2
<1>11. Answered(c)' /\ to'[c] = <<>> /\ Mine(c)' = {}
    <2>1. Mine(c)' = Mine(c)
        BY <1>1, QueueAlone
    <2> QED
        BY <1>1, <1>3, <2>1 DEF Answered
<1>12. FromInv(c)'
    <2>1. \A j \in 1..Rest(c)' : from'[c][j].n = asked'[c]
        <3>1. ASSUME NEW j \in 1..r - 1 PROVE from'[c][j].n = asked'[c]
            <4>1. j \in 1..len /\ j + 1 \in 1..r
                BY <1>6
            <4> QED
                BY <1>1, <1>3, <1>4, <1>5, <1>6, <4>1
        <3> QED
            BY <1>5, <3>1
    <2>2. c \in cut' /\ from'[c] # <<>> => from'[c][Len(from'[c])].op = "ERROR"
        BY <1>1, <1>2, <1>5 DEF Steady, FromInv
    <2> QED
        BY <1>1, <1>10, <1>11, <2>1, <2>2 DEF FromInv
<1>13. SentInv(c)' /\ EndInv(c)'
    <2>1. \A k \in 1..Len(to'[c]) : FALSE
        BY <1>11 DEF TypeInv
    <2> QED
        BY <1>11, <2>1 DEF SentInv, EndInv
<1>14. FileInv(c)' /\ ReportInv(c)'
    BY <1>1 DEF FileInv, ReportInv, Steady
<1> QED
    BY <1>12, <1>13, <1>14 DEF Steady

-----------------------------------------------------------------------------
(* The server's steps for the client.                                        *)

\* A client that waits for its server has no answer yet.
LEMMA NoAnswerYet ==
    ASSUME TypeInv, NEW c \in Clients, Steady(c), pc[c] # "closed", ~Answered(c)
    PROVE  Rest(c) = 0 /\ (c \notin cut => from[c] = <<>>)
<1>1. PICK r \in Nat : r = Rest(c)
    BY RestOf
<1>2. r = 0
    BY <1>1 DEF Steady, FromInv
<1>3. c \notin cut => Len(from[c]) = 0
    BY <1>1, <1>2, RestOf
<1>4. PICK s \in Seq(Messages) : s = from[c]
    BY DEF TypeInv
<1>5. Len(s) = 0 => s = <<>>
    OBVIOUS
<1> QED
    BY <1>1, <1>2, <1>3, <1>4, <1>5

\* One answer is all that a client finds, if it found nothing before.
LEMMA OneAnswer ==
    ASSUME NEW c \in Clients, NEW m \in Messages, from[c] = <<>>, c \notin cut', cut' = cut,
           from'[c] = from[c] \o <<m>>
    PROVE  Rest(c)' = 1 /\ from'[c][1] = m /\ from'[c] # <<>>
<1>1. from'[c] = <<m>> /\ Len(<<m>>) = 1 /\ <<m>>[1] = m /\ <<m>> # <<>>
    OBVIOUS
<1>2. Rest(c)' = 1 - 0
    BY <1>1 DEF Rest
<1> QED
    BY <1>1, <1>2

\* The ordinary thread keeps the client in step when it reads its message.
LEMMA ReadsSteady ==
    ASSUME TypeInv, TypeInv', NEW c \in Clients, Steady(c), OrdinaryReads(c)
    PROVE  Steady(c)'
<1>1. /\ pc' = pc /\ asked' = asked /\ file' = file /\ at' = at /\ saw_begin' = saw_begin
      /\ out' = out /\ report' = report /\ upload' = upload /\ answer' = answer /\ cut' = cut
    BY DEF OrdinaryReads, clientVars
<1>2. to[c] # <<>> /\ to'[c] = Tail(to[c]) /\ to[c][1] \in Messages
    BY OrdinaryReadsType
<1>3. PICK len \in Nat \ {0} : len = Len(to[c])
    BY <1>2 DEF TypeInv
<1>4. Len(to'[c]) = len - 1 /\ \A k \in 1..Len(to'[c]) :
        k \in Nat \ {0} /\ k + 1 \in 1..len /\ to'[c][k] = to[c][k + 1]
    BY <1>2, <1>3 DEF TypeInv
<1>5. 1 \in 1..Len(to[c]) /\ \A k \in 1..Len(to'[c]) : k + 1 \in 1..Len(to[c]) /\ k + 1 # 1
    BY <1>3, <1>4
<1>6. c \notin cut /\ pc[c] # "closed" =>
        Mine(c) = {} /\ SentFits(c, 1) /\ \A k \in 1..Len(to'[c]) : FALSE
    BY <1>5 DEF Steady, SentInv
<1>7. \A k \in 1..Len(to'[c]) : to'[c][k].op # "UPLOAD_END"
    BY <1>4, <1>5 DEF Steady, EndInv
<1>8. FileInv(c)'
    BY <1>1 DEF FileInv, Steady
<1>9. pc[c] # "closed" => Rest(c) = 0 /\ (c \notin cut => from[c] = <<>>)
    BY <1>2, NoAnswerYet DEF Answered
<1>10. \A op, n, data : Fits(c, op, n, data) => Fits(c, op, n, data)'
    BY <1>1 DEF Fits
<1>11. CASE /\ to[c][1].op \in {"CONNECT", "BYE", "JOB_STATUS"} /\ queue' = queue
            /\ pc[c] = "closed" \/ c \in cut => from'[c] = from[c]
            /\ pc[c] # "closed" /\ c \notin cut =>
                 \E m \in Messages : m.n = to[c][1].n /\ from'[c] = from[c] \o <<m>>
    <2>1. Mine(c)' = Mine(c)
        BY <1>11, QueueAlone
    <2>2. SentInv(c)'
        BY <1>1, <1>6, <2>1 DEF SentInv
    <2>3. EndInv(c)'
        BY <1>1, <1>7, <1>11, <2>1 DEF EndInv, Steady, QueuedWhole, Whole, content, payload
    <2>4. ReportInv(c)'
        BY <1>1, <1>4, <1>5, <2>1 DEF ReportInv, Steady
    <2>5. FromInv(c)'
        <3>1. CASE pc[c] = "closed"
            BY <1>1, <3>1 DEF FromInv
        <3>2. CASE pc[c] # "closed" /\ c \in cut
            <4>1. Rest(c)' = Rest(c) /\ from'[c] = from[c]
                BY <1>1, <1>11, <3>2 DEF Rest
            <4> QED
                BY <1>1, <1>9, <3>2, <4>1 DEF FromInv, Steady
        <3>3. CASE pc[c] # "closed" /\ c \notin cut
            <4>1. PICK m \in Messages : m.n = to[c][1].n /\ from'[c] = from[c] \o <<m>>
                BY <1>11, <3>3
            <4>2. Rest(c)' = 1 /\ from'[c][1] = m
                BY <1>1, <1>9, <3>3, <4>1, OneAnswer
            <4>3. m.n = asked[c] /\ pc[c] \notin {"prompt", "upload", "end", "saving"}
                BY <1>6, <1>11, <3>3, <4>1 DEF SentFits, Fits
            <4>4. AnswerFits(c)'
                BY <1>1, <4>2, <4>3 DEF AnswerFits
            <4>5. Answered(c)'
                <5>1. PICK s \in Seq(Messages) : s = to'[c]
                    BY DEF TypeInv
                <5>2. (\A k \in 1..Len(s) : FALSE) => s = <<>>
                    OBVIOUS
                <5> QED
                    BY <1>6, <2>1, <3>3, <5>1, <5>2 DEF Answered
            <4>6. \A j \in 1..Rest(c)' : from'[c][j].n = asked'[c]
                BY <1>1, <4>2, <4>3
            <4> QED
                BY <1>1, <3>3, <4>3, <4>4, <4>5, <4>6 DEF FromInv
        <3> QED
            BY <3>1, <3>2, <3>3
    <2> QED
        BY <1>8, <2>2, <2>3, <2>4, <2>5 DEF Steady
<1>12. CASE /\ to[c][1].op \notin {"CONNECT", "BYE", "JOB_STATUS"} /\ from' = from
            /\ Entry(c, to[c][1]) \in Requests /\ queue' = Append(queue, Entry(c, to[c][1]))
    <2>1. PICK e \in Requests : e = Entry(c, to[c][1])
        BY <1>12
    <2>2. e.op = to[c][1].op /\ e.n = to[c][1].n /\ payload(e) = to[c][1].data
        BY <1>2, <2>1 DEF Entry, payload, Messages
    <2>3. \A i \in Mine(c)' : (i \in Mine(c) /\ queue'[i] = queue[i])
                              \/ (i = Len(queue) + 1 /\ queue'[i] = e)
        BY <1>12, <2>1, QueueAppend
    <2>4. PICK l \in Nat : l = Len(queue) /\ \A i \in Mine(c) : i \in Nat /\ i <= l
        BY DEF TypeInv, Mine
    <2>5. SentInv(c)'
        <3>1. SUFFICES ASSUME c \notin cut, pc[c] # "closed" PROVE SentInv(c)'
            BY <1>1 DEF SentInv
        <3>2. \A i \in Mine(c)' : i = l + 1 /\ queue'[i] = e
            BY <1>6, <2>3, <2>4, <3>1
        <3>3. Fits(c, e.op, e.n, payload(e))
            BY <1>6, <2>2, <3>1 DEF SentFits
        <3>4. \A i \in Mine(c)' : QueuedFits(c, i)'
            BY <1>10, <3>2, <3>3 DEF QueuedFits, payload
        <3> QED
            BY <1>6, <3>1, <3>2, <3>4 DEF SentInv
    <2>6. FromInv(c)'
        <3>1. Rest(c)' = Rest(c)
            BY <1>1, <1>12 DEF Rest
        <3> QED
            BY <1>1, <1>9, <1>12, <3>1 DEF FromInv, Steady
    <2>7. EndInv(c)'
        <3>1. ASSUME NEW i \in Mine(c)', queue'[i].op = "UPLOAD_END"
              PROVE  QueuedWhole(c, i)' /\ \A j \in Mine(c)' : ~(j < i)
            <4>1. CASE i \in Mine(c) /\ queue'[i] = queue[i]
                <5>1. QueuedWhole(c, i) /\ \A j \in Mine(c) : ~(j < i)
                    BY <3>1, <4>1 DEF Steady, EndInv
                <5>2. i \in Nat /\ i <= l
                    BY <2>4, <4>1
                <5>3. \A j \in Mine(c)' : j \in Mine(c) \/ j = l + 1
                    BY <2>3, <2>4
                <5>4. \A j \in Mine(c)' : ~(j < i)
                    BY <5>1, <5>2, <5>3
                <5>5. QueuedWhole(c, i)'
                    BY <1>1, <4>1, <5>1 DEF QueuedWhole, Whole, content, payload
                <5> QED
                    BY <5>4, <5>5
            <4>2. CASE i = Len(queue) + 1 /\ queue'[i] = e
                <5>1. Mine(c) = {} /\ SentWhole(c, 1)
                    BY <1>5, <2>2, <3>1, <4>2 DEF Steady, EndInv
                <5>2. \A j \in Mine(c)' : j = l + 1 /\ i = l + 1
                    BY <2>3, <2>4, <4>2, <5>1
                <5>3. \A j \in Mine(c)' : ~(j < i)
                    BY <5>2
                <5>4. QueuedWhole(c, i)'
                    BY <1>1, <2>2, <4>2, <5>1 DEF QueuedWhole, SentWhole, Whole, content, payload
                <5> QED
                    BY <5>3, <5>4
            <4> QED
                BY <2>3, <4>1, <4>2
        <3> QED
            BY <1>7, <3>1 DEF EndInv
    <2>8. ReportInv(c)'
        <3>1. report[c] = Nothing
            BY <1>5, <1>12 DEF Steady, ReportInv
        <3> QED
            BY <1>1, <3>1 DEF ReportInv
    <2> QED
        BY <1>8, <2>5, <2>6, <2>7, <2>8 DEF Steady
<1> QED
    BY <1>11, <1>12, OrdinaryReadsType

\* So does it when it closes the connection of a client that was cut off.
LEMMA ClosesSteady ==
    ASSUME TypeInv, TypeInv', NEW c \in Clients, Steady(c), OrdinaryCloses(c)
    PROVE  Steady(c)'
<1>1. /\ pc' = pc /\ asked' = asked /\ file' = file /\ at' = at /\ saw_begin' = saw_begin
      /\ out' = out /\ report' = report /\ upload' = upload /\ answer' = answer /\ cut' = cut
      /\ from' = from /\ queue' = queue /\ c \in cut /\ to'[c] = <<>>
    BY DEF OrdinaryCloses, clientVars, serverVars, TypeInv
<1>2. Mine(c)' = Mine(c) /\ \A k \in 1..Len(to'[c]) : FALSE
    BY <1>1, QueueAlone DEF TypeInv
<1>3. Rest(c)' = Rest(c)
    BY <1>1 DEF Rest
<1>4. \A s, e, o, b : Arriving(c, s, e, o, b) => Arriving(c, s, e, o, b)'
    <2>1. saw_begin'[c] = saw_begin[c] /\ out'[c] = out[c] /\ answer'[c] = answer[c]
          /\ asked'[c] = asked[c] /\ from'[c] = from[c]
        BY <1>1
    <2> QED
        BY <1>3, <2>1 DEF Arriving
<1>5. AnswerFits(c) => AnswerFits(c)'
    BY <1>1, <1>3, <1>4 DEF AnswerFits, content
<1>6. FromInv(c)'
    BY <1>1, <1>2, <1>3, <1>5 DEF FromInv, Answered, Steady
<1>7. SentInv(c)' /\ FileInv(c)' /\ ReportInv(c)'
    BY <1>1, <1>2 DEF SentInv, FileInv, ReportInv, Steady
<1>8. EndInv(c)'
    BY <1>1, <1>2 DEF EndInv, Steady, QueuedWhole, Whole, content, payload
<1> QED
    BY <1>6, <1>7, <1>8 DEF Steady

\* A message after others.
LEMMA OneMessageMore ==
    ASSUME NEW s \in Seq(Messages), NEW m \in Messages
    PROVE  /\ Len(s \o <<m>>) = Len(s) + 1 /\ (s \o <<m>>)[Len(s) + 1] = m
           /\ \A j \in 1..Len(s) : (s \o <<m>>)[j] = s[j]
<1>1. <<m>> \in Seq(Messages) /\ Len(<<m>>) = 1 /\ <<m>>[1] = m
    OBVIOUS
<1>2. PICK u \in Seq(Messages) : u = <<m>> /\ Len(u) = 1 /\ u[1] = m
    BY <1>1
<1>3. /\ Len(s \o u) = Len(s) + Len(u)
      /\ \A j \in 1..Len(s) + Len(u) : (s \o u)[j] = IF j <= Len(s) THEN s[j] ELSE u[j - Len(s)]
    BY ConcatProperties
<1>4. PICK l \in Nat : l = Len(s)
    OBVIOUS
<1>5. Len(s \o u) = l + 1 /\ \A j \in 1..l + 1 : (s \o u)[j] = IF j <= l THEN s[j] ELSE u[j - l]
    BY <1>2, <1>3, <1>4
<1>6. (s \o u)[l + 1] = m
    <2>1. l + 1 \in 1..l + 1 /\ ~(l + 1 <= l) /\ (l + 1) - l = 1
        OBVIOUS
    <2> QED
        BY <1>2, <1>5, <2>1
<1> QED
    BY <1>2, <1>4, <1>5, <1>6

\* The admin's last word comes after everything that the client has yet to read.
LEMMA DisconnectSteady ==
    ASSUME TypeInv, TypeInv', NEW c \in Clients, Steady(c), Disconnect(c)
    PROVE  Steady(c)'
<1>1. /\ pc' = pc /\ asked' = asked /\ file' = file /\ at' = at /\ saw_begin' = saw_begin
      /\ out' = out /\ report' = report /\ upload' = upload /\ answer' = answer /\ to' = to
      /\ queue' = queue /\ c \notin cut /\ pc[c] # "closed" /\ c \in cut'
    BY DEF Disconnect, clientVars
<1>2. PICK m \in Messages : m = [op |-> "ERROR", n |-> 0, data |-> <<>>]
    <2>1. "ERROR" \in Ops /\ 0 \in Nat /\ <<>> \in Data
        BY DEF Ops, Data
    <2> QED
        BY <2>1 DEF Messages
<1>3. PICK len \in Nat : len = Len(from[c]) /\ Rest(c) = len
    BY <1>1, RestOf
<1>4. from'[c] = from[c] \o <<m>>
    <2>1. respond(c, <<m>>) /\ <<m>> \in Seq(Messages)
        BY <1>2 DEF Disconnect
    <2> QED
        BY <1>1, <2>1, RespondType
<1>5. /\ Len(from'[c]) = len + 1 /\ from'[c][len + 1] = m /\ from'[c] # <<>>
      /\ \A j \in 1..len : from'[c][j] = from[c][j]
    <2>1. PICK s \in Seq(Messages) : s = from[c] /\ Len(s) = len
        BY <1>3 DEF TypeInv
    <2>2. PICK t \in Seq(Messages) : t = from'[c]
        BY DEF TypeInv
    <2>3. t = s \o <<m>>
        BY <1>4, <2>1, <2>2
    <2>4. Len(t) = len + 1 /\ t[len + 1] = m /\ \A j \in 1..len : t[j] = s[j]
        BY <2>1, <2>3, OneMessageMore
    <2>5. t # <<>>
        BY SMTT(30), <2>4
    <2> QED
        BY <2>1, <2>2, <2>4, <2>5
<1>6. Rest(c)' = len
    <2>1. Rest(c)' = (len + 1) - 1
        BY <1>1, <1>5 DEF Rest
    <2> QED
        BY <2>1
<1>7. from'[c][Len(from'[c])].op = "ERROR"
    BY <1>2, <1>5
<1>8. Mine(c)' = Mine(c)
    BY <1>1, QueueAlone
<1>9. SentInv(c)' /\ FileInv(c)' /\ ReportInv(c)'
    BY <1>1, <1>8 DEF SentInv, FileInv, ReportInv, Steady
<1>10. EndInv(c)'
    BY <1>1, <1>8 DEF EndInv, Steady, QueuedWhole, SentWhole, Whole, content, payload
<1>11. ASSUME len > 0, AnswerFits(c) PROVE AnswerFits(c)'
    <2>1. from'[c][1] = from[c][1]
        BY <1>5, <1>11
    <2>2. ASSUME NEW s \in AnyFile, NEW e \in 0..SqlChunks, NEW o \in 0..SqlChunks,
                 NEW b \in 0..1, Arriving(c, s, e, o, b)
          PROVE  Arriving(c, s, e, o, b)'
        <3>1. e \in Nat /\ o \in Nat /\ o <= e /\ len = b + (e - o) + 1
            BY <1>3, <2>2, TransferAssumption DEF Arriving
        <3>2. from'[c][b + (e - o) + 1] = from[c][b + (e - o) + 1]
            <4>1. b + (e - o) + 1 \in 1..len
                BY <1>11, <3>1
            <4> QED
                BY <1>5, <4>1
        <3>3. ASSUME NEW j \in 1..(e - o)
              PROVE  from'[c][b + j].op = "DOWNLOAD_CHUNK" /\ from'[c][b + j].data = <<s, o + j>>
            <4>1. b + j \in 1..len
                BY <3>1
            <4>2. from[c][b + j].op = "DOWNLOAD_CHUNK" /\ from[c][b + j].data = <<s, o + j>>
                BY <2>2 DEF Arriving
            <4> QED
                BY <1>5, <4>1, <4>2
        <3> QED
            BY <1>1, <1>3, <1>6, <2>1, <2>2, <3>2, <3>3 DEF Arriving
    <2>3. pc[c] = "saving" =>
             \/ Rest(c)' = 1 /\ from'[c][1].op = "ERROR"
             \/ \E s \in AnyFile, e \in 0..SqlChunks, o \in 0..SqlChunks, b \in 0..1 :
                  Arriving(c, s, e, o, b)'
        BY <1>3, <1>6, <1>11, <2>1, <2>2 DEF AnswerFits
    <2> QED
        BY <1>1, <1>3, <1>6, <1>11, <2>1, <2>3 DEF AnswerFits, content
<1>12. FromInv(c)'
    <2>1. len > 0 => Answered(c)' /\ pc'[c] # "prompt" /\ AnswerFits(c)'
                     /\ \A j \in 1..len : from'[c][j].n = asked'[c]
        BY <1>1, <1>3, <1>5, <1>8, <1>11 DEF Steady, FromInv, Answered
    <2> QED
        BY <1>6, <1>7, <2>1 DEF FromInv
<1> QED
    BY <1>9, <1>10, <1>12 DEF Steady

\* The contents of a file.
LEMMA ContentType ==
    ASSUME NEW f \in Files
    PROVE  /\ content(f) \in Seq(ChunksOf(f)) /\ Len(content(f)) = Chunks[f] /\ Chunks[f] \in Nat
           /\ Chunks[f] > 0 => content(f)[1] = <<f, 1>>
<1>1. PICK k \in Nat : k = Chunks[f]
    BY TransferAssumption
<1>2. PICK s \in [1..k -> ChunksOf(f)] : s = content(f)
    <2>1. \A i \in 1..k : <<f, i>> \in ChunksOf(f)
        BY DEF ChunksOf
    <2> QED
        BY <1>1, <2>1 DEF content
<1>3. s \in Seq(ChunksOf(f)) /\ Len(s) = k
    OBVIOUS
<1>4. k > 0 => s[1] = <<f, 1>>
    BY <1>1, <1>2 DEF content
<1> QED
    BY <1>1, <1>2, <1>3, <1>4

\* Of a whole file the parser reads nothing but this file: no other begins
\* with the same chunk.
LEMMA ParsedWhole ==
    ASSUME NEW g \in Files, NEW f \in parsed(content(g))
    PROVE  f = g
<1>1. f \in Files /\ Chunks[f] > 0 /\ IsPrefix(content(f), content(g))
    BY TransferAssumption DEF parsed
<1>2. PICK k \in Nat \ {0} : k = Chunks[f] /\ Len(content(f)) = k /\ content(f)[1] = <<f, 1>>
    BY <1>1, ContentType
<1>3. PICK l \in Nat : l = Chunks[g] /\ Len(content(g)) = l /\ k <= l
    BY <1>1, <1>2, ContentType DEF IsPrefix
<1>4. content(g)[1] = <<g, 1>>
    BY <1>3, ContentType
<1>5. SubSeq(content(f), 1, k) = SubSeq(content(g), 1, k)
    BY <1>1, <1>2 DEF IsPrefix
<1>6. ASSUME NEW h \in Files, Len(content(h)) >= k PROVE SubSeq(content(h), 1, k)[1] = content(h)[1]
    <2>1. PICK s \in Seq(ChunksOf(h)) : s = content(h)
        BY ContentType
    <2>2. SubSeq(s, 1, k)[1] = s[1]
        BY <1>6, <2>1
    <2> QED
        BY <2>1, <2>2
<1>7. content(f)[1] = content(g)[1]
    <2>1. SubSeq(content(f), 1, k)[1] = content(f)[1]
        BY <1>1, <1>2, <1>6
    <2>2. SubSeq(content(g), 1, k)[1] = content(g)[1]
        BY <1>3, <1>6
    <2> QED
        BY <1>5, <2>1, <2>2
<1> QED
    BY <1>2, <1>4, <1>7

\* The worker serves a request of client c.
Serves(c, q) ==
    /\ Took(q) /\ client_id(q) = c /\ pc' = pc /\ asked' = asked /\ file' = file /\ at' = at
    /\ saw_begin' = saw_begin /\ out' = out /\ report' = report /\ to' = to /\ cut' = cut

\* It is the request that the client waits for, and the first of them.
LEMMA ServedRequest ==
    ASSUME TypeInv, NEW c \in Clients, Steady(c), NEW q, Took(q), client_id(q) = c
    PROVE  /\ 1 \in Mine(c) /\ ~Answered(c) /\ queue[1] = q
           /\ pc[c] # "closed" /\ c \notin cut =>
                Fits(c, q.op, q.n, payload(q)) /\ from[c] = <<>>
           /\ q.op = "UPLOAD_END" => Whole(c, payload(q))
<1>1. queue # <<>> /\ q = queue[1] /\ Len(queue) \in Nat
    BY TookType
<1>2. 1 \in Mine(c)
    BY <1>1 DEF Mine, TypeInv
<1>3. ~Answered(c)
    BY <1>2 DEF Answered
<1>4. pc[c] # "closed" /\ c \notin cut => QueuedFits(c, 1)
    BY <1>2 DEF Steady, SentInv
<1>5. q.op = "UPLOAD_END" => QueuedWhole(c, 1)
    BY <1>1, <1>2 DEF Steady, EndInv
<1> QED
    BY <1>1, <1>2, <1>3, <1>4, <1>5, NoAnswerYet DEF QueuedFits, QueuedWhole

\* Served, the client has nothing more under way but its answers.
LEMMA Served ==
    ASSUME TypeInv, TypeInv', NEW c \in Clients, Steady(c), NEW q, Serves(c, q),
           pc[c] = "closed" \/ c \in cut => from'[c] = from[c],
           pc[c] # "closed" /\ c \notin cut =>
             AnswerFits(c)' /\ \A j \in 1..Rest(c)' : from'[c][j].n = asked'[c]
    PROVE  Steady(c)'
<1>1. Took(q) /\ 1 \in Mine(c) /\ ~Answered(c) /\ queue[1] = q
    BY ServedRequest DEF Serves
<1>2. \A i \in Mine(c)' : i \in Nat \ {0} /\ i + 1 \in Mine(c) /\ queue'[i] = queue[i + 1]
    BY <1>1, QueueTail DEF Mine
<1>3. pc[c] # "closed" /\ c \notin cut => Mine(c)' = {} /\ \A k \in 1..Len(to[c]) : FALSE
    <2>1. SUFFICES ASSUME pc[c] # "closed", c \notin cut
                   PROVE  Mine(c)' = {} /\ \A k \in 1..Len(to[c]) : FALSE
        OBVIOUS
    <2>2. \A j \in Mine(c) : j = 1
        BY <1>1, <2>1 DEF Steady, SentInv
    <2>3. Mine(c)' = {}
        BY <1>2, <2>2
    <2> QED
        BY <1>1, <2>1, <2>3 DEF Steady, SentInv
<1>4. SentInv(c)'
    BY <1>3 DEF SentInv, Serves
<1>5. EndInv(c)'
    <2>1. \A k \in 1..Len(to'[c]) : to'[c][k].op # "UPLOAD_END"
        BY <1>1 DEF Steady, EndInv, Serves
    <2>2. \A i \in Mine(c)' : queue'[i].op # "UPLOAD_END"
        <3>1. SUFFICES ASSUME NEW i \in Mine(c)', queue'[i].op = "UPLOAD_END" PROVE FALSE
            OBVIOUS
        <3>2. i + 1 \in Mine(c) /\ queue[i + 1].op = "UPLOAD_END" /\ 1 < i + 1
            BY <1>2, <3>1
        <3> QED
            BY <1>1, <3>2 DEF Steady, EndInv
    <2> QED
        BY <2>1, <2>2 DEF EndInv
<1>6. ReportInv(c)'
    <2>1. report[c] = Nothing
        BY <1>1 DEF Steady, ReportInv
    <2> QED
        BY <2>1 DEF ReportInv, Serves
<1>7. FileInv(c)'
    BY DEF FileInv, Steady, Serves
<1>8. FromInv(c)'
    <2>1. CASE pc[c] = "closed"
        BY <2>1 DEF FromInv, Serves
    <2>2. CASE pc[c] # "closed" /\ c \in cut
        <3>1. Rest(c)' = Rest(c) /\ from'[c] = from[c]
            BY <2>2 DEF Rest, Serves
        <3>2. Rest(c) = 0
            BY <1>1, <2>2, NoAnswerYet
        <3> QED
            BY <2>2, <3>1, <3>2 DEF FromInv, Steady, Serves
    <2>3. CASE pc[c] # "closed" /\ c \notin cut
        <3>1. Fits(c, q.op, q.n, payload(q))
            BY <1>1, <2>3, ServedRequest DEF Serves
        <3>2. to[c] = <<>>
            <4>1. PICK s \in Seq(Messages) : s = to[c]
                BY DEF TypeInv
            <4>2. (\A k \in 1..Len(s) : FALSE) => s = <<>>
                OBVIOUS
            <4> QED
                BY <1>3, <2>3, <4>1, <4>2
        <3>3. Answered(c)' /\ pc'[c] # "prompt"
            BY <1>3, <2>3, <3>1, <3>2 DEF Answered, Fits, Serves
        <3> QED
            BY <2>3, <3>3 DEF FromInv, Serves
    <2> QED
        BY <2>1, <2>2, <2>3
<1> QED
    BY <1>4, <1>5, <1>6, <1>7, <1>8 DEF Steady

\* Served with one message.
LEMMA ServedOnce ==
    ASSUME TypeInv, TypeInv', NEW c \in Clients, Steady(c), NEW q, Serves(c, q),
           NEW op \in {"OK", "ERROR"}, respond(c, <<Message(op, q, <<>>)>>),
           op = "OK" /\ pc[c] = "upload" /\ c \notin cut =>
             upload'[c] = FirstChunks(file[c], at[c]),
           op = "OK" /\ pc[c] = "end" /\ c \notin cut =>
             answer'[c] = [n |-> asked[c], data |-> content(file[c])],
           op = "OK" /\ c \notin cut => pc[c] # "saving"
    PROVE  Steady(c)'
<1>1. Took(q) /\ client_id(q) = c
    BY DEF Serves
<1>2. PICK m \in Messages : m = Message(op, q, <<>>)
    BY <1>1, WorkerMessages, MessageType, TookType, DataType DEF Message, Ops
<1>3. m.op = op /\ m.n = q.n /\ <<m>> \in Seq(Messages) /\ respond(c, <<m>>)
    BY <1>2 DEF Message
<1>4. /\ pc[c] # "closed" /\ c \notin cut => from'[c] = from[c] \o <<m>>
      /\ pc[c] = "closed" \/ c \in cut => from'[c] = from[c]
    BY <1>3, RespondType
<1>5. ASSUME pc[c] # "closed", c \notin cut
      PROVE  AnswerFits(c)' /\ \A j \in 1..Rest(c)' : from'[c][j].n = asked'[c]
    <2>1. from[c] = <<>> /\ q.n = asked[c]
        BY <1>1, <1>5, ServedRequest DEF Fits
    <2>2. Rest(c)' = 1 /\ from'[c][1] = m
        BY <1>4, <1>5, <2>1, OneAnswer DEF Serves
    <2>3. AnswerFits(c)'
        BY <1>3, <1>5, <2>2 DEF AnswerFits, Serves, content
    <2>4. \A j \in 1..Rest(c)' : from'[c][j].n = asked'[c]
        BY <1>3, <2>1, <2>2 DEF Serves
    <2> QED
        BY <2>3, <2>4
<1> QED
    BY <1>4, <1>5, Served

\* The worker keeps the client whose upload it serves in step.
LEMMA ProcessUploadSteady ==
    ASSUME TypeInv, TypeInv', NEW c \in Clients, Steady(c), NEW q, ProcessUpload(q),
           client_id(q) = c
    PROVE  Steady(c)'
<1>1. Serves(c, q) /\ Took(q)
    BY DEF ProcessUpload, Serves, clientVars
<1>2. pc[c] # "closed" /\ c \notin cut => Fits(c, q.op, q.n, payload(q))
    BY <1>1, ServedRequest
<1>3. q.op \notin TextOps \union {"CONNECT", "BYE", "DOWNLOAD_SQL"}
    BY DEF ProcessUpload, TextOps
<1>4. pc[c] # "closed" /\ c \notin cut => pc[c] \in {"upload", "end"} /\ q.n = asked[c]
    BY <1>2, <1>3 DEF Fits, TypeInv, States
<1>5. CASE q.op = "UPLOAD_BEGIN"
    <2>1. upload' = [upload EXCEPT ![c] = <<>>] /\ respond(c, <<Message("OK", q, <<>>)>>)
        BY <1>5 DEF ProcessUpload, upload_begin, upload_path
    <2>2. upload'[c] = <<>>
        BY <2>1 DEF TypeInv
    <2>3. pc[c] # "closed" /\ c \notin cut => pc[c] = "upload" /\ at[c] = 0
        BY <1>2, <1>4, <1>5 DEF Fits
    <2>4. FirstChunks(file[c], 0) = <<>>
        BY NoChunk
    <2>5. pc[c] = "upload" /\ c \notin cut => upload'[c] = FirstChunks(file[c], at[c])
        BY <2>2, <2>3, <2>4
    <2>6. (pc[c] = "end" \/ pc[c] = "saving") /\ c \notin cut => FALSE
        BY <2>3
    <2> QED
        BY <1>1, <2>1, <2>5, <2>6, ServedOnce
<1>6. CASE q.op = "UPLOAD_CHUNK"
    <2>1. upload' = [upload EXCEPT ![c] = Append(@, payload(q))]
          /\ respond(c, <<Message("OK", q, <<>>)>>)
        BY <1>6 DEF ProcessUpload, append_upload_chunk, upload_path
    <2>2. upload'[c] = Append(upload[c], payload(q))
        BY <2>1 DEF TypeInv
    <2>3. pc[c] # "closed" /\ c \notin cut =>
            /\ pc[c] = "upload" /\ at[c] > 0 /\ payload(q) = <<file[c], at[c]>>
            /\ upload[c] = FirstChunks(file[c], at[c] - 1)
        BY <1>2, <1>4, <1>6 DEF Fits
    <2>4. pc[c] = "upload" /\ c \notin cut => upload'[c] = FirstChunks(file[c], at[c])
        <3>1. SUFFICES ASSUME pc[c] = "upload", c \notin cut
                       PROVE  upload'[c] = FirstChunks(file[c], at[c])
            OBVIOUS
        <3>2. PICK k \in Nat : k = at[c] - 1 /\ k + 1 = at[c]
            BY <2>3, <3>1 DEF TypeInv
        <3>3. Append(FirstChunks(file[c], k), <<file[c], k + 1>>) = FirstChunks(file[c], k + 1)
            BY OneChunkMore
        <3> QED
            BY <2>2, <2>3, <3>1, <3>2, <3>3
    <2>5. (pc[c] = "end" \/ pc[c] = "saving") /\ c \notin cut => FALSE
        BY <2>3
    <2> QED
        BY <1>1, <2>1, <2>4, <2>5, ServedOnce
<1>7. CASE q.op = "UPLOAD_END"
    <2>1. Whole(c, payload(q))
        BY <1>1, <1>7, ServedRequest
    <2>2. CASE \E f \in parsed(upload[c]) : f \in Schemas
                 /\ respond(c, <<Message("OK", q, <<>>)>>) /\ Did(q, content(f))
        <3>1. PICK f \in parsed(upload[c]) :
                respond(c, <<Message("OK", q, <<>>)>>) /\ Did(q, content(f))
            BY <2>2
        <3>2. f = payload(q)
            BY <2>1, <3>1, ParsedWhole DEF Whole
        <3>3. answer'[c] = [n |-> q.n, data |-> content(f)]
            BY <3>1 DEF Did, TypeInv
        <3>4. pc[c] # "closed" /\ c \notin cut => pc[c] = "end" /\ payload(q) = file[c]
            BY <1>2, <1>4, <1>7 DEF Fits
        <3>5. pc[c] = "end" /\ c \notin cut =>
                answer'[c] = [n |-> asked[c], data |-> content(file[c])]
            BY <1>4, <3>2, <3>3, <3>4
        <3>6. (pc[c] = "upload" \/ pc[c] = "saving") /\ c \notin cut => FALSE
            BY <3>4
        <3> QED
            BY <1>1, <3>1, <3>5, <3>6, ServedOnce
    <2>3. CASE respond(c, <<Message("ERROR", q, <<>>)>>)
        BY <1>1, <2>3, ServedOnce
    <2> QED
        BY <1>7, <2>2, <2>3 DEF ProcessUpload, upload_path, load_answer
<1> QED
    BY <1>5, <1>6, <1>7 DEF ProcessUpload

\* So do the text requests and the failures.
LEMMA ProcessTextSteady ==
    ASSUME TypeInv, TypeInv', NEW c \in Clients, Steady(c), NEW q,
           ProcessText(q) \/ ProcessFails(q), client_id(q) = c
    PROVE  Steady(c)'
<1>1. Serves(c, q) /\ Took(q)
    BY DEF ProcessText, ProcessFails, Serves, clientVars
<1>2. CASE ProcessText(q)
    <2>1. PICK op \in {"OK", "ERROR"} : respond(c, <<Message(op, q, <<>>)>>)
        BY <1>2 DEF ProcessText
    <2>2. pc[c] # "closed" /\ c \notin cut => pc[c] \notin {"upload", "end", "saving"}
        BY <1>1, <1>2, ServedRequest DEF Fits, ProcessText
    <2> QED
        BY <1>1, <2>1, <2>2, ServedOnce
<1>3. CASE ProcessFails(q)
    <2>1. respond(c, <<Message("ERROR", q, <<>>)>>)
        BY <1>3 DEF ProcessFails
    <2> QED
        BY <1>1, <2>1, ServedOnce
<1> QED
    BY <1>2, <1>3

\* The messages of a download, at their places.
LEMMA DownloadPlaces ==
    ASSUME TypeInv, NEW q, Took(q), NEW sent \in 0..SqlChunks, NEW all,
           all = <<Message("DOWNLOAD_BEGIN", q, <<>>)>> \o ChunkMessages(q, sent)
                   \o last_message(sent, q)
    PROVE  /\ all \in Seq(Messages) /\ Len(all) = sent + 2
           /\ all[1] = Message("DOWNLOAD_BEGIN", q, <<>>)
           /\ \A j \in 1..sent :
                all[1 + j] = Message("DOWNLOAD_CHUNK", q, sql_of(schema)[j])
           /\ all[sent + 2] =
                Message(IF sent = SqlChunks THEN "DOWNLOAD_END" ELSE "ERROR", q, <<>>)
<1>1. PICK b \in Messages : b = Message("DOWNLOAD_BEGIN", q, <<>>)
    BY WorkerMessages
<1>2. PICK mid \in Seq(Messages) : mid = ChunkMessages(q, sent) /\ Len(mid) = sent
    BY DownloadType
<1>3. PICK fin \in Messages :
        /\ fin = Message(IF sent = SqlChunks THEN "DOWNLOAD_END" ELSE "ERROR", q, <<>>)
        /\ last_message(sent, q) = <<fin>>
    <2>1. q.n \in Nat /\ <<>> \in Data /\ "DOWNLOAD_END" \in Ops /\ "ERROR" \in Ops
        BY TookType DEF Data, Ops
    <2>2. PICK op \in Ops : op = IF sent = SqlChunks THEN "DOWNLOAD_END" ELSE "ERROR"
        BY <2>1
    <2>3. Message(op, q, <<>>) \in Messages
        BY <2>1, MessageType DEF Message
    <2> QED
        BY <2>2, <2>3 DEF last_message
<1>4. PICK n \in Nat :
        n = sent /\ \A j \in 1..n : mid[j] = Message("DOWNLOAD_CHUNK", q, sql_of(schema)[j])
    BY <1>2, TransferAssumption DEF ChunkMessages
<1>5. PICK first \in Seq(Messages) : first = <<b>> /\ Len(first) = 1 /\ first[1] = b
    <2>1. <<b>> \in Seq(Messages) /\ Len(<<b>>) = 1 /\ <<b>>[1] = b
        OBVIOUS
    <2> QED
        BY <2>1
<1>6. PICK front \in Seq(Messages) : front = first \o mid
    BY ConcatProperties
<1>7. /\ Len(front) = Len(first) + Len(mid)
      /\ \A j \in 1..Len(first) + Len(mid) :
           front[j] = IF j <= Len(first) THEN first[j] ELSE mid[j - Len(first)]
    BY <1>6, ConcatProperties
<1>8. Len(front) = 1 + n /\ front[1] = b /\ \A j \in 1..n : front[1 + j] = mid[j]
    <2>1. \A j \in 1..1 + n : front[j] = IF j <= 1 THEN first[j] ELSE mid[j - 1]
        BY <1>2, <1>4, <1>5, <1>7
    <2>2. 1 \in 1..1 + n
        BY <1>4
    <2>3. \A j \in 1..n : 1 + j \in 1..1 + n /\ ~(1 + j <= 1) /\ (1 + j) - 1 = j
        BY <1>4
    <2> QED
        BY <1>2, <1>4, <1>5, <1>7, <2>1, <2>2, <2>3
<1>9. all = front \o <<fin>>
    BY <1>1, <1>2, <1>3, <1>5, <1>6
<1>10. /\ Len(all) = Len(front) + 1 /\ all[Len(front) + 1] = fin
       /\ \A j \in 1..Len(front) : all[j] = front[j]
    BY <1>9, OneMessageMore
<1>11. all \in Seq(Messages)
    BY DownloadType
<1>12. Len(all) = n + 2 /\ all[n + 2] = fin /\ \A j \in 1..1 + n : all[j] = front[j]
    BY <1>8, <1>10
<1>13. all[1] = b /\ \A j \in 1..n : all[1 + j] = mid[j]
    <2>1. 1 \in 1..1 + n /\ \A j \in 1..n : 1 + j \in 1..1 + n
        OBVIOUS
    <2> QED
        BY <1>8, <1>12, <2>1
<1> QED
    BY <1>1, <1>3, <1>4, <1>11, <1>12, <1>13

\* A download begins as the client expects it.
LEMMA SendsSteady ==
    ASSUME TypeInv, TypeInv', NEW c \in Clients, Steady(c), NEW q, send_generated_sql_file(q),
           client_id(q) = c
    PROVE  Steady(c)'
<1>1. Serves(c, q) /\ Took(q) /\ q.op = "DOWNLOAD_SQL" /\ schema' = schema
    BY DEF send_generated_sql_file, Serves, clientVars
<1>2. PICK e \in 0..SqlChunks :
        respond(c, <<Message("DOWNLOAD_BEGIN", q, <<>>)>> \o ChunkMessages(q, e)
                     \o last_message(e, q))
    BY DEF send_generated_sql_file, ChunkMessages
<1>3. PICK all \in Seq(Messages) :
        all = <<Message("DOWNLOAD_BEGIN", q, <<>>)>> \o ChunkMessages(q, e) \o last_message(e, q)
    BY <1>1, DownloadType
<1>4. /\ Len(all) = e + 2 /\ all[1] = Message("DOWNLOAD_BEGIN", q, <<>>)
      /\ \A j \in 1..e : all[1 + j] = Message("DOWNLOAD_CHUNK", q, sql_of(schema)[j])
      /\ all[e + 2] = Message(IF e = SqlChunks THEN "DOWNLOAD_END" ELSE "ERROR", q, <<>>)
    BY <1>1, <1>3, DownloadPlaces
<1>5. /\ pc[c] # "closed" /\ c \notin cut => from'[c] = from[c] \o all
      /\ pc[c] = "closed" \/ c \in cut => from'[c] = from[c]
    BY <1>2, <1>3, RespondType
<1>6. answer'[c] = [n |-> q.n, data |-> FirstChunks(schema, SqlChunks)]
    BY DEF send_generated_sql_file, Did, TypeInv, sql_of, FirstChunks
<1>7. e \in Nat /\ SqlChunks \in Nat /\ e <= SqlChunks
    BY TransferAssumption
<1>8. PICK s \in AnyFile : s = schema
    BY DEF TypeInv
<1>9. ASSUME pc[c] # "closed", c \notin cut
      PROVE  AnswerFits(c)' /\ \A j \in 1..Rest(c)' : from'[c][j].n = asked'[c]
    <2>1. Fits(c, q.op, q.n, payload(q)) /\ from[c] = <<>>
        BY <1>1, <1>9, ServedRequest
    <2>2. q.n = asked[c] /\ pc[c] = "saving" /\ ~saw_begin[c] /\ out[c] = <<>>
        BY <1>1, <1>9, <2>1 DEF Fits, TypeInv, States, TextOps
    <2>3. from'[c] = all
        BY <1>5, <1>9, <2>1
    <2>4. Rest(c)' = e + 2
        <3>1. c \notin cut'
            BY <1>1, <1>9 DEF Serves
        <3>2. Rest(c)' = (e + 2) - 0
            BY <1>4, <2>3, <3>1 DEF Rest
        <3> QED
            BY <1>7, <3>2
    <2>5. ASSUME NEW j \in 1..(e - 0)
          PROVE  /\ from'[c][1 + j].op = "DOWNLOAD_CHUNK"
                 /\ from'[c][1 + j].data = <<s, 0 + j>>
        <3>1. j \in 1..e /\ j \in 1..SqlChunks /\ 0 + j = j
            BY <1>7
        <3>2. sql_of(schema)[j] = <<s, j>>
            BY <1>8, <3>1 DEF sql_of
        <3> QED
            <4>1. all[1 + j] = Message("DOWNLOAD_CHUNK", q, <<s, j>>)
                BY <1>4, <3>1, <3>2
            <4> QED
                BY <2>3, <3>1, <4>1 DEF Message
    <2>6. from'[c][1 + (e - 0) + 1].op = IF e = SqlChunks THEN "DOWNLOAD_END" ELSE "ERROR"
        <3>1. 1 + (e - 0) + 1 = e + 2
            BY <1>7
        <3> QED
            BY <1>4, <2>3, <3>1 DEF Message
    <2>7. from'[c][1].op = "DOWNLOAD_BEGIN"
        BY <1>4, <2>3 DEF Message
    <2>8. out'[c] = FirstChunks(s, 0) /\ ~saw_begin'[c] /\ asked'[c] = asked[c]
        BY <1>1, <2>2, NoChunk DEF Serves
    <2>9. Rest(c)' = 1 + (e - 0) + 1
        BY <1>7, <2>4
    <2>10. Arriving(c, s, e, 0, 1)'
        <3>1. 0 <= e /\ 1 = (IF saw_begin'[c] THEN 0 ELSE 1) /\ (1 = 1 => 0 = 0)
            BY <1>7, <2>8
        <3>2. answer'[c] = [n |-> asked'[c], data |-> FirstChunks(s, SqlChunks)]
            BY <1>6, <1>8, <2>2, <2>8
        <3>3. \A j \in 1..(e - 0) : /\ from'[c][1 + j].op = "DOWNLOAD_CHUNK"
                                   /\ from'[c][1 + j].data = <<s, 0 + j>>
            BY <2>5
        <3> QED
            BY <2>6, <2>7, <2>8, <2>9, <3>1, <3>2, <3>3 DEF Arriving, FirstChunks
    <2>11. \E x \in 0..SqlChunks, y \in 0..1 : x = 0 /\ y = 1
        BY <1>7
    <2>12. \E x \in 0..SqlChunks, y \in 0..1 : Arriving(c, s, e, x, y)'
        BY <2>10, <2>11
    <2>13. AnswerFits(c)'
        BY <1>1, <1>8, <2>2, <2>12 DEF AnswerFits, Serves
    <2>14. ASSUME NEW j \in 1..e + 2 PROVE from'[c][j].n = asked'[c]
        <3>1. j = 1 \/ j = e + 2 \/ \E k \in 1..e : j = 1 + k
            <4>1. CASE j # 1 /\ j # e + 2
                <5>1. j - 1 \in 1..e /\ j = 1 + (j - 1)
                    BY <1>7, <4>1
                <5> QED
                    BY <5>1
            <4> QED
                BY <4>1
        <3>2. CASE j = 1
            BY <1>4, <2>2, <2>3, <2>8, <3>2 DEF Message
        <3>3. CASE j = e + 2
            BY <1>4, <2>2, <2>3, <2>8, <3>3 DEF Message
        <3>4. ASSUME NEW k \in 1..e, j = 1 + k PROVE from'[c][j].n = asked'[c]
            <4>1. all[1 + k] = Message("DOWNLOAD_CHUNK", q, sql_of(schema)[k])
                BY <1>4
            <4> QED
                BY <2>2, <2>3, <2>8, <3>4, <4>1 DEF Message
        <3> QED
            BY <3>1, <3>2, <3>3, <3>4
    <2> QED
        BY <2>4, <2>13, <2>14
<1> QED
    BY <1>1, <1>5, <1>9, Served

-----------------------------------------------------------------------------
(* Every step keeps every client in step.                                    *)

\* A step of one client does not touch the others.
Alone(c) == \A d \in Clients : d # c => Unmoved(d) /\ QueueKept(d)

\* The requests of a client.
LEMMA RequestsAlone ==
    ASSUME TypeInv, NEW c \in Clients,
           \/ \E op \in TextOps : request_text(c, op)
           \/ \E f \in Files : upload_file(c, f)
           \/ download_sql_file(c) \/ Bye(c)
    PROVE  Alone(c) /\ (gave_up[c] => gave_up'[c])
<1>0. <<>> \in Data /\ "UPLOAD_BEGIN" \in Ops /\ "DOWNLOAD_SQL" \in Ops /\ "BYE" \in Ops
      /\ \A op \in TextOps : op \in Ops
    BY DEF Data, Ops, TextOps
<1>1. queue' = queue /\ from' = from /\ upload' = upload /\ cut' = cut
      /\ at' = at /\ saw_begin' = saw_begin /\ out' = out
    BY DEF request_text, upload_file, download_sql_file, Bye, locals, serverVars
<1>2. \A d \in Clients : QueueKept(d)
    BY <1>1, QueueAlone
<1>3. \E op \in Ops : send_message(c, op, <<>>)
    BY <1>0 DEF request_text, upload_file, download_sql_file, Bye
<1>4. \A d \in Clients : d # c => to'[d] = to[d] /\ asked'[d] = asked[d]
    BY ZenonT(30), <1>0, <1>3, SendType DEF TypeInv
<1>5. \A d \in Clients : d # c => pc'[d] = pc[d] /\ report'[d] = report[d] /\ answer'[d] = answer[d]
    <2>1. CASE Bye(c)
        BY <2>1 DEF Bye, TypeInv
    <2>2. CASE ~Bye(c)
        <3>1. \E op \in Ops \union {"UPLOAD"}, begun \in BOOLEAN, where \in States :
                Start(c, op, begun, where)
            BY <1>0, <2>2 DEF request_text, upload_file, download_sql_file, States
        <3> QED
            BY <3>1, StartType
    <2> QED
        BY <2>1, <2>2
<1>6. \A d \in Clients : d # c => file'[d] = file[d] /\ gave_up'[d] = gave_up[d]
    BY DEF request_text, upload_file, download_sql_file, Bye, locals, TypeInv
<1>7. gave_up[c] => gave_up'[c]
    BY DEF request_text, upload_file, download_sql_file, Bye, TypeInv
<1> QED
    BY <1>1, <1>2, <1>4, <1>5, <1>6, <1>7 DEF Alone, Unmoved

\* Its reading and its leaving.
LEMMA ReceiveAlone ==
    ASSUME TypeInv, NEW c \in Clients, Receive(c) \/ Leave(c)
    PROVE  Alone(c) /\ (gave_up[c] => gave_up'[c])
<1>1. queue' = queue /\ upload' = upload /\ cut' = cut /\ answer' = answer
    BY DEF Receive, RecvText, RecvUpload, UploadFails, RecvEnd, RecvDownload, DownloadFails,
           RecvBye, RecvCut, Leave, serverVars
<1>2. \A d \in Clients : QueueKept(d)
    BY <1>1, QueueAlone
<1>3. \A d \in Clients : d # c => from'[d] = from[d]
    BY DEF Receive, RecvText, RecvUpload, UploadFails, RecvEnd, RecvDownload, DownloadFails,
           RecvBye, RecvCut, Leave, Recv, TypeInv
<1>4. \A d \in Clients : d # c => to'[d] = to[d] /\ asked'[d] = asked[d]
    BY ZenonT(30) DEF Receive, RecvText, RecvUpload, UploadFails, RecvEnd, RecvDownload,
           DownloadFails, RecvBye, RecvCut, Leave, send_message, TypeInv
<1>5. \A d \in Clients : d # c => report'[d] = report[d] /\ gave_up'[d] = gave_up[d]
    BY DEF Receive, RecvText, RecvUpload, UploadFails, RecvEnd, RecvDownload, DownloadFails,
           RecvBye, RecvCut, Leave, Success, TypeInv
<1>6. gave_up[c] => gave_up'[c]
    BY DEF Receive, RecvText, RecvUpload, UploadFails, RecvEnd, RecvDownload, DownloadFails,
           RecvBye, RecvCut, Leave, TypeInv
<1>7. \A d \in Clients : d # c =>
        /\ pc'[d] = pc[d] /\ file'[d] = file[d] /\ at'[d] = at[d]
        /\ saw_begin'[d] = saw_begin[d] /\ out'[d] = out[d]
    BY ZenonT(30) DEF Receive, RecvText, RecvUpload, UploadFails, RecvEnd, RecvDownload,
           DownloadFails, RecvBye, RecvCut, Leave, Return, Goes, TypeInv
<1> QED
    BY <1>1, <1>2, <1>3, <1>4, <1>5, <1>6, <1>7 DEF Alone, Unmoved

\* The reading and the closing by the ordinary thread, and the admin's word.
LEMMA ServedAlone ==
    ASSUME TypeInv, NEW c \in Clients, OrdinaryReads(c) \/ OrdinaryCloses(c) \/ Disconnect(c)
    PROVE  Alone(c) /\ gave_up' = gave_up
<1>1. pc' = pc /\ asked' = asked /\ file' = file /\ at' = at /\ saw_begin' = saw_begin /\ out' = out
      /\ report' = report /\ gave_up' = gave_up /\ upload' = upload /\ answer' = answer
    BY DEF OrdinaryReads, OrdinaryCloses, Disconnect, clientVars, serverVars
<1>2. \A d \in Clients : d # c => to'[d] = to[d] /\ (d \in cut' <=> d \in cut)
    BY DEF OrdinaryReads, OrdinaryCloses, Disconnect, clientVars, serverVars, TypeInv
<1>3. \A d \in Clients : d # c => from'[d] = from[d]
    <2>1. CASE OrdinaryReads(c)
        BY <2>1, OrdinaryReadsType
    <2>2. CASE OrdinaryCloses(c) \/ Disconnect(c)
        BY <2>2 DEF OrdinaryCloses, Disconnect, respond, TypeInv
    <2> QED
        BY <2>1, <2>2
<1>4. \A d \in Clients : d # c => QueueKept(d)
    <2>1. CASE queue' = queue
        BY <2>1, QueueAlone
    <2>2. CASE queue' # queue
        <3>1. OrdinaryReads(c)
            BY <2>2 DEF OrdinaryCloses, Disconnect, serverVars
        <3>2. PICK e \in Requests : e = Entry(c, to[c][1]) /\ queue' = Append(queue, e)
            BY <2>2, <3>1, OrdinaryReadsType
        <3>3. client_id(e) = c
            <4>1. to[c][1] \in Messages
                BY <3>1, OrdinaryReadsType
            <4> QED
                BY <3>2, <4>1 DEF client_id, Entry, Messages
        <3> QED
            BY <3>2, <3>3, QueueAppend
    <2> QED
        BY <2>1, <2>2
<1> QED
    BY <1>1, <1>2, <1>3, <1>4 DEF Alone, Unmoved

\* The worker's answer to one request.
LEMMA WorkerAlone ==
    ASSUME TypeInv, NEW q,
           ProcessUpload(q) \/ ProcessText(q) \/ send_generated_sql_file(q) \/ ProcessFails(q)
    PROVE  client_id(q) \in Clients /\ Alone(client_id(q)) /\ gave_up' = gave_up
<1>1. Took(q) /\ pc' = pc /\ asked' = asked /\ file' = file /\ at' = at /\ saw_begin' = saw_begin
      /\ out' = out /\ report' = report /\ gave_up' = gave_up /\ to' = to /\ cut' = cut
    BY DEF ProcessUpload, ProcessText, send_generated_sql_file, ProcessFails, clientVars
<1>2. PICK c \in Clients : c = client_id(q)
    BY <1>1, TookType
<1>3. \A d \in Clients : QueueKept(d)
    BY <1>1, QueueTail
<1>4. \A d \in Clients : d # c => from'[d] = from[d]
    BY <1>2 DEF ProcessUpload, ProcessText, send_generated_sql_file, ProcessFails, respond, TypeInv
<1>5. \A d \in Clients : d # c => answer'[d] = answer[d]
    BY <1>2 DEF ProcessUpload, ProcessText, send_generated_sql_file, ProcessFails, Did, TypeInv
<1>6. \A d \in Clients : d # c => upload'[d] = upload[d]
    BY <1>2 DEF ProcessUpload, ProcessText, send_generated_sql_file, ProcessFails, upload_begin,
                append_upload_chunk, upload_path, TypeInv
<1> QED
    BY <1>1, <1>2, <1>3, <1>4, <1>5, <1>6 DEF Alone, Unmoved

\* What keeps the one in step and leaves the others alone keeps all in step.
LEMMA OneClient ==
    ASSUME ClientsInv, NEW c \in Clients, Alone(c), gave_up[c] => gave_up'[c],
           ~gave_up'[c] /\ Steady(c) => Steady(c)'
    PROVE  ClientsInv'
<1>1. SUFFICES ASSUME NEW d \in Clients, ~gave_up'[d] PROVE Steady(d)'
    BY DEF ClientsInv
<1>2. CASE d = c
    BY <1>1, <1>2 DEF ClientsInv
<1>3. CASE d # c
    <2>1. Unmoved(d) /\ QueueKept(d)
        BY <1>3 DEF Alone
    <2>2. Steady(d)
        BY <1>1, <2>1 DEF Unmoved, ClientsInv
    <2> QED
        BY <2>1, <2>2, Frame
<1> QED
    BY <1>2, <1>3

\* IInv is inductive.
LEMMA StepInv ==
    ASSUME IInv, [Next]_vars
    PROVE  IInv'
<1>1. TypeInv /\ ClientsInv /\ TypeInv'
    BY StepType DEF IInv
<1>2. CASE UNCHANGED vars
    <2>1. \A c \in Clients : Unmoved(c) /\ QueueKept(c) /\ gave_up'[c] = gave_up[c]
        BY <1>1, <1>2, QueueAlone DEF vars, clientVars, serverVars, Unmoved
    <2>2. ClientsInv'
        BY <1>1, <2>1, Frame DEF ClientsInv
    <2> QED
        BY <1>1, <2>2 DEF IInv
<1>3. ASSUME NEW c \in Clients,
             \/ \E op \in TextOps : request_text(c, op)
             \/ \E f \in Files : upload_file(c, f)
             \/ download_sql_file(c) \/ Bye(c)
      PROVE  ClientsInv'
    <2>1. Alone(c) /\ (gave_up[c] => gave_up'[c])
        BY <1>1, <1>3, RequestsAlone
    <2>2. ~gave_up'[c] /\ Steady(c) => Steady(c)'
        BY <1>1, <1>3, RequestsSteady
    <2> QED
        BY <1>1, <2>1, <2>2, OneClient
<1>4. ASSUME NEW c \in Clients, Receive(c) \/ Leave(c) PROVE ClientsInv'
    <2>1. Alone(c) /\ (gave_up[c] => gave_up'[c])
        BY <1>1, <1>4, ReceiveAlone
    <2>2. ASSUME ~gave_up'[c], Steady(c) PROVE Steady(c)'
        <3>1. CASE RecvUpload(c)
            BY <1>1, <2>2, <3>1, UploadSteady
        <3>2. CASE RecvDownload(c) /\ ~(/\ Return(c, TRUE) /\ Success(c, out[c])
                                        /\ Got(c).op = "DOWNLOAD_END")
            <4>1. \/ /\ Got(c).op = "DOWNLOAD_BEGIN"
                     /\ saw_begin' = [saw_begin EXCEPT ![c] = TRUE]
                     /\ UNCHANGED <<pc, file, at, out, report>>
                  \/ /\ Got(c).op = "DOWNLOAD_CHUNK" /\ saw_begin[c]
                     /\ out' = [out EXCEPT ![c] = Append(@, Got(c).data)]
                     /\ UNCHANGED <<pc, file, at, saw_begin, report>>
                BY <3>2 DEF RecvDownload
            <4> QED
                BY <1>1, <2>2, <3>2, <4>1, DownloadSteady
        <3>3. CASE \/ RecvText(c) \/ UploadFails(c) \/ RecvEnd(c) \/ DownloadFails(c)
                   \/ RecvBye(c) \/ RecvCut(c) \/ Leave(c)
                   \/ RecvDownload(c) /\ Return(c, TRUE) /\ Success(c, out[c])
                        /\ Got(c).op = "DOWNLOAD_END"
            BY <1>1, <2>2, <3>3, EndsSteady
        <3> QED
            BY <1>4, <3>1, <3>2, <3>3 DEF Receive
    <2> QED
        BY <1>1, <2>1, <2>2, OneClient
<1>5. ASSUME NEW c \in Clients, OrdinaryReads(c) \/ OrdinaryCloses(c) \/ Disconnect(c)
      PROVE  ClientsInv'
    <2>1. Alone(c) /\ gave_up' = gave_up
        BY <1>1, <1>5, ServedAlone
    <2>2. Steady(c) => Steady(c)'
        BY <1>1, <1>5, ReadsSteady, ClosesSteady, DisconnectSteady
    <2> QED
        BY <1>1, <2>1, <2>2, OneClient
<1>6. ASSUME NEW q,
             \/ ProcessUpload(q) \/ ProcessText(q)
             \/ send_generated_sql_file(q) \/ ProcessFails(q)
      PROVE  ClientsInv'
    <2>1. PICK c \in Clients : c = client_id(q) /\ Alone(c) /\ gave_up' = gave_up
        BY <1>1, <1>6, WorkerAlone
    <2>2. Steady(c) => Steady(c)'
        BY <1>1, <1>6, <2>1, ProcessUploadSteady, ProcessTextSteady, SendsSteady
    <2> QED
        BY <1>1, <2>1, <2>2, OneClient
<1>7. ASSUME Next PROVE ClientsInv'
    <2>1. CASE Worker
        BY <1>6, <2>1 DEF Worker
    <2>2. CASE \E c \in Clients : \E f \in Local[c] : upload_file(c, f)
        <3>1. \E c \in Clients, f \in Files : upload_file(c, f)
            BY <2>2, TransferAssumption
        <3> QED
            BY <1>3, <3>1
    <2>3. CASE \E c \in Clients : \E op \in TextOps \intersect Commands[c] : request_text(c, op)
        BY <1>3, <2>3
    <2>4. CASE \E c \in Clients : download_sql_file(c) \/ Bye(c)
        BY <1>3, <2>4
    <2>5. CASE \E c \in Clients : Leave(c) \/ Receive(c)
        BY <1>4, <2>5
    <2>6. CASE \E c \in Clients : OrdinaryReads(c) \/ OrdinaryCloses(c) \/ Disconnect(c)
        BY <1>5, <2>6
    <2> QED
        BY <1>7, <2>1, <2>2, <2>3, <2>4, <2>5, <2>6 DEF Next
<1> QED
    BY <1>1, <1>2, <1>7 DEF IInv

\* At first every client waits for the answer to its CONNECT.
LEMMA InitInv ==
    ASSUME Init
    PROVE  IInv
<1>1. PICK m \in Messages : m = [op |-> "CONNECT", n |-> 1, data |-> <<>>]
    <2>1. "CONNECT" \in Ops /\ 1 \in Nat /\ <<>> \in Data
        BY DEF Ops, Data
    <2> QED
        BY <2>1, MessageType
<1>2. to = [c \in Clients |-> <<m>>] /\ <<m>> \in Seq(Messages)
    BY <1>1 DEF Init
<1>3. TypeInv
    <2>1. <<>> \in Seq(Messages) /\ <<>> \in Seq(Requests)
        OBVIOUS
    <2>2. "connect" \in States /\ NoFile \in AnyFile
        BY DEF States, AnyFile
    <2> QED
        BY <1>2, <2>1, <2>2 DEF Init, TypeInv
<1>4. ASSUME NEW c \in Clients PROVE Steady(c)
    <2>1. Mine(c) = {} /\ c \notin cut /\ pc[c] = "connect" /\ from[c] = <<>> /\ queue = <<>>
        BY DEF Init, Mine
    <2>2. to[c] = <<m>> /\ Len(to[c]) = 1 /\ to[c][1] = m
        BY <1>2
    <2>3. \A k \in 1..Len(to[c]) : k = 1
        BY <2>2
    <2>4. SentFits(c, 1)
        BY <1>1, <2>1, <2>2 DEF SentFits, Fits, Init
    <2>5. SentInv(c)
        BY <2>1, <2>3, <2>4 DEF SentInv
    <2>6. FromInv(c)
        BY <1>3, <2>1, RestOf DEF FromInv
    <2>7. FileInv(c)
        BY <2>1 DEF FileInv, Init
    <2>8. EndInv(c)
        BY <1>1, <2>1, <2>2, <2>3 DEF EndInv
    <2>9. ReportInv(c)
        BY DEF ReportInv, Init
    <2> QED
        BY <2>5, <2>6, <2>7, <2>8, <2>9 DEF Steady
<1> QED
    BY <1>3, <1>4 DEF IInv, ClientsInv

\* So IInv holds always.
LEMMA Always == Spec => []IInv
<1>1. Init => IInv
    BY InitInv
<1>2. IInv /\ [Next]_vars => IInv'
    BY StepInv
<1> QED
    BY <1>1, <1>2, PTL DEF Spec

-----------------------------------------------------------------------------
(* What a reader should know of.                                             *)

\* What is under way for a client, message by message.
LEMMA PendingPlaces ==
    ASSUME TypeInv, NEW c \in Clients, NEW n \in Pending(c)
    PROVE  \/ \E k \in 1..Len(to[c]) : n = to[c][k].n
           \/ \E k \in 1..Len(from[c]) : n = from[c][k].n
           \/ \E i \in Mine(c) : n = queue[i].n
<1>1. DOMAIN to[c] = 1..Len(to[c]) /\ DOMAIN from[c] = 1..Len(from[c])
      /\ DOMAIN queue = 1..Len(queue)
    BY DEF TypeInv
<1> QED
    BY <1>1 DEF Pending, Range, Mine

\* request_text and its like wait for the answer to what they sent: a client
\* that is served and has given up no download reads nothing but the answer to
\* its last request, and at its prompt nothing is under way.
THEOREM ClientsStayInSync == Spec => []InSync
<1>1. IInv => InSync
    <2>1. SUFFICES ASSUME IInv, NEW c \in Clients, c \notin cut, ~gave_up[c]
                   PROVE  /\ pc[c] = "prompt" => Pending(c) = {}
                          /\ pc[c] # "closed" => Pending(c) \subseteq {asked[c]}
        BY DEF InSync
    <2>2. TypeInv /\ Steady(c) /\ Rest(c) = Len(from[c]) /\ Len(from[c]) \in Nat
        BY <2>1, RestOf DEF IInv, ClientsInv
    <2>3. ASSUME pc[c] = "prompt", NEW n \in Pending(c) PROVE FALSE
        <3>1. Len(from[c]) = 0 /\ to[c] = <<>> /\ Mine(c) = {}
            BY <2>1, <2>2, <2>3, QuietPrompt DEF Answered
        <3>2. Len(to[c]) = 0
            BY <3>1
        <3> QED
            BY <2>2, <2>3, <3>1, <3>2, PendingPlaces
    <2>4. ASSUME pc[c] # "closed", NEW n \in Pending(c) PROVE n = asked[c]
        <3>1. /\ \A k \in 1..Len(to[c]) : k = 1 /\ SentFits(c, k)
              /\ \A i \in Mine(c) : QueuedFits(c, i)
            BY <2>1, <2>2, <2>4 DEF Steady, SentInv
        <3>2. ASSUME NEW k \in 1..Len(to[c]), n = to[c][k].n PROVE n = asked[c]
            BY <3>1, <3>2 DEF SentFits, Fits
        <3>3. ASSUME NEW i \in Mine(c), n = queue[i].n PROVE n = asked[c]
            BY <3>1, <3>3 DEF QueuedFits, Fits
        <3>4. ASSUME NEW k \in 1..Len(from[c]), n = from[c][k].n PROVE n = asked[c]
            <4>1. Rest(c) > 0 /\ k \in 1..Rest(c)
                BY <2>2
            <4> QED
                BY <2>2, <2>4, <3>4, <4>1 DEF Steady, FromInv
        <3> QED
            BY <2>2, <2>4, <3>2, <3>3, <3>4, PendingPlaces
    <2> QED
        BY <2>3, <2>4
<1> QED
    BY <1>1, Always, PTL

\* RecvEnd's "uploaded" and RecvDownload's "saved" are what process_request did
\* for that request: a file confirmed was read whole by load_er_json, and a file
\* saved is the whole of what generate_sql wrote.
THEOREM ReportsAreTrue == Spec => []ReportsTrue
<1>1. IInv => ReportsTrue
    BY DEF IInv, ClientsInv, Steady, ReportInv, ReportsTrue
<1> QED
    BY <1>1, Always, PTL

\* load_er_json replaces the diagram by the tables of the file that the client
\* whose END is processed has sent whole, unless that client had left a download
\* before its end; of a file with a bad description by the tables before it.
THEOREM DiagramsComeFromUploads == Spec => DiagramIsTheUpload
<1>1. ASSUME IInv, [Next]_vars, schema' # schema
      PROVE  /\ Head(queue).op = "UPLOAD_END"
             /\ ~gave_up[client_id(Head(queue))] => schema' = payload(Head(queue))
    <2>1. PICK q : ProcessUpload(q)
        BY ZenonT(30), <1>1 DEF Next, Receive, Worker, request_text, upload_file,
                    download_sql_file, Bye, Leave, RecvText, RecvUpload, UploadFails, RecvEnd,
                    RecvDownload, DownloadFails, RecvBye, RecvCut, OrdinaryReads,
                    OrdinaryCloses, Disconnect, ProcessText,
                    send_generated_sql_file, ProcessFails, vars, serverVars
    <2>2. Took(q) /\ q = Head(queue) /\ TypeInv /\ client_id(q) \in Clients
        BY <1>1, <2>1, TookType DEF ProcessUpload, Took, IInv
    <2>3. PICK f \in parsed(upload[upload_path(client_id(q))]) : schema' = f /\ q.op = "UPLOAD_END"
        BY <1>1, <2>1 DEF ProcessUpload
    <2>4. ASSUME ~gave_up[client_id(q)] PROVE schema' = payload(q)
        <3>1. Steady(client_id(q))
            BY <1>1, <2>2, <2>4 DEF IInv, ClientsInv
        <3>2. Whole(client_id(q), payload(q))
            BY <2>2, <2>3, <3>1, ServedRequest
        <3>3. payload(q) \in Files /\ f \in parsed(content(payload(q)))
            BY <2>3, <3>2 DEF Whole, upload_path
        <3> QED
            BY <2>3, <3>3, ParsedWhole
    <2> QED
        BY <2>2, <2>3, <2>4
<1>2. IInv /\ [Next]_vars => [schema' # schema =>
         LET c == client_id(Head(queue))
         IN  /\ Head(queue).op = "UPLOAD_END"
             /\ ~gave_up[c] => schema' = payload(Head(queue))]_vars
    BY <1>1
<1> QED
    BY <1>2, Always, PTL DEF Spec, DiagramIsTheUpload

=============================================================================
