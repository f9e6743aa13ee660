-------------------------------- MODULE Wire --------------------------------
(***************************************************************************)
(* One direction of a TCP connection under protocol.c: send_message, which  *)
(* writes a header and then a payload with calls of write_full, and        *)
(* recv_message, which reads them with read_full.  write and recv may move  *)
(* less than was asked for, several threads may call send_message on one   *)
(* descriptor, and the sender's process may end at any point of a message. *)
(*                                                                         *)
(* The stream is a sequence of units: unit i of the header or the payload  *)
(* of message number msg.  A header is HeaderUnits of them and a payload as *)
(* many as the message has.  An interrupted call (EINTR) is tried again and *)
(* changes nothing; memory is never short.                                 *)
(***************************************************************************)
EXTENDS Integers, Sequences

CONSTANTS
    Writers,            \* the threads that send on this descriptor
    HeaderUnits,        \* sizeof(MsgHeader)
    Sizes,              \* the payload sizes of messages
    SQLCG_MAX_PAYLOAD,
    SocketBuffer,       \* units the kernel holds between write and recv
    MaxMessages         \* bound on the messages sent

ASSUME WireAssumption ==
    /\ {HeaderUnits, SocketBuffer} \subseteq Nat \ {0}
    /\ Sizes \subseteq Nat /\ {SQLCG_MAX_PAYLOAD, MaxMessages} \subseteq Nat

VARIABLES
    sent,       \* the messages for which send_message was called
    pc, cur,    \* what each writer writes, of which message,
    done,       \* and how many units of it it has written
    closed,     \* the sender has closed, or its process has ended
    stream,     \* written and not yet read
    rpc, got,   \* what the receiver reads, and the units of it so far
    head,       \* the header it has read
    received    \* the messages recv_message has returned

writeVars == <<sent, pc, cur, done, closed>>
readVars == <<rpc, got, head, received>>
vars == <<writeVars, stream, readVars>>

Message == [by : Writers, size : Sizes, n : 1..MaxMessages]
Corrupt == [by |-> "nobody", size |-> 0, n |-> 0]

Init ==
    /\ sent = <<>> /\ closed = FALSE /\ stream = <<>>
    /\ pc = [w \in Writers |-> "idle"] /\ cur = [w \in Writers |-> 0]
    /\ done = [w \in Writers |-> 0]
    /\ rpc = "header" /\ got = <<>> /\ head = <<>> /\ received = <<>>

-----------------------------------------------------------------------------
(* send_message.                                                           *)

Units(k, part, from, to) == [i \in 1..to - from |-> [msg |-> k, part |-> part, at |-> from + i]]
LeastOf(a, b) == IF a <= b THEN a ELSE b

SendStart(w) ==
    /\ pc[w] = "idle" /\ ~closed /\ Len(sent) < MaxMessages
    /\ \E s \in Sizes : sent' = Append(sent, [by |-> w, size |-> s, n |-> Len(sent) + 1])
    /\ cur' = [cur EXCEPT ![w] = Len(sent) + 1]
    /\ pc' = [pc EXCEPT ![w] = "header"] /\ done' = [done EXCEPT ![w] = 0]
    /\ UNCHANGED <<closed, stream, readVars>>

\* Mutant: a write that is cut short counts as complete.
written_Short(w, n) == IF pc[w] = "header" THEN HeaderUnits ELSE sent[cur[w]].size

written(w, n) == done[w] + n

\* One write: some of the units that are left, as many as the kernel takes.
Write(w) ==
    /\ pc[w] \in {"header", "payload"} /\ rpc # "stopped"
    /\ LET k == cur[w]
           len == IF pc[w] = "header" THEN HeaderUnits ELSE sent[k].size
       IN  \E n \in 1..LeastOf(len - done[w], SocketBuffer - Len(stream)) :
             /\ stream' = stream \o Units(k, pc[w], done[w], done[w] + n)
             /\ IF written(w, n) < len
                THEN done' = [done EXCEPT ![w] = written(w, n)] /\ pc' = pc
                ELSE /\ done' = [done EXCEPT ![w] = 0]
                     /\ pc' = [pc EXCEPT ![w] = IF @ = "header" /\ sent[k].size > 0
                                                THEN "payload" ELSE "idle"]
    /\ UNCHANGED <<sent, cur, closed, readVars>>

\* Mutant: every error is tried again like EINTR.
WriteFails_Again(w) == pc[w] \in {"header", "payload"} /\ rpc = "stopped" /\ UNCHANGED vars

\* The receiver has closed: write fails, and send_message returns -1.
WriteFails(w) ==
    /\ pc[w] \in {"header", "payload"} /\ rpc = "stopped"
    /\ pc' = [pc EXCEPT ![w] = "idle"]
    /\ UNCHANGED <<sent, cur, done, closed, stream, readVars>>

Close ==
    /\ ~closed /\ closed' = TRUE
    /\ pc' = [w \in Writers |-> "ended"]
    /\ UNCHANGED <<sent, cur, done, stream, readVars>>

-----------------------------------------------------------------------------
(* recv_message.  A header put together from several messages may hold any *)
(* size.                                                                   *)

is_header(us) == \E k \in 1..Len(sent) : us = Units(k, "header", 0, HeaderUnits)
msg_size(us) ==
    IF is_header(us) THEN {sent[us[1].msg].size} ELSE Sizes \union {SQLCG_MAX_PAYLOAD + 1}

\* The message that a header and a payload make.
message(h, us) ==
    IF is_header(h) /\ us = Units(h[1].msg, "payload", 0, sent[h[1].msg].size)
    THEN sent[h[1].msg] ELSE Corrupt

deliver(h, us) == received' = Append(received, message(h, us))

Reads(n, want) ==
    /\ n \in 1..LeastOf(want - Len(got), Len(stream))
    /\ stream' = SubSeq(stream, n + 1, Len(stream))

complete(us, want) == Len(us) = want

RecvHeader ==
    /\ rpc = "header"
    /\ \E n \in 1..HeaderUnits :
         /\ Reads(n, HeaderUnits)
         /\ LET us == got \o SubSeq(stream, 1, n)
            IN  \/ ~complete(us, HeaderUnits) /\ got' = us /\ UNCHANGED <<rpc, head, received>>
                \/ /\ complete(us, HeaderUnits) /\ got' = <<>>
                   /\ \E size \in msg_size(us) :
                        \/ /\ size > SQLCG_MAX_PAYLOAD /\ rpc' = "stopped"
                           /\ UNCHANGED <<head, received>>
                        \/ size = 0 /\ deliver(us, <<>>) /\ UNCHANGED <<rpc, head>>
                        \/ /\ size \in 1..SQLCG_MAX_PAYLOAD /\ rpc' = "payload"
                           /\ head' = [units |-> us, size |-> size] /\ received' = received
    /\ UNCHANGED writeVars

RecvPayload ==
    /\ rpc = "payload"
    /\ \E n \in 1..head.size :
         /\ Reads(n, head.size)
         /\ LET us == got \o SubSeq(stream, 1, n)
            IN  \/ ~complete(us, head.size) /\ got' = us /\ UNCHANGED <<rpc, head, received>>
                \/ /\ complete(us, head.size) /\ got' = <<>>
                   /\ rpc' = "header" /\ head' = <<>> /\ deliver(head.units, us)
    /\ UNCHANGED writeVars

\* Mutant: the bytes read so far are returned as a message.
RecvEnds_Partial ==
    /\ rpc # "stopped" /\ closed /\ stream = <<>> /\ rpc' = "stopped" /\ got' = <<>>
    /\ received' = IF got = <<>> THEN received ELSE Append(received, Corrupt)
    /\ UNCHANGED <<head, writeVars, stream>>

\* The sender has closed: recv returns 0 once all is read, or -1 and what is
\* still in the stream is lost.  The caller closes its end.
RecvEnds ==
    /\ rpc # "stopped" /\ closed
    /\ rpc' = "stopped" /\ got' = <<>> /\ head' = <<>>
    /\ UNCHANGED <<received, writeVars, stream>>

-----------------------------------------------------------------------------

RecvStep == RecvHeader \/ RecvPayload \/ RecvEnds
WriteStep(w) == Write(w) \/ WriteFails(w)

Next == Close \/ RecvStep \/ \E w \in Writers : SendStart(w) \/ WriteStep(w)

\* A thread in write_full goes on writing, and the peer goes on reading: both
\* programs call recv_message whenever they are not busy with a message.
Fairness == WF_vars(RecvStep) /\ \A w \in Writers : WF_vars(WriteStep(w))

Spec == Init /\ [][Next]_vars
FairSpec == Spec /\ Fairness

-----------------------------------------------------------------------------

\* A call of send_message comes back, for the peer reads or has closed; the
\* one worker of the server writes all its answers this way.
SendReturns == \A w \in Writers : pc[w] \in {"header", "payload"} ~> pc[w] \in {"idle", "ended"}

\* With one writer the byte stream is a channel of whole messages, each of
\* which arrives unless the receiver gives up.
Channel == INSTANCE MessageChannel WITH open <- rpc # "stopped"
ImplementsChannel == Channel!FairSpec
=============================================================================
