------------------------- MODULE AdminSessionProofs -------------------------
(***************************************************************************)
(* Proofs about AdminSession, for any number of admins, any timeout and    *)
(* any delay of the thread: one admin at a time, an idle one is dropped in *)
(* time, an active one is not, and nobody is refused because of an admin   *)
(* that has said goodbye.                                                  *)
(***************************************************************************)
EXTENDS AdminSession, SequenceTheorems, TLAPS

\* The times are natural numbers, and 0 is no admin.
LEMMA Times ==
    /\ admin_timeout_sec \in Nat /\ MaxDelay \in Nat /\ MaxIdle \in Nat /\ MaxAsks \in Nat
    /\ 0 \notin Admins
    BY AdminSessionAssumption

-----------------------------------------------------------------------------
(* The inductive invariant.                                                *)

Places == {"out", "login", "option", "menu", "wait", "half", "bye", "left", "exited"}
Msg == [op : {"LOGIN", "REQUEST", "BYE"}, at : Nat]

TypeInv ==
    /\ idle \in 0..MaxIdle /\ waited \in 0..1 /\ lag \in 0..MaxDelay
    /\ cpc \in [Admins -> Places] /\ asks \in [Admins -> Nat]
    /\ inbox \in [Admins -> Seq(Msg)] /\ outbox \in [Admins -> Seq({"OK", "ERROR"})]
    /\ sock \in [Admins -> {"none", "backlog", "open", "closed"}]
    /\ backlog \in Seq(Admins) /\ admin_fd \in Admins \union {0}
    /\ apc \in {"poll", "test", "accept", "read", "recv"}
    /\ revents \subseteq {"listen", "admin"}

\* The connections not yet accepted, each once; what poll reported is still so
\* when the thread comes to it.
Listening ==
    /\ \A i \in 1..Len(backlog) : sock[backlog[i]] = "backlog"
    /\ \A i, j \in 1..Len(backlog) : backlog[i] = backlog[j] => i = j
    /\ \A c \in Admins : cpc[c] = "out" =>
         sock[c] = "none" /\ Len(inbox[c]) = 0 /\ Len(outbox[c]) = 0
    /\ apc \in {"test", "accept"} /\ "listen" \in revents => backlog # <<>>
    /\ "admin" \in revents => admin_fd # 0

OneOpen == \A c \in Admins : sock[c] = "open" <=> c = admin_fd

\* A client whose connection is not closed has one message or one answer under
\* way while it waits, and none otherwise; the answer to a goodbye is sent when
\* the connection is closed.
InDialogue(c) ==
    /\ cpc[c] \notin {"out", "left"}
    /\ cpc[c] \in {"menu", "half", "exited"} => Len(inbox[c]) = 0 /\ Len(outbox[c]) = 0
    /\ cpc[c] \in {"login", "option", "wait"} =>
         \/ Len(inbox[c]) = 1 /\ inbox[c][1].op # "BYE" /\ Len(outbox[c]) = 0
         \/ Len(inbox[c]) = 0 /\ Len(outbox[c]) = 1
    /\ cpc[c] = "bye" =>
         Len(inbox[c]) = 1 /\ inbox[c][1].op = "BYE" /\ Len(outbox[c]) = 0

Dialogue == \A c \in Admins : sock[c] \in {"backlog", "open"} => InDialogue(c)

\* What the timeout test leaves of the idle time, and what a round adds to it.
Timing ==
    admin_fd # 0 =>
        /\ apc \in {"poll", "test"} => idle <= admin_timeout_sec + MaxDelay + waited + lag
        /\ apc \in {"accept", "read"} => idle <= admin_timeout_sec + lag

\* A message that poll has not reported in this round was sent in this round
\* or in the last one.
Fresh ==
    admin_fd # 0 /\ Len(inbox[admin_fd]) > 0 =>
        /\ apc \in {"poll", "test"} => idle - inbox[admin_fd][1].at <= MaxDelay + lag
        /\ apc \in {"test", "accept", "read"} /\ "admin" \notin revents =>
             idle - inbox[admin_fd][1].at <= lag

IInv == TypeInv /\ Listening /\ OneOpen /\ Dialogue /\ Timing /\ Fresh

\* Before anyone connects.
LEMMA InitIInv == Init => IInv
<1> SUFFICES ASSUME Init PROVE IInv
    OBVIOUS
<1>1. TypeInv
    BY Times DEF Init, TypeInv, Places
<1>2. Listening /\ OneOpen /\ Dialogue /\ Timing /\ Fresh
    BY Times DEF Init, Listening, OneOpen, Dialogue, Timing, Fresh
<1> QED
    BY <1>1, <1>2 DEF IInv

-----------------------------------------------------------------------------
(* What the operators of the model do to the queues of a connection.       *)

\* send_message of the admin client appends to one inbox.
LEMMA PutsEffect ==
    ASSUME TypeInv, NEW c \in Admins, NEW op \in {"LOGIN", "REQUEST", "BYE"}, Puts(c, op)
    PROVE  /\ inbox' \in [Admins -> Seq(Msg)]
           /\ \A d \in Admins : d # c => inbox'[d] = inbox[d]
           /\ Len(inbox'[c]) = Len(inbox[c]) + 1
           /\ \A i \in 1..Len(inbox[c]) : inbox'[c][i] = inbox[c][i]
           /\ inbox'[c][Len(inbox[c]) + 1].op = op
           /\ sock[c] = "open" => inbox'[c][Len(inbox[c]) + 1].at = idle
<1> DEFINE m == [op |-> op, at |-> IF sock[c] = "open" THEN idle ELSE 0]
<1>1. m \in Msg
    BY Times DEF TypeInv, Msg
<1>2. inbox' = [inbox EXCEPT ![c] = Append(@, m)]
    BY DEF Puts
<1>3. inbox \in [Admins -> Seq(Msg)] /\ inbox'[c] = Append(inbox[c], m)
    BY <1>2 DEF TypeInv
<1>4. inbox'[c] \in Seq(Msg) /\ inbox'[c][Len(inbox[c]) + 1] = m
    BY <1>1, <1>3
<1> HIDE DEF m
<1>5. /\ inbox' \in [Admins -> Seq(Msg)]
      /\ \A d \in Admins : d # c => inbox'[d] = inbox[d]
      /\ Len(inbox'[c]) = Len(inbox[c]) + 1
      /\ \A i \in 1..Len(inbox[c]) : inbox'[c][i] = inbox[c][i]
    BY <1>1, <1>2, <1>3, <1>4
<1> QED
    BY <1>4, <1>5 DEF m

\* request_text takes the answer, or sees that the server has closed.
LEMMA AnsweredEffect ==
    ASSUME TypeInv, NEW c \in Admins, NEW ok, Answered(c, ok)
    PROVE  /\ outbox' \in [Admins -> Seq({"OK", "ERROR"})]
           /\ \A d \in Admins : d # c => outbox'[d] = outbox[d]
           /\ \/ Len(outbox[c]) > 0 /\ Len(outbox'[c]) = Len(outbox[c]) - 1
              \/ outbox' = outbox /\ sock[c] = "closed"
<1> USE DEF TypeInv
<1>1. CASE outbox' = outbox /\ sock[c] = "closed"
    BY <1>1
<1>2. CASE outbox[c] # <<>> /\ outbox' = [outbox EXCEPT ![c] = Tail(@)]
    <2>1. outbox[c] \in Seq({"OK", "ERROR"})
        OBVIOUS
    <2>2. /\ Tail(outbox[c]) \in Seq({"OK", "ERROR"}) /\ Len(outbox[c]) > 0
          /\ Len(Tail(outbox[c])) = Len(outbox[c]) - 1
        BY <1>2, <2>1
    <2> QED
        BY <1>2, <2>2
<1> QED
    BY <1>1, <1>2 DEF Answered

\* respond_text appends to one outbox.
LEMMA RespondEffect ==
    ASSUME TypeInv, NEW c \in Admins, NEW a \in {"OK", "ERROR"}, respond(c, a)
    PROVE  /\ outbox' \in [Admins -> Seq({"OK", "ERROR"})]
           /\ \A d \in Admins : d # c => outbox'[d] = outbox[d]
           /\ Len(outbox'[c]) = Len(outbox[c]) + 1
    BY DEF respond, TypeInv

\* The message that is read next was sent at some time.
LEMMA FirstMessage ==
    ASSUME TypeInv, NEW c \in Admins, Len(inbox[c]) > 0
    PROVE  inbox[c][1].at \in Nat
<1>1. inbox[c] \in Seq(Msg) /\ 1 \in 1..Len(inbox[c])
    BY DEF TypeInv
<1>2. inbox[c][1] \in Msg
    BY <1>1, ElementOfSeq
<1> QED
    BY <1>2 DEF Msg

-----------------------------------------------------------------------------
(* The admin client.                                                       *)

\* Its steps other than Run leave the thread and the connections alone, so that
\* the invariant is kept if the types and its own dialogue are.
LEMMA ClientFrame ==
    ASSUME IInv, TypeInv', NEW c \in Admins, UNCHANGED <<idle, sock, backlog, threadVars>>,
           cpc[c] # "out", cpc'[c] # "out",
           \A d \in Admins : d # c =>
              cpc'[d] = cpc[d] /\ inbox'[d] = inbox[d] /\ outbox'[d] = outbox[d],
           sock[c] \in {"backlog", "open"} => InDialogue(c)',
           sock[c] = "open" /\ Len(inbox'[c]) > 0 =>
              (inbox'[c][1] = inbox[c][1] /\ Len(inbox[c]) > 0) \/ inbox'[c][1].at = idle
    PROVE  IInv'
<1> USE DEF threadVars
<1>1. Listening'
    <2>1. backlog \in Seq(Admins)
        BY DEF IInv, TypeInv
    <2>2. \A d \in Admins : cpc'[d] = "out" =>
            sock'[d] = "none" /\ Len(inbox'[d]) = 0 /\ Len(outbox'[d]) = 0
        BY DEF IInv, Listening
    <2> QED
        BY <2>1, <2>2 DEF IInv, Listening
<1>2. OneOpen' /\ Timing'
    BY DEF IInv, OneOpen, Timing
<1>3. Dialogue'
    BY DEF IInv, Dialogue, InDialogue
<1>4. Fresh'
    <2> SUFFICES ASSUME admin_fd # 0, Len(inbox'[admin_fd]) > 0
                 PROVE  /\ apc \in {"poll", "test"} =>
                             idle - inbox'[admin_fd][1].at <= MaxDelay + lag
                        /\ apc \in {"test", "accept", "read"} /\ "admin" \notin revents =>
                             idle - inbox'[admin_fd][1].at <= lag
        BY DEF Fresh
    <2>1. admin_fd \in Admins /\ sock[admin_fd] = "open" /\ idle \in Nat /\ lag \in Nat
        BY Times DEF IInv, OneOpen, TypeInv
    <2>2. CASE inbox'[admin_fd][1] = inbox[admin_fd][1] /\ Len(inbox[admin_fd]) > 0
        BY <2>2 DEF IInv, Fresh
    <2>3. CASE inbox'[admin_fd][1].at = idle
        BY <2>1, <2>3, Times
    <2> QED
        BY <2>1, <2>2, <2>3
<1> QED
    BY <1>1, <1>2, <1>3, <1>4 DEF IInv

\* connect_tcp and the LOGIN that follows it.
LEMMA RunIInv == ASSUME IInv, NEW c \in Admins, Run(c) PROVE IInv'
<1>1. /\ cpc[c] = "out" /\ sock[c] = "none" /\ c # admin_fd
      /\ cpc' = [cpc EXCEPT ![c] = "login"] /\ sock' = [sock EXCEPT ![c] = "backlog"]
      /\ backlog' = Append(backlog, c) /\ UNCHANGED <<idle, asks, outbox, threadVars>>
    BY DEF Run, Goes, IInv, Listening, OneOpen
<1>2. /\ inbox' \in [Admins -> Seq(Msg)]
      /\ \A d \in Admins : d # c => inbox'[d] = inbox[d]
    BY PutsEffect DEF IInv, Run
<1>3. Len(inbox[c]) = 0 /\ Len(inbox'[c]) = 1 /\ inbox'[c][1].op = "LOGIN" /\ Len(outbox[c]) = 0
    <2>1. Len(inbox[c]) = 0 /\ Len(outbox[c]) = 0
        BY <1>1 DEF IInv, Listening
    <2>2. Len(inbox'[c]) = Len(inbox[c]) + 1 /\ inbox'[c][Len(inbox[c]) + 1].op = "LOGIN"
        BY PutsEffect DEF IInv, Run
    <2> QED
        BY <2>1, <2>2
<1>4. TypeInv'
    <2>1. cpc' \in [Admins -> Places] /\ sock' \in [Admins -> {"none", "backlog", "open", "closed"}]
        BY <1>1 DEF IInv, TypeInv, Places
    <2>2. backlog' \in Seq(Admins)
        BY <1>1 DEF IInv, TypeInv
    <2> QED
        BY <1>1, <1>2, <2>1, <2>2 DEF IInv, TypeInv, threadVars
<1>5. Listening'
    <2>1. backlog \in Seq(Admins) /\ \A i \in 1..Len(backlog) : backlog[i] # c
        BY <1>1 DEF IInv, TypeInv, Listening
    <2>2. /\ Len(backlog') = Len(backlog) + 1 /\ backlog'[Len(backlog) + 1] = c
          /\ \A i \in 1..Len(backlog) : backlog'[i] = backlog[i]
          /\ backlog' # <<>> /\ Len(backlog) \in Nat
        BY <1>1, <2>1
    <2>3. \A i \in 1..Len(backlog) : sock'[backlog[i]] = "backlog"
        BY <1>1, <2>1 DEF IInv, Listening
    <2>4. sock'[c] = "backlog"
        BY <1>1 DEF IInv, TypeInv
    <2>5. \A i \in 1..Len(backlog') : sock'[backlog'[i]] = "backlog"
        BY <2>2, <2>3, <2>4
    <2>6. \A i, j \in 1..Len(backlog') : backlog'[i] = backlog'[j] => i = j
        BY <2>1, <2>2 DEF IInv, Listening
    <2>7. \A d \in Admins : cpc'[d] = "out" =>
            sock'[d] = "none" /\ Len(inbox'[d]) = 0 /\ Len(outbox'[d]) = 0
        BY <1>1, <1>2 DEF IInv, TypeInv, Listening
    <2> QED
        BY <1>1, <2>2, <2>5, <2>6, <2>7 DEF Listening, IInv, threadVars
<1>6. OneOpen'
    BY <1>1 DEF IInv, TypeInv, OneOpen, threadVars
<1>7. Dialogue'
    BY ZenonT(30), <1>1, <1>2, <1>3 DEF IInv, TypeInv, Dialogue, InDialogue
<1>8. Timing'
    BY <1>1, <1>2 DEF IInv, TypeInv, Timing, threadVars
<1>9. Fresh'
    BY <1>1, <1>2 DEF IInv, TypeInv, Fresh, threadVars
<1> QED
    BY <1>4, <1>5, <1>6, <1>7, <1>8, <1>9 DEF IInv

\* A client that sends a message.
LEMMA SenderIInv ==
    ASSUME IInv, NEW c \in Admins, NEW op \in {"REQUEST", "BYE"}, Puts(c, op),
           NEW where \in {"option", "wait", "bye"}, Goes(c, where),
           asks' \in [Admins -> Nat], UNCHANGED <<idle, sock, backlog, threadVars>>,
           op = "BYE" <=> where = "bye",
           \/ cpc[c] \in {"menu", "half"} /\ outbox' = outbox
           \/ cpc[c] \in {"login", "option"} /\ \E ok \in BOOLEAN : Answered(c, ok)
    PROVE  IInv'
<1>1. /\ inbox' \in [Admins -> Seq(Msg)]
      /\ \A d \in Admins : d # c => inbox'[d] = inbox[d]
      /\ Len(inbox'[c]) = Len(inbox[c]) + 1
      /\ \A i \in 1..Len(inbox[c]) : inbox'[c][i] = inbox[c][i]
      /\ inbox'[c][Len(inbox[c]) + 1].op = op
      /\ sock[c] = "open" => inbox'[c][Len(inbox[c]) + 1].at = idle
    BY PutsEffect DEF IInv
<1>2. /\ outbox' \in [Admins -> Seq({"OK", "ERROR"})]
      /\ \A d \in Admins : d # c => outbox'[d] = outbox[d]
      /\ \/ cpc[c] \in {"menu", "half"} /\ outbox' = outbox
         \/ /\ cpc[c] \in {"login", "option"}
            /\ \/ Len(outbox[c]) > 0 /\ Len(outbox'[c]) = Len(outbox[c]) - 1
               \/ sock[c] = "closed"
    BY AnsweredEffect DEF IInv, TypeInv
<1>3. /\ cpc' \in [Admins -> Places] /\ cpc'[c] = where
      /\ \A d \in Admins : d # c => cpc'[d] = cpc[d]
    BY DEF Goes, IInv, TypeInv, Places
<1>4. TypeInv'
    BY <1>1, <1>2, <1>3 DEF IInv, TypeInv, threadVars
<1>5. Len(inbox[c]) \in Nat /\ Len(outbox[c]) \in Nat
    BY DEF IInv, TypeInv
<1>6. ASSUME sock[c] \in {"backlog", "open"}
      PROVE  InDialogue(c)' /\ Len(inbox[c]) = 0
    <2>1. InDialogue(c)
        BY <1>6 DEF IInv, Dialogue
    <2>2. Len(inbox[c]) = 0 /\ Len(outbox'[c]) = 0
        <3>1. CASE cpc[c] \in {"menu", "half"} /\ outbox' = outbox
            BY <2>1, <3>1 DEF InDialogue
        <3>2. CASE cpc[c] \in {"login", "option"} /\ Len(outbox[c]) > 0
            <4>1. Len(inbox[c]) = 0 /\ Len(outbox[c]) = 1
                BY <1>5, <2>1, <3>2 DEF InDialogue
            <4>2. Len(outbox'[c]) = Len(outbox[c]) - 1
                BY <1>2, <1>6, <3>2
            <4> QED
                BY <4>1, <4>2
        <3> QED
            BY <1>2, <1>6, <3>1, <3>2
    <2> QED
        BY <1>1, <1>3, <2>2 DEF InDialogue
<1>7. sock[c] = "open" /\ Len(inbox'[c]) > 0 =>
         (inbox'[c][1] = inbox[c][1] /\ Len(inbox[c]) > 0) \/ inbox'[c][1].at = idle
    BY <1>1, <1>6
<1> QED
    BY <1>1, <1>2, <1>3, <1>4, <1>6, <1>7, ClientFrame DEF threadVars

\* A client that sends nothing.
LEMMA QuietIInv ==
    ASSUME IInv, NEW c \in Admins, inbox' = inbox,
           NEW where \in {"menu", "half", "left", "exited"}, Goes(c, where),
           asks' \in [Admins -> Nat], UNCHANGED <<idle, sock, backlog, threadVars>>,
           \/ cpc[c] \in {"menu", "half"} /\ where # "left" /\ outbox' = outbox
           \/ /\ cpc[c] \in {"login", "option", "wait", "bye"} /\ where # "half"
              /\ where = "left" <=> cpc[c] = "bye"
              /\ \E ok \in BOOLEAN : Answered(c, ok)
    PROVE  IInv'
<1>1. /\ outbox' \in [Admins -> Seq({"OK", "ERROR"})]
      /\ \A d \in Admins : d # c => outbox'[d] = outbox[d]
      /\ \/ cpc[c] \in {"menu", "half"} /\ where # "left" /\ outbox' = outbox
         \/ /\ cpc[c] \in {"login", "option", "wait", "bye"} /\ where # "half"
            /\ where = "left" <=> cpc[c] = "bye"
            /\ \/ Len(outbox[c]) > 0 /\ Len(outbox'[c]) = Len(outbox[c]) - 1
               \/ sock[c] = "closed"
    BY AnsweredEffect DEF IInv, TypeInv
<1>2. /\ cpc' \in [Admins -> Places] /\ cpc'[c] = where
      /\ \A d \in Admins : d # c => cpc'[d] = cpc[d]
    BY DEF Goes, IInv, TypeInv, Places
<1>3. TypeInv'
    BY <1>1, <1>2 DEF IInv, TypeInv, threadVars
<1>4. Len(inbox[c]) \in Nat /\ Len(outbox[c]) \in Nat
    BY DEF IInv, TypeInv
<1>5. ASSUME sock[c] \in {"backlog", "open"}
      PROVE  InDialogue(c)' /\ Len(inbox[c]) = 0
    <2>1. InDialogue(c)
        BY <1>5 DEF IInv, Dialogue
    <2>2. Len(inbox[c]) = 0 /\ Len(outbox'[c]) = 0 /\ where # "left"
        <3>1. CASE cpc[c] \in {"menu", "half"} /\ where # "left" /\ outbox' = outbox
            BY <2>1, <3>1 DEF InDialogue
        <3>2. CASE /\ cpc[c] \in {"login", "option", "wait", "bye"}
                   /\ where = "left" <=> cpc[c] = "bye"
                   /\ Len(outbox[c]) > 0 /\ Len(outbox'[c]) = Len(outbox[c]) - 1
            BY <1>4, <2>1, <3>2 DEF InDialogue
        <3> QED
            BY <1>1, <1>5, <3>1, <3>2
    <2> QED
        BY <1>2, <2>2 DEF InDialogue
<1> QED
    BY <1>1, <1>2, <1>3, <1>5, ClientFrame DEF threadVars

\* Every step of an admin client preserves the invariant.
LEMMA ClientIInv ==
    ASSUME IInv, NEW c \in Admins,
           \/ Run(c) \/ Ask(c) \/ Quit(c) \/ Killed(c) \/ HalfWritten(c) \/ Completed(c)
           \/ ClientReads(c)
    PROVE  IInv'
<1>1. asks \in [Admins -> Nat] /\ [asks EXCEPT ![c] = @ + 1] \in [Admins -> Nat]
    BY DEF IInv, TypeInv
<1>2. CASE Run(c)
    BY <1>2, RunIInv
<1>3. CASE Ask(c)
    BY <1>1, <1>3, SenderIInv DEF Ask
<1>4. CASE Quit(c)
    BY <1>1, <1>4, SenderIInv DEF Quit
<1>5. CASE Killed(c)
    BY <1>1, <1>5, QuietIInv DEF Killed
<1>6. CASE HalfWritten(c)
    BY <1>1, <1>6, QuietIInv DEF HalfWritten
<1>7. CASE Completed(c)
    BY <1>1, <1>7, SenderIInv DEF Completed
<1>8. CASE LoggedIn(c)
    <2>1. CASE Goes(c, "option") /\ Puts(c, "REQUEST")
        BY <1>1, <1>8, <2>1, SenderIInv DEF LoggedIn
    <2>2. CASE (Goes(c, "menu") \/ Goes(c, "exited")) /\ inbox' = inbox
        BY <1>1, <1>8, <2>2, QuietIInv DEF LoggedIn
    <2> QED
        BY <1>8, <2>1, <2>2 DEF LoggedIn
<1>9. CASE OptionDone(c)
    <2>1. CASE Goes(c, "bye") /\ Puts(c, "BYE")
        BY <1>1, <1>9, <2>1, SenderIInv DEF OptionDone
    <2>2. CASE Goes(c, "exited") /\ inbox' = inbox
        BY <1>1, <1>9, <2>2, QuietIInv DEF OptionDone
    <2> QED
        BY <1>9, <2>1, <2>2 DEF OptionDone
<1>10. CASE MenuAgain(c)
    BY <1>1, <1>10, QuietIInv DEF MenuAgain
<1>11. CASE Leave(c)
    BY <1>1, <1>11, QuietIInv DEF Leave
<1> QED
    BY <1>2, <1>3, <1>4, <1>5, <1>6, <1>7, <1>8, <1>9, <1>10, <1>11 DEF ClientReads

-----------------------------------------------------------------------------
(* The admin thread and the clock.                                         *)

\* A second that passes while poll waits finds nothing to read.
LEMMA TickIInv == ASSUME IInv, Tick PROVE IInv'
<1> USE Times
<1>1. UNCHANGED <<clientVars, inbox, outbox, sock, backlog, apc, revents, admin_fd>>
    BY DEF Tick
<1>2. /\ idle \in 0..MaxIdle /\ idle' \in 0..MaxIdle /\ idle' <= idle + 1
      /\ waited \in 0..1 /\ lag \in 0..MaxDelay
      /\ \/ apc = "poll" /\ ~Ready /\ waited = 0 /\ waited' = 1 /\ lag' = lag
         \/ apc = "recv" /\ waited' = waited /\ lag' = lag
         \/ apc # "recv" /\ lag < MaxDelay /\ lag' = lag + 1 /\ waited' = waited
    BY DEF Tick, IInv, TypeInv
<1>3. TypeInv'
    BY <1>1, <1>2 DEF IInv, TypeInv, clientVars
<1>4. Listening' /\ OneOpen' /\ Dialogue'
    BY <1>1 DEF IInv, Listening, OneOpen, Dialogue, InDialogue, clientVars
<1>5. Timing'
    BY <1>1, <1>2 DEF IInv, Timing
<1>6. Fresh'
    <2> SUFFICES ASSUME admin_fd # 0, Len(inbox[admin_fd]) > 0, Fresh,
                        inbox[admin_fd][1].at \in Nat
                 PROVE  Fresh'
        <3>1. ASSUME admin_fd # 0, Len(inbox[admin_fd]) > 0 PROVE inbox[admin_fd][1].at \in Nat
            BY <3>1, FirstMessage DEF IInv, TypeInv
        <3> QED
            BY <1>1, <3>1 DEF IInv, Fresh
    <2>1. Ready
        BY DEF Ready, AdminReady
    <2> QED
        BY SMTT(30), <1>1, <1>2, <2>1 DEF Fresh
<1> QED
    BY <1>3, <1>4, <1>5, <1>6 DEF IInv

\* poll reports what there is.
LEMMA PollIInv == ASSUME IInv, PollReturns PROVE IInv'
<1>1. /\ UNCHANGED <<idle, clientVars, inbox, outbox, sock, backlog, waited, lag, admin_fd>>
      /\ apc = "poll" /\ apc' = "test" /\ revents' \subseteq {"listen", "admin"}
      /\ "listen" \in revents' <=> backlog # <<>>
      /\ "admin" \in revents' <=> AdminReady
    BY DEF PollReturns
<1>2. TypeInv' /\ OneOpen' /\ Dialogue' /\ Timing'
    BY <1>1 DEF IInv, TypeInv, OneOpen, Dialogue, InDialogue, Timing, clientVars
<1>3. Listening'
    BY <1>1 DEF IInv, Listening, clientVars, AdminReady
<1>4. Fresh'
    BY <1>1 DEF IInv, Fresh, AdminReady
<1> QED
    BY <1>2, <1>3, <1>4 DEF IInv

\* The admin connection is closed (remove_pollfd) and forgotten: by the timeout,
\* by a goodbye and after an error.
LEMMA ForgotIInv ==
    ASSUME IInv, TypeInv', admin_fd # 0, admin_fd' = 0,
           sock' = [sock EXCEPT ![admin_fd] = "closed"], UNCHANGED <<clientVars, backlog>>,
           \A d \in Admins : d # admin_fd => inbox'[d] = inbox[d] /\ outbox'[d] = outbox[d],
           revents' \subseteq revents, apc' # "test", "admin" \notin revents',
           apc' = "accept" => apc = "test"
    PROVE  IInv'
<1>1. admin_fd \in Admins /\ sock[admin_fd] = "open" /\ sock'[admin_fd] = "closed"
    BY Times DEF IInv, TypeInv, OneOpen
<1>2. \A d \in Admins : d # admin_fd => sock'[d] = sock[d]
    BY DEF IInv, TypeInv
<1>3. Listening'
    <2>1. \A i \in 1..Len(backlog) : backlog[i] \in Admins /\ sock'[backlog[i]] = "backlog"
        BY <1>1, <1>2 DEF IInv, TypeInv, Listening
    <2>2. cpc[admin_fd] # "out"
        BY <1>1 DEF IInv, Listening
    <2> QED
        BY <1>1, <1>2, <2>1, <2>2 DEF IInv, Listening, clientVars
<1>4. OneOpen'
    BY <1>1, <1>2, Times DEF IInv, OneOpen
<1>5. Dialogue'
    BY <1>1, <1>2 DEF IInv, Dialogue, InDialogue, clientVars
<1>6. Timing' /\ Fresh'
    BY DEF Timing, Fresh
<1> QED
    BY <1>3, <1>4, <1>5, <1>6 DEF IInv

\* The inactivity test.
LEMMA TestIInv == ASSUME IInv, TestTimeout PROVE IInv'
<1>1. CASE timed_out
    <2>1. /\ admin_fd # 0 /\ admin_fd' = 0 /\ apc = "test" /\ apc' = "accept"
          /\ sock' = [sock EXCEPT ![admin_fd] = "closed"] /\ revents' = revents \ {"admin"}
          /\ UNCHANGED <<idle, clientVars, inbox, outbox, backlog, waited, lag>>
        BY <1>1 DEF TestTimeout, timed_out
    <2>2. TypeInv'
        BY <2>1 DEF IInv, TypeInv, clientVars
    <2> QED
        BY <2>1, <2>2, ForgotIInv
<1>2. CASE ~timed_out
    <2>1. /\ UNCHANGED <<idle, clientVars, inbox, outbox, sock, backlog, revents, waited, lag,
                         admin_fd>>
          /\ apc = "test" /\ apc' = "accept"
        BY <1>2 DEF TestTimeout
    <2>2. TypeInv' /\ Listening' /\ OneOpen' /\ Dialogue' /\ Fresh'
        BY <2>1 DEF IInv, TypeInv, Listening, OneOpen, Dialogue, InDialogue, Fresh, clientVars
    <2>3. Timing'
        BY <1>2, <2>1, Times DEF IInv, TypeInv, Timing, timed_out
    <2> QED
        BY <2>2, <2>3 DEF IInv
<1> QED
    BY <1>1, <1>2

\* accept_admin, which becomes the admin or gets an error.
LEMMA AcceptIInv == ASSUME IInv, accept_admin PROVE IInv'
<1> DEFINE c == Head(backlog)
<1>1. /\ backlog \in Seq(Admins) /\ backlog # <<>> /\ Len(backlog) > 0 /\ c = backlog[1]
      /\ c \in Admins /\ sock[c] = "backlog" /\ c # admin_fd /\ cpc[c] # "out"
      /\ Len(backlog') = Len(backlog) - 1 /\ backlog' \in Seq(Admins)
      /\ \A i \in 1..Len(backlog') : backlog'[i] = backlog[i + 1]
    BY SMTT(30) DEF accept_admin, IInv, TypeInv, Listening, OneOpen
<1>2. /\ apc = "accept" /\ apc' = "read"
      /\ UNCHANGED <<clientVars, inbox, revents, waited, lag>>
      /\ \/ /\ admin_fd # 0 /\ respond(c, "ERROR") /\ sock' = [sock EXCEPT ![c] = "closed"]
            /\ UNCHANGED <<admin_fd, idle>>
         \/ /\ admin_fd = 0 /\ admin_fd' = c /\ idle' = 0 /\ outbox' = outbox
            /\ sock' = [sock EXCEPT ![c] = "open"]
    BY DEF accept_admin, accepted_at
<1> HIDE DEF c
<1>3. /\ outbox' \in [Admins -> Seq({"OK", "ERROR"})]
      /\ \A d \in Admins : d # c => outbox'[d] = outbox[d]
    BY <1>1, <1>2, RespondEffect DEF IInv, TypeInv
<1>4. /\ sock' \in [Admins -> {"none", "backlog", "open", "closed"}]
      /\ \A d \in Admins : d # c => sock'[d] = sock[d]
      /\ \/ admin_fd # 0 /\ sock'[c] = "closed" /\ admin_fd' = admin_fd /\ idle' = idle
         \/ admin_fd = 0 /\ sock'[c] = "open" /\ admin_fd' = c /\ idle' = 0 /\ outbox' = outbox
    BY <1>1, <1>2 DEF IInv, TypeInv
<1>5. TypeInv'
    <2>1. admin_fd' \in Admins \union {0}
        BY <1>1, <1>4 DEF IInv, TypeInv
    <2>2. idle \in 0..MaxIdle /\ 0 \in 0..MaxIdle
        BY Times DEF IInv, TypeInv
    <2>3. idle' \in 0..MaxIdle
        BY <1>4, <2>2
    <2> QED
        BY <1>1, <1>2, <1>3, <1>4, <2>1, <2>3 DEF IInv, TypeInv, clientVars
<1>6. Listening'
    <2>1. \A i \in 1..Len(backlog') : backlog[i + 1] \in Admins /\ backlog[i + 1] # c
        BY <1>1 DEF IInv, Listening
    <2>2. \A i \in 1..Len(backlog') : sock'[backlog'[i]] = "backlog"
        BY <1>1, <1>4, <2>1 DEF IInv, Listening
    <2>3. \A i, j \in 1..Len(backlog') : backlog'[i] = backlog'[j] => i = j
        <3>1. \A i \in 1..Len(backlog') : i + 1 \in 1..Len(backlog) /\ i \in Nat
            BY <1>1
        <3>2. \A i, j \in 1..Len(backlog') : backlog[i + 1] = backlog[j + 1] => i + 1 = j + 1
            BY <3>1 DEF IInv, Listening
        <3> QED
            BY <1>1, <3>1, <3>2
    <2>4. \A d \in Admins : cpc'[d] = "out" =>
            sock'[d] = "none" /\ Len(inbox'[d]) = 0 /\ Len(outbox'[d]) = 0
        BY <1>1, <1>2, <1>3, <1>4 DEF IInv, Listening, clientVars
    <2>5. "admin" \in revents' => admin_fd' # 0
        BY <1>2, <1>4 DEF IInv, Listening
    <2> QED
        BY <1>2, <2>2, <2>3, <2>4, <2>5 DEF Listening
<1>7. OneOpen'
    BY <1>1, <1>4, Times DEF IInv, OneOpen
<1>8. Dialogue'
    <2> SUFFICES ASSUME NEW d \in Admins, sock'[d] \in {"backlog", "open"} PROVE InDialogue(d)'
        BY DEF Dialogue
    <2>1. outbox'[d] = outbox[d] /\ sock[d] \in {"backlog", "open"}
        BY <1>1, <1>3, <1>4
    <2> QED
        BY <1>2, <2>1 DEF IInv, Dialogue, InDialogue, clientVars
<1>9. Timing'
    BY <1>2, <1>4, Times DEF IInv, TypeInv, Timing
<1>10. Fresh'
    <2>1. CASE admin_fd # 0
        BY <1>2, <1>4, <2>1 DEF IInv, Fresh
    <2>2. CASE admin_fd = 0
        <3>1. admin_fd' = c /\ idle' = 0 /\ apc' = "read" /\ inbox' = inbox /\ lag' = lag
            BY <1>2, <1>4, <2>2
        <3>2. lag \in Nat /\ (Len(inbox[c]) > 0 => inbox[c][1].at \in Nat)
            BY <1>1, FirstMessage, Times DEF IInv, TypeInv
        <3> QED
            BY <3>1, <3>2 DEF Fresh
    <2> QED
        BY <2>1, <2>2
<1> QED
    BY <1>5, <1>6, <1>7, <1>8, <1>9, <1>10 DEF IInv

\* handle_admin_message: the answer, and the end of the session after BYE.
LEMMA HandleIInv == ASSUME IInv, handle_admin_message PROVE IInv'
<1> DEFINE c == admin_fd
<1>1. /\ c \in Admins /\ c # 0 /\ sock[c] = "open" /\ inbox[c] \in Seq(Msg) /\ inbox[c] # <<>>
      /\ cpc[c] # "out"
    BY Times DEF handle_admin_message, IInv, TypeInv, Listening, OneOpen
<1>2. /\ UNCHANGED <<clientVars, backlog>> /\ idle' = 0
      /\ apc' = "poll" /\ revents' = {} /\ waited' = 0 /\ lag' = 0
      /\ inbox' = [inbox EXCEPT ![c] = Tail(@)]
    BY DEF handle_admin_message, NextRound
<1>3. PICK a \in {"OK", "ERROR"} : respond(c, a)
    BY DEF handle_admin_message
<1>4. IF inbox[c][1].op = "BYE" THEN sock' = [sock EXCEPT ![c] = "closed"] /\ admin_fd' = 0
      ELSE UNCHANGED <<sock, admin_fd>>
    BY <1>1 DEF handle_admin_message, forget
<1> HIDE DEF c
<1>5. /\ outbox' \in [Admins -> Seq({"OK", "ERROR"})]
      /\ \A d \in Admins : d # c => outbox'[d] = outbox[d]
      /\ Len(outbox'[c]) = Len(outbox[c]) + 1
    BY <1>1, <1>3, RespondEffect DEF IInv
<1>6. Tail(inbox[c]) \in Seq(Msg) /\ Len(Tail(inbox[c])) = Len(inbox[c]) - 1 /\ Len(inbox[c]) > 0
    BY <1>1
<1>7. /\ inbox' \in [Admins -> Seq(Msg)]
      /\ \A d \in Admins : d # c => inbox'[d] = inbox[d]
      /\ Len(inbox'[c]) = Len(inbox[c]) - 1
    BY <1>1, <1>2, <1>6 DEF IInv, TypeInv
<1>8. Len(inbox[c]) = 1 /\ Len(outbox[c]) = 0 /\ cpc[c] \in {"login", "option", "wait", "bye"}
      /\ (cpc[c] = "bye" <=> inbox[c][1].op = "BYE")
    <2>1. InDialogue(c) /\ cpc[c] \in Places
        BY <1>1 DEF IInv, TypeInv, Dialogue
    <2> QED
        BY <1>6, <2>1 DEF InDialogue, Places
<1>9. TypeInv'
    <2>1. /\ sock' \in [Admins -> {"none", "backlog", "open", "closed"}]
          /\ admin_fd' \in Admins \union {0}
        BY <1>1, <1>4 DEF IInv, TypeInv
    <2>2. idle' \in 0..MaxIdle /\ lag' \in 0..MaxDelay
        BY <1>2, <1>5, Times DEF IInv, TypeInv
    <2> QED
        BY SMTT(30), <1>2, <1>5, <1>7, <2>1, <2>2 DEF IInv, TypeInv, clientVars
<1>10. CASE inbox[c][1].op = "BYE"
    BY <1>1, <1>2, <1>4, <1>5, <1>7, <1>9, <1>10, ForgotIInv DEF c
<1>11. CASE inbox[c][1].op # "BYE"
    <2>1. UNCHANGED <<sock, admin_fd>>
        BY <1>4, <1>11
    <2>2. Listening'
        <3>1. \A d \in Admins : cpc'[d] = "out" =>
                sock'[d] = "none" /\ Len(inbox'[d]) = 0 /\ Len(outbox'[d]) = 0
            BY <1>1, <1>2, <1>5, <1>7, <2>1 DEF IInv, Listening, clientVars
        <3> QED
            BY <1>2, <2>1, <3>1 DEF IInv, Listening
    <2>3. OneOpen'
        BY <2>1 DEF IInv, OneOpen
    <2>4. Dialogue'
        <3> SUFFICES ASSUME NEW d \in Admins, sock[d] \in {"backlog", "open"} PROVE InDialogue(d)'
            BY <2>1 DEF Dialogue
        <3>1. CASE d = c
            BY <1>2, <1>5, <1>7, <1>8, <1>11, <3>1 DEF InDialogue, clientVars
        <3>2. CASE d # c
            BY <1>2, <1>5, <1>7, <3>2 DEF IInv, Dialogue, InDialogue, clientVars
        <3> QED
            BY <3>1, <3>2
    <2>5. Timing'
        BY <1>2, Times DEF Timing
    <2>6. Fresh'
        BY <1>7, <1>8, <2>1 DEF Fresh, c
    <2> QED
        BY <1>9, <2>2, <2>3, <2>4, <2>5, <2>6 DEF IInv
<1> QED
    BY <1>10, <1>11

\* Every step of admin_interface_main preserves the invariant.
LEMMA ThreadIInv == ASSUME IInv, Thread PROVE IInv'
<1>1. CASE NothingToAccept
    <2>1. /\ UNCHANGED <<idle, clientVars, inbox, outbox, sock, backlog, revents, waited, lag,
                         admin_fd>>
          /\ apc = "accept" /\ apc' = "read"
        BY <1>1 DEF NothingToAccept
    <2> QED
        BY <2>1
        DEF IInv, TypeInv, Listening, OneOpen, Dialogue, InDialogue, Timing, Fresh, clientVars
<1>2. CASE NothingToRead
    <2>1. /\ UNCHANGED <<idle, clientVars, inbox, outbox, sock, backlog, admin_fd>>
          /\ apc = "read" /\ "admin" \notin revents
          /\ apc' = "poll" /\ revents' = {} /\ waited' = 0 /\ lag' = 0
        BY <1>2 DEF NothingToRead, NextRound
    <2>2. TypeInv' /\ Listening' /\ OneOpen' /\ Dialogue'
        BY <2>1, Times DEF IInv, TypeInv, Listening, OneOpen, Dialogue, InDialogue, clientVars
    <2>3. Timing'
        BY <2>1, Times DEF IInv, TypeInv, Timing
    <2>4. Fresh'
        BY <2>1, FirstMessage, Times DEF IInv, TypeInv, Fresh
    <2> QED
        BY <2>2, <2>3, <2>4 DEF IInv
<1>3. CASE RecvBlocks
    <2>1. /\ UNCHANGED <<idle, clientVars, inbox, outbox, sock, backlog, revents, waited, lag,
                         admin_fd>>
          /\ apc = "read" /\ apc' = "recv"
        BY <1>3 DEF RecvBlocks
    <2> QED
        BY <2>1
        DEF IInv, TypeInv, Listening, OneOpen, Dialogue, InDialogue, Timing, Fresh, clientVars
<1>4. CASE RecvFails
    <2>1. /\ UNCHANGED <<idle, clientVars, inbox, outbox, backlog>> /\ admin_fd # 0
          /\ admin_fd' = 0 /\ sock' = [sock EXCEPT ![admin_fd] = "closed"]
          /\ apc' = "poll" /\ revents' = {} /\ waited' = 0 /\ lag' = 0
        BY <1>4 DEF RecvFails, NextRound, IInv, Listening
    <2>2. TypeInv'
        BY <2>1, Times DEF IInv, TypeInv, clientVars
    <2> QED
        BY <2>1, <2>2, ForgotIInv
<1> QED
    BY <1>1, <1>2, <1>3, <1>4, PollIInv, TestIInv, AcceptIInv, HandleIInv DEF Thread

\* IInv is an invariant.
LEMMA InvariantIInv == Spec => []IInv
<1>1. ASSUME IInv, [Next]_vars PROVE IInv'
    <2>1. CASE UNCHANGED vars
        <3>1. UNCHANGED <<idle, cpc, asks, inbox, outbox, sock, backlog, apc, revents, waited, lag,
                         admin_fd>>
            BY <2>1 DEF vars, clientVars, threadVars
        <3>2. TypeInv' /\ OneOpen' /\ Dialogue'
            BY <1>1, <3>1 DEF IInv, TypeInv, OneOpen, Dialogue, InDialogue
        <3>3. Listening' /\ Timing' /\ Fresh'
            BY <1>1, <3>1 DEF IInv, Listening, Timing, Fresh
        <3> QED
            BY <3>2, <3>3 DEF IInv
    <2>2. CASE Tick
        BY <1>1, <2>2, TickIInv
    <2>3. CASE Thread
        BY <1>1, <2>3, ThreadIInv
    <2>4. ASSUME NEW c \in Admins,
                 \/ Run(c) \/ Ask(c) \/ Quit(c) \/ Killed(c) \/ HalfWritten(c) \/ Completed(c)
                 \/ ClientReads(c)
          PROVE  IInv'
        BY <1>1, <2>4, ClientIInv
    <2> QED
        BY <1>1, <2>1, <2>2, <2>3, <2>4 DEF Next
<1> QED
    BY <1>1, InitIInv, PTL DEF Spec

-----------------------------------------------------------------------------

\* "One admin connected at a time", whichever way the earlier ones ended.
THEOREM OneAdmin == Spec => []OpenIsAdmin
<1>1. IInv => OpenIsAdmin
    BY Times DEF IInv, TypeInv, OneOpen, OpenIsAdmin
<1> QED
    BY <1>1, InvariantIInv, PTL

\* The inactivity timeout: an admin that sends nothing is dropped one poll, and
\* twice the delay of a round, after it at the latest.
THEOREM IdleAdminDropped == Spec => []IdleDropped
<1>1. IInv => IdleDropped
    BY Times DEF IInv, TypeInv, Timing, IdleDropped
<1> QED
    BY <1>1, InvariantIInv, PTL

\* An admin whose message was sent in time is not dropped before it is read,
\* although the loop tests the timeout before it looks at the descriptors.
THEOREM ActiveAdminKept == Spec => ActiveKept
<1>1. ASSUME IInv, [Next]_vars, NEW c \in Admins,
             admin_fd = c, apc = "test", admin_fd' = 0, inbox[c] # <<>>
      PROVE  Head(inbox[c]).at > admin_timeout_sec - 2 * MaxDelay
    <2>1. c # 0 /\ inbox[c] \in Seq(Msg)
        BY <1>1, Times DEF IInv, TypeInv
    <2>2. timed_out
        <3>1. TestTimeout
            BY <1>1, <2>1
            DEF Next, vars, threadVars, Thread, Tick, PollReturns, accept_admin, NothingToAccept,
                NothingToRead, RecvBlocks, handle_admin_message, RecvFails, ClientReads, Run, Ask,
                Quit, Killed, HalfWritten, Completed, LoggedIn, OptionDone, MenuAgain, Leave
        <3> QED
            BY <1>1, <2>1, <3>1 DEF TestTimeout
    <2>3. Len(inbox[c]) > 0 /\ Head(inbox[c]) = inbox[c][1] /\ inbox[c][1].at \in Nat
        BY <1>1, <2>1, FirstMessage DEF IInv
    <2>4. idle - inbox[c][1].at <= MaxDelay + lag /\ lag \in 0..MaxDelay /\ idle \in Nat
        BY <1>1, <2>1, <2>3, Times DEF IInv, TypeInv, Fresh
    <2>5. idle > admin_timeout_sec
        BY <2>2 DEF timed_out
    <2> QED
        BY <2>3, <2>4, <2>5, Times
<1>2. IInv /\ [Next]_vars =>
        [\A c \in Admins :
           admin_fd = c /\ apc = "test" /\ admin_fd' = 0 /\ inbox[c] # <<>>
             => Head(inbox[c]).at > admin_timeout_sec - 2 * MaxDelay]_vars
    BY <1>1
<1> QED
    BY <1>2, InvariantIInv, PTL DEF Spec, ActiveKept

\* accept_admin refuses a client only for the sake of one that is still there.
THEOREM RefusedOnlyForOther == Spec => RefusedForOther
<1>1. ASSUME IInv, [Next]_vars, NEW c \in Admins, sock[c] = "backlog", sock'[c] = "closed"
      PROVE  admin_fd # 0 /\ cpc[admin_fd] # "left"
    <2>1. c # admin_fd /\ sock \in [Admins -> {"none", "backlog", "open", "closed"}]
        BY <1>1 DEF IInv, TypeInv, OneOpen
    <2>2. accept_admin /\ admin_fd # 0
        BY <1>1, <2>1
        DEF Next, vars, threadVars, Thread, Tick, PollReturns, TestTimeout, accept_admin,
            NothingToAccept, NothingToRead, RecvBlocks, handle_admin_message, forget, RecvFails,
            ClientReads, Run, Ask, Quit, Killed, HalfWritten, Completed, LoggedIn, OptionDone,
            MenuAgain, Leave
    <2>3. admin_fd \in Admins /\ sock[admin_fd] = "open"
        BY <1>1, <2>2 DEF IInv, TypeInv, OneOpen
    <2> QED
        BY <1>1, <2>2, <2>3 DEF IInv, Dialogue, InDialogue
<1>2. IInv /\ [Next]_vars =>
        [\A c \in Admins : sock[c] = "backlog" /\ sock'[c] = "closed"
           => admin_fd # 0 /\ cpc[admin_fd] # "left"]_vars
    BY <1>1
<1> QED
    BY <1>2, InvariantIInv, PTL DEF Spec, RefusedForOther
=============================================================================
