---------------------------- MODULE AdminSession ----------------------------
(***************************************************************************)
(* The admin channel in time: the loop of admin_interface_main, with poll  *)
(* waiting one second at most and the inactivity timeout tested before the *)
(* descriptors are looked at, and runs of the admin client: log in, then   *)
(* one request or a menu, then goodbye.  The clock counts seconds: idle is *)
(* time(NULL) - admin_last.  What the requests do is in Jobs and           *)
(* Connections; the table work of remove_pollfd is in Connections.         *)
(***************************************************************************)
EXTENDS Integers, Sequences

CONSTANTS
    Admins,             \* runs of the admin client
    admin_timeout_sec,  \* g_cfg.admin_timeout_sec
    MaxDelay,           \* seconds the thread may lose in one round of its loop
    MaxAsks,            \* bound on the requests made from one menu
    MaxIdle             \* the clock does not count further

ASSUME AdminSessionAssumption ==
    /\ {admin_timeout_sec, MaxDelay, MaxAsks, MaxIdle} \subseteq Nat
    /\ 0 \notin Admins

VARIABLES
    idle,
    cpc, asks,          \* what each client waits for, and the requests it made
    inbox, outbox,      \* the two directions of each connection
    sock,               \* the server's end of it
    backlog,            \* connections not yet accepted
    apc, revents,       \* the admin thread: place, and what poll reported
    waited, lag,        \* seconds it spent in this poll, and lost in this round
    admin_fd

clientVars == <<cpc, asks>>
threadVars == <<apc, revents, waited, lag, admin_fd>>
vars == <<idle, clientVars, inbox, outbox, sock, backlog, threadVars>>

Init ==
    /\ idle = 0
    /\ cpc = [c \in Admins |-> "out"] /\ asks = [c \in Admins |-> 0]
    /\ inbox = [c \in Admins |-> <<>>] /\ outbox = [c \in Admins |-> <<>>]
    /\ sock = [c \in Admins |-> "none"] /\ backlog = <<>>
    /\ apc = "poll" /\ revents = {} /\ waited = 0 /\ lag = 0
    /\ admin_fd = 0

-----------------------------------------------------------------------------
(* The admin client.  "left" is a run that has said goodbye, "exited" one  *)
(* that has only closed its connection.                                    *)

Ended(c) == cpc[c] \in {"left", "exited"}
Goes(c, where) == cpc' = [cpc EXCEPT ![c] = where]
\* A message, with what the admin's clock shows when it is sent.
Puts(c, op) ==
    LET at == IF sock[c] = "open" THEN idle ELSE 0
    IN  inbox' = [inbox EXCEPT ![c] = Append(@, [op |-> op, at |-> at])]

\* connect_tcp succeeds before the server accepts; LOGIN follows at once.
Run(c) ==
    /\ cpc[c] = "out" /\ Goes(c, "login") /\ Puts(c, "LOGIN")
    /\ sock' = [sock EXCEPT ![c] = "backlog"] /\ backlog' = Append(backlog, c)
    /\ UNCHANGED <<idle, asks, outbox, threadVars>>

\* request_text returns: with an answer, or because the server has closed.
Answered(c, ok) ==
    \/ /\ outbox[c] # <<>> /\ ok = (Head(outbox[c]) = "OK")
       /\ outbox' = [outbox EXCEPT ![c] = Tail(@)]
    \/ /\ outbox[c] = <<>> /\ sock[c] = "closed" /\ ok = FALSE
       /\ outbox' = outbox

\* A run with an option sends its one request after the login; another one
\* shows its menu.
LoggedIn(c) ==
    /\ cpc[c] = "login"
    /\ \E ok \in BOOLEAN :
         /\ Answered(c, ok)
         /\ \/ ok /\ Goes(c, "option") /\ Puts(c, "REQUEST")
            \/ Goes(c, IF ok THEN "menu" ELSE "exited") /\ inbox' = inbox
    /\ UNCHANGED <<idle, asks, sock, backlog, threadVars>>

\* A failed request ends the run without a goodbye.
OptionDone(c) ==
    /\ cpc[c] = "option"
    /\ \E ok \in BOOLEAN :
         /\ Answered(c, ok)
         /\ IF ok THEN Goes(c, "bye") /\ Puts(c, "BYE")
            ELSE Goes(c, "exited") /\ inbox' = inbox
    /\ UNCHANGED <<idle, asks, sock, backlog, threadVars>>

\* A key of the menu.  If the server has closed, the request fails and the
\* menu shows it.
Ask(c) ==
    /\ cpc[c] = "menu" /\ asks[c] < MaxAsks
    /\ asks' = [asks EXCEPT ![c] = @ + 1]
    /\ Goes(c, "wait") /\ Puts(c, "REQUEST")
    /\ UNCHANGED <<idle, outbox, sock, backlog, threadVars>>

MenuAgain(c) ==
    /\ cpc[c] = "wait" /\ \E ok \in BOOLEAN : Answered(c, ok)
    /\ Goes(c, "menu")
    /\ UNCHANGED <<idle, asks, inbox, sock, backlog, threadVars>>

Quit(c) ==
    /\ cpc[c] = "menu" /\ Goes(c, "bye") /\ Puts(c, "BYE")
    /\ UNCHANGED <<idle, asks, outbox, sock, backlog, threadVars>>

Leave(c) ==
    /\ cpc[c] = "bye" /\ \E ok \in BOOLEAN : Answered(c, ok)
    /\ Goes(c, "left")
    /\ UNCHANGED <<idle, asks, inbox, sock, backlog, threadVars>>

\* The client is killed, or it has written only the first part of a message.
Killed(c) ==
    /\ cpc[c] \in {"menu", "half"} /\ Goes(c, "exited")
    /\ UNCHANGED <<idle, asks, inbox, outbox, sock, backlog, threadVars>>

HalfWritten(c) ==
    /\ cpc[c] = "menu" /\ asks[c] < MaxAsks /\ Goes(c, "half")
    /\ asks' = [asks EXCEPT ![c] = @ + 1]
    /\ UNCHANGED <<idle, inbox, outbox, sock, backlog, threadVars>>

Completed(c) ==
    /\ cpc[c] = "half" /\ Goes(c, "wait") /\ Puts(c, "REQUEST")
    /\ UNCHANGED <<idle, asks, outbox, sock, backlog, threadVars>>

-----------------------------------------------------------------------------
(* The admin thread.                                                       *)

AdminReady ==
    admin_fd # 0 /\ (inbox[admin_fd] # <<>> \/ cpc[admin_fd] = "half" \/ Ended(admin_fd))
Ready == backlog # <<>> \/ AdminReady

\* One second passes: in poll when it has nothing to report, in recv_message
\* on half a message, or lost anywhere else.
Tick ==
    /\ idle' = IF idle < MaxIdle THEN idle + 1 ELSE MaxIdle
    /\ \/ apc = "poll" /\ ~Ready /\ waited = 0 /\ waited' = 1 /\ lag' = lag
       \/ apc = "recv" /\ UNCHANGED <<waited, lag>>
       \/ apc # "recv" /\ lag < MaxDelay /\ lag' = lag + 1 /\ waited' = waited
    /\ UNCHANGED <<clientVars, inbox, outbox, sock, backlog, apc, revents, admin_fd>>

PollReturns ==
    /\ apc = "poll" /\ (Ready \/ waited = 1)
    /\ revents' = {x \in {"listen", "admin"} : IF x = "listen" THEN backlog # <<>> ELSE AdminReady}
    /\ apc' = "test"
    /\ UNCHANGED <<idle, clientVars, inbox, outbox, sock, backlog, waited, lag, admin_fd>>

\* Mutants: an admin is dropped one second too early; the test is made only
\* when poll has nothing to report.
timed_out_Early == admin_fd # 0 /\ idle >= admin_timeout_sec
timed_out_Quiet == admin_fd # 0 /\ idle > admin_timeout_sec /\ revents = {}

timed_out == admin_fd # 0 /\ idle > admin_timeout_sec

TestTimeout ==
    /\ apc = "test" /\ apc' = "accept"
    /\ IF timed_out
       THEN /\ sock' = [sock EXCEPT ![admin_fd] = "closed"] /\ admin_fd' = 0
            /\ revents' = revents \ {"admin"}
       ELSE UNCHANGED <<sock, admin_fd, revents>>
    /\ UNCHANGED <<idle, clientVars, inbox, outbox, backlog, waited, lag>>

\* Mutant of respond_text's callers: a branch that fails returns without answering.
respond_OnlyOk(c, a) == outbox' = [outbox EXCEPT ![c] = IF a = "OK" THEN Append(@, a) ELSE @]

respond(c, a) == outbox' = [outbox EXCEPT ![c] = Append(@, a)]

\* Mutant: accepting does not count as activity.
accepted_at_Kept == idle

accepted_at == 0

accept_admin ==
    /\ apc = "accept" /\ "listen" \in revents /\ apc' = "read"
    /\ backlog' = Tail(backlog)
    /\ LET c == Head(backlog)
       IN  IF admin_fd # 0
           THEN /\ respond(c, "ERROR")
                /\ sock' = [sock EXCEPT ![c] = "closed"]
                /\ UNCHANGED <<admin_fd, idle>>
           ELSE /\ sock' = [sock EXCEPT ![c] = "open"]
                /\ admin_fd' = c /\ idle' = accepted_at /\ outbox' = outbox
    /\ UNCHANGED <<clientVars, inbox, revents, waited, lag>>

NothingToAccept ==
    /\ apc = "accept" /\ "listen" \notin revents /\ apc' = "read"
    /\ UNCHANGED <<idle, clientVars, inbox, outbox, sock, backlog, revents, waited, lag, admin_fd>>

\* Back to poll.
NextRound == apc' = "poll" /\ revents' = {} /\ waited' = 0 /\ lag' = 0

NothingToRead ==
    /\ apc = "read" /\ "admin" \notin revents /\ NextRound
    /\ UNCHANGED <<idle, clientVars, inbox, outbox, sock, backlog, admin_fd>>

RecvBlocks ==
    /\ apc = "read" /\ "admin" \in revents
    /\ inbox[admin_fd] = <<>> /\ cpc[admin_fd] = "half"
    /\ apc' = "recv"
    /\ UNCHANGED <<idle, clientVars, inbox, outbox, sock, backlog, revents, waited, lag, admin_fd>>

\* Mutants: the goodbye is answered, but the admin is forgotten only when it
\* hangs up; it is forgotten, but stays in the vector.
forget_Kept == UNCHANGED <<sock, admin_fd>>
forget_Open == admin_fd' = 0 /\ sock' = sock

forget == sock' = [sock EXCEPT ![admin_fd] = "closed"] /\ admin_fd' = 0

\* handle_admin_message, as far as the session goes.
handle_admin_message ==
    /\ apc \in {"read", "recv"} /\ "admin" \in revents /\ inbox[admin_fd] # <<>>
    /\ inbox' = [inbox EXCEPT ![admin_fd] = Tail(@)]
    /\ idle' = 0
    /\ LET op == Head(inbox[admin_fd]).op
       IN  /\ \E a \in IF op = "REQUEST" THEN {"OK", "ERROR"} ELSE {"OK"} : respond(admin_fd, a)
           /\ IF op = "BYE" THEN forget ELSE UNCHANGED <<sock, admin_fd>>
    /\ NextRound
    /\ UNCHANGED <<clientVars, backlog>>

RecvFails ==
    /\ apc \in {"read", "recv"} /\ "admin" \in revents
    /\ inbox[admin_fd] = <<>> /\ Ended(admin_fd)
    /\ sock' = [sock EXCEPT ![admin_fd] = "closed"] /\ admin_fd' = 0
    /\ NextRound
    /\ UNCHANGED <<idle, clientVars, inbox, outbox, backlog>>

-----------------------------------------------------------------------------

Thread ==
    \/ PollReturns \/ TestTimeout \/ accept_admin \/ NothingToAccept
    \/ NothingToRead \/ RecvBlocks \/ handle_admin_message \/ RecvFails

ClientReads(c) == LoggedIn(c) \/ OptionDone(c) \/ MenuAgain(c) \/ Leave(c)

Next ==
    \/ Tick \/ Thread
    \/ \E c \in Admins : \/ Run(c) \/ Ask(c) \/ Quit(c) \/ Killed(c)
                         \/ HalfWritten(c) \/ Completed(c) \/ ClientReads(c)

\* The thread goes on, clients read, and half a message is completed or its
\* sender goes away (nothing in the code enforces that).
Fairness ==
    /\ WF_vars(Thread)
    /\ \A c \in Admins : WF_vars(ClientReads(c)) /\ WF_vars(Completed(c))

Spec == Init /\ [][Next]_vars
FairSpec == Spec /\ Fairness

-----------------------------------------------------------------------------

\* "One admin connected at a time": the connections that are open are exactly
\* the one the thread knows, whichever way the earlier ones ended.
OpenIsAdmin == {c \in Admins : sock[c] = "open"} = {admin_fd} \ {0}

\* "The admin connection is closed after a timeout": an admin that sends nothing
\* is dropped one poll, and twice the delay of a round, after the timeout at the
\* latest, unless the thread is held by half a message.
IdleDropped ==
    admin_fd # 0 /\ apc # "recv" => idle <= admin_timeout_sec + 1 + 2 * MaxDelay

\* An admin whose message was sent in time is not dropped before it is read,
\* although the timeout is tested first: a message is lost only if it was sent
\* within the delay of the thread before the timeout.
ActiveKept ==
    [][\A c \in Admins :
         admin_fd = c /\ apc = "test" /\ admin_fd' = 0 /\ inbox[c] # <<>>
           => Head(inbox[c]).at > admin_timeout_sec - 2 * MaxDelay]_vars

\* "While an admin is connected another one gets an error": and only then.  A
\* client is not refused because of one that has said goodbye.
RefusedForOther ==
    [][\A c \in Admins : sock[c] = "backlog" /\ sock'[c] = "closed"
         => admin_fd # 0 /\ cpc[admin_fd] # "left"]_vars

\* Every request of an admin client comes back, with an answer, a refusal or the
\* end of the connection.
EveryAdminAnswered ==
    \A c \in Admins : cpc[c] \in {"login", "option", "wait", "bye"} ~>
                        cpc[c] \notin {"login", "option", "wait", "bye"}
=============================================================================
