---------------------------- MODULE Connections ----------------------------
(***************************************************************************)
(* Connections, the client table and the descriptors of server.c.  The      *)
(* ordinary thread accepts, registers, reads and closes the clients, the   *)
(* admin thread does the same for the one admin and may disconnect a       *)
(* client, and the worker answers on the descriptor that a request carries. *)
(* They share the client table, the address table and, through the kernel, *)
(* the descriptor numbers: a number is free again as soon as it is closed. *)
(*                                                                         *)
(* Connections are numbered in the order in which they are made; only the   *)
(* properties look at the numbers.  Clients send whole messages, CONNECT   *)
(* once, and one request at a time, like client.c.                         *)
(***************************************************************************)
EXTENDS Integers, Sequences, FiniteSets

CONSTANTS
    Descriptors,        \* how many descriptors the process may have
    MAX_FDS,            \* entries of the ordinary poll vector
    MAX_CLIENTS,        \* slots of the client table
    MAX_ADDR_TRACK,     \* slots of the address table
    MAX_BLOCKED_ADDR,   \* entries of the block list
    MaxConns,           \* bound on the connections made
    Addrs, PeerAddr,    \* the addresses, and the one each connection is made from
    MaxRequests,        \* bound on the requests pushed or turned away
    MaxDisconnects,     \* bound on the clients the admin disconnects
    LeaveEarly,         \* may a client leave while it waits for an answer?
    AdminLeaves         \* may the admin leave, or time out?

ASSUME ConnectionsAssumption ==
    /\ {Descriptors, MAX_FDS, MAX_CLIENTS, MAX_ADDR_TRACK} \subseteq Nat \ {0}
    /\ {MAX_BLOCKED_ADDR, MaxConns, MaxRequests, MaxDisconnects} \subseteq Nat
    /\ {LeaveEarly, AdminLeaves} \subseteq BOOLEAN
    /\ Addrs \intersect {"", "client"} = {}
    /\ PeerAddr \in [1..MaxConns -> Addrs]

Fd == 1..Descriptors
Conn == 1..MaxConns
Slot == 1..MAX_CLIENTS
Track == 1..MAX_ADDR_TRACK

VARIABLES
    conn,               \* the connection a descriptor is open for, or 0
    role, id,           \* of each connection: what it became, its client id
    dead,               \* open connections that poll reports as hung up
    ofds, opc, ofd, oslot, oaddr, ocount,   \* the ordinary thread
    clients, client_count, next_client_id, fd_addrs,
    afds, admin_fd, apc, atarget, aslot, acount,    \* the admin thread
    blocked,
    queue, r,           \* the requests waiting, and the one being processed
    requests, waiting, disconnects,
    turned, stray,      \* connections refused service, or whose answer went
                        \* to another
    cut, struck         \* connections closed while they waited, or whose entry
                        \* the admin thread found or cleared

kernelVars == <<conn, role, id, dead>>
ordinaryVars == <<ofds, opc, ofd, oslot, oaddr, ocount, next_client_id>>
tableVars == <<clients, client_count, fd_addrs>>
adminVars == <<afds, admin_fd, apc, atarget, aslot, acount, blocked, disconnects, struck>>
workVars == <<queue, r, requests, waiting, turned, stray, cut>>
removingVars == <<aslot, acount, struck>>
vars == <<kernelVars, ordinaryVars, tableVars, adminVars, workVars>>

NoClient == [fd |-> 0, client_id |-> 0, addr |-> "", by |-> 0]
NoAddress == [fd |-> 0, addr |-> ""]
NoRequest == [fd |-> 0, client_id |-> 0, by |-> 0]
NoTarget == [fd |-> 0, client_id |-> 0]

Init ==
    /\ conn = [fd \in Fd |-> 0]
    /\ role = [c \in Conn |-> "none"] /\ id = [c \in Conn |-> 0] /\ dead = {}
    /\ ofds = {} /\ opc = "poll" /\ ofd = 0 /\ oslot = 0 /\ oaddr = 0 /\ ocount = 0
    /\ clients = [i \in Slot |-> NoClient] /\ client_count = 0
    /\ next_client_id = 1
    /\ fd_addrs = [i \in Track |-> NoAddress]
    /\ afds = {} /\ admin_fd = 0 /\ apc = "poll" /\ atarget = NoTarget
    /\ aslot = 0 /\ acount = 0
    /\ blocked = {} /\ disconnects = 0
    /\ queue = <<>> /\ r = NoRequest /\ requests = 0 /\ waiting = {}
    /\ turned = {} /\ stray = {} /\ cut = {} /\ struck = {}

-----------------------------------------------------------------------------
(* Lookups in arrays: the first index, 0 if there is none.                 *)

First(S) == IF S = {} THEN 0 ELSE CHOOSE i \in S : \A j \in S : i <= j

client_of_fd(fd) == First({i \in Slot : clients[i].fd = fd})

\* Mutant: the last slot is not looked at.
client_of_id_Short(n) ==
    First({i \in 1..MAX_CLIENTS - 1 : clients[i].client_id = n /\ clients[i].fd > 0})

client_of_id(n) == First({i \in Slot : clients[i].client_id = n /\ clients[i].fd > 0})
is_registered_client(n) == client_of_id(n) # 0
client_fd_by_id(n) == IF client_of_id(n) = 0 THEN 0 ELSE clients[client_of_id(n)].fd
addr_of_fd(fd) == First({i \in Track : fd_addrs[i].fd = fd})

Free == {fd \in Fd : conn[fd] = 0}
Open(c) == \E fd \in Fd : conn[fd] = c
Made == {c \in Conn : role[c] # "none"}

\* accept returns the lowest free descriptor, for the next connection.
Accept(fd, c, what) ==
    /\ Free # {} /\ Made # Conn
    /\ fd = First(Free) /\ c = First(Conn \ Made)
    /\ role' = [role EXCEPT ![c] = what]
    /\ UNCHANGED <<id, dead>>

-----------------------------------------------------------------------------
(* The ordinary thread.                                                    *)

addr_blocked(a) == a \in blocked

fd_addr_set(fd, a) ==
    LET i == First({j \in Track : fd_addrs[j].fd \in {0, fd}})
    IN  fd_addrs' = IF i = 0 THEN fd_addrs
                    ELSE [fd_addrs EXCEPT ![i] = [fd |-> fd, addr |-> a]]

accept_client ==
    /\ opc = "poll"
    /\ \E fd \in Fd, c \in Conn :
         /\ ~addr_blocked(PeerAddr[c]) /\ Cardinality(ofds) + 1 < MAX_FDS
         /\ Accept(fd, c, "open")
         /\ conn' = [conn EXCEPT ![fd] = c]
         /\ fd_addr_set(fd, PeerAddr[c])
         /\ ofds' = ofds \union {fd}
    /\ UNCHANGED <<opc, ofd, oslot, oaddr, ocount, next_client_id, clients, client_count,
                   adminVars, workVars>>

\* The address is blocked or the poll vector is full: accepted and closed.
accept_client_refused ==
    /\ opc = "poll"
    /\ \E fd \in Fd, c \in Conn :
         /\ addr_blocked(PeerAddr[c]) \/ Cardinality(ofds) + 1 >= MAX_FDS
         /\ Accept(fd, c, "refused")
    /\ UNCHANGED <<conn, ordinaryVars, tableVars, adminVars, workVars>>

\* OP_CONNECT on descriptor fd.  register_client takes the first free slot by
\* writing its fd; the id and the address are written later.
Connect(fd) ==
    /\ opc = "poll" /\ fd \in ofds
    /\ LET c == conn[fd]  i == client_of_fd(0)
       IN  /\ role[c] = "open" /\ c \notin dead
           /\ id' = [id EXCEPT ![c] = next_client_id]
           /\ IF i = 0
              THEN /\ role' = [role EXCEPT ![c] = "outside"]
                   /\ UNCHANGED <<clients, opc, ofd, oslot, oaddr>>
              ELSE /\ role' = [role EXCEPT ![c] = "member"]
                   /\ clients' = [clients EXCEPT ![i].fd = fd, ![i].by = c]
                   /\ opc' = "naming" /\ ofd' = fd /\ oslot' = i
                   /\ oaddr' = addr_of_fd(fd)
    /\ next_client_id' = next_client_id + 1
    /\ UNCHANGED <<conn, dead, ofds, ocount, client_count, fd_addrs, adminVars, workVars>>

\* Mutant: the address is taken from the first entry of the table.
fd_addr_get_First == fd_addrs[1].addr

\* fd_addr_get returned a pointer into the table, which is read only now.
fd_addr_get == IF oaddr = 0 THEN "client" ELSE fd_addrs[oaddr].addr

register_client_names ==
    /\ opc = "naming"
    /\ clients' = [clients EXCEPT ![oslot].client_id = id[conn[ofd]], ![oslot].addr = fd_addr_get]
    /\ opc' = "count" /\ ofd' = 0 /\ oslot' = 0 /\ oaddr' = 0
    /\ UNCHANGED <<kernelVars, ofds, ocount, next_client_id, client_count, fd_addrs,
                   adminVars, workVars>>

\* client_count++ is a load and a store.
register_client_loads ==
    /\ opc = "count"
    /\ ocount' = client_count
    /\ opc' = "counted"
    /\ UNCHANGED <<kernelVars, ofds, ofd, oslot, oaddr, next_client_id, tableVars,
                   adminVars, workVars>>

register_client_counts ==
    /\ opc = "counted"
    /\ client_count' = ocount + 1
    /\ opc' = "poll" /\ ocount' = 0
    /\ UNCHANGED <<kernelVars, ofds, ofd, oslot, oaddr, next_client_id, clients, fd_addrs,
                   adminVars, workVars>>

\* Mutant: the request names the first client of the poll vector.
request_First(fd) == [fd |-> First(ofds), client_id |-> id[conn[fd]], by |-> conn[fd]]

request(fd) == [fd |-> fd, client_id |-> id[conn[fd]], by |-> conn[fd]]

\* Any other operation of a client that has its id: it is pushed, or refused
\* with "client must CONNECT first".
Submit(fd) ==
    /\ opc = "poll" /\ fd \in ofds /\ requests < MaxRequests
    /\ LET c == conn[fd]
       IN  /\ id[c] > 0 /\ c \notin dead \union waiting
           /\ IF is_registered_client(id[c])
              THEN /\ queue' = Append(queue, request(fd))
                   /\ waiting' = waiting \union {c} /\ turned' = turned
              ELSE turned' = turned \union {c} /\ UNCHANGED <<queue, waiting>>
    /\ requests' = requests + 1
    /\ UNCHANGED <<kernelVars, ordinaryVars, tableVars, adminVars, r, stray, cut>>

-----------------------------------------------------------------------------
(* remove_pollfd, called by both threads: close; then client_remove_fd, which *)
(* finds the entry, clears it, tests the counter, loads it and stores it;  *)
(* then the address table and the poll vector.                             *)

close(fd) == conn' = [conn EXCEPT ![fd] = 0]

\* Mutant: the entry is not given back.
cleared_Kept(i) == clients

cleared(i) == [clients EXCEPT ![i].fd = 0, ![i].by = 0]

after_find(fd) == IF client_of_fd(fd) = 0 THEN "unaddr" ELSE "found"

\* Mutant: the counter is left alone.
counting_Never == FALSE

counting == client_count > 0

\* Mutant: it is decremented twice.
decremented_Twice(n) == n - 2

decremented(n) == n - 1

after_test == IF counting THEN "load" ELSE "unaddr"

fd_addr_remove(fd) ==
    IF addr_of_fd(fd) = 0 THEN fd_addrs
    ELSE [fd_addrs EXCEPT ![addr_of_fd(fd)] = NoAddress]

\* OP_BYE, which is answered first, or recv_message fails on a connection
\* that has hung up.
hung_up(fd) == conn[fd] \in dead
bye(fd) == role[conn[fd]] # "open" /\ conn[fd] \notin dead \union waiting

HangUp(fd) ==
    /\ opc = "poll" /\ fd \in ofds
    /\ hung_up(fd) \/ bye(fd)
    /\ close(fd)
    /\ dead' = dead \ {conn[fd]}
    /\ waiting' = waiting \ {conn[fd]}
    /\ cut' = cut \union ({conn[fd]} \intersect waiting)
    /\ opc' = "closed" /\ ofd' = fd
    /\ UNCHANGED <<role, id, ofds, oslot, oaddr, ocount, next_client_id, tableVars,
                   adminVars, queue, r, requests, turned, stray>>

OrdinaryFinds ==
    /\ opc = "closed"
    /\ oslot' = client_of_fd(ofd)
    /\ opc' = after_find(ofd)
    /\ UNCHANGED <<kernelVars, ofds, ofd, oaddr, ocount, next_client_id, tableVars,
                   adminVars, workVars>>

OrdinaryRemoves ==
    /\ opc = "found"
    /\ clients' = cleared(oslot)
    /\ opc' = "test" /\ oslot' = 0
    /\ UNCHANGED <<kernelVars, ofds, ofd, oaddr, ocount, next_client_id, client_count,
                   fd_addrs, adminVars, workVars>>

OrdinaryTests ==
    /\ opc = "test"
    /\ opc' = after_test
    /\ UNCHANGED <<kernelVars, ofds, ofd, oslot, oaddr, ocount, next_client_id, tableVars,
                   adminVars, workVars>>

OrdinaryLoads ==
    /\ opc = "load"
    /\ ocount' = client_count
    /\ opc' = "store"
    /\ UNCHANGED <<kernelVars, ofds, ofd, oslot, oaddr, next_client_id, tableVars,
                   adminVars, workVars>>

OrdinaryStores ==
    /\ opc = "store"
    /\ client_count' = decremented(ocount)
    /\ opc' = "unaddr" /\ ocount' = 0
    /\ UNCHANGED <<kernelVars, ofds, ofd, oslot, oaddr, next_client_id, clients, fd_addrs,
                   adminVars, workVars>>

OrdinaryForgets ==
    /\ opc = "unaddr"
    /\ fd_addrs' = fd_addr_remove(ofd)
    /\ ofds' = ofds \ {ofd}
    /\ opc' = "poll" /\ ofd' = 0
    /\ UNCHANGED <<kernelVars, oslot, oaddr, ocount, next_client_id, clients, client_count,
                   adminVars, workVars>>

-----------------------------------------------------------------------------
(* The admin thread.  Login and reports change nothing that is kept here.   *)

accept_admin ==
    /\ apc = "poll" /\ admin_fd = 0
    /\ \E fd \in Fd, c \in Conn :
         /\ Accept(fd, c, "admin")
         /\ conn' = [conn EXCEPT ![fd] = c]
         /\ admin_fd' = fd
         /\ afds' = afds \union {fd}
    /\ UNCHANGED <<ordinaryVars, tableVars, apc, atarget, removingVars, blocked, disconnects,
                   workVars>>

\* "another admin client is already connected".
accept_admin_refused ==
    /\ apc = "poll" /\ admin_fd # 0
    /\ \E fd \in Fd, c \in Conn : Accept(fd, c, "refused")
    /\ UNCHANGED <<conn, ordinaryVars, tableVars, adminVars, workVars>>

AdminReady == apc = "poll" /\ admin_fd # 0 /\ conn[admin_fd] \notin dead

\* OP_ADMIN_DISCONNECT: the descriptor is looked up ...
AdminDisconnect(n) ==
    /\ AdminReady /\ disconnects < MaxDisconnects
    /\ client_fd_by_id(n) # 0
    /\ atarget' = [fd |-> client_fd_by_id(n), client_id |-> n]
    /\ apc' = "disconnect" /\ disconnects' = disconnects + 1
    /\ UNCHANGED <<kernelVars, ordinaryVars, tableVars, afds, admin_fd, removingVars, blocked,
                   workVars>>

\* ... and shut down, whatever it is by then.
AdminShutdown ==
    /\ apc = "disconnect"
    /\ LET c == conn[atarget.fd]
       IN  dead' = IF c = 0 THEN dead ELSE dead \union {c}
    /\ apc' = "poll" /\ atarget' = NoTarget
    /\ UNCHANGED <<conn, role, id, ordinaryVars, tableVars, afds, admin_fd, removingVars,
                   blocked, disconnects, workVars>>

\* OP_ADMIN_BLOCK.
block_addr(a) ==
    /\ AdminReady
    /\ ~addr_blocked(a) /\ Cardinality(blocked) < MAX_BLOCKED_ADDR
    /\ blocked' = blocked \union {a}
    /\ UNCHANGED <<kernelVars, ordinaryVars, tableVars, afds, admin_fd, apc, atarget,
                   removingVars, disconnects, workVars>>

AdminCloses ==
    /\ close(admin_fd)
    /\ dead' = dead \ {conn[admin_fd]}
    /\ apc' = "closed" /\ atarget' = [fd |-> admin_fd, client_id |-> 0]
    /\ UNCHANGED <<role, id, ordinaryVars, tableVars, afds, removingVars, blocked,
                   disconnects, workVars>>

\* OP_ADMIN_BYE, or the connection has hung up: admin_fd is cleared first.
AdminEnds ==
    /\ apc = "poll" /\ admin_fd # 0
    /\ AdminLeaves \/ conn[admin_fd] \in dead
    /\ admin_fd' = 0
    /\ AdminCloses

\* The timeout: admin_fd is cleared after remove_pollfd.
AdminTimeout ==
    /\ apc = "poll" /\ admin_fd # 0 /\ AdminLeaves
    /\ admin_fd' = admin_fd
    /\ AdminCloses

AdminFinds ==
    /\ apc = "closed"
    /\ aslot' = client_of_fd(atarget.fd)
    /\ struck' = struck \union {clients[i].by : i \in {aslot'} \ {0}}
    /\ apc' = after_find(atarget.fd)
    /\ UNCHANGED <<kernelVars, ordinaryVars, tableVars, afds, admin_fd, atarget, acount,
                   blocked, disconnects, workVars>>

AdminRemoves ==
    /\ apc = "found"
    /\ clients' = cleared(aslot)
    /\ struck' = struck \union ({clients[aslot].by} \ {0})
    /\ apc' = "test" /\ aslot' = 0
    /\ UNCHANGED <<kernelVars, ordinaryVars, client_count, fd_addrs, afds, admin_fd,
                   atarget, acount, blocked, disconnects, workVars>>

AdminTests ==
    /\ apc = "test"
    /\ apc' = after_test
    /\ UNCHANGED <<kernelVars, ordinaryVars, tableVars, afds, admin_fd, atarget, removingVars,
                   blocked, disconnects, workVars>>

AdminLoads ==
    /\ apc = "load"
    /\ acount' = client_count
    /\ apc' = "store"
    /\ UNCHANGED <<kernelVars, ordinaryVars, tableVars, afds, admin_fd, atarget, aslot, struck,
                   blocked, disconnects, workVars>>

AdminStores ==
    /\ apc = "store"
    /\ client_count' = decremented(acount)
    /\ apc' = "unaddr" /\ acount' = 0
    /\ UNCHANGED <<kernelVars, ordinaryVars, clients, fd_addrs, afds, admin_fd, atarget, aslot,
                   struck, blocked, disconnects, workVars>>

\* Mutant: the poll vector keeps the descriptor.
afds_after_remove_Kept == afds

afds_after_remove == afds \ {atarget.fd}

AdminForgets ==
    /\ apc = "unaddr"
    /\ fd_addrs' = fd_addr_remove(atarget.fd)
    /\ afds' = afds_after_remove
    /\ admin_fd' = 0
    /\ apc' = "poll" /\ atarget' = NoTarget
    /\ UNCHANGED <<kernelVars, ordinaryVars, clients, client_count, removingVars, blocked,
                   disconnects, workVars>>

-----------------------------------------------------------------------------
(* The worker and the peers.                                               *)

WorkerTakes ==
    /\ r = NoRequest /\ queue # <<>>
    /\ r' = Head(queue) /\ queue' = Tail(queue)
    /\ UNCHANGED <<kernelVars, ordinaryVars, tableVars, adminVars, requests, waiting,
                   turned, stray, cut>>

\* respond_text on the descriptor of the request, after the processing.
WorkerAnswers ==
    /\ r # NoRequest
    /\ stray' = IF conn[r.fd] \in {0, r.by} THEN stray ELSE stray \union {r.by}
    /\ waiting' = waiting \ {r.by}
    /\ r' = NoRequest
    /\ UNCHANGED <<kernelVars, ordinaryVars, tableVars, adminVars, queue, requests, turned, cut>>

PeerLeaves(c) ==
    /\ Open(c) /\ c \notin dead
    /\ c \in waiting => LeaveEarly
    /\ role[c] = "admin" => AdminLeaves
    /\ dead' = dead \union {c}
    /\ UNCHANGED <<conn, role, id, ordinaryVars, tableVars, adminVars, workVars>>

OrdinarySteps ==
    \/ register_client_names \/ register_client_loads \/ register_client_counts
    \/ OrdinaryFinds \/ OrdinaryRemoves
    \/ OrdinaryTests \/ OrdinaryLoads \/ OrdinaryStores \/ OrdinaryForgets
AdminSteps ==
    \/ AdminShutdown \/ AdminFinds \/ AdminRemoves
    \/ AdminTests \/ AdminLoads \/ AdminStores \/ AdminForgets

Next ==
    \/ accept_client \/ accept_client_refused
    \/ \E fd \in Fd : Connect(fd) \/ Submit(fd) \/ HangUp(fd)
    \/ OrdinarySteps
    \/ accept_admin \/ accept_admin_refused
    \/ \E n \in 1..MaxConns : AdminDisconnect(n)
    \/ \E a \in Addrs : block_addr(a)
    \/ AdminEnds \/ AdminTimeout \/ AdminSteps
    \/ WorkerTakes \/ WorkerAnswers
    \/ \E c \in Conn : PeerLeaves(c)

\* Each thread goes on with the step it has begun, and poll keeps reporting to it
\* what has hung up.
Fairness ==
    /\ WF_vars(OrdinarySteps \/ \E fd \in Fd : hung_up(fd) /\ HangUp(fd))
    /\ WF_vars(AdminSteps \/ (AdminEnds /\ conn[admin_fd] \in dead))

Spec == Init /\ [][Next]_vars
FairSpec == Spec /\ Fairness

-----------------------------------------------------------------------------
(* Properties.                                                             *)

Removing == {"closed", "found", "test", "load", "store", "unaddr"}

\* The types.  Two threads load, test and store client_count without a lock
\* (server.c:612-613, 970): it may fall below zero, but no lower than -2.
TypeOK ==
    /\ conn \in [Fd -> 0..MaxConns]
    /\ id \in [Conn -> 0..MaxConns]
    /\ role \in [Conn -> {"none", "open", "member", "outside", "refused", "admin"}]
    /\ ofds \subseteq Fd /\ ofd \in 0..Descriptors
    /\ opc \in Removing \union {"poll", "naming", "count", "counted"}
    /\ apc \in Removing \union {"poll", "disconnect"}
    /\ afds \subseteq Fd /\ admin_fd \in 0..Descriptors
    /\ oslot \in 0..MAX_CLIENTS /\ oaddr \in 0..MAX_ADDR_TRACK
    /\ aslot \in 0..MAX_CLIENTS
    /\ {client_count, ocount, acount} \subseteq -2..MaxConns
    /\ next_client_id \in 1..MaxConns + 1
    /\ dead \union waiting \union turned \union stray \union cut \union struck \subseteq Conn

\* Every entry of the client table is the connection that its descriptor is
\* open for, under the id and the address that this connection has; only until
\* the ordinary thread has cleared the entry it closed, or has written the one
\* it took, may it be otherwise (server.c:945, 961).  And no connection has two
\* entries.
ClientTableTrue ==
    \A i \in Slot : clients[i].fd # 0 =>
        /\ \/ opc \in {"closed", "found", "naming"} /\ ofd = clients[i].fd
           \/ /\ conn[clients[i].fd] = clients[i].by
              /\ clients[i].client_id = id[clients[i].by]
              /\ clients[i].addr \in Addrs => clients[i].addr = PeerAddr[clients[i].by]
        /\ \A j \in Slot : clients[j].fd = clients[i].fd => j = i

\* The poll vector of the admin thread, fds[2], holds the listening socket and
\* at most one admin, though the only limit tested is MAX_FDS (server.c:1035,
\* 1258), and the descriptor of an admin is never one that was closed.
AdminVectorFits ==
    /\ Cardinality(afds) + 1 <= 2
    /\ apc = "poll" => afds = {admin_fd} \ {0}

\* "Connected ordinary clients" of the report (model.c:1017) agrees with the
\* entries listed below it whenever the ordinary thread is waiting, as long as
\* no removal of the admin's descriptor has matched a client's entry.  Such a
\* match, by a reused number, is the only way the two threads come to change
\* client_count together (server.c:610-613); after it the count may be wrong.
ClientCountExact ==
    struck = {} /\ opc = "poll" =>
        client_count = Cardinality({i \in Slot : clients[i].fd # 0})

\* A client that was registered is never told to CONNECT first: client_remove_fd
\* is for "descriptorul inchis", the closed descriptor (server.c:605-606).
MembersServed == \A c \in turned : role[c] # "member"

\* It is told so only if the admin thread's remove_pollfd found or cleared its
\* entry, having closed the admin's descriptor and the client got the number
\* meanwhile (server.c:945-956): no hang-up of another client, full table,
\* disconnect or blocked address costs a registered client its place.
MembersServedUnlessStruck == \A c \in turned : role[c] = "member" => c \in struck

\* The answer of a request goes to the connection it came on: fd is "socketul
\* clientului care asteapta raspuns" (server.c:63).
AnswerToSender == stray = {}

\* It goes elsewhere only when its own sender's connection was closed while the
\* sender waited (server.c:1193, 1238): whatever numbers other connections, the
\* admin's and the refused ones free and get, a client that stays is answered.
AnswerToSenderUnlessCut == stray \subseteq cut

Gone(c) == c \in dead \/ (c \in Made /\ ~Open(c))
Lingers(c) == Gone(c) /\ (Open(c) \/ \E i \in Slot : clients[i].by = c)

\* A connection that has hung up is closed, and one that is closed is forgotten
\* by the client table, whatever the other thread does with the number
\* meanwhile (server.c:1193-1198, 945): none stays open or listed for ever.
DeadForgotten == \A c \in Conn : []<>~Lingers(c)
=============================================================================
