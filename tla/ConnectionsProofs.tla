-------------------------- MODULE ConnectionsProofs --------------------------
(***************************************************************************)
(* Proofs about Connections, for any number of descriptors, clients,       *)
(* addresses, requests and limits.                                         *)
(***************************************************************************)
EXTENDS Connections, FiniteSetTheorems, SequenceTheorems, WellFoundedInduction, TLAPS

-----------------------------------------------------------------------------
(* The inductive invariant, part by part.                                  *)

Entry == [fd : 0..Descriptors, client_id : 0..MaxConns,
          addr : Addrs \union {"", "client"}, by : 0..MaxConns]
Address == [fd : 0..Descriptors, addr : Addrs \union {""}]
Request == [fd : Fd, client_id : 0..MaxConns, by : Conn]

Role == {"none", "open", "member", "outside", "refused", "admin"}

KernelType ==
    /\ conn \in [Fd -> 0..MaxConns] /\ dead \subseteq Conn
    /\ id \in [Conn -> 0..MaxConns] /\ role \in [Conn -> Role]
OrdinaryType ==
    /\ ofds \subseteq Fd /\ ofd \in 0..Descriptors
    /\ opc \in Removing \union {"poll", "naming", "count", "counted"}
    /\ oslot \in 0..MAX_CLIENTS /\ oaddr \in 0..MAX_ADDR_TRACK
TableType == clients \in [Slot -> Entry]
AddressType == fd_addrs \in [Track -> Address]
AdminType ==
    /\ apc \in Removing \union {"poll", "disconnect"}
    /\ afds \subseteq Fd /\ admin_fd \in 0..Descriptors
    /\ atarget \in [fd : 0..Descriptors, client_id : Nat]
    /\ aslot \in 0..MAX_CLIENTS /\ struck \subseteq Conn
WorkType ==
    /\ queue \in Seq(Request) /\ r \in Request \union {NoRequest}
    /\ waiting \subseteq Conn /\ turned \subseteq Conn /\ stray \subseteq Conn
    /\ cut \subseteq Conn

TypeInv ==
    KernelType /\ OrdinaryType /\ TableType /\ AddressType /\ AdminType /\ WorkType

\* The ordinary thread has closed the descriptor and is still to forget it.
Closing(fd) == opc \in Removing /\ ofd = fd

\* A connection has one descriptor; those of the clients are the ones that the
\* ordinary thread polls, except for the one it is closing.
KernelInv ==
    \A fd \in Fd :
        /\ conn[fd] # 0 =>
             /\ role[conn[fd]] \in {"open", "member", "outside", "admin"}
             /\ role[conn[fd]] # "admin" => fd \in ofds /\ ~Closing(fd)
             /\ \A g \in Fd : conn[g] = conn[fd] => g = fd
        /\ fd \in ofds /\ ~Closing(fd) => conn[fd] # 0 /\ role[conn[fd]] # "admin"

\* The slot that the ordinary thread is writing or clearing is the only one that
\* may hold its descriptor.
OrdinaryInv ==
    /\ opc \in Removing \union {"naming"} => ofd \in ofds
    /\ opc = "naming" =>
         role[conn[ofd]] = "member" /\ (oaddr # 0 => fd_addrs[oaddr].fd \in {0, ofd})
    /\ opc \in {"naming", "found"} =>
         /\ oslot \in Slot /\ clients[oslot].fd \in {0, ofd}
         /\ \A i \in Slot : clients[i].fd = ofd => i = oslot

AdminInv ==
    /\ apc = "found" => aslot \in Slot
    /\ IF apc \in {"poll", "disconnect"}
       THEN /\ afds = {admin_fd} \ {0}
            /\ admin_fd # 0 => conn[admin_fd] # 0 /\ role[conn[admin_fd]] = "admin"
            /\ apc = "disconnect" => atarget.fd \in Fd
       ELSE afds = {atarget.fd} /\ atarget.fd \in Fd

AddressInv ==
    \A j \in Track :
        IF fd_addrs[j].fd = 0 THEN fd_addrs[j].addr = ""
        ELSE /\ fd_addrs[j].fd \in ofds
             /\ ~Closing(fd_addrs[j].fd) => fd_addrs[j].addr = PeerAddr[conn[fd_addrs[j].fd]]
             /\ \A k \in Track : fd_addrs[k].fd = fd_addrs[j].fd => k = j

TableInv ==
    \A i \in Slot : clients[i].fd # 0 =>
        /\ clients[i].by \in Conn
        /\ \A j \in Slot : clients[j].fd = clients[i].fd => j = i
        /\ \/ opc \in {"closed", "found"} /\ ofd = clients[i].fd
           \/ /\ conn[clients[i].fd] = clients[i].by
              /\ role[clients[i].by] = "member"
              /\ \/ opc = "naming" /\ ofd = clients[i].fd
                 \/ /\ clients[i].client_id = id[clients[i].by]
                    /\ clients[i].addr \in Addrs => clients[i].addr = PeerAddr[clients[i].by]

IInv == TypeInv /\ KernelInv /\ OrdinaryInv /\ AdminInv /\ AddressInv /\ TableInv

\* The ids given are as many as the connections that have one.
Members == {c \in Conn : role[c] = "member"}
Named == {c \in Conn : role[c] \in {"member", "outside"}}

IdInv ==
    /\ next_client_id = Cardinality(Named) + 1
    /\ \A c \in Conn : id[c] # 0 => c \in Named

\* The ordinary thread has taken an entry and is still to count it.
Pending == IF opc \in {"naming", "count", "counted"} THEN 1 ELSE 0

\* Neither the counter nor what the two threads have loaded of it exceeds the
\* connections that became members: a lost decrement keeps an old value, which
\* was no greater.
HighInv ==
    /\ client_count \in Int /\ ocount \in Int /\ acount \in Int
    /\ client_count + Pending <= Cardinality(Members)
    /\ ocount <= Cardinality(Members) /\ acount <= Cardinality(Members)
    /\ opc = "counted" => ocount + 1 <= Cardinality(Members)

\* Each thread tests the counter before it loads and stores it, so that each can
\* take it one below what the other has already stored, and no lower: a thread
\* starts a decrement only from a counter that it has seen above zero.
LowInv ==
    /\ opc \notin {"counted", "store"} => ocount = 0
    /\ apc # "store" => acount = 0
    /\ IF apc \in {"load", "store"}
       THEN /\ client_count >= 0 /\ acount >= 0
            /\ opc = "load" => client_count >= 1
            /\ opc = "store" => ocount >= 1
            /\ opc = "counted" => ocount >= 0
       ELSE /\ client_count >= -2
            /\ opc = "load" => client_count >= -1
            /\ opc = "store" => ocount >= -1 /\ (ocount >= 1 \/ client_count = ocount)
            /\ opc = "counted" => ocount >= -2 /\ (ocount >= 0 \/ client_count = ocount)

Inv == IInv /\ IdInv /\ HighInv /\ LowInv

\* As long as the admin's removals have matched no entry, only the ordinary thread
\* changes the table and the counter.
Entries == {i \in Slot : clients[i].fd # 0}
Uncounted == IF opc \in {"test", "load", "store"} THEN 1 ELSE 0

ExactInv ==
    struck = {} =>
        /\ apc \in {"poll", "disconnect", "closed", "unaddr"}
        /\ client_count + Pending = Cardinality(Entries) + Uncounted
        /\ opc \in {"counted", "store"} => ocount = client_count
        /\ opc \in {"naming", "found"} => clients[oslot].fd = ofd

\* A member that has its descriptor, and whose entry the admin thread has not
\* met, is in the table.
ServedInv ==
    /\ \A fd \in Fd :
         conn[fd] # 0 /\ role[conn[fd]] = "member" /\ conn[fd] \notin struck =>
             \E i \in Slot : clients[i].fd = fd
    /\ \A c \in turned : role[c] = "outside" \/ (role[c] = "member" /\ c \in struck)

\* The descriptor of a request stays its sender's until the sender is cut off.
Sent(q) ==
    /\ q.by \in waiting \union cut /\ (conn[q.fd] = q.by \/ q.by \in cut)
    /\ id[q.by] # 0

SentInv ==
    /\ \A c \in cut : role[c] # "none" /\ \A fd \in Fd : conn[fd] # c
    /\ \A i \in 1..Len(queue) : Sent(queue[i]) /\ r.by # queue[i].by
    /\ \A i, j \in 1..Len(queue) : queue[i].by = queue[j].by => i = j
    /\ r # NoRequest => Sent(r)
    /\ AnswerToSenderUnlessCut

-----------------------------------------------------------------------------
(* Lookups.                                                                *)

\* The bounds are natural numbers.
LEMMA Bounds ==
    /\ Descriptors \in Nat \ {0} /\ MAX_CLIENTS \in Nat \ {0} /\ MAX_ADDR_TRACK \in Nat \ {0}
    /\ MaxConns \in Nat
    BY ConnectionsAssumption

\* A set of natural numbers has a least element.
LEMMA Least ==
    ASSUME NEW T, T \subseteq Nat, T # {}
    PROVE  \E x \in T : \A y \in T : x <= y
<1>1. PICK x \in T : \A y \in T : <<y, x>> \notin OpToRel(<, Nat)
    BY NatLessThanWellFounded, WFMin
<1>2. \A y \in T : ~(y < x)
    BY <1>1 DEF OpToRel
<1> QED
    BY <1>2

\* The first index of a set, if it has any.
LEMMA FirstIs ==
    ASSUME NEW S, S \subseteq Nat
    PROVE  (S = {} /\ First(S) = 0) \/ First(S) \in S
<1>1. CASE S = {}
    BY <1>1 DEF First
<1>2. CASE S # {}
    <2>1. \E x \in S : \A y \in S : x <= y
        BY <1>2, Least
    <2> QED
        BY <1>2, <2>1 DEF First
<1> QED
    BY <1>1, <1>2

\* client_remove_fd and fd_addr_remove find the entry of a descriptor, if it has
\* one.
LEMMA ClientOfFd ==
    ASSUME NEW fd
    PROVE  \/ client_of_fd(fd) = 0 /\ \A i \in Slot : clients[i].fd # fd
           \/ client_of_fd(fd) \in Slot /\ clients[client_of_fd(fd)].fd = fd
<1> DEFINE S == {i \in Slot : clients[i].fd = fd}
<1>1. S \subseteq Nat
    BY Bounds DEF Slot
<1>2. (S = {} /\ First(S) = 0) \/ First(S) \in S
    BY <1>1, FirstIs
<1> QED
    BY <1>2 DEF client_of_fd

\* fd_addr_find returns an entry of the descriptor, or 0 when it has none.
LEMMA AddrOfFd ==
    ASSUME NEW fd
    PROVE  \/ addr_of_fd(fd) = 0 /\ \A i \in Track : fd_addrs[i].fd # fd
           \/ addr_of_fd(fd) \in Track /\ fd_addrs[addr_of_fd(fd)].fd = fd
<1> DEFINE S == {i \in Track : fd_addrs[i].fd = fd}
<1>1. S \subseteq Nat
    BY Bounds DEF Track
<1>2. (S = {} /\ First(S) = 0) \/ First(S) \in S
    BY <1>1, FirstIs
<1> QED
    BY <1>2 DEF addr_of_fd

\* accept gives a number that is not in use to a connection that is new.
LEMMA AcceptIs ==
    ASSUME IInv, NEW fd, NEW c, NEW what \in Role, Accept(fd, c, what)
    PROVE  /\ fd \in Fd /\ fd # 0 /\ conn[fd] = 0 /\ c \in Conn /\ c # 0 /\ c \in 0..MaxConns
           /\ \A g \in Fd : conn[g] # c
           /\ role' \in [Conn -> Role] /\ UNCHANGED <<id, dead>>
           /\ \A d \in Conn : role'[d] = IF d = c THEN what ELSE role[d]
           /\ role[c] = "none"
<1>1. Free \subseteq Nat /\ Conn \ Made \subseteq Nat
    BY Bounds DEF Free, Fd, Conn
<1>2. Free # {} /\ Conn \ Made # {} /\ fd = First(Free) /\ c = First(Conn \ Made)
    BY DEF Accept, Made
<1>3. fd \in Free /\ c \in Conn \ Made
    BY <1>1, <1>2, FirstIs
<1>4. /\ fd \in Fd /\ fd # 0 /\ conn[fd] = 0
      /\ c \in Conn /\ c # 0 /\ c \in 0..MaxConns /\ role[c] = "none"
    BY <1>3, Bounds DEF Free, Made, Fd, Conn
<1>5. \A g \in Fd : conn[g] # c
    BY <1>4 DEF IInv, KernelInv
<1> QED
    BY <1>4, <1>5 DEF Accept, IInv, TypeInv, KernelType

\* An open descriptor belongs to a connection.
LEMMA ConnOf ==
    ASSUME IInv, NEW fd \in Fd, conn[fd] # 0
    PROVE  conn[fd] \in Conn
<1>1. conn[fd] \in 0..MaxConns
    BY DEF IInv, TypeInv, KernelType
<1> QED
    BY <1>1, Bounds DEF Conn

-----------------------------------------------------------------------------
(* The steps of the ordinary thread.                                       *)

Tracked(i, fd, a) ==
    /\ i \in Track /\ fd_addrs[i].fd \in {0, fd}
    /\ fd_addrs' = [fd_addrs EXCEPT ![i] = [fd |-> fd, addr |-> a]]

\* A client that is accepted gets a free descriptor and a free address entry.
LEMMA AcceptClientIInv == ASSUME IInv, accept_client PROVE IInv'
<1> USE DEF IInv, TypeInv
<1>0. PICK fd \in Fd, c \in Conn :
        /\ Accept(fd, c, "open") /\ opc = "poll"
        /\ conn' = [conn EXCEPT ![fd] = c]
        /\ fd_addr_set(fd, PeerAddr[c]) /\ ofds' = ofds \union {fd}
        /\ UNCHANGED <<opc, ofd, oslot, oaddr, next_client_id, clients, client_count>>
        /\ UNCHANGED <<afds, admin_fd, apc, atarget, aslot, struck, blocked, disconnects>>
        /\ UNCHANGED <<queue, r, requests, waiting, turned, stray, cut>>
    BY DEF accept_client, adminVars, workVars
<1> PICK a : a = PeerAddr[c]
    OBVIOUS
<1>1. /\ Accept(fd, c, "open") /\ opc = "poll" /\ a = PeerAddr[c] /\ a \in Addrs
      /\ conn' = [conn EXCEPT ![fd] = c]
      /\ fd_addr_set(fd, a) /\ ofds' = ofds \union {fd}
      /\ UNCHANGED <<opc, ofd, oslot, oaddr, next_client_id, clients, client_count>>
      /\ UNCHANGED <<afds, admin_fd, apc, atarget, aslot, struck, blocked, disconnects>>
      /\ UNCHANGED <<queue, r, requests, waiting, turned, stray, cut>>
    BY <1>0, ConnectionsAssumption DEF Conn
<1>2. /\ conn[fd] = 0 /\ fd # 0 /\ c # 0 /\ c \in 0..MaxConns /\ \A g \in Fd : conn[g] # c
      /\ role' \in [Conn -> Role] /\ UNCHANGED <<id, dead>>
      /\ \A d \in Conn : role'[d] = IF d = c THEN "open" ELSE role[d]
      /\ role[c] = "none"
    BY <1>1, AcceptIs DEF Role
<1>3. /\ \A g \in Fd : conn'[g] = IF g = fd THEN c ELSE conn[g]
      /\ KernelType'
    BY <1>1, <1>2 DEF KernelType
<1>4. fd \notin ofds
    BY <1>1, <1>2 DEF KernelInv, Closing, Removing
<1>5. \A g \in Fd : conn[g] # 0 =>
        /\ conn'[g] = conn[g] /\ role'[conn[g]] = role[conn[g]]
        /\ conn[g] \in Conn
    BY <1>2, <1>3, ConnOf
<1>6. fd_addrs' = fd_addrs \/ \E i : Tracked(i, fd, a)
    <2> DEFINE S == {j \in Track : fd_addrs[j].fd \in {0, fd}}
    <2>1. (S = {} /\ First(S) = 0) \/ First(S) \in S
        <3>1. S \subseteq Nat
            BY Bounds DEF Track
        <3> HIDE DEF S
        <3> QED
            BY <3>1, FirstIs
    <2>2. \/ fd_addrs' = fd_addrs
          \/ First(S) # 0 /\ fd_addrs' = [fd_addrs EXCEPT ![First(S)] = [fd |-> fd, addr |-> a]]
        BY <1>1 DEF fd_addr_set
    <2>3. \A j \in S : j \in Track /\ fd_addrs[j].fd \in {0, fd}
        OBVIOUS
    <2> HIDE DEF S
    <2>4. PICK i : i = First(S)
        OBVIOUS
    <2>5. S # {} => Tracked(i, fd, a) \/ fd_addrs' = fd_addrs
        BY <2>1, <2>2, <2>3, <2>4 DEF Tracked
    <2>6. S = {} => fd_addrs' = fd_addrs
        BY <2>1, <2>2
    <2> QED
        BY <2>5, <2>6
<1>7. AddressType'
    <2>1. [fd |-> fd, addr |-> a] \in Address
        <3>1. fd \in 0..Descriptors
            BY Bounds DEF Fd
        <3> QED
            BY <1>1, <3>1 DEF Address
    <2>2. ASSUME NEW i, Tracked(i, fd, a) PROVE AddressType'
        BY <2>1, <2>2 DEF AddressType, Tracked
    <2> QED
        BY <1>6, <2>2 DEF AddressType
<1>8. OrdinaryType' /\ TableType' /\ AdminType' /\ WorkType'
    BY <1>1 DEF OrdinaryType, TableType, AdminType, WorkType
<1>9. KernelInv'
    BY <1>1, <1>2, <1>3, <1>4, <1>5 DEF KernelInv, Closing, Removing
<1>10. OrdinaryInv'
    BY <1>1 DEF OrdinaryInv, Removing
<1>11. AdminInv'
    BY <1>1, <1>2, <1>5 DEF AdminInv, AdminType, Fd
<1>12. AddressInv'
    <2>1. ASSUME NEW j \in Track, fd_addrs[j].fd # 0
          PROVE  /\ fd_addrs[j].fd \in ofds' /\ fd_addrs[j].fd # fd
                 /\ fd_addrs[j].addr = PeerAddr[conn'[fd_addrs[j].fd]]
        <3>1. /\ fd_addrs[j].fd \in ofds /\ fd_addrs[j].fd \in Fd /\ ~Closing(fd_addrs[j].fd)
              /\ fd_addrs[j].addr = PeerAddr[conn[fd_addrs[j].fd]]
            BY <1>1, <2>1 DEF AddressInv, Closing, OrdinaryType, Removing
        <3>2. conn[fd_addrs[j].fd] # 0
            BY <3>1 DEF KernelInv
        <3> QED
            BY <1>1, <1>4, <1>5, <3>1, <3>2
    <2>2. CASE fd_addrs' = fd_addrs
        BY <2>1, <2>2 DEF AddressInv
    <2>3. ASSUME NEW i, Tracked(i, fd, a) PROVE AddressInv'
        <3>1. i \in Track /\ fd_addrs[i].fd = 0
            BY <2>1, <2>3 DEF Tracked
        <3>2. /\ fd_addrs'[i].fd = fd /\ fd_addrs'[i].addr = a
              /\ \A j \in Track : j # i => fd_addrs'[j] = fd_addrs[j]
            BY <2>3, <3>1 DEF AddressType, Tracked
        <3>3. fd \in ofds' /\ PeerAddr[conn'[fd]] = a
            BY <1>1, <1>3
        <3>4. \A k \in Track : fd_addrs'[k].fd = fd => k = i
            BY <1>2, <2>1, <3>2
        <3> SUFFICES ASSUME NEW j \in Track
                     PROVE  IF fd_addrs'[j].fd = 0 THEN fd_addrs'[j].addr = ""
                            ELSE /\ fd_addrs'[j].fd \in ofds'
                                 /\ fd_addrs'[j].addr = PeerAddr[conn'[fd_addrs'[j].fd]]
                                 /\ \A k \in Track : fd_addrs'[k].fd = fd_addrs'[j].fd => k = j
            BY DEF AddressInv
        <3>5. CASE j = i
            BY <1>2, <3>2, <3>3, <3>4, <3>5
        <3>6. CASE j # i /\ fd_addrs[j].fd = 0
            BY <3>2, <3>6 DEF AddressInv
        <3>7. CASE j # i /\ fd_addrs[j].fd # 0
            <4>1. \A k \in Track : fd_addrs[k].fd = fd_addrs[j].fd => k = j
                BY <3>7 DEF AddressInv
            <4>2. \A k \in Track : fd_addrs'[k].fd = fd_addrs[j].fd => k = j
                BY <4>1, <2>1, <3>2, <3>7
            <4> QED
                BY <2>1, <3>2, <3>7, <4>2
        <3> QED
            BY <3>5, <3>6, <3>7
    <2> QED
        BY <1>6, <2>2, <2>3, Zenon
<1>13. TableInv'
    <2> SUFFICES ASSUME NEW i \in Slot, clients'[i].fd # 0
                 PROVE  /\ \A j \in Slot : clients'[j].fd = clients'[i].fd => j = i
                        /\ conn'[clients'[i].fd] = clients'[i].by /\ clients'[i].by \in Conn
                        /\ role'[clients'[i].by] = "member"
                        /\ clients'[i].client_id = id'[clients'[i].by]
                        /\ clients'[i].addr \in Addrs =>
                              clients'[i].addr = PeerAddr[clients'[i].by]
        BY DEF TableInv
    <2>1. /\ \A j \in Slot : clients[j].fd = clients[i].fd => j = i
          /\ conn[clients[i].fd] = clients[i].by /\ clients[i].by \in Conn
          /\ role[clients[i].by] = "member" /\ clients[i].client_id = id[clients[i].by]
          /\ clients[i].addr \in Addrs => clients[i].addr = PeerAddr[clients[i].by]
        BY <1>1 DEF TableInv
    <2>2. clients[i].fd \in 0..Descriptors /\ clients[i].fd # 0
        BY <1>1 DEF TableType, Entry
    <2>3. clients[i].fd \in Fd /\ conn[clients[i].fd] # 0
        BY <2>1, <2>2, Bounds DEF Fd, Conn
    <2> QED
        BY <1>1, <1>2, <1>5, <2>1, <2>3
<1> QED
    BY <1>3, <1>7, <1>8, <1>9, <1>10, <1>11, <1>12, <1>13

-----------------------------------------------------------------------------
(* Most steps leave the ordinary thread where it is, or take it past the   *)
(* counter, keep every connection that is not the admin's, and at most      *)
(* clear an entry of the tables.                                           *)

Standing ==
    \/ UNCHANGED <<opc, ofd, oslot, oaddr>>
    \/ /\ opc \in {"count", "counted"} /\ opc' \in {"counted", "poll"}
       /\ UNCHANGED <<ofd, oslot, oaddr>>
    \/ /\ opc \in {"test", "load", "store"} /\ opc' \in {"load", "store", "unaddr"}
       /\ UNCHANGED <<ofd, oslot, oaddr>>

Keeps ==
    /\ UNCHANGED <<id, ofds>>
    /\ \A g \in Fd : conn[g] # 0 /\ role[conn[g]] # "admin" => conn'[g] = conn[g]
    /\ \A d \in Conn : role[d] # "none" => role'[d] = role[d]

Clears ==
    /\ \A i \in Slot : clients'[i] = clients[i] \/ clients'[i].fd = 0
    /\ \A j \in Track :
         \/ fd_addrs'[j] = fd_addrs[j]
         \/ fd_addrs'[j].fd = 0 /\ fd_addrs'[j].addr = ""

Frame == Standing /\ Keeps /\ Clears

\* In such a step the closing descriptor stays the same.
LEMMA StandingClosing ==
    ASSUME Standing
    PROVE  /\ \A fd : Closing(fd)' <=> Closing(fd)
           /\ {opc, opc'} \intersect {"naming", "closed", "found"} # {} =>
                UNCHANGED <<opc, ofd, oslot, oaddr>>
           /\ opc' \in Removing => opc \in Removing /\ ofd' = ofd
    BY DEF Standing, Closing, Removing

\* A step that only closes connections leaves the ordinary thread's part alone.
LEMMA FrameOrdinary == ASSUME IInv, Frame PROVE OrdinaryType' /\ OrdinaryInv'
<1> USE DEF IInv, TypeInv
<1>1. OrdinaryType'
    BY Bounds DEF OrdinaryType, Frame, Standing, Keeps, Removing
<1>2. opc' \in Removing \union {"naming"} => ofd' \in ofds'
    BY StandingClosing DEF OrdinaryInv, Frame, Keeps
<1>3. ASSUME opc' = "naming"
      PROVE  role'[conn'[ofd']] = "member"
    <2>1. /\ UNCHANGED <<opc, ofd, oslot, oaddr>>
          /\ ofd \in ofds /\ role[conn[ofd]] = "member"
        BY <1>3, StandingClosing DEF OrdinaryInv, Frame
    <2>2. ofd \in Fd /\ ~Closing(ofd)
        BY <1>3, <2>1 DEF OrdinaryType, Closing, Removing
    <2>3. conn[ofd] # 0
        BY <2>1, <2>2 DEF KernelInv
    <2>4. conn[ofd] \in Conn
        BY <2>2, <2>3, ConnOf
    <2> QED
        BY <2>1, <2>2, <2>3, <2>4 DEF Frame, Keeps
<1>4. ASSUME opc' \in {"naming", "found"}
      PROVE  /\ oslot' \in Slot /\ clients'[oslot'].fd \in {0, ofd'}
             /\ \A i \in Slot : clients'[i].fd = ofd' => i = oslot'
    <2>1. /\ UNCHANGED <<opc, ofd, oslot, oaddr>> /\ opc \in {"naming", "found"}
          /\ oslot \in Slot /\ ofd \in Fd /\ ofd # 0
        <3>1. UNCHANGED <<opc, ofd, oslot, oaddr>> /\ opc \in {"naming", "found"}
            BY <1>4, StandingClosing DEF Frame
        <3>2. oslot \in Slot /\ ofd \in ofds
            BY <3>1 DEF OrdinaryInv, Removing
        <3>3. ofd \in Fd /\ ofd # 0
            BY <3>2, Bounds DEF OrdinaryType, Fd
        <3> QED
            BY <3>1, <3>2, <3>3
    <2>2. /\ \A i \in Slot : clients[i].fd = ofd => i = oslot
          /\ clients[oslot].fd \in {0, ofd}
        BY <2>1 DEF OrdinaryInv
    <2>3. \A i \in Slot : clients'[i].fd = ofd => clients'[i] = clients[i]
        BY <2>1 DEF Frame, Clears
    <2>4. \A i \in Slot : clients'[i].fd = ofd' => i = oslot'
        BY <2>1, <2>2, <2>3
    <2>5. clients'[oslot].fd \in {0, ofd}
        BY <2>1, <2>2 DEF Frame, Clears
    <2> QED
        BY <2>1, <2>4, <2>5
<1>5. ASSUME opc' = "naming", oaddr' # 0
      PROVE  fd_addrs'[oaddr'].fd \in {0, ofd'}
    <2>1. UNCHANGED <<opc, ofd, oslot, oaddr>> /\ opc = "naming"
        BY <1>5, StandingClosing DEF Frame
    <2>2. oaddr \in Track
        BY <1>5, <2>1, Bounds DEF OrdinaryType, Track
    <2>3. fd_addrs[oaddr].fd \in {0, ofd}
        BY <1>5, <2>1 DEF OrdinaryInv
    <2> QED
        BY <2>1, <2>2, <2>3 DEF Frame, Clears
<1> QED
    BY <1>1, <1>2, <1>3, <1>4, <1>5 DEF OrdinaryInv

\* ... and the address table ...
LEMMA FrameAddress == ASSUME IInv, Frame PROVE AddressInv'
<1> USE DEF IInv, TypeInv
<1> SUFFICES ASSUME NEW j \in Track
             PROVE  (IF fd_addrs[j].fd = 0 THEN fd_addrs[j].addr = ""
                     ELSE /\ fd_addrs[j].fd \in ofds
                          /\ ~Closing(fd_addrs[j].fd) =>
                                fd_addrs[j].addr = PeerAddr[conn[fd_addrs[j].fd]]
                          /\ \A k \in Track : fd_addrs[k].fd = fd_addrs[j].fd => k = j)'
    BY DEF AddressInv
<1>1. CASE fd_addrs'[j].fd = 0 /\ fd_addrs'[j].addr = ""
    BY <1>1
<1>2. CASE fd_addrs'[j] = fd_addrs[j] /\ fd_addrs[j].fd = 0
    BY <1>2 DEF AddressInv
<1>3. CASE fd_addrs'[j] = fd_addrs[j] /\ fd_addrs[j].fd # 0
    <2>1. /\ fd_addrs[j].fd \in ofds /\ fd_addrs[j].fd \in Fd
          /\ ~Closing(fd_addrs[j].fd) => fd_addrs[j].addr = PeerAddr[conn[fd_addrs[j].fd]]
          /\ \A k \in Track : fd_addrs[k].fd = fd_addrs[j].fd => k = j
        BY <1>3 DEF AddressInv, OrdinaryType
    <2>2. \A k \in Track : fd_addrs'[k].fd = fd_addrs'[j].fd => k = j
        BY <1>3, <2>1 DEF Frame, Clears
    <2>3. fd_addrs'[j].fd \in ofds'
        BY <1>3, <2>1 DEF Frame, Keeps
    <2>4. ~Closing(fd_addrs[j].fd) =>
            conn[fd_addrs[j].fd] # 0 /\ role[conn[fd_addrs[j].fd]] # "admin"
        BY <2>1 DEF KernelInv
    <2>5. ~Closing(fd_addrs[j].fd) => fd_addrs[j].addr = PeerAddr[conn'[fd_addrs[j].fd]]
        BY <2>1, <2>4 DEF Frame, Keeps
    <2> QED
        BY <1>3, <2>2, <2>3, <2>5, StandingClosing DEF Frame
<1> QED
    BY <1>1, <1>2, <1>3 DEF Frame, Clears

\* ... and the client table.
LEMMA FrameTable == ASSUME IInv, Frame PROVE TableInv'
<1> USE DEF IInv, TypeInv
<1> SUFFICES ASSUME NEW i \in Slot, clients'[i].fd # 0
             PROVE  (/\ clients[i].by \in Conn
                     /\ \A j \in Slot : clients[j].fd = clients[i].fd => j = i
                     /\ \/ opc \in {"closed", "found"} /\ ofd = clients[i].fd
                        \/ /\ conn[clients[i].fd] = clients[i].by
                           /\ role[clients[i].by] = "member"
                           /\ \/ opc = "naming" /\ ofd = clients[i].fd
                              \/ /\ clients[i].client_id = id[clients[i].by]
                                 /\ clients[i].addr \in Addrs =>
                                      clients[i].addr = PeerAddr[clients[i].by])'
    BY DEF TableInv
<1>1. clients'[i] = clients[i] /\ clients[i].fd # 0
    BY DEF Frame, Clears
<1>2. clients[i].fd \in Fd
    <2>1. clients[i].fd \in 0..Descriptors
        BY DEF TableType, Entry
    <2> QED
        BY <1>1, <2>1, Bounds DEF Fd
<1>3. \A j \in Slot : clients'[j].fd = clients'[i].fd => j = i
    <2>1. \A j \in Slot : clients[j].fd = clients[i].fd => j = i
        BY <1>1 DEF TableInv
    <2> QED
        BY <1>1, <2>1 DEF Frame, Clears
<1>0. clients'[i].by \in Conn
    BY <1>1 DEF TableInv
<1>4. CASE opc \in {"closed", "found"} /\ ofd = clients[i].fd
    BY <1>0, <1>1, <1>3, <1>4, StandingClosing DEF Frame
<1>5. CASE /\ conn[clients[i].fd] = clients[i].by
           /\ role[clients[i].by] = "member"
           /\ \/ opc = "naming" /\ ofd = clients[i].fd
              \/ /\ clients[i].client_id = id[clients[i].by]
                 /\ clients[i].addr \in Addrs => clients[i].addr = PeerAddr[clients[i].by]
    <2>1. conn'[clients[i].fd] = clients[i].by /\ role'[clients[i].by] = "member"
        BY <1>0, <1>1, <1>2, <1>5, Bounds DEF Frame, Keeps, Conn
    <2>2. CASE opc = "naming" /\ ofd = clients[i].fd
        BY <1>0, <1>1, <1>3, <1>5, <2>1, <2>2, StandingClosing DEF Frame
    <2>3. CASE /\ clients[i].client_id = id[clients[i].by]
               /\ clients[i].addr \in Addrs => clients[i].addr = PeerAddr[clients[i].by]
        BY <1>0, <1>1, <1>3, <1>5, <2>1, <2>3 DEF Frame, Keeps
    <2> QED
        BY <1>5, <2>2, <2>3
<1> QED
    BY <1>1, <1>4, <1>5 DEF TableInv

\* A step that opens and closes nothing keeps the kernel's part.
LEMMA FrameKernel ==
    ASSUME IInv, Frame, conn' = conn, role' \in [Conn -> Role], dead' \subseteq Conn
    PROVE  KernelType' /\ KernelInv'
<1> USE DEF IInv, TypeInv
<1>1. KernelType'
    BY DEF KernelType, Frame, Keeps
<1>2. \A g \in Fd : conn[g] # 0 => conn[g] \in Conn /\ role'[conn[g]] = role[conn[g]]
    <2>1. \A g \in Fd : conn[g] # 0 => conn[g] \in Conn /\ role[conn[g]] # "none"
        BY ConnOf DEF KernelInv
    <2> QED
        BY <2>1 DEF Frame, Keeps
<1>3. ofds' = ofds /\ \A fd : Closing(fd)' <=> Closing(fd)
    BY StandingClosing DEF Frame, Keeps
<1> QED
    BY <1>1, <1>2, <1>3 DEF KernelInv

-----------------------------------------------------------------------------
(* What client_remove_fd and fd_addr_remove leave.                         *)

Rewritten(x, f, b) == [x EXCEPT !.fd = f, !.by = b]

\* An entry whose descriptor and owner are written is an entry.
LEMMA EntryRewritten ==
    ASSUME NEW x \in Entry, NEW f \in 0..Descriptors, NEW b \in 0..MaxConns
    PROVE  /\ Rewritten(x, f, b) \in Entry
           /\ Rewritten(x, f, b).fd = f /\ Rewritten(x, f, b).by = b
<1> DEFINE y == [x EXCEPT !.fd = f]
           z == [y EXCEPT !.by = b]
<1>1. y \in Entry /\ y.fd = f
    BY DEF Entry
<1>2. z \in Entry /\ z.fd = f /\ z.by = b
    <2> HIDE DEF y
    <2> QED
        BY <1>1 DEF Entry
<1>3. Rewritten(x, f, b) = z
    BY DEF Rewritten
<1> QED
    BY <1>2, <1>3

\* client_remove_fd frees the slot that it found and keeps the others.
LEMMA ClientRemoved ==
    ASSUME IInv, NEW n \in Slot, clients' = cleared(n)
    PROVE  /\ TableType' /\ clients'[n].fd = 0
           /\ \A i \in Slot : i # n => clients'[i] = clients[i]
<1>0. PICK zero : zero = 0
    OBVIOUS
<1> DEFINE e == Rewritten(clients[n], zero, zero)
<1>1. clients[n] \in Entry /\ clients \in [Slot -> Entry]
    BY DEF IInv, TypeInv, TableType
<1>2. e \in Entry /\ e.fd = 0
    <2>1. zero \in 0..Descriptors /\ zero \in 0..MaxConns
        BY <1>0, Bounds
    <2>2. e \in Entry /\ e.fd = zero
        BY <1>1, <2>1, EntryRewritten
    <2> QED
        BY <1>0, <2>2
<1>3. clients' = [clients EXCEPT ![n] = e]
    BY <1>0, <1>1 DEF Rewritten, cleared
<1> HIDE DEF e
<1> QED
    BY <1>1, <1>2, <1>3 DEF TableType

\* fd_addr_remove does the same with the addresses.
LEMMA AddressRemoved ==
    ASSUME IInv, NEW fd, fd_addrs' = fd_addr_remove(fd)
    PROVE  /\ AddressType'
           /\ \A j \in Track :
                \/ fd_addrs'[j] = fd_addrs[j]
                \/ fd_addrs'[j].fd = 0 /\ fd_addrs'[j].addr = ""
           /\ fd # 0 => \A j \in Track : fd_addrs'[j].fd # fd
<1> USE DEF IInv, TypeInv
<1>1. CASE addr_of_fd(fd) = 0
    <2>1. fd_addrs' = fd_addrs
        BY <1>1 DEF fd_addr_remove
    <2>2. \A j \in Track : fd_addrs[j].fd # fd
        BY <1>1, AddrOfFd, Bounds DEF Track
    <2> QED
        BY <2>1, <2>2 DEF AddressType
<1>2. CASE addr_of_fd(fd) # 0
    <2>1. PICK n : n = addr_of_fd(fd)
        OBVIOUS
    <2>2. n \in Track /\ fd_addrs[n].fd = fd
        BY <1>2, <2>1, AddrOfFd
    <2>3. fd_addrs' = [fd_addrs EXCEPT ![n] = NoAddress]
        BY <1>2, <2>1 DEF fd_addr_remove
    <2>4. NoAddress \in Address /\ NoAddress.fd = 0 /\ NoAddress.addr = ""
        BY Bounds DEF NoAddress, Address
    <2>5. /\ AddressType' /\ fd_addrs'[n] = NoAddress
          /\ \A j \in Track : j # n => fd_addrs'[j] = fd_addrs[j]
        BY <2>2, <2>3, <2>4 DEF AddressType
    <2>6. fd # 0 => \A j \in Track : fd_addrs[j].fd = fd => j = n
        BY <2>2 DEF AddressInv
    <2> QED
        BY <2>4, <2>5, <2>6
<1> QED
    BY <1>1, <1>2

-----------------------------------------------------------------------------
(* Steps that open and close nothing and leave the tables alone.           *)

Quiet ==
    /\ Standing /\ UNCHANGED <<conn, id, ofds, clients, fd_addrs>>
    /\ \A d \in Conn : role[d] # "none" => role'[d] = role[d]
    /\ role' \in [Conn -> Role] /\ dead' \subseteq Conn

\* A step of the admin thread that touches no table keeps IInv if its own part holds.
LEMMA QuietIInv ==
    ASSUME IInv, Quiet, AdminType', AdminInv', WorkType' PROVE IInv'
<1>1. Frame
    BY DEF Quiet, Frame, Keeps, Clears
<1>2. TableType' /\ AddressType'
    BY DEF Quiet, IInv, TypeInv, TableType, AddressType
<1>3. KernelType' /\ KernelInv'
    BY <1>1, FrameKernel DEF Quiet
<1> QED
    BY <1>1, <1>2, <1>3, FrameOrdinary, FrameAddress, FrameTable DEF IInv, TypeInv

\* The admin thread and its descriptor are left alone.
AdminStill == UNCHANGED <<conn, afds, admin_fd, apc, atarget, aslot, struck>>

\* The admin thread's part holds after a step of another thread.
LEMMA AdminStillInv ==
    ASSUME IInv, AdminStill, \A d \in Conn : role[d] # "none" => role'[d] = role[d]
    PROVE  AdminType' /\ AdminInv'
<1>1. AdminType'
    BY DEF IInv, TypeInv, AdminType, AdminStill
<1>2. admin_fd # 0 => admin_fd \in Fd
    BY Bounds DEF IInv, TypeInv, AdminType, Fd
<1>3. admin_fd # 0 /\ apc \in {"poll", "disconnect"} =>
        /\ conn[admin_fd] # 0 /\ role[conn[admin_fd]] = "admin" /\ conn[admin_fd] \in Conn
    BY <1>2, ConnOf DEF IInv, AdminInv
<1>4. admin_fd # 0 /\ apc \in {"poll", "disconnect"} => role'[conn[admin_fd]] = "admin"
    BY <1>3
<1> QED
    BY <1>1, <1>3, <1>4 DEF IInv, AdminInv, AdminStill

\* A connection that is refused is closed at once.
LEMMA RefusedIInv == ASSUME IInv, accept_client_refused \/ accept_admin_refused PROVE IInv'
<1>1. PICK fd \in Fd, c \in Conn : Accept(fd, c, "refused")
    BY DEF accept_client_refused, accept_admin_refused
<1>2. UNCHANGED <<conn, ordinaryVars, tableVars, adminVars, workVars>>
    BY DEF accept_client_refused, accept_admin_refused
<1>3. /\ role' \in [Conn -> Role] /\ UNCHANGED <<id, dead>>
      /\ \A d \in Conn : role[d] # "none" => role'[d] = role[d]
    BY <1>1, AcceptIs DEF Role
<1>4. dead \subseteq Conn
    BY DEF IInv, TypeInv, KernelType
<1>5. Quiet
    BY <1>2, <1>3, <1>4 DEF Quiet, Standing, ordinaryVars, tableVars
<1>6. AdminType' /\ AdminInv'
    BY <1>2, <1>3, AdminStillInv DEF AdminStill, adminVars
<1>7. WorkType'
    BY <1>2 DEF IInv, TypeInv, WorkType, workVars
<1> QED
    BY <1>5, <1>6, <1>7, QuietIInv

-----------------------------------------------------------------------------
(* Requests, answers and peers.                                            *)

\* The connection of a descriptor, if any, is one of those that were made.
LEMMA ConnRange == ASSUME IInv, NEW fd \in Fd PROVE conn[fd] = 0 \/ conn[fd] \in Conn
    BY ConnOf

\* A request that is pushed carries a descriptor and a client id.
LEMMA SubmitIInv == ASSUME IInv, NEW fd \in Fd, Submit(fd) PROVE IInv'
<1>1. /\ fd \in ofds /\ opc = "poll"
      /\ \/ queue' = Append(queue, request(fd)) /\ waiting' = waiting \union {conn[fd]}
            /\ turned' = turned
         \/ turned' = turned \union {conn[fd]} /\ UNCHANGED <<queue, waiting>>
      /\ UNCHANGED <<kernelVars, ordinaryVars, tableVars, adminVars, r, stray, cut>>
    BY DEF Submit
<1>2. conn[fd] \in Conn /\ id[conn[fd]] \in 0..MaxConns
    <2>1. conn[fd] # 0
        BY <1>1 DEF IInv, KernelInv, Closing, Removing
    <2>2. conn[fd] \in Conn
        BY <2>1, ConnOf
    <2> QED
        BY <2>2 DEF IInv, TypeInv, KernelType
<1>3. request(fd) \in Request
    BY <1>2 DEF request, Request
<1>4. WorkType'
    <2>1. queue' \in Seq(Request)
        BY <1>1, <1>3 DEF IInv, TypeInv, WorkType
    <2> QED
        BY <1>1, <1>2, <2>1 DEF IInv, TypeInv, WorkType
<1>5. Quiet
    BY <1>1 DEF Quiet, Standing, IInv, TypeInv, KernelType, kernelVars, ordinaryVars, tableVars
<1>6. AdminType' /\ AdminInv'
    BY <1>1, AdminStillInv DEF AdminStill, adminVars, kernelVars
<1> QED
    BY <1>4, <1>5, <1>6, QuietIInv

\* The worker takes and answers requests; it touches neither table.
LEMMA WorkerIInv == ASSUME IInv, WorkerTakes \/ WorkerAnswers PROVE IInv'
<1>1. UNCHANGED <<kernelVars, ordinaryVars, tableVars, adminVars>>
    BY DEF WorkerTakes, WorkerAnswers
<1>2. WorkType'
    <2>1. CASE WorkerTakes
        <3>1. Head(queue) \in Request /\ Tail(queue) \in Seq(Request)
            BY <2>1 DEF WorkerTakes, IInv, TypeInv, WorkType
        <3> QED
            BY <2>1, <3>1 DEF WorkerTakes, IInv, TypeInv, WorkType
    <2>2. CASE WorkerAnswers
        <3>1. r.by \in Conn
            BY <2>2 DEF WorkerAnswers, IInv, TypeInv, WorkType, Request
        <3> QED
            BY <2>2, <3>1 DEF WorkerAnswers, IInv, TypeInv, WorkType
    <2> QED
        BY <2>1, <2>2
<1>3. Quiet
    BY <1>1 DEF Quiet, Standing, IInv, TypeInv, KernelType, kernelVars, ordinaryVars, tableVars
<1>4. AdminType' /\ AdminInv'
    BY <1>1, AdminStillInv DEF AdminStill, adminVars, kernelVars
<1> QED
    BY <1>2, <1>3, <1>4, QuietIInv

\* A peer that goes away leaves a dead connection behind, to be found later.
LEMMA PeerLeavesIInv == ASSUME IInv, NEW c \in Conn, PeerLeaves(c) PROVE IInv'
<1>1. /\ UNCHANGED <<conn, role, id, ordinaryVars, tableVars, adminVars, workVars>>
      /\ dead' = dead \union {c}
    BY DEF PeerLeaves
<1>2. Quiet
    BY <1>1 DEF Quiet, Standing, IInv, TypeInv, KernelType, ordinaryVars, tableVars
<1>3. AdminType' /\ AdminInv'
    BY <1>1, AdminStillInv DEF AdminStill, adminVars
<1>4. WorkType'
    BY <1>1 DEF IInv, TypeInv, WorkType, workVars
<1> QED
    BY <1>2, <1>3, <1>4, QuietIInv

-----------------------------------------------------------------------------
(* The counter, and the admin's operations.                                *)

\* The steps that only test, load or store client_count.
CountSteps ==
    \/ register_client_loads \/ register_client_counts
    \/ OrdinaryTests \/ OrdinaryLoads \/ OrdinaryStores
    \/ AdminTests \/ AdminLoads \/ AdminStores

\* They leave the tables and the descriptors alone.
LEMMA CountsIInv == ASSUME IInv, CountSteps PROVE IInv'
<1>1. Standing
    BY DEF CountSteps, register_client_loads, register_client_counts, OrdinaryTests,
           OrdinaryLoads, OrdinaryStores, AdminTests, AdminLoads, AdminStores, after_test,
           Standing, ordinaryVars
<1>2. /\ UNCHANGED <<kernelVars, ofds, clients, fd_addrs, workVars>>
      /\ UNCHANGED <<afds, admin_fd, atarget, aslot, struck>>
      /\ \/ apc' = apc
         \/ apc \in {"test", "load", "store"} /\ apc' \in {"load", "store", "unaddr"}
    BY DEF CountSteps, register_client_loads, register_client_counts, OrdinaryTests,
           OrdinaryLoads, OrdinaryStores, AdminTests, AdminLoads, AdminStores, after_test,
           ordinaryVars, adminVars, tableVars, removingVars
<1>3. Quiet
    BY <1>1, <1>2 DEF Quiet, IInv, TypeInv, KernelType, kernelVars
<1>4. AdminType' /\ AdminInv'
    BY <1>2 DEF IInv, TypeInv, AdminType, AdminInv, kernelVars, Removing
<1>5. WorkType'
    BY <1>2 DEF IInv, TypeInv, WorkType, workVars
<1> QED
    BY <1>3, <1>4, <1>5, QuietIInv

\* The operations of the admin shut connections down or change the block list.
LEMMA AdminOperatesIInv ==
    ASSUME IInv, \/ \E n \in 1..MaxConns : AdminDisconnect(n)
                 \/ AdminShutdown
                 \/ \E a \in Addrs : block_addr(a)
    PROVE  IInv'
<1>1. /\ UNCHANGED <<conn, role, id, ordinaryVars, tableVars, afds, admin_fd, workVars>>
      /\ UNCHANGED <<aslot, struck>>
    BY DEF AdminDisconnect, AdminShutdown, block_addr, kernelVars, removingVars
<1>2. apc \in {"poll", "disconnect"} /\ apc' \in {"poll", "disconnect"}
    BY DEF AdminDisconnect, AdminShutdown, block_addr, AdminReady
<1>3. WorkType'
    BY <1>1 DEF IInv, TypeInv, WorkType, workVars
<1>4. dead \subseteq Conn /\ role \in [Conn -> Role]
    BY DEF IInv, TypeInv, KernelType
<1>5. ASSUME dead' \subseteq Conn PROVE Quiet
    BY <1>1, <1>4, <1>5 DEF Quiet, Standing, ordinaryVars, tableVars
<1>6. ASSUME atarget' \in [fd : 0..Descriptors, client_id : Nat],
             apc' = "disconnect" => atarget'.fd \in Fd
      PROVE  AdminType' /\ AdminInv'
    BY <1>1, <1>2, <1>6 DEF IInv, TypeInv, AdminType, AdminInv, Removing
<1>7. ASSUME NEW n \in 1..MaxConns, AdminDisconnect(n) PROVE IInv'
    <2>1. /\ client_fd_by_id(n) # 0 /\ UNCHANGED kernelVars
          /\ atarget' = [fd |-> client_fd_by_id(n), client_id |-> n]
        BY <1>7 DEF AdminDisconnect
    <2>2. client_fd_by_id(n) \in 0..Descriptors
        <3> DEFINE S == {i \in Slot : clients[i].client_id = n /\ clients[i].fd > 0}
        <3>1. S \subseteq Nat
            BY Bounds DEF Slot
        <3>2. (S = {} /\ First(S) = 0) \/ First(S) \in S
            BY <3>1, FirstIs
        <3>3. client_of_id(n) # 0 => client_of_id(n) \in Slot
            BY <3>2 DEF client_of_id
        <3>4. client_of_id(n) # 0 => clients[client_of_id(n)].fd \in 0..Descriptors
            BY <3>3 DEF IInv, TypeInv, TableType, Entry
        <3> QED
            BY <3>4, Bounds DEF client_fd_by_id
    <2>3. client_fd_by_id(n) \in Fd /\ n \in Nat
        BY <2>1, <2>2, Bounds DEF Fd
    <2>4. AdminType' /\ AdminInv'
        BY <1>6, <2>1, <2>2, <2>3
    <2>5. Quiet
        BY <1>4, <1>5, <2>1 DEF kernelVars
    <2> QED
        BY <1>3, <2>4, <2>5, QuietIInv
<1>8. CASE AdminShutdown
    <2>1. /\ apc = "disconnect" /\ apc' = "poll" /\ atarget' = NoTarget
          /\ dead' = IF conn[atarget.fd] = 0 THEN dead ELSE dead \union {conn[atarget.fd]}
        BY <1>8 DEF AdminShutdown
    <2>2. atarget.fd \in Fd
        BY <2>1 DEF IInv, AdminInv
    <2>3. dead' \subseteq Conn
        BY <1>4, <2>1, <2>2, ConnRange
    <2>4. NoTarget \in [fd : 0..Descriptors, client_id : Nat]
        BY Bounds DEF NoTarget
    <2>5. AdminType' /\ AdminInv'
        BY <1>6, <2>1, <2>4
    <2> QED
        BY <1>3, <1>5, <2>3, <2>5, QuietIInv
<1>9. ASSUME NEW a \in Addrs, block_addr(a) PROVE IInv'
    <2>1. UNCHANGED kernelVars /\ UNCHANGED atarget /\ UNCHANGED apc
        BY <1>9 DEF block_addr
    <2>2. AdminType' /\ AdminInv'
        BY <1>1, <2>1, AdminStillInv DEF AdminStill
    <2>3. Quiet
        BY <1>4, <1>5, <2>1 DEF kernelVars
    <2> QED
        BY <1>3, <2>2, <2>3, QuietIInv
<1> QED
    BY <1>7, <1>8, <1>9

-----------------------------------------------------------------------------
(* The admin comes and goes.                                               *)

\* The admin is accepted when there is none.
LEMMA AcceptAdminIInv == ASSUME IInv, accept_admin PROVE IInv'
<1> USE DEF IInv, TypeInv
<1>1. PICK fd \in Fd, c \in Conn :
        /\ Accept(fd, c, "admin") /\ apc = "poll" /\ admin_fd = 0
        /\ conn' = [conn EXCEPT ![fd] = c] /\ admin_fd' = fd /\ afds' = afds \union {fd}
        /\ UNCHANGED <<ordinaryVars, tableVars, apc, atarget, aslot, struck, workVars>>
    BY DEF accept_admin, removingVars
<1>2. /\ conn[fd] = 0 /\ fd # 0 /\ c # 0 /\ c \in 0..MaxConns /\ \A g \in Fd : conn[g] # c
      /\ role' \in [Conn -> Role] /\ UNCHANGED <<id, dead>>
      /\ \A d \in Conn : role'[d] = IF d = c THEN "admin" ELSE role[d]
      /\ role[c] = "none"
    BY <1>1, AcceptIs DEF Role
<1>3. \A g \in Fd : conn'[g] = IF g = fd THEN c ELSE conn[g]
    BY <1>1 DEF KernelType
<1>4. KernelType'
    BY <1>1, <1>2 DEF KernelType
<1>5. Frame
    <2>1. Keeps
        BY <1>1, <1>2, <1>3 DEF Keeps, ordinaryVars
    <2> QED
        BY <1>1, <2>1 DEF Frame, Standing, Clears, ordinaryVars, tableVars
<1>6. OrdinaryType' /\ OrdinaryInv' /\ AddressInv' /\ TableInv'
    BY <1>5, FrameOrdinary, FrameAddress, FrameTable
<1>7. TableType' /\ AddressType' /\ WorkType'
    BY <1>1 DEF TableType, AddressType, WorkType, tableVars, workVars
<1>8. AdminType'
    BY <1>1, Bounds DEF AdminType, Fd
<1>9. AdminInv'
    <2>1. afds' = {fd} /\ conn'[fd] = c /\ role'[c] = "admin"
        BY <1>1, <1>2, <1>3 DEF AdminInv
    <2> QED
        BY <1>1, <1>2, <2>1 DEF AdminInv
<1>10. KernelInv'
    <2>1. ofds' = ofds /\ \A g : Closing(g)' <=> Closing(g)
        BY <1>1 DEF Closing, ordinaryVars
    <2>2. \A g \in Fd : conn[g] # 0 => conn[g] \in Conn /\ role'[conn[g]] = role[conn[g]]
        BY <1>2, ConnOf
    <2>3. fd \notin ofds \/ Closing(fd)
        BY <1>2 DEF KernelInv
    <2> QED
        BY <1>2, <1>3, <2>1, <2>2, <2>3 DEF KernelInv
<1> QED
    BY <1>4, <1>6, <1>7, <1>8, <1>9, <1>10

\* The admin's connection ends, by itself or by the timeout.
LEMMA AdminClosesIInv == ASSUME IInv, AdminEnds \/ AdminTimeout PROVE IInv'
<1> USE DEF IInv, TypeInv
<1>1. /\ apc = "poll" /\ admin_fd # 0 /\ admin_fd' \in {0, admin_fd}
      /\ conn' = [conn EXCEPT ![admin_fd] = 0] /\ dead' = dead \ {conn[admin_fd]}
      /\ apc' = "closed" /\ atarget' = [fd |-> admin_fd, client_id |-> 0]
      /\ UNCHANGED <<role, id, ordinaryVars, tableVars, afds, aslot, struck, workVars>>
    BY DEF AdminEnds, AdminTimeout, AdminCloses, close, removingVars
<1>2. admin_fd \in Fd /\ role[conn[admin_fd]] = "admin" /\ afds = {admin_fd}
    BY <1>1, Bounds DEF AdminType, AdminInv, Fd
<1>3. \A g \in Fd : conn'[g] = IF g = admin_fd THEN 0 ELSE conn[g]
    BY <1>1 DEF KernelType
<1>4. KernelType'
    <2>1. 0 \in 0..MaxConns
        BY Bounds
    <2>2. conn' \in [Fd -> 0..MaxConns]
        BY <1>1, <2>1 DEF KernelType
    <2> QED
        BY <1>1, <2>2 DEF KernelType
<1>5. Frame
    <2>1. Keeps
        BY <1>1, <1>2, <1>3 DEF Keeps, ordinaryVars
    <2> QED
        BY <1>1, <2>1 DEF Frame, Standing, Clears, ordinaryVars, tableVars
<1>6. OrdinaryType' /\ OrdinaryInv' /\ AddressInv' /\ TableInv'
    BY <1>5, FrameOrdinary, FrameAddress, FrameTable
<1>7. TableType' /\ AddressType' /\ WorkType'
    BY <1>1 DEF TableType, AddressType, WorkType, tableVars, workVars
<1>8. AdminType' /\ AdminInv'
    <2>1. admin_fd \in 0..Descriptors /\ afds \subseteq Fd
        BY DEF AdminType
    <2>2. atarget' \in [fd : 0..Descriptors, client_id : Nat] /\ atarget'.fd = admin_fd
        BY <1>1, <2>1
    <2>3. admin_fd' \in 0..Descriptors
        BY <1>1, <2>1, Bounds
    <2> QED
        BY <1>1, <1>2, <2>1, <2>2, <2>3 DEF AdminType, AdminInv, Removing
<1>9. KernelInv'
    <2>1. ofds' = ofds /\ \A g : Closing(g)' <=> Closing(g)
        BY <1>1 DEF Closing, ordinaryVars
    <2>2. admin_fd \notin ofds \/ Closing(admin_fd)
        BY <1>2 DEF KernelInv
    <2> QED
        BY <1>1, <1>2, <1>3, <2>1, <2>2 DEF KernelInv
<1> QED
    BY <1>4, <1>6, <1>7, <1>8, <1>9

\* A slot that holds a descriptor holds a connection.
LEMMA OwnerOf == ASSUME IInv, NEW i \in Slot, clients[i].fd # 0 PROVE clients[i].by \in Conn
    BY DEF IInv, TableInv

\* The admin thread takes its descriptor out of the tables.
LEMMA AdminForgetsIInv ==
    ASSUME IInv, AdminFinds \/ AdminRemoves \/ AdminForgets PROVE IInv'
<1> USE DEF IInv, TypeInv
<1>1. /\ UNCHANGED <<kernelVars, ordinaryVars, workVars>>
      /\ apc \in {"closed", "found", "unaddr"}
      /\ clients' = clients \/ (apc = "found" /\ clients' = cleared(aslot))
      /\ \/ fd_addrs' = fd_addrs \/ fd_addrs' = fd_addr_remove(atarget.fd)
    BY DEF AdminFinds, AdminRemoves, AdminForgets, tableVars
<1>2. TableType' /\ \A i \in Slot : clients'[i] = clients[i] \/ clients'[i].fd = 0
    <2>1. CASE clients' = clients
        BY <2>1 DEF TableType
    <2>2. CASE apc = "found" /\ clients' = cleared(aslot)
        <3>1. aslot \in Slot
            BY <2>2 DEF AdminInv
        <3>2. PICK n : n = aslot
            OBVIOUS
        <3>3. n \in Slot /\ clients' = cleared(n)
            BY <2>2, <3>1, <3>2
        <3>4. /\ TableType' /\ clients'[n].fd = 0
              /\ \A i \in Slot : i # n => clients'[i] = clients[i]
            BY <3>3, ClientRemoved
        <3> QED
            BY <3>4
    <2> QED
        BY <1>1, <2>1, <2>2
<1>3. /\ AddressType'
      /\ \A j \in Track :
           \/ fd_addrs'[j] = fd_addrs[j]
           \/ fd_addrs'[j].fd = 0 /\ fd_addrs'[j].addr = ""
    <2>1. CASE fd_addrs' = fd_addrs
        BY <2>1 DEF AddressType
    <2>2. CASE fd_addrs' = fd_addr_remove(atarget.fd)
        BY <2>2, AddressRemoved
    <2> QED
        BY <1>1, <2>1, <2>2
<1>4. Frame
    BY <1>1, <1>2, <1>3 DEF Frame, Standing, Keeps, Clears, kernelVars, ordinaryVars
<1>5. KernelType' /\ KernelInv'
    BY <1>1, <1>4, FrameKernel DEF KernelType, kernelVars
<1>6. OrdinaryType' /\ OrdinaryInv' /\ AddressInv' /\ TableInv'
    BY <1>4, FrameOrdinary, FrameAddress, FrameTable
<1>7. WorkType'
    BY <1>1 DEF WorkType, workVars
<1>8. AdminType' /\ AdminInv'
    <2>0. afds = {atarget.fd} /\ atarget.fd \in Fd
        BY <1>1 DEF AdminInv
    <2>1. CASE AdminFinds
        <3>1. PICK n : n = client_of_fd(atarget.fd)
            OBVIOUS
        <3>2. /\ apc' \in {"unaddr", "found"} /\ UNCHANGED <<afds, admin_fd, atarget>>
              /\ aslot' = n /\ struck' = struck \union {clients[i].by : i \in {n} \ {0}}
              /\ apc' = "found" => n # 0
            BY <2>1, <3>1 DEF AdminFinds, after_find
        <3>3. n # 0 => n \in Slot /\ clients[n].fd = atarget.fd
            BY <3>1, ClientOfFd
        <3>4. n # 0 => clients[n].by \in Conn
            BY <2>0, <3>3, OwnerOf, Bounds DEF Fd
        <3>5. struck' \subseteq Conn
            BY <3>2, <3>4 DEF AdminType
        <3>6. n \in 0..MAX_CLIENTS
            BY <3>3, Bounds DEF Slot
        <3> QED
            BY <2>0, <3>2, <3>3, <3>5, <3>6 DEF AdminType, AdminInv, Removing
    <2>2. CASE AdminRemoves
        <3>1. /\ apc = "found" /\ apc' = "test" /\ UNCHANGED <<afds, admin_fd, atarget>>
              /\ aslot' = 0 /\ struck' = struck \union ({clients[aslot].by} \ {0})
            BY <2>2 DEF AdminRemoves
        <3>2. clients[aslot].by \in 0..MaxConns
            <4>1. aslot \in Slot
                BY <3>1 DEF AdminInv
            <4> QED
                BY <4>1 DEF TableType, Entry
        <3>3. struck' \subseteq Conn
            <4>1. PICK b : b = clients[aslot].by
                OBVIOUS
            <4>2. b # 0 => b \in Conn
                BY <3>2, <4>1, Bounds DEF Conn
            <4>3. struck' = struck \union ({b} \ {0})
                BY <3>1, <4>1
            <4>4. struck \subseteq Conn
                BY DEF AdminType
            <4> QED
                BY <4>2, <4>3, <4>4
        <3> QED
            BY <2>0, <3>1, <3>3, Bounds DEF AdminType, AdminInv, Removing
    <2>3. CASE AdminForgets
        <3>1. /\ apc' = "poll" /\ atarget' = NoTarget /\ admin_fd' = 0
              /\ afds' = afds \ {atarget.fd} /\ UNCHANGED <<aslot, struck>>
            BY <2>3 DEF AdminForgets, afds_after_remove, removingVars
        <3>2. NoTarget \in [fd : 0..Descriptors, client_id : Nat]
            BY Bounds DEF NoTarget
        <3>3. afds' = {}
            BY <2>0, <3>1
        <3> QED
            BY <3>1, <3>2, <3>3, Bounds DEF AdminType, AdminInv
    <2>4. AdminFinds \/ AdminRemoves \/ AdminForgets
        OBVIOUS
    <2> QED
        BY <2>1, <2>2, <2>3, <2>4
<1> QED
    BY <1>2, <1>3, <1>5, <1>6, <1>7, <1>8

-----------------------------------------------------------------------------
(* The ordinary thread closes a connection and forgets it.                 *)

\* The ordinary thread finds a connection to close.
LEMMA HangUpIInv == ASSUME IInv, NEW fd \in Fd, HangUp(fd) PROVE IInv'
<1> USE DEF IInv, TypeInv
<1>1. /\ opc = "poll" /\ fd \in ofds /\ opc' = "closed" /\ ofd' = fd
      /\ conn' = [conn EXCEPT ![fd] = 0] /\ dead' = dead \ {conn[fd]}
      /\ waiting' = waiting \ {conn[fd]}
      /\ cut' = cut \union ({conn[fd]} \intersect waiting)
      /\ UNCHANGED <<role, id, ofds, oslot, oaddr, clients, fd_addrs>>
      /\ UNCHANGED <<adminVars, queue, r, turned, stray>>
    BY DEF HangUp, close, tableVars
<1>2. /\ \A g \in Fd : conn'[g] = IF g = fd THEN 0 ELSE conn[g]
      /\ KernelType'
    <2>1. 0 \in 0..MaxConns
        BY Bounds
    <2>2. conn' \in [Fd -> 0..MaxConns]
        BY <1>1, <2>1 DEF KernelType
    <2> QED
        BY <1>1, <2>2 DEF KernelType
<1>3. \A g : Closing(g)' <=> g = fd
    BY <1>1 DEF Closing, Removing
<1>4. \A g : ~Closing(g)
    BY <1>1 DEF Closing, Removing
<1>5. OrdinaryType' /\ TableType' /\ AddressType' /\ AdminType' /\ WorkType'
    <2>1. fd \in 0..Descriptors
        BY Bounds DEF Fd
    <2> QED
        BY <1>1, <2>1 DEF OrdinaryType, TableType, AddressType, AdminType, WorkType, adminVars,
                          Removing
<1>6. KernelInv'
    BY <1>1, <1>2, <1>3, <1>4 DEF KernelInv
<1>7. OrdinaryInv'
    BY <1>1 DEF OrdinaryInv
<1>8. AdminInv'
    <2>1. role[conn[fd]] # "admin"
        BY <1>1, <1>4 DEF KernelInv
    <2>2. admin_fd # 0 => admin_fd \in Fd
        BY Bounds DEF AdminType, Fd
    <2>3. admin_fd # 0 /\ apc \in {"poll", "disconnect"} =>
            conn'[admin_fd] # 0 /\ role[conn'[admin_fd]] = "admin"
        BY <1>2, <2>1, <2>2 DEF AdminInv
    <2> QED
        BY <1>1, <2>3 DEF AdminInv, adminVars
<1>9. AddressInv'
    <2>1. \A j \in Track : fd_addrs[j].fd # 0 =>
            /\ fd_addrs[j].fd \in ofds /\ fd_addrs[j].fd \in Fd
            /\ fd_addrs[j].addr = PeerAddr[conn[fd_addrs[j].fd]]
            /\ \A k \in Track : fd_addrs[k].fd = fd_addrs[j].fd => k = j
        BY <1>4 DEF AddressInv, OrdinaryType
    <2>2. \A j \in Track : fd_addrs[j].fd # 0 /\ fd_addrs[j].fd # fd =>
            fd_addrs[j].addr = PeerAddr[conn'[fd_addrs[j].fd]]
        BY <1>1, <1>2, <2>1
    <2> QED
        BY <1>1, <1>3, <2>1, <2>2 DEF AddressInv
<1>10. TableInv'
    <2> SUFFICES ASSUME NEW i \in Slot, clients'[i].fd # 0
                 PROVE  (/\ clients[i].by \in Conn
                         /\ \A j \in Slot : clients[j].fd = clients[i].fd => j = i
                         /\ \/ opc \in {"closed", "found"} /\ ofd = clients[i].fd
                            \/ /\ conn[clients[i].fd] = clients[i].by
                               /\ role[clients[i].by] = "member"
                               /\ \/ opc = "naming" /\ ofd = clients[i].fd
                                  \/ /\ clients[i].client_id = id[clients[i].by]
                                     /\ clients[i].addr \in Addrs =>
                                          clients[i].addr = PeerAddr[clients[i].by])'
        BY DEF TableInv
    <2>1. /\ \A j \in Slot : clients[j].fd = clients[i].fd => j = i
          /\ conn[clients[i].fd] = clients[i].by /\ clients[i].by \in Conn
          /\ role[clients[i].by] = "member" /\ clients[i].client_id = id[clients[i].by]
          /\ clients[i].addr \in Addrs => clients[i].addr = PeerAddr[clients[i].by]
        BY <1>1 DEF TableInv
    <2>2. clients[i].fd \in Fd
        <3>1. clients[i].fd \in 0..Descriptors /\ clients[i].fd # 0
            BY <1>1 DEF TableType, Entry
        <3> QED
            BY <3>1, Bounds DEF Fd
    <2>3. CASE clients[i].fd = fd
        BY <1>1, <2>1, <2>3
    <2>4. CASE clients[i].fd # fd
        BY <1>1, <1>2, <2>1, <2>2, <2>4
    <2> QED
        BY <2>3, <2>4
<1> QED
    BY <1>2, <1>5, <1>6, <1>7, <1>8, <1>9, <1>10

\* The ordinary thread finds the client entry of the closed descriptor ...
LEMMA OrdinaryFindsIInv == ASSUME IInv, OrdinaryFinds PROVE IInv'
<1> USE DEF IInv, TypeInv
<1>1. PICK n : n = client_of_fd(ofd)
    OBVIOUS
<1>2. /\ opc = "closed" /\ oslot' = n
      /\ \/ n = 0 /\ opc' = "unaddr"
         \/ n # 0 /\ opc' = "found"
      /\ UNCHANGED <<kernelVars, ofds, ofd, oaddr, tableVars, adminVars, workVars>>
    BY <1>1 DEF OrdinaryFinds, after_find
<1>3. \/ n = 0 /\ \A i \in Slot : clients[i].fd # ofd
      \/ n \in Slot /\ clients[n].fd = ofd
    BY <1>1, ClientOfFd
<1>4. ofd \in ofds /\ ofd \in Fd /\ ofd # 0 /\ n \in 0..MAX_CLIENTS
    BY <1>2, <1>3, Bounds DEF OrdinaryInv, OrdinaryType, Removing, Fd, Slot
<1>5. \A g : Closing(g)' <=> Closing(g)
    BY <1>2 DEF Closing, Removing
<1>6. KernelType' /\ TableType' /\ AddressType' /\ AdminType' /\ WorkType' /\ AdminInv'
    BY <1>2 DEF KernelType, TableType, AddressType, AdminType, WorkType, AdminInv,
                kernelVars, tableVars, adminVars, workVars
<1>7. OrdinaryType'
    BY <1>2, <1>4 DEF OrdinaryType, Removing
<1>8. KernelInv'
    BY <1>2, <1>5 DEF KernelInv, kernelVars
<1>9. AddressInv'
    BY <1>2, <1>5 DEF AddressInv, kernelVars, tableVars
<1>10. OrdinaryInv'
    <2>1. n # 0 => \A i \in Slot : clients[i].fd = ofd => i = n
        BY <1>3, <1>4 DEF TableInv
    <2>2. n # 0 => n \in Slot /\ clients[n].fd = ofd
        BY <1>3
    <2> QED
        BY <1>2, <1>4, <2>1, <2>2 DEF OrdinaryInv, Removing, tableVars
<1>11. TableInv'
    <2>1. UNCHANGED <<conn, role, id, clients, ofd>>
        BY <1>2 DEF kernelVars, tableVars
    <2>2. CASE opc' = "found"
        BY <1>2, <2>1, <2>2 DEF TableInv
    <2>3. CASE n = 0
        BY <1>2, <1>3, <2>1, <2>3, Bounds DEF TableInv, Slot
    <2> QED
        BY <1>2, <2>2, <2>3
<1> QED
    BY <1>6, <1>7, <1>8, <1>9, <1>10, <1>11

\* ... frees it ...
LEMMA OrdinaryRemovesIInv == ASSUME IInv, OrdinaryRemoves PROVE IInv'
<1> USE DEF IInv, TypeInv
<1>1. PICK n : n = oslot
    OBVIOUS
<1>2. /\ opc = "found" /\ opc' = "test" /\ clients' = cleared(n) /\ oslot' = 0
      /\ UNCHANGED <<kernelVars, ofds, ofd, oaddr, fd_addrs, adminVars, workVars>>
    BY <1>1 DEF OrdinaryRemoves
<1>3. /\ ofd \in ofds /\ n \in Slot /\ clients[n].fd \in {0, ofd}
      /\ \A i \in Slot : clients[i].fd = ofd => i = n
    BY <1>1, <1>2 DEF OrdinaryInv, Removing
<1>4. /\ TableType' /\ clients'[n].fd = 0
      /\ \A i \in Slot : i # n => clients'[i] = clients[i]
    BY <1>2, <1>3, ClientRemoved
<1>5. \A g : Closing(g)' <=> Closing(g)
    BY <1>2 DEF Closing, Removing
<1>6. KernelType' /\ OrdinaryType' /\ AddressType'
    BY <1>2, Bounds DEF KernelType, OrdinaryType, AddressType, kernelVars, Removing
<1>7. AdminType' /\ WorkType' /\ AdminInv'
    BY <1>2 DEF AdminType, WorkType, AdminInv, adminVars, workVars, kernelVars
<1>8. KernelInv' /\ AddressInv'
    BY <1>2, <1>5 DEF KernelInv, AddressInv, kernelVars
<1>9. OrdinaryInv'
    BY <1>2, <1>3 DEF OrdinaryInv
<1>10. TableInv'
    <2>1. ASSUME NEW i \in Slot, clients'[i].fd # 0
          PROVE  /\ clients'[i] = clients[i] /\ clients[i].fd # 0
                 /\ clients[i].fd # ofd /\ i # n
        BY <1>3, <1>4, <2>1
    <2>2. ASSUME NEW i \in Slot, clients'[i].fd # 0
          PROVE  /\ \A j \in Slot : clients[j].fd = clients[i].fd => j = i
                 /\ conn[clients[i].fd] = clients[i].by /\ clients[i].by \in Conn
                 /\ role[clients[i].by] = "member" /\ clients[i].client_id = id[clients[i].by]
                 /\ clients[i].addr \in Addrs => clients[i].addr = PeerAddr[clients[i].by]
        BY <1>2, <2>1, <2>2 DEF TableInv
    <2>3. ASSUME NEW i \in Slot, clients'[i].fd # 0
          PROVE  \A j \in Slot : clients'[j].fd = clients'[i].fd => j = i
        BY <1>4, <2>1, <2>2, <2>3
    <2>4. UNCHANGED <<conn, role, id>>
        BY <1>2 DEF kernelVars
    <2> QED
        BY <2>1, <2>2, <2>3, <2>4 DEF TableInv
<1> QED
    BY <1>4, <1>6, <1>7, <1>8, <1>9, <1>10

\* ... and then its address.
LEMMA OrdinaryForgetsIInv == ASSUME IInv, OrdinaryForgets PROVE IInv'
<1> USE DEF IInv, TypeInv
<1>1. /\ opc = "unaddr" /\ opc' = "poll" /\ ofd' = 0
      /\ fd_addrs' = fd_addr_remove(ofd) /\ ofds' = ofds \ {ofd}
      /\ UNCHANGED <<kernelVars, oslot, oaddr, clients, adminVars, workVars>>
    BY DEF OrdinaryForgets
<1>2. /\ \A g : ~Closing(g)'
      /\ \A g : Closing(g) <=> g = ofd
    BY <1>1 DEF Closing, Removing
<1>3. AddressType'
    BY <1>1, AddressRemoved
<1>4. KernelType' /\ OrdinaryType' /\ TableType'
    <2>1. 0 \in 0..Descriptors
        BY Bounds
    <2> QED
        BY <1>1, <2>1 DEF KernelType, OrdinaryType, TableType, kernelVars
<1>5. AdminType' /\ WorkType'
    BY <1>1 DEF AdminType, WorkType, adminVars, workVars
<1>6. KernelInv'
    BY <1>1, <1>2 DEF KernelInv, kernelVars
<1>7. OrdinaryInv'
    BY <1>1 DEF OrdinaryInv, Removing
<1>8. AdminInv'
    BY <1>1 DEF AdminInv, adminVars, kernelVars
<1>9. AddressInv'
    <2>1. ofd \in Fd /\ ofd # 0
        BY <1>1, Bounds DEF OrdinaryInv, OrdinaryType, Fd, Removing
    <2>2. \A j \in Track : /\ \/ fd_addrs'[j] = fd_addrs[j]
                              \/ fd_addrs'[j].fd = 0 /\ fd_addrs'[j].addr = ""
                           /\ fd_addrs'[j].fd # ofd
        BY <1>1, <2>1, AddressRemoved
    <2>3. ASSUME NEW j \in Track, fd_addrs'[j].fd # 0
          PROVE  /\ fd_addrs'[j] = fd_addrs[j] /\ fd_addrs[j].fd \in ofds'
                 /\ fd_addrs[j].addr = PeerAddr[conn[fd_addrs[j].fd]]
                 /\ \A k \in Track : fd_addrs[k].fd = fd_addrs[j].fd => k = j
        <3>1. fd_addrs'[j] = fd_addrs[j] /\ fd_addrs[j].fd # ofd /\ fd_addrs[j].fd # 0
            BY <2>2, <2>3
        <3> QED
            BY <1>1, <1>2, <3>1 DEF AddressInv
    <2>4. ASSUME NEW j \in Track, fd_addrs'[j].fd # 0
          PROVE  \A k \in Track : fd_addrs'[k].fd = fd_addrs'[j].fd => k = j
        BY ZenonT(30), <2>2, <2>3, <2>4
    <2>5. ASSUME NEW j \in Track, fd_addrs'[j].fd = 0 PROVE fd_addrs'[j].addr = ""
        BY <2>2, <2>5 DEF AddressInv
    <2>6. UNCHANGED conn
        BY <1>1 DEF kernelVars
    <2> QED
        BY <2>3, <2>4, <2>5, <2>6 DEF AddressInv
<1>10. TableInv'
    BY <1>1 DEF TableInv, kernelVars
<1> QED
    BY <1>3, <1>4, <1>5, <1>6, <1>7, <1>8, <1>9, <1>10

-----------------------------------------------------------------------------
(* Registration.  The ids do not run out, because every one that was given *)
(* went to a connection of its own.                                        *)

\* There are MaxConns connections.
LEMMA ConnFinite == IsFiniteSet(Conn) /\ Cardinality(Conn) = MaxConns
<1>1. 1 \in Int /\ MaxConns \in Int /\ MaxConns >= 0
    BY Bounds
<1>2. IsFiniteSet(1..MaxConns) /\ Cardinality(1..MaxConns) = IF 1 > MaxConns THEN 0 ELSE MaxConns
    BY <1>1, FS_Interval
<1> QED
    BY <1>1, <1>2 DEF Conn

\* A set of connections has a size, at most MaxConns.
LEMMA SubsetCounts ==
    ASSUME NEW T, T \subseteq Conn
    PROVE  IsFiniteSet(T) /\ Cardinality(T) \in Nat /\ Cardinality(T) <= MaxConns
    BY ConnFinite, FS_Subset, FS_CardinalityType

\* One connection more adds one to the size.
LEMMA OneMore ==
    ASSUME NEW T, T \subseteq Conn, NEW c \in Conn, c \notin T
    PROVE  Cardinality(T \union {c}) = Cardinality(T) + 1 /\ Cardinality(T) + 1 <= MaxConns
<1>1. Cardinality(T \union {c}) = Cardinality(T) + 1
    BY SubsetCounts, FS_AddElement
<1>2. Cardinality(T \union {c}) <= MaxConns
    BY SubsetCounts
<1> QED
    BY <1>1, <1>2

\* A client that is named gets a free entry and the next id.
LEMMA ConnectIInv == ASSUME IInv, IdInv, NEW fd \in Fd, Connect(fd) PROVE IInv'
<1> USE DEF IInv, TypeInv
<1>1. PICK c : c = conn[fd]
    OBVIOUS
<1>2. /\ opc = "poll" /\ fd \in ofds /\ role[c] = "open"
      /\ id' = [id EXCEPT ![c] = next_client_id]
      /\ UNCHANGED <<conn, dead, ofds, fd_addrs, adminVars, workVars>>
    BY <1>1 DEF Connect
<1>3. c \in Conn /\ c # 0 /\ conn[fd] = c /\ \A g \in Fd : conn[g] = c => g = fd
    <2>1. c # 0
        BY <1>1, <1>2 DEF KernelInv, Closing, Removing
    <2> QED
        BY <1>1, <2>1, ConnOf DEF KernelInv
<1>4. next_client_id \in 0..MaxConns
    <2>1. Named \subseteq Conn /\ c \notin Named
        BY <1>2 DEF Named
    <2>2. Cardinality(Named) + 1 <= MaxConns /\ Cardinality(Named) \in Nat
        BY <1>3, <2>1, OneMore, SubsetCounts
    <2> QED
        BY <2>2, Bounds DEF IdInv
<1>5. id' \in [Conn -> 0..MaxConns] /\ \A d \in Conn : d # c => id'[d] = id[d]
    BY <1>2, <1>4 DEF KernelType
<1>6. \A i \in Slot : clients[i].fd # 0 =>
        /\ \A j \in Slot : clients[j].fd = clients[i].fd => j = i
        /\ conn[clients[i].fd] = clients[i].by /\ clients[i].by \in Conn
        /\ role[clients[i].by] = "member" /\ clients[i].by # c
        /\ clients[i].client_id = id[clients[i].by]
        /\ clients[i].addr \in Addrs => clients[i].addr = PeerAddr[clients[i].by]
    BY <1>2 DEF TableInv
<1>7. \A i \in Slot : clients[i].fd # fd
    <2>1. fd # 0
        BY Bounds DEF Fd
    <2> QED
        BY <1>3, <1>6, <2>1
<1>8. ASSUME NEW what \in {"member", "outside"}, role' = [role EXCEPT ![c] = what]
      PROVE  /\ KernelType'
             /\ \A d \in Conn : role'[d] = IF d = c THEN what ELSE role[d]
             /\ opc' \in {"poll", "naming"} => KernelInv' /\ AdminInv' /\ AddressInv'
    <2>1. /\ role' \in [Conn -> Role]
          /\ \A d \in Conn : role'[d] = IF d = c THEN what ELSE role[d]
        BY <1>8 DEF KernelType, Role
    <2>2. KernelType'
        BY <1>2, <1>5, <2>1 DEF KernelType
    <2> SUFFICES ASSUME opc' \in {"poll", "naming"} PROVE KernelInv' /\ AdminInv' /\ AddressInv'
        BY <2>1, <2>2
    <2>3. \A g : ~Closing(g) /\ ~Closing(g)'
        BY <1>2 DEF Closing, Removing
    <2>4. KernelInv'
        <3>1. \A g \in Fd : conn[g] # 0 => conn[g] \in Conn
            BY ConnOf
        <3> QED
            BY <1>2, <1>3, <2>1, <2>3, <3>1 DEF KernelInv
    <2>5. AdminInv'
        <3>1. admin_fd # 0 => admin_fd \in Fd
            BY Bounds DEF AdminType, Fd
        <3>2. admin_fd # 0 /\ apc \in {"poll", "disconnect"} =>
                conn[admin_fd] \in Conn /\ conn[admin_fd] # c
            BY <1>2, <3>1, ConnOf DEF AdminInv
        <3>3. admin_fd # 0 /\ apc \in {"poll", "disconnect"} => role'[conn[admin_fd]] = "admin"
            BY <2>1, <3>2 DEF AdminInv
        <3> QED
            BY <1>2, <3>3 DEF AdminInv, adminVars
    <2>6. AddressInv'
        BY <1>2, <2>3 DEF AddressInv
    <2> QED
        BY <2>4, <2>5, <2>6
<1>9. AddressType' /\ AdminType' /\ WorkType'
    BY <1>2 DEF AddressType, AdminType, WorkType, adminVars, workVars
<1>10. CASE client_of_fd(0) = 0
    <2>1. /\ role' = [role EXCEPT ![c] = "outside"]
          /\ UNCHANGED <<clients, opc, ofd, oslot, oaddr>>
        BY <1>1, <1>10 DEF Connect
    <2>2. OrdinaryType' /\ TableType' /\ OrdinaryInv'
        BY <1>2, <2>1 DEF OrdinaryType, TableType, OrdinaryInv
    <2>3. \A d \in Conn : role'[d] = IF d = c THEN "outside" ELSE role[d]
        BY <1>8, <2>1
    <2>4. TableInv'
        BY <1>2, <1>5, <1>6, <2>1, <2>3 DEF TableInv
    <2>5. KernelType' /\ KernelInv' /\ AdminInv' /\ AddressInv'
        BY <1>2, <1>8, <2>1
    <2> QED
        BY <1>9, <2>2, <2>4, <2>5
<1>11. CASE client_of_fd(0) # 0
    <2>1. PICK n : n = client_of_fd(0)
        OBVIOUS
    <2>2. n \in Slot /\ clients[n].fd = 0
        BY <1>11, <2>1, ClientOfFd
    <2>3. /\ role' = [role EXCEPT ![c] = "member"]
          /\ clients' = [clients EXCEPT ![n].fd = fd, ![n].by = c]
          /\ opc' = "naming" /\ ofd' = fd /\ oslot' = n /\ oaddr' = addr_of_fd(fd)
        BY <1>1, <1>11, <2>1 DEF Connect
    <2>4. /\ TableType' /\ clients'[n].fd = fd /\ clients'[n].by = c
          /\ \A i \in Slot : i # n => clients'[i] = clients[i]
        <3> DEFINE e == Rewritten(clients[n], fd, c)
        <3>1. clients[n] \in Entry /\ clients \in [Slot -> Entry]
            BY <2>2 DEF TableType
        <3>2. fd \in 0..Descriptors /\ c \in 0..MaxConns
            BY <1>3, Bounds DEF Fd, Conn
        <3>3. e \in Entry /\ e.fd = fd /\ e.by = c
            BY <3>1, <3>2, EntryRewritten
        <3>4. clients' = [clients EXCEPT ![n] = e]
            BY <2>2, <2>3, <3>1 DEF Rewritten
        <3> HIDE DEF e
        <3> QED
            BY <2>2, <3>1, <3>3, <3>4 DEF TableType
    <2>5. addr_of_fd(fd) \in 0..MAX_ADDR_TRACK
        BY AddrOfFd, Bounds DEF Track
    <2>6. OrdinaryType'
        BY <1>2, <2>2, <2>3, <2>5, Bounds DEF OrdinaryType, Fd, Slot
    <2>7. \A d \in Conn : role'[d] = IF d = c THEN "member" ELSE role[d]
        BY <1>8, <2>3
    <2>8. OrdinaryInv'
        <3>1. \A i \in Slot : clients'[i].fd = fd => i = n
            BY <1>7, <2>4
        <3>2. addr_of_fd(fd) # 0 => fd_addrs[addr_of_fd(fd)].fd = fd
            BY AddrOfFd
        <3> QED
            BY <1>2, <1>3, <2>2, <2>3, <2>4, <2>7, <3>1, <3>2 DEF OrdinaryInv
    <2>9. TableInv'
        <3>1. \A i \in Slot : clients'[i].fd = fd => i = n
            BY <1>7, <2>4
        <3>2. \A i, j \in Slot : clients'[i].fd # 0 /\ clients'[j].fd = clients'[i].fd => j = i
            BY <1>6, <2>4, <3>1
        <3>3. ASSUME NEW i \in Slot, i # n, clients'[i].fd # 0
              PROVE  /\ conn'[clients'[i].fd] = clients'[i].by /\ clients'[i].by \in Conn
                     /\ role'[clients'[i].by] = "member"
                     /\ clients'[i].client_id = id'[clients'[i].by]
                     /\ clients'[i].addr \in Addrs =>
                          clients'[i].addr = PeerAddr[clients'[i].by]
            <4>1. clients'[i] = clients[i] /\ clients[i].fd # 0
                BY <2>4, <3>3
            <4> QED
                BY <1>2, <1>5, <1>6, <2>7, <4>1
        <3>4. /\ conn'[clients'[n].fd] = clients'[n].by /\ clients'[n].by \in Conn
              /\ role'[clients'[n].by] = "member" /\ opc' = "naming" /\ ofd' = clients'[n].fd
            BY <1>2, <1>3, <2>3, <2>4, <2>7
        <3> QED
            BY <3>2, <3>3, <3>4 DEF TableInv
    <2>10. KernelType' /\ KernelInv' /\ AdminInv' /\ AddressInv'
        BY <1>8, <2>3
    <2> QED
        BY <1>9, <2>4, <2>6, <2>8, <2>9, <2>10
<1> QED
    BY <1>10, <1>11

Signed(x, n, a) == [x EXCEPT !.client_id = n, !.addr = a]

\* An entry whose client id and address are written is an entry.
LEMMA EntrySigned ==
    ASSUME NEW x \in Entry, NEW n \in 0..MaxConns, NEW a \in Addrs \union {"", "client"}
    PROVE  /\ Signed(x, n, a) \in Entry
           /\ Signed(x, n, a).client_id = n /\ Signed(x, n, a).addr = a
           /\ Signed(x, n, a).fd = x.fd /\ Signed(x, n, a).by = x.by
<1> DEFINE y == [x EXCEPT !.client_id = n]
           z == [y EXCEPT !.addr = a]
<1>1. y \in Entry /\ y.client_id = n /\ y.fd = x.fd /\ y.by = x.by
    BY DEF Entry
<1>2. z \in Entry /\ z.client_id = n /\ z.addr = a /\ z.fd = x.fd /\ z.by = x.by
    <2> HIDE DEF y
    <2> QED
        BY <1>1 DEF Entry
<1>3. Signed(x, n, a) = z
    BY DEF Signed
<1> QED
    BY <1>2, <1>3

\* The entry is written: its id and its address are those of the connection.
LEMMA NamesIInv == ASSUME IInv, register_client_names PROVE IInv'
<1> USE DEF IInv, TypeInv
<1>1. /\ opc = "naming" /\ opc' = "count"
      /\ clients' = [clients EXCEPT ![oslot].client_id = id[conn[ofd]],
                                    ![oslot].addr = fd_addr_get]
      /\ ofd' = 0 /\ oslot' = 0 /\ oaddr' = 0
      /\ UNCHANGED <<kernelVars, ofds, fd_addrs, adminVars, workVars>>
    BY DEF register_client_names
<1>2. /\ ofd \in ofds /\ role[conn[ofd]] = "member" /\ oslot \in Slot
      /\ \A i \in Slot : clients[i].fd = ofd => i = oslot
      /\ clients[oslot].fd \in {0, ofd}
      /\ oaddr # 0 => fd_addrs[oaddr].fd \in {0, ofd}
    BY <1>1 DEF OrdinaryInv
<1>3. ofd \in Fd /\ ofd # 0 /\ (oaddr # 0 => oaddr \in Track)
    BY <1>2, Bounds DEF OrdinaryType, Fd, Track
<1>4. \A g : ~Closing(g) /\ ~Closing(g)'
    BY <1>1 DEF Closing, Removing
<1>5. conn[ofd] \in Conn
    BY <1>2, <1>3, <1>4, ConnOf DEF KernelInv
<1>6. fd_addr_get \in {"client", ""} \/ fd_addr_get = PeerAddr[conn[ofd]]
    <2>1. oaddr # 0 /\ fd_addrs[oaddr].fd = 0 => fd_addrs[oaddr].addr = ""
        BY <1>3 DEF AddressInv
    <2>2. oaddr # 0 /\ fd_addrs[oaddr].fd = ofd => fd_addrs[oaddr].addr = PeerAddr[conn[ofd]]
        BY <1>3, <1>4 DEF AddressInv
    <2> QED
        BY <1>2, <2>1, <2>2 DEF fd_addr_get
<1>7. fd_addr_get \notin {"client", ""} \/ fd_addr_get \notin Addrs
    BY ConnectionsAssumption
<1>8. /\ TableType' /\ \A i \in Slot : i # oslot => clients'[i] = clients[i]
      /\ clients'[oslot].fd = clients[oslot].fd /\ clients'[oslot].by = clients[oslot].by
      /\ clients'[oslot].client_id = id[conn[ofd]] /\ clients'[oslot].addr = fd_addr_get
    <2>0. PICK n, a, x : n = id[conn[ofd]] /\ a = fd_addr_get /\ x = clients[oslot]
        OBVIOUS
    <2>1. n \in 0..MaxConns
        BY <1>5, <2>0 DEF KernelType
    <2>2. a \in Addrs \union {"", "client"}
        BY <1>5, <1>6, <2>0, ConnectionsAssumption DEF Conn
    <2>3. x \in Entry /\ clients \in [Slot -> Entry]
        BY <1>2, <2>0 DEF TableType
    <2>4. /\ Signed(x, n, a) \in Entry
          /\ Signed(x, n, a).client_id = n /\ Signed(x, n, a).addr = a
          /\ Signed(x, n, a).fd = x.fd /\ Signed(x, n, a).by = x.by
        BY ZenonT(30), <2>1, <2>2, <2>3, EntrySigned
    <2>5. clients' = [clients EXCEPT ![oslot] = Signed(x, n, a)]
        BY <1>1, <1>2, <2>0, <2>3 DEF Signed
    <2>6. clients' \in [Slot -> Entry]
        BY <1>2, <2>3, <2>4, <2>5
    <2>7. \A i \in Slot :
            clients'[i] = IF i = oslot THEN Signed(x, n, a) ELSE clients[i]
        BY <1>2, <2>3, <2>5
    <2>8. /\ clients'[oslot].fd = clients[oslot].fd /\ clients'[oslot].by = clients[oslot].by
          /\ clients'[oslot].client_id = n /\ clients'[oslot].addr = a
        BY <1>2, <2>0, <2>4, <2>7
    <2> QED
        BY <2>0, <2>6, <2>7, <2>8 DEF TableType
<1>9. KernelType' /\ OrdinaryType' /\ AddressType'
    BY <1>1, Bounds DEF KernelType, OrdinaryType, AddressType, kernelVars
<1>10. AdminType' /\ WorkType'
    BY <1>1 DEF AdminType, WorkType, adminVars, workVars
<1>11. KernelInv'
    BY <1>1, <1>4 DEF KernelInv, kernelVars
<1>12. OrdinaryInv'
    BY <1>1 DEF OrdinaryInv, Removing
<1>13. AdminInv' /\ AddressInv'
    BY <1>1, <1>4 DEF AdminInv, AddressInv, adminVars, kernelVars
<1>14. TableInv'
    <2>1. \A i \in Slot : clients'[i].fd = clients[i].fd
        BY <1>8
    <2>2. \A i, j \in Slot : clients'[i].fd # 0 /\ clients'[j].fd = clients'[i].fd => j = i
        BY <2>1 DEF TableInv
    <2>3. UNCHANGED <<conn, role, id>>
        BY <1>1 DEF kernelVars
    <2>4. ASSUME NEW i \in Slot, i # oslot, clients'[i].fd # 0
          PROVE  /\ conn[clients'[i].fd] = clients'[i].by /\ clients'[i].by \in Conn
                 /\ role[clients'[i].by] = "member"
                 /\ clients'[i].client_id = id[clients'[i].by]
                 /\ clients'[i].addr \in Addrs => clients'[i].addr = PeerAddr[clients'[i].by]
        <3>1. clients'[i] = clients[i] /\ clients[i].fd # 0 /\ clients[i].fd # ofd
            BY <1>2, <1>8, <2>4
        <3> QED
            BY <1>1, <3>1 DEF TableInv
    <2>5. ASSUME clients'[oslot].fd # 0
          PROVE  /\ conn[clients'[oslot].fd] = clients'[oslot].by /\ clients'[oslot].by \in Conn
                 /\ role[clients'[oslot].by] = "member"
                 /\ clients'[oslot].client_id = id[clients'[oslot].by]
                 /\ clients'[oslot].addr \in Addrs =>
                      clients'[oslot].addr = PeerAddr[clients'[oslot].by]
        <3>1. clients[oslot].fd = ofd /\ clients[oslot].by = conn[ofd]
            BY <1>1, <1>2, <1>3, <1>8, <2>5 DEF TableInv
        <3> QED
            BY <1>2, <1>5, <1>6, <1>7, <1>8, <3>1
    <2> QED
        BY <2>2, <2>3, <2>4, <2>5 DEF TableInv
<1> QED
    BY <1>8, <1>9, <1>10, <1>11, <1>12, <1>13, <1>14

-----------------------------------------------------------------------------
(* The counters.                                                           *)

\* The members are finitely many.
LEMMA MembersCount == Cardinality(Members) \in Nat /\ Cardinality(Members) <= MaxConns
<1>1. Members \subseteq Conn
    BY DEF Members
<1> QED
    BY <1>1, SubsetCounts

\* A step that registers nobody gives no id.
LEMMA IdKept ==
    ASSUME IdInv, id' = id, next_client_id' = next_client_id,
           \A c \in Conn : \/ role'[c] = role[c]
                           \/ {role[c], role'[c]} \intersect {"member", "outside"} = {}
    PROVE  IdInv' /\ Members' = Members
<1>1. Named' = Named /\ Members' = Members
    BY DEF Named, Members
<1> QED
    BY <1>1 DEF IdInv

\* The threads' places outside of the counting.
Elsewhere ==
    /\ UNCHANGED <<client_count, ocount, acount>>
    /\ opc' = opc \/ {opc, opc'} \intersect {"load", "store", "counted"} = {}
    /\ apc' = apc \/ {apc, apc'} \intersect {"load", "store"} = {}
    /\ Pending' = Pending

\* A step elsewhere keeps the bounds.
LEMMA ElsewhereBounds ==
    ASSUME HighInv, LowInv, Elsewhere, Members' = Members PROVE HighInv' /\ LowInv'
<1>1. HighInv'
    BY DEF HighInv, Elsewhere
<1>2. LowInv'
    BY DEF LowInv, Elsewhere
<1> QED
    BY <1>1, <1>2

\* The steps that count keep them too.
LEMMA CountStepsBounds ==
    ASSUME HighInv, LowInv, CountSteps, Members' = Members PROVE HighInv' /\ LowInv'
<1>1. PICK m : m = Cardinality(Members)
    OBVIOUS
<1>2. m \in Nat /\ Cardinality(Members') = m
    BY <1>1, MembersCount
<1>3. /\ client_count \in Int /\ ocount \in Int /\ acount \in Int
      /\ client_count + Pending <= m /\ ocount <= m /\ acount <= m
      /\ opc = "counted" => ocount + 1 <= m
    BY <1>1 DEF HighInv
<1> SUFFICES (/\ client_count \in Int /\ ocount \in Int /\ acount \in Int
              /\ client_count + Pending <= m
              /\ ocount <= m /\ acount <= m
              /\ opc = "counted" => ocount + 1 <= m)' /\ LowInv'
    BY <1>1, <1>2 DEF HighInv
<1>4. CASE register_client_loads
    <2>1. /\ opc = "count" /\ opc' = "counted" /\ ocount' = client_count
          /\ UNCHANGED <<client_count, acount, apc>>
        BY <1>4 DEF register_client_loads, tableVars, adminVars
    <2> QED
        BY <1>2, <1>3, <2>1 DEF LowInv, Pending
<1>5. CASE register_client_counts
    <2>1. /\ opc = "counted" /\ opc' = "poll" /\ client_count' = ocount + 1 /\ ocount' = 0
          /\ UNCHANGED <<acount, apc>>
        BY <1>5 DEF register_client_counts, adminVars
    <2> QED
        BY <1>2, <1>3, <2>1 DEF LowInv, Pending
<1>6. CASE OrdinaryTests
    <2>1. /\ opc = "test" /\ UNCHANGED <<client_count, ocount, acount, apc>>
          /\ opc' = IF client_count > 0 THEN "load" ELSE "unaddr"
        BY <1>6 DEF OrdinaryTests, after_test, counting, tableVars, adminVars
    <2> QED
        BY <1>2, <1>3, <2>1 DEF LowInv, Pending
<1>7. CASE OrdinaryLoads
    <2>1. /\ opc = "load" /\ opc' = "store" /\ ocount' = client_count
          /\ UNCHANGED <<client_count, acount, apc>>
        BY <1>7 DEF OrdinaryLoads, tableVars, adminVars
    <2> QED
        BY <1>2, <1>3, <2>1 DEF LowInv, Pending
<1>8. CASE OrdinaryStores
    <2>1. /\ opc = "store" /\ opc' = "unaddr" /\ client_count' = ocount - 1 /\ ocount' = 0
          /\ UNCHANGED <<acount, apc>>
        BY <1>8 DEF OrdinaryStores, decremented, adminVars
    <2> QED
        BY <1>2, <1>3, <2>1 DEF LowInv, Pending
<1>9. CASE AdminTests
    <2>1. /\ apc = "test" /\ UNCHANGED <<client_count, ocount, acount, opc>>
          /\ apc' = IF client_count > 0 THEN "load" ELSE "unaddr"
        BY <1>9 DEF AdminTests, after_test, counting, tableVars, ordinaryVars, removingVars
    <2> QED
        BY <1>2, <1>3, <2>1 DEF LowInv, Pending
<1>10. CASE AdminLoads
    <2>1. /\ apc = "load" /\ apc' = "store" /\ acount' = client_count
          /\ UNCHANGED <<client_count, ocount, opc>>
        BY <1>10 DEF AdminLoads, tableVars, ordinaryVars
    <2>2. client_count <= m
        BY <1>2, <1>3 DEF Pending
    <2> QED
        BY <1>2, <1>3, <2>1, <2>2 DEF LowInv, Pending
<1>11. CASE AdminStores
    <2>1. /\ apc = "store" /\ apc' = "unaddr" /\ client_count' = acount - 1 /\ acount' = 0
          /\ UNCHANGED <<ocount, opc>>
        BY <1>11 DEF AdminStores, decremented, ordinaryVars
    <2> QED
        BY <1>2, <1>3, <2>1 DEF LowInv, Pending
<1> QED
    BY <1>4, <1>5, <1>6, <1>7, <1>8, <1>9, <1>10, <1>11 DEF CountSteps

\* Accepting names no client.
LEMMA AcceptCounts ==
    ASSUME Inv, accept_client \/ accept_client_refused \/ accept_admin \/ accept_admin_refused
    PROVE  IdInv' /\ HighInv' /\ LowInv'
<1>1. PICK what \in {"open", "refused", "admin"} :
        \E fd \in Fd, c \in Conn : Accept(fd, c, what)
    BY DEF accept_client, accept_client_refused, accept_admin, accept_admin_refused
<1>2. UNCHANGED <<id, next_client_id, client_count, ocount, acount, opc, apc>>
    BY DEF accept_client, accept_client_refused, accept_admin, accept_admin_refused, Accept,
           ordinaryVars, tableVars, adminVars, removingVars
<1>3. \A d \in Conn : \/ role'[d] = role[d]
                      \/ {role[d], role'[d]} \intersect {"member", "outside"} = {}
    BY <1>1, AcceptIs DEF Role, Inv
<1>4. Elsewhere
    BY <1>2 DEF Elsewhere, Pending
<1> QED
    BY <1>2, <1>3, <1>4, IdKept, ElsewhereBounds DEF Inv

\* Naming a client gives one id and at most one more member.
LEMMA ConnectCounts ==
    ASSUME Inv, NEW fd \in Fd, Connect(fd) PROVE IdInv' /\ HighInv' /\ LowInv'
<1> USE DEF Inv
<1>1. PICK c : c = conn[fd]
    OBVIOUS
<1>2. /\ opc = "poll" /\ fd \in ofds /\ role[c] = "open"
      /\ next_client_id' = next_client_id + 1
      /\ UNCHANGED <<client_count, ocount, acount, apc>>
      /\ id' = [id EXCEPT ![c] = next_client_id]
    BY <1>1 DEF Connect, adminVars
<1>3. c \in Conn
    BY <1>1, <1>2, ConnOf DEF IInv, KernelInv, Closing, Removing
<1>4. Named \subseteq Conn /\ Members \subseteq Conn /\ c \notin Named /\ c \notin Members
    BY <1>2 DEF Named, Members
<1>5. /\ Cardinality(Named \union {c}) = Cardinality(Named) + 1
      /\ Cardinality(Members \union {c}) = Cardinality(Members) + 1
    BY <1>3, <1>4, OneMore
<1>6. Cardinality(Members) \in Nat /\ Cardinality(Named) \in Nat
    BY <1>4, SubsetCounts
<1>7. ASSUME NEW what \in {"member", "outside"}, role' = [role EXCEPT ![c] = what]
      PROVE  /\ IdInv'
             /\ Members' = IF what = "member" THEN Members \union {c} ELSE Members
    <2>1. \A d \in Conn : role'[d] = IF d = c THEN what ELSE role[d]
        BY <1>7 DEF IInv, TypeInv, KernelType
    <2>2. Named' = Named \union {c}
        BY <1>3, <2>1 DEF Named
    <2>3. what = "member" => Members' = Members \union {c}
        BY <1>3, <2>1 DEF Members
    <2>4. what # "member" => Members' = Members
        BY <1>3, <1>4, <2>1 DEF Members
    <2>5. \A d \in Conn : d # c => id'[d] = id[d]
        BY <1>2 DEF IInv, TypeInv, KernelType
    <2>6. \A d \in Conn : id'[d] # 0 => d \in Named'
        BY <2>2, <2>5 DEF IdInv
    <2>7. next_client_id' = Cardinality(Named') + 1
        BY <1>2, <1>5, <2>2 DEF IdInv
    <2> QED
        BY <2>3, <2>4, <2>6, <2>7 DEF IdInv
<1>8. CASE role' = [role EXCEPT ![c] = "outside"] /\ opc' = opc
    <2>1. IdInv' /\ Members' = Members
        BY <1>7, <1>8
    <2>2. Elsewhere
        BY <1>2, <1>8 DEF Elsewhere, Pending
    <2> QED
        BY <2>1, <2>2, ElsewhereBounds
<1>9. CASE role' = [role EXCEPT ![c] = "member"] /\ opc' = "naming"
    <2>1. IdInv' /\ Members' = Members \union {c}
        BY <1>7, <1>9
    <2>2. PICK m : m = Cardinality(Members)
        OBVIOUS
    <2>3. m \in Nat /\ Cardinality(Members') = m + 1
        BY <1>5, <1>6, <2>1, <2>2
    <2>4. /\ client_count \in Int /\ ocount \in Int /\ acount \in Int
          /\ client_count <= m /\ ocount <= m /\ acount <= m
        BY <1>2, <2>2 DEF HighInv, Pending
    <2>5. HighInv'
        BY <1>2, <1>9, <2>3, <2>4 DEF HighInv, Pending
    <2>6. LowInv'
        BY <1>2, <1>9 DEF LowInv
    <2> QED
        BY <2>1, <2>5, <2>6
<1> QED
    BY <1>1, <1>8, <1>9 DEF Connect

\* Every other step leaves the roles and the ids alone.
LEMMA StepCounts ==
    ASSUME Inv,
           \/ \E fd \in Fd : Submit(fd) \/ HangUp(fd)
           \/ OrdinarySteps \/ \E n \in 1..MaxConns : AdminDisconnect(n)
           \/ \E a \in Addrs : block_addr(a)
           \/ AdminEnds \/ AdminTimeout \/ AdminSteps
           \/ WorkerTakes \/ WorkerAnswers \/ \E c \in Conn : PeerLeaves(c)
    PROVE  IdInv' /\ HighInv' /\ LowInv'
<1> USE DEF Inv
<1>1. CASE CountSteps
    <2>1. UNCHANGED <<role, id, next_client_id>>
        BY <1>1 DEF CountSteps, register_client_loads, register_client_counts, OrdinaryTests,
                    OrdinaryLoads, OrdinaryStores, AdminTests, AdminLoads, AdminStores,
                    kernelVars, ordinaryVars
    <2>2. IdInv' /\ Members' = Members
        BY <2>1, IdKept
    <2> QED
        BY <1>1, <2>2, CountStepsBounds
<1>2. ASSUME UNCHANGED <<role, id, next_client_id>>, Elsewhere
      PROVE  IdInv' /\ HighInv' /\ LowInv'
    BY <1>2, IdKept, ElsewhereBounds
<1>3. CASE \/ register_client_names \/ OrdinaryFinds \/ OrdinaryRemoves \/ OrdinaryForgets
           \/ \E fd \in Fd : HangUp(fd)
    <2>1. UNCHANGED <<role, id, next_client_id, client_count, ocount, acount, apc>>
        BY <1>3 DEF register_client_names, OrdinaryFinds, OrdinaryRemoves, OrdinaryForgets,
                    HangUp, kernelVars, tableVars, adminVars
    <2>2. \/ {opc, opc'} \subseteq {"poll", "closed", "found", "test", "unaddr"}
          \/ opc = "naming" /\ opc' = "count"
        BY <1>3 DEF register_client_names, OrdinaryFinds, OrdinaryRemoves, OrdinaryForgets,
                    HangUp, after_find, Removing
    <2> QED
        BY <1>2, <2>1, <2>2 DEF Elsewhere, Pending, Removing
<1>4. CASE \/ AdminFinds \/ AdminRemoves \/ AdminForgets \/ AdminShutdown
           \/ AdminEnds \/ AdminTimeout \/ \E n \in 1..MaxConns : AdminDisconnect(n)
    <2>1. UNCHANGED <<role, id, next_client_id, client_count, ocount, acount, opc>>
        BY <1>4 DEF AdminFinds, AdminRemoves, AdminForgets, AdminShutdown, AdminEnds,
                    AdminTimeout, AdminCloses, AdminDisconnect, kernelVars, tableVars,
                    ordinaryVars, removingVars
    <2>2. {apc, apc'} \intersect {"load", "store"} = {}
        BY <1>4 DEF AdminFinds, AdminRemoves, AdminForgets, AdminShutdown, AdminEnds,
                    AdminTimeout, AdminCloses, AdminDisconnect, AdminReady, after_find
    <2> QED
        BY <1>2, <2>1, <2>2 DEF Elsewhere, Pending
<1>5. CASE \/ \E fd \in Fd : Submit(fd)
           \/ \E a \in Addrs : block_addr(a)
           \/ WorkerTakes \/ WorkerAnswers \/ \E c \in Conn : PeerLeaves(c)
    <2>1. UNCHANGED <<role, id, next_client_id, client_count, ocount, acount, opc, apc>>
        BY <1>5 DEF Submit, block_addr, WorkerTakes, WorkerAnswers, PeerLeaves, kernelVars,
                    tableVars, ordinaryVars, adminVars, removingVars
    <2> QED
        BY <1>2, <2>1 DEF Elsewhere, Pending
<1> QED
    BY <1>1, <1>3, <1>4, <1>5 DEF OrdinarySteps, AdminSteps, CountSteps

-----------------------------------------------------------------------------
(* The invariant, and what follows from it.                                *)

\* The initial state satisfies the invariant.
LEMMA InitInv == Init => Inv
<1> SUFFICES ASSUME Init PROVE Inv
    OBVIOUS
<1>1. 0 \in 0..MaxConns /\ 0 \in 0..Descriptors /\ 0 \in 0..MAX_CLIENTS /\ 0 \in 0..MAX_ADDR_TRACK
    BY Bounds
<1>2. KernelType
    BY <1>1 DEF Init, KernelType, Role
<1>3. OrdinaryType
    BY <1>1 DEF Init, OrdinaryType
<1>4. TableType /\ \A i \in Slot : clients[i].fd = 0
    <2>1. NoClient \in Entry /\ NoClient.fd = 0
        BY <1>1 DEF NoClient, Entry
    <2> QED
        BY <2>1 DEF Init, TableType
<1>5. AddressType /\ \A j \in Track : fd_addrs[j].fd = 0 /\ fd_addrs[j].addr = ""
    <2>1. NoAddress \in Address /\ NoAddress.fd = 0 /\ NoAddress.addr = ""
        BY <1>1 DEF NoAddress, Address
    <2> QED
        BY <2>1 DEF Init, AddressType
<1>6. AdminType
    <2>1. NoTarget \in [fd : 0..Descriptors, client_id : Nat]
        BY <1>1 DEF NoTarget
    <2> QED
        BY <1>1, <2>1 DEF Init, AdminType
<1>7. WorkType
    <2>0. <<>> \in Seq(Request)
        OBVIOUS
    <2>1. queue = <<>> /\ <<>> \in Seq(Request)
        BY <2>0, Zenon DEF Init
    <2>2. r = NoRequest /\ waiting = {} /\ turned = {} /\ stray = {} /\ cut = {}
        BY DEF Init
    <2> QED
        BY <2>1, <2>2 DEF WorkType
<1>8. KernelInv
    BY DEF Init, KernelInv
<1>9. OrdinaryInv /\ AdminInv
    BY DEF Init, OrdinaryInv, AdminInv, Removing
<1>10. AddressInv
    BY <1>5 DEF AddressInv
<1>11. TableInv
    BY <1>4 DEF TableInv
<1>12. IdInv /\ HighInv /\ LowInv
    <2>1. Named = {} /\ Members = {}
        BY DEF Init, Named, Members
    <2>2. Cardinality(Named) = 0 /\ Cardinality(Members) = 0
        BY <2>1, FS_EmptySet
    <2>3. /\ next_client_id = 1 /\ client_count = 0 /\ ocount = 0 /\ acount = 0
          /\ opc = "poll" /\ apc = "poll" /\ \A c \in Conn : id[c] = 0
        BY DEF Init
    <2> QED
        BY <2>2, <2>3 DEF IdInv, HighInv, LowInv, Pending
<1> QED
    BY <1>2, <1>3, <1>4, <1>5, <1>6, <1>7, <1>8, <1>9, <1>10, <1>11, <1>12 DEF Inv, IInv, TypeInv

\* Every step keeps it.
LEMMA NextInv == ASSUME Inv, Next PROVE Inv'
<1>0. IInv /\ IdInv
    BY DEF Inv
<1>1. CASE accept_client \/ accept_client_refused \/ accept_admin \/ accept_admin_refused
    BY <1>0, <1>1, AcceptClientIInv, RefusedIInv, AcceptAdminIInv, AcceptCounts DEF Inv
<1>2. ASSUME NEW fd \in Fd, Connect(fd) PROVE Inv'
    BY <1>0, <1>2, ConnectIInv, ConnectCounts DEF Inv
<1>3. CASE \E fd \in Fd : Submit(fd) \/ HangUp(fd)
    BY <1>0, <1>3, SubmitIInv, HangUpIInv, StepCounts DEF Inv
<1>4. CASE OrdinarySteps
    BY <1>0, <1>4, NamesIInv, CountsIInv, OrdinaryFindsIInv, OrdinaryRemovesIInv,
       OrdinaryForgetsIInv, StepCounts DEF OrdinarySteps, CountSteps, Inv
<1>5. CASE (\E n \in 1..MaxConns : AdminDisconnect(n)) \/ \E a \in Addrs : block_addr(a)
    BY <1>0, <1>5, AdminOperatesIInv, StepCounts DEF Inv
<1>6. CASE AdminEnds \/ AdminTimeout
    BY <1>0, <1>6, AdminClosesIInv, StepCounts DEF Inv
<1>7. CASE AdminSteps
    BY <1>0, <1>7, AdminOperatesIInv, AdminForgetsIInv, CountsIInv, StepCounts
    DEF AdminSteps, CountSteps, Inv
<1>8. CASE WorkerTakes \/ WorkerAnswers
    BY <1>0, <1>8, WorkerIInv, StepCounts DEF Inv
<1>9. CASE \E c \in Conn : PeerLeaves(c)
    BY <1>0, <1>9, PeerLeavesIInv, StepCounts DEF Inv
<1> QED
    BY <1>1, <1>2, <1>3, <1>4, <1>5, <1>6, <1>7, <1>8, <1>9 DEF Next

\* Nothing changes when nothing happens.
LEMMA StutterInv == ASSUME Inv, UNCHANGED vars PROVE Inv'
<1> USE DEF Inv
<1>1. UNCHANGED <<kernelVars, ordinaryVars, tableVars, adminVars, workVars>>
    BY DEF vars
<1>2. Quiet
    BY <1>1 DEF Quiet, Standing, IInv, TypeInv, KernelType, kernelVars, ordinaryVars, tableVars
<1>3. AdminType' /\ AdminInv'
    BY <1>1, AdminStillInv DEF AdminStill, adminVars, kernelVars
<1>4. WorkType'
    BY <1>1 DEF IInv, TypeInv, WorkType, workVars
<1>5. IdInv' /\ Members' = Members
    BY <1>1, IdKept DEF kernelVars, ordinaryVars
<1>6. HighInv' /\ LowInv'
    <2>1. Elsewhere
        BY <1>1 DEF Elsewhere, Pending, ordinaryVars, tableVars, adminVars
    <2> QED
        BY <1>5, <2>1, ElsewhereBounds
<1> QED
    BY <1>2, <1>3, <1>4, <1>5, <1>6, QuietIInv

\* The inductive invariant holds in every state.
LEMMA InvariantHolds == Spec => []Inv
<1>1. Inv /\ [Next]_vars => Inv'
    BY NextInv, StutterInv
<1> QED
    BY <1>1, InitInv, PTL DEF Spec

\* The state of the server is well formed: the ids given stay within the
\* connections made, and the counter of the clients, which both threads test, load
\* and store without a lock, stays between -2 and the connections made
\* (server.c:583-620, 970).
THEOREM ConnectionsTypeCorrect == Spec => []TypeOK
<1>1. Inv => TypeOK
    <2> SUFFICES ASSUME Inv PROVE TypeOK
        OBVIOUS
    <2>1. /\ Cardinality(Named) \in Nat /\ Cardinality(Named) <= MaxConns
          /\ Cardinality(Members) \in Nat /\ Cardinality(Members) <= MaxConns
        BY SubsetCounts DEF Named, Members
    <2>2. next_client_id \in 1..MaxConns + 1
        BY <2>1, Bounds DEF IdInv, Inv
    <2>3. client_count \in -2..MaxConns /\ ocount \in -2..MaxConns /\ acount \in -2..MaxConns
        <3>1. PICK m : m = Cardinality(Members)
            OBVIOUS
        <3>2. m \in Nat /\ m <= MaxConns /\ MaxConns \in Nat
            BY <2>1, <3>1, Bounds
        <3>3. /\ client_count \in Int /\ ocount \in Int /\ acount \in Int
              /\ client_count <= m /\ ocount <= m /\ acount <= m
            BY <3>1, <3>2 DEF HighInv, Inv, Pending
        <3>4. client_count >= -2 /\ ocount >= -2 /\ acount >= -2
            BY <3>3 DEF LowInv, Inv
        <3> QED
            BY <3>2, <3>3, <3>4
    <2> QED
        BY <2>2, <2>3
        DEF Inv, IInv, TypeInv, KernelType, OrdinaryType, AdminType, WorkType, Role, TypeOK
<1> QED
    BY <1>1, InvariantHolds, PTL

\* Every entry of the client table is the connection that its descriptor is open
\* for, under its own id and address, whatever the admin thread closes meanwhile
\* (server.c:583-620, 945, 961).
THEOREM TableIsTrue == Spec => []ClientTableTrue
<1>1. Inv => ClientTableTrue
    BY DEF Inv, IInv, TableInv, ClientTableTrue
<1> QED
    BY <1>1, InvariantHolds, PTL

\* The poll vector of the admin thread never holds more than the listening
\* socket and one admin, whose descriptor is open (server.c:1035, 1258).
THEOREM AdminVectorIsBounded == Spec => []AdminVectorFits
<1>1. Inv => AdminVectorFits
    <2> SUFFICES ASSUME IInv PROVE AdminVectorFits
        BY DEF Inv
    <2>1. \E fd : afds \subseteq {fd}
        BY DEF IInv, AdminInv
    <2>2. PICK fd : afds \subseteq {fd}
        BY <2>1
    <2>3. Cardinality(afds) <= 1 /\ Cardinality(afds) \in Nat
        <3>1. afds = {} \/ afds = {fd}
            BY <2>2
        <3>2. Cardinality({}) = 0 /\ Cardinality({fd}) = 1
            BY FS_EmptySet, FS_Singleton
        <3> QED
            BY <3>1, <3>2
    <2>4. apc = "poll" => afds = {admin_fd} \ {0}
        BY DEF IInv, AdminInv
    <2> QED
        BY <2>3, <2>4 DEF AdminVectorFits
<1> QED
    BY <1>1, InvariantHolds, PTL

-----------------------------------------------------------------------------
(* The clients that wait for their answers.                                *)

\* A step that leaves the requests alone, and takes no descriptor from a client.
Calm ==
    /\ UNCHANGED <<queue, r, waiting, stray, cut>>
    /\ \A fd \in Fd : conn[fd] # 0 /\ role[conn[fd]] # "admin" => conn'[fd] = conn[fd]
    /\ \A fd \in Fd : conn'[fd] \in {0, conn[fd]} \/ role[conn'[fd]] = "none"
    /\ \A c \in Conn : role[c] # "none" => role'[c] # "none"
    /\ \A c \in Conn : id[c] # 0 => id'[c] # 0

\* A connection that has an id is no admin's.
LEMMA NamedRole == ASSUME IdInv, NEW c \in Conn, id[c] # 0 PROVE role[c] \in {"member", "outside"}
    BY DEF IdInv, Named

\* A request names a descriptor and a connection.
LEMMA Requested ==
    ASSUME IInv
    PROVE  /\ \A i \in 1..Len(queue) : queue[i].fd \in Fd /\ queue[i].by \in Conn
           /\ r # NoRequest => r.fd \in Fd /\ r.by \in Conn
           /\ r = NoRequest => r.by = 0
<1>1. \A i \in 1..Len(queue) : queue[i] \in Request
    BY DEF IInv, TypeInv, WorkType
<1>2. r # NoRequest => r \in Request
    BY DEF IInv, TypeInv, WorkType
<1> QED
    BY <1>1, <1>2 DEF Request, NoRequest

\* A calm step keeps a request with its sender.
LEMMA SentStays ==
    ASSUME Inv, SentInv, Calm, NEW f \in Fd, NEW c \in Conn,
           conn[f] = c \/ c \in cut, id[c] # 0
    PROVE  (conn'[f] = c \/ c \in cut') /\ id'[c] # 0
<1>1. c # 0
    BY Bounds DEF Conn
<1>2. role[c] # "admin"
    BY NamedRole DEF Inv
<1> QED
    BY <1>1, <1>2 DEF Calm

\* A calm step keeps SentInv.
LEMMA SentKept == ASSUME Inv, SentInv, Calm PROVE SentInv'
<1>1. UNCHANGED <<queue, r, waiting, stray, cut>>
    BY DEF Calm
<1>2. /\ \A i \in 1..Len(queue) : queue[i].fd \in Fd /\ queue[i].by \in Conn
      /\ r # NoRequest => r.fd \in Fd /\ r.by \in Conn
    BY Requested DEF Inv
<1>3. \A c \in cut' : role'[c] # "none" /\ \A fd \in Fd : conn'[fd] # c
    <2> SUFFICES ASSUME NEW c \in cut PROVE role'[c] # "none" /\ \A fd \in Fd : conn'[fd] # c
        BY <1>1
    <2>1. c \in Conn /\ c # 0
        BY Bounds DEF Inv, IInv, TypeInv, WorkType, Conn
    <2>2. role[c] # "none" /\ \A fd \in Fd : conn[fd] # c
        BY DEF SentInv
    <2> QED
        BY <2>1, <2>2 DEF Calm
<1>4. \A i \in 1..Len(queue') : Sent(queue[i])'
    <2> SUFFICES ASSUME NEW i \in 1..Len(queue) PROVE Sent(queue[i])'
        BY <1>1
    <2>1. PICK f, c : f = queue[i].fd /\ c = queue[i].by
        OBVIOUS
    <2>2. f \in Fd /\ c \in Conn
        BY <1>2, <2>1
    <2>3. c \in waiting \union cut /\ (conn[f] = c \/ c \in cut) /\ id[c] # 0
        BY <2>1 DEF SentInv, Sent
    <2>4. (conn'[f] = c \/ c \in cut') /\ id'[c] # 0
        BY <2>2, <2>3, SentStays
    <2>5. f = queue'[i].fd /\ c = queue'[i].by /\ c \in waiting' \union cut'
        BY <1>1, <2>1, <2>3
    <2> QED
        BY <2>4, <2>5 DEF Sent
<1>5. r' # NoRequest => Sent(r)'
    <2> SUFFICES ASSUME r # NoRequest PROVE Sent(r)'
        BY <1>1
    <2>1. PICK f, c : f = r.fd /\ c = r.by
        OBVIOUS
    <2>2. f \in Fd /\ c \in Conn
        BY <1>2, <2>1
    <2>3. c \in waiting \union cut /\ (conn[f] = c \/ c \in cut) /\ id[c] # 0
        BY <2>1 DEF SentInv, Sent
    <2>4. (conn'[f] = c \/ c \in cut') /\ id'[c] # 0
        BY <2>2, <2>3, SentStays
    <2>5. f = r'.fd /\ c = r'.by /\ c \in waiting' \union cut'
        BY <1>1, <2>1, <2>3
    <2> QED
        BY <2>4, <2>5 DEF Sent
<1>6. /\ \A i \in 1..Len(queue') : r'.by # queue'[i].by
      /\ \A i, j \in 1..Len(queue') : queue'[i].by = queue'[j].by => i = j
      /\ AnswerToSenderUnlessCut'
    BY <1>1 DEF SentInv, AnswerToSenderUnlessCut
<1> QED
    BY <1>3, <1>4, <1>5, <1>6 DEF SentInv

\* A descriptor that is accepted was nobody's, and its connection is new.
LEMMA AcceptSent ==
    ASSUME Inv, SentInv,
           accept_client \/ accept_client_refused \/ accept_admin \/ accept_admin_refused
    PROVE  SentInv'
<1>1. PICK what \in {"open", "refused", "admin"} :
        \E fd \in Fd, c \in Conn :
            Accept(fd, c, what) /\ (conn' = conn \/ conn' = [conn EXCEPT ![fd] = c])
    BY DEF accept_client, accept_client_refused, accept_admin, accept_admin_refused
<1>2. PICK fd \in Fd, c \in Conn :
        Accept(fd, c, what) /\ (conn' = conn \/ conn' = [conn EXCEPT ![fd] = c])
    BY <1>1
<1>3. /\ conn[fd] = 0 /\ role[c] = "none" /\ UNCHANGED id
      /\ \A d \in Conn : role'[d] = IF d = c THEN what ELSE role[d]
    BY <1>2, AcceptIs DEF Role, Inv
<1>4. UNCHANGED <<queue, r, waiting, stray, cut>>
    BY DEF accept_client, accept_client_refused, accept_admin, accept_admin_refused, workVars
<1>5. Calm
    BY <1>2, <1>3, <1>4 DEF Calm, Inv, IInv, TypeInv, KernelType
<1> QED
    BY <1>5, SentKept

\* Naming a client gives it an id.
LEMMA ConnectSent == ASSUME Inv, SentInv, NEW fd \in Fd, Connect(fd) PROVE SentInv'
<1>1. PICK c, n : c = conn[fd] /\ n = next_client_id
    OBVIOUS
<1>2. /\ UNCHANGED conn /\ UNCHANGED <<queue, r, waiting, stray, cut>>
      /\ id' = [id EXCEPT ![c] = n]
      /\ role' = [role EXCEPT ![c] = "outside"] \/ role' = [role EXCEPT ![c] = "member"]
    BY <1>1 DEF Connect, workVars
<1>3. n # 0
    <2>1. Cardinality(Named) \in Nat
        BY SubsetCounts DEF Named
    <2> QED
        BY <1>1, <2>1 DEF Inv, IdInv
<1>4. \A d \in Conn : id[d] # 0 => id'[d] # 0
    BY <1>2, <1>3 DEF Inv, IInv, TypeInv, KernelType
<1>5. \A d \in Conn : role[d] # "none" => role'[d] # "none"
    BY <1>2 DEF Inv, IInv, TypeInv, KernelType
<1>6. Calm
    BY <1>2, <1>4, <1>5 DEF Calm
<1> QED
    BY <1>6, SentKept

\* A client that submits has its descriptor and no other request.
LEMMA SubmitSent == ASSUME Inv, SentInv, NEW fd \in Fd, Submit(fd) PROVE SentInv'
<1>1. PICK c, q : c = conn[fd] /\ q = request(fd)
    OBVIOUS
<1>2. /\ fd \in ofds /\ opc = "poll" /\ id[c] > 0 /\ c \notin waiting
      /\ \/ queue' = Append(queue, q) /\ waiting' = waiting \union {c}
         \/ UNCHANGED <<queue, waiting>>
      /\ UNCHANGED <<conn, id, role, r, stray, cut>>
    BY <1>1 DEF Submit, kernelVars
<1>3. c \in Conn /\ c # 0
    BY <1>1, <1>2, ConnOf, Bounds DEF Inv, IInv, KernelInv, Closing, Removing, Conn
<1>4. c \notin cut /\ id[c] # 0
    <2>1. ~(0 > 0)
        OBVIOUS
    <2>2. id[c] # 0
        BY <1>2, <2>1, Zenon
    <2> QED
        BY <1>1, <2>2 DEF SentInv
<1>5. CASE UNCHANGED <<queue, waiting>>
    <2>1. Calm
        BY <1>2, <1>5 DEF Calm
    <2> QED
        BY <2>1, SentKept
<1>6. CASE queue' = Append(queue, q) /\ waiting' = waiting \union {c}
    <2>1. q.fd = fd /\ q.by = c
        BY <1>1 DEF request
    <2>2. queue \in Seq(Request)
        BY DEF Inv, IInv, TypeInv, WorkType
    <2>3. /\ Len(queue') = Len(queue) + 1 /\ Len(queue) \in Nat
          /\ \A i \in 1..Len(queue) : queue'[i] = queue[i]
          /\ queue'[Len(queue) + 1] = q
        BY <1>6, <2>2
    <2>4. \A i \in 1..Len(queue) :
            /\ queue[i].by \in waiting \union cut
            /\ conn[queue[i].fd] = queue[i].by \/ queue[i].by \in cut
            /\ id[queue[i].by] # 0 /\ r.by # queue[i].by
        BY DEF SentInv, Sent
    <2>5. \A i, j \in 1..Len(queue) : queue[i].by = queue[j].by => i = j
        BY DEF SentInv
    <2>6. r.by # c
        <3>1. CASE r # NoRequest
            BY <1>2, <1>4, <3>1 DEF SentInv, Sent
        <3>2. CASE r = NoRequest
            BY <1>3, <3>2, Requested DEF Inv
        <3> QED
            BY <3>1, <3>2
    <2>7. \A i \in 1..Len(queue') : i \in 1..Len(queue) \/ i = Len(queue) + 1
        BY <2>3
    <2>8. \A i \in 1..Len(queue) : queue[i].by # c
        BY <1>2, <1>4, <2>4
    <2>9. \A i \in 1..Len(queue') : Sent(queue[i])' /\ r'.by # queue'[i].by
        <3> SUFFICES ASSUME NEW i \in 1..Len(queue')
                     PROVE  Sent(queue[i])' /\ r'.by # queue'[i].by
            OBVIOUS
        <3>1. CASE i \in 1..Len(queue)
            BY <1>2, <1>6, <2>3, <2>4, <3>1 DEF Sent
        <3>2. CASE i = Len(queue) + 1
            BY <1>1, <1>2, <1>4, <1>6, <2>1, <2>3, <2>6, <3>2 DEF Sent
        <3> QED
            BY <2>7, <3>1, <3>2
    <2>10. \A i, j \in 1..Len(queue') : queue'[i].by = queue'[j].by => i = j
        BY <2>1, <2>3, <2>5, <2>7, <2>8
    <2>11. r' # NoRequest => Sent(r)'
        BY <1>2, <1>6 DEF SentInv, Sent
    <2>12. \A d \in cut' : role'[d] # "none" /\ \A g \in Fd : conn'[g] # d
        BY <1>2 DEF SentInv
    <2> QED
        BY <1>2, <2>9, <2>10, <2>11, <2>12 DEF SentInv, AnswerToSenderUnlessCut
<1> QED
    BY <1>2, <1>5, <1>6

\* The connection that a thread closes is cut off if it waits.
LEMMA HangUpSent == ASSUME Inv, SentInv, NEW fd \in Fd, HangUp(fd) PROVE SentInv'
<1>1. PICK c : c = conn[fd]
    OBVIOUS
<1>2. /\ fd \in ofds /\ opc = "poll"
      /\ conn' = [conn EXCEPT ![fd] = 0]
      /\ waiting' = waiting \ {c} /\ cut' = cut \union ({c} \intersect waiting)
      /\ UNCHANGED <<role, id, queue, r, stray>>
    BY <1>1 DEF HangUp, close
<1>3. /\ c # 0 /\ role[c] # "none" /\ \A g \in Fd : conn[g] = c => g = fd
      /\ \A g \in Fd : conn'[g] = IF g = fd THEN 0 ELSE conn[g]
    <2>1. c # 0
        BY <1>1, <1>2 DEF Inv, IInv, KernelInv, Closing, Removing
    <2> QED
        BY <1>1, <1>2, <2>1 DEF Inv, IInv, KernelInv, TypeInv, KernelType
<1>4. ASSUME NEW f \in Fd, NEW d \in Conn, d \in waiting \union cut,
             conn[f] = d \/ d \in cut, id[d] # 0
      PROVE  d \in waiting' \union cut' /\ (conn'[f] = d \/ d \in cut') /\ id'[d] # 0
    <2>1. c \notin cut
        BY <1>1 DEF SentInv
    <2>2. CASE d = c
        BY <1>2, <1>4, <2>1, <2>2
    <2>3. CASE d # c
        BY <1>1, <1>2, <1>3, <1>4, <2>3
    <2> QED
        BY <2>2, <2>3
<1>5. /\ \A i \in 1..Len(queue) : queue[i].fd \in Fd /\ queue[i].by \in Conn
      /\ r # NoRequest => r.fd \in Fd /\ r.by \in Conn
    BY Requested DEF Inv
<1>6. \A i \in 1..Len(queue') : Sent(queue[i])'
    <2> SUFFICES ASSUME NEW i \in 1..Len(queue) PROVE Sent(queue[i])'
        BY <1>2
    <2>1. PICK f, d : f = queue[i].fd /\ d = queue[i].by
        OBVIOUS
    <2>2. f \in Fd /\ d \in Conn
        BY <1>5, <2>1
    <2>3. d \in waiting \union cut /\ (conn[f] = d \/ d \in cut) /\ id[d] # 0
        BY <2>1 DEF SentInv, Sent
    <2>4. d \in waiting' \union cut' /\ (conn'[f] = d \/ d \in cut') /\ id'[d] # 0
        BY <1>4, <2>2, <2>3
    <2>5. f = queue'[i].fd /\ d = queue'[i].by
        BY <1>2, <2>1
    <2> QED
        BY <2>4, <2>5 DEF Sent
<1>7. r' # NoRequest => Sent(r)'
    <2> SUFFICES ASSUME r # NoRequest PROVE Sent(r)'
        BY <1>2
    <2>1. PICK f, d : f = r.fd /\ d = r.by
        OBVIOUS
    <2>2. f \in Fd /\ d \in Conn
        BY <1>5, <2>1
    <2>3. d \in waiting \union cut /\ (conn[f] = d \/ d \in cut) /\ id[d] # 0
        BY <2>1 DEF SentInv, Sent
    <2>4. d \in waiting' \union cut' /\ (conn'[f] = d \/ d \in cut') /\ id'[d] # 0
        BY <1>4, <2>2, <2>3
    <2>5. f = r'.fd /\ d = r'.by
        BY <1>2, <2>1
    <2> QED
        BY <2>4, <2>5 DEF Sent
<1>8. \A d \in cut' : role'[d] # "none" /\ \A g \in Fd : conn'[g] # d
    <2> SUFFICES ASSUME NEW d \in cut' PROVE role[d] # "none" /\ \A g \in Fd : conn'[g] # d
        BY <1>2
    <2>1. CASE d = c
        BY <1>3, <2>1
    <2>2. CASE d # c
        <3>1. d \in cut /\ d \in Conn /\ d # 0
            BY <1>2, <2>2, Bounds DEF Inv, IInv, TypeInv, WorkType, Conn
        <3>2. role[d] # "none" /\ \A g \in Fd : conn[g] # d
            BY <3>1 DEF SentInv
        <3> QED
            BY <1>3, <3>1, <3>2
    <2> QED
        BY <2>1, <2>2
<1>9. /\ \A i \in 1..Len(queue') : r'.by # queue'[i].by
      /\ \A i, j \in 1..Len(queue') : queue'[i].by = queue'[j].by => i = j
      /\ AnswerToSenderUnlessCut'
    BY <1>2 DEF SentInv, AnswerToSenderUnlessCut
<1> QED
    BY <1>6, <1>7, <1>8, <1>9 DEF SentInv

\* The worker answers on the descriptor of its sender, unless that was cut off.
LEMMA WorkerSent ==
    ASSUME Inv, SentInv, WorkerTakes \/ WorkerAnswers PROVE SentInv'
<1>1. UNCHANGED <<conn, id, role, cut>>
    BY DEF WorkerTakes, WorkerAnswers, kernelVars
<1>2. /\ \A i \in 1..Len(queue) :
           /\ queue[i].by \in waiting \union cut
           /\ conn[queue[i].fd] = queue[i].by \/ queue[i].by \in cut
           /\ id[queue[i].by] # 0 /\ r.by # queue[i].by
      /\ \A i, j \in 1..Len(queue) : queue[i].by = queue[j].by => i = j
    BY DEF SentInv, Sent
<1>3. \A d \in cut' : role'[d] # "none" /\ \A g \in Fd : conn'[g] # d
    BY <1>1 DEF SentInv
<1>4. CASE WorkerTakes
    <2>1. r' = Head(queue) /\ queue' = Tail(queue) /\ queue # <<>> /\ UNCHANGED <<waiting, stray>>
        BY <1>4 DEF WorkerTakes
    <2>2. queue \in Seq(Request)
        BY DEF Inv, IInv, TypeInv, WorkType
    <2>3. /\ Len(queue) \in Nat \ {0} /\ r' = queue[1] /\ Len(queue') = Len(queue) - 1
          /\ \A i \in 1..Len(queue') : queue'[i] = queue[i + 1]
        BY <2>1, <2>2
    <2>4. \A i \in 1..Len(queue') : i + 1 \in 1..Len(queue) /\ i + 1 # 1
        BY <2>3
    <2>5. 1 \in 1..Len(queue)
        BY <2>3
    <2>6. \A i \in 1..Len(queue') : Sent(queue[i])' /\ r'.by # queue'[i].by
        BY <1>1, <1>2, <2>1, <2>3, <2>4, <2>5 DEF Sent
    <2>7. \A i, j \in 1..Len(queue') : queue'[i].by = queue'[j].by => i = j
        <3> SUFFICES ASSUME NEW i \in 1..Len(queue'), NEW j \in 1..Len(queue'),
                            queue'[i].by = queue'[j].by
                     PROVE  i = j
            OBVIOUS
        <3>1. i + 1 \in 1..Len(queue) /\ j + 1 \in 1..Len(queue)
            BY <2>4
        <3>2. queue[i + 1].by = queue[j + 1].by
            BY <2>3
        <3>3. i + 1 = j + 1
            BY <1>2, <3>1, <3>2
        <3> QED
            BY <2>3, <3>3
    <2>8. Sent(r)'
        BY <1>1, <1>2, <2>1, <2>3, <2>5 DEF Sent
    <2> QED
        BY <1>1, <1>3, <2>1, <2>6, <2>7, <2>8 DEF SentInv, AnswerToSenderUnlessCut
<1>5. CASE WorkerAnswers
    <2>1. /\ r # NoRequest /\ r' = NoRequest /\ waiting' = waiting \ {r.by} /\ queue' = queue
          /\ stray' = IF conn[r.fd] \in {0, r.by} THEN stray ELSE stray \union {r.by}
        BY <1>5 DEF WorkerAnswers
    <2>2. conn[r.fd] = r.by \/ r.by \in cut
        BY <2>1 DEF SentInv, Sent
    <2>3. stray' \subseteq cut'
        BY <1>1, <2>1, <2>2 DEF SentInv, AnswerToSenderUnlessCut
    <2>4. r'.by = 0
        BY <2>1 DEF NoRequest
    <2>5. \A i \in 1..Len(queue') : Sent(queue[i])' /\ r'.by # queue'[i].by
        <3>1. \A i \in 1..Len(queue) : queue[i].by # 0
            BY Requested, Bounds DEF Inv, Conn
        <3> QED
            BY <1>1, <1>2, <2>1, <2>4, <3>1 DEF Sent
    <2> QED
        BY <1>2, <1>3, <2>1, <2>3, <2>5 DEF SentInv, AnswerToSenderUnlessCut
<1> QED
    BY <1>4, <1>5

\* The other steps take no descriptor from a client and leave the requests alone.
LEMMA OthersSent ==
    ASSUME Inv, SentInv,
           \/ OrdinarySteps \/ (\E n \in 1..MaxConns : AdminDisconnect(n))
           \/ (\E a \in Addrs : block_addr(a)) \/ AdminEnds \/ AdminTimeout
           \/ AdminSteps \/ \E c \in Conn : PeerLeaves(c)
    PROVE  SentInv'
<1>1. UNCHANGED <<id, role, queue, r, waiting, stray, cut>>
    BY DEF OrdinarySteps, register_client_names, register_client_loads, register_client_counts,
           OrdinaryFinds, OrdinaryRemoves, OrdinaryTests, OrdinaryLoads, OrdinaryStores,
           OrdinaryForgets, AdminDisconnect, block_addr, AdminEnds, AdminTimeout, AdminCloses,
           AdminSteps, AdminShutdown, AdminFinds, AdminRemoves, AdminTests, AdminLoads,
           AdminStores, AdminForgets, PeerLeaves, kernelVars, workVars
<1>2. CASE UNCHANGED conn
    <2>1. Calm
        BY <1>1, <1>2 DEF Calm
    <2> QED
        BY <2>1, SentKept
<1>3. CASE AdminEnds \/ AdminTimeout
    <2>1. apc = "poll" /\ admin_fd # 0 /\ conn' = [conn EXCEPT ![admin_fd] = 0]
        BY <1>3 DEF AdminEnds, AdminTimeout, AdminCloses, close
    <2>2. role[conn[admin_fd]] = "admin"
        BY <2>1 DEF Inv, IInv, AdminInv
    <2>3. Calm
        BY <1>1, <2>1, <2>2 DEF Calm, Inv, IInv, TypeInv, KernelType
    <2> QED
        BY <2>3, SentKept
<1> QED
    BY <1>2, <1>3
    DEF OrdinarySteps, register_client_names, register_client_loads, register_client_counts,
        OrdinaryFinds, OrdinaryRemoves, OrdinaryTests, OrdinaryLoads, OrdinaryStores,
        OrdinaryForgets, AdminDisconnect, block_addr, AdminSteps, AdminShutdown, AdminFinds,
        AdminRemoves, AdminTests, AdminLoads, AdminStores, AdminForgets, PeerLeaves, kernelVars

\* An answer reaches another connection only if its own sender's was closed while
\* the sender waited, though the worker has no more than the number of the
\* descriptor (server.c:63, 1238).
THEOREM AnswersReachTheirSender == Spec => []AnswerToSenderUnlessCut
<1>1. Init => SentInv
    <2> SUFFICES ASSUME Init PROVE SentInv
        OBVIOUS
    <2>1. queue = <<>> /\ r = NoRequest /\ stray = {} /\ cut = {}
        BY DEF Init
    <2>2. \A i \in 1..Len(queue) : FALSE
        BY <2>1
    <2> QED
        BY <2>1, <2>2 DEF SentInv, AnswerToSenderUnlessCut
<1>2. Inv /\ SentInv /\ [Next]_vars => SentInv'
    <2> SUFFICES ASSUME Inv, SentInv, [Next]_vars PROVE SentInv'
        OBVIOUS
    <2>1. CASE Next
        <3>1. CASE \/ accept_client \/ accept_client_refused
                   \/ accept_admin \/ accept_admin_refused
            BY <3>1, AcceptSent
        <3>2. CASE \E fd \in Fd : Connect(fd) \/ Submit(fd) \/ HangUp(fd)
            BY <3>2, ConnectSent, SubmitSent, HangUpSent
        <3>3. CASE WorkerTakes \/ WorkerAnswers
            BY <3>3, WorkerSent
        <3>4. CASE \/ OrdinarySteps \/ (\E n \in 1..MaxConns : AdminDisconnect(n))
                   \/ (\E a \in Addrs : block_addr(a)) \/ AdminEnds \/ AdminTimeout
                   \/ AdminSteps \/ \E c \in Conn : PeerLeaves(c)
            BY <3>4, OthersSent
        <3> QED
            BY <2>1, <3>1, <3>2, <3>3, <3>4 DEF Next
    <2>2. CASE UNCHANGED vars
        <3>1. Calm
            BY <2>2 DEF Calm, vars, kernelVars, workVars
        <3> QED
            BY <3>1, SentKept
    <2> QED
        BY <2>1, <2>2
<1>3. SentInv => AnswerToSenderUnlessCut
    BY DEF SentInv
<1> QED
    BY <1>1, <1>2, <1>3, InvariantHolds, PTL DEF Spec

-----------------------------------------------------------------------------
(* The entries of the table.                                               *)

\* A step that opens no entry and closes none.
Seated == \A i \in Slot : clients'[i].fd = clients[i].fd

\* register_client writes the id and the address, not the descriptor.
LEMMA NamesSeated == ASSUME IInv, register_client_names PROVE Seated
<1>1. clients' = [clients EXCEPT ![oslot].client_id = id[conn[ofd]],
                                 ![oslot].addr = fd_addr_get]
    BY DEF register_client_names
<1> QED
    BY <1>1 DEF Seated, IInv, TypeInv, TableType, Entry

\* A client that is registered takes a free entry, if there is one.
LEMMA ConnectTakes ==
    ASSUME Inv, NEW fd \in Fd, Connect(fd)
    PROVE  /\ opc = "poll" /\ fd # 0 /\ conn[fd] # 0 /\ role[conn[fd]] = "open"
           /\ \A g \in Fd : conn[g] = conn[fd] => g = fd
           /\ UNCHANGED <<conn, client_count, ocount, apc, struck, turned>>
           /\ \/ /\ clients' = clients /\ opc' = "poll"
                 /\ \A d \in Conn : role'[d] = IF d = conn[fd] THEN "outside" ELSE role[d]
              \/ \E n \in Slot :
                    /\ clients[n].fd = 0 /\ clients'[n].fd = fd
                    /\ \A i \in Slot : i # n => clients'[i] = clients[i]
                    /\ opc' = "naming" /\ oslot' = n /\ ofd' = fd
                    /\ \A d \in Conn : role'[d] = IF d = conn[fd] THEN "member" ELSE role[d]
<1> USE DEF Inv
<1>1. PICK c : c = conn[fd]
    OBVIOUS
<1>2. /\ opc = "poll" /\ fd \in ofds /\ role[c] = "open"
      /\ UNCHANGED <<conn, client_count, ocount, apc, struck, turned>>
    BY <1>1 DEF Connect, adminVars, workVars
<1>3. fd # 0 /\ c \in Conn /\ c # 0 /\ \A g \in Fd : conn[g] = c => g = fd
    <2>1. c # 0
        BY <1>1, <1>2 DEF IInv, KernelInv, Closing, Removing
    <2>2. fd # 0
        BY Bounds DEF Fd
    <2> QED
        BY <1>1, <2>1, <2>2, ConnOf DEF IInv, KernelInv
<1>4. ASSUME NEW what \in {"member", "outside"}, role' = [role EXCEPT ![c] = what]
      PROVE  \A d \in Conn : role'[d] = IF d = c THEN what ELSE role[d]
    BY <1>4 DEF IInv, TypeInv, KernelType
<1>5. CASE client_of_fd(0) = 0
    <2>1. role' = [role EXCEPT ![c] = "outside"] /\ UNCHANGED <<clients, opc>>
        BY <1>1, <1>5 DEF Connect
    <2>2. \A d \in Conn : role'[d] = IF d = c THEN "outside" ELSE role[d]
        BY <1>4, <2>1
    <2> QED
        BY <1>1, <1>2, <1>3, <2>1, <2>2
<1>6. CASE client_of_fd(0) # 0
    <2>1. PICK n : n = client_of_fd(0)
        OBVIOUS
    <2>2. n \in Slot /\ clients[n].fd = 0
        BY <1>6, <2>1, ClientOfFd
    <2>3. /\ role' = [role EXCEPT ![c] = "member"] /\ opc' = "naming"
          /\ clients' = [clients EXCEPT ![n].fd = fd, ![n].by = c]
          /\ oslot' = n /\ ofd' = fd
        BY <1>1, <1>6, <2>1 DEF Connect
    <2>4. \A d \in Conn : role'[d] = IF d = c THEN "member" ELSE role[d]
        BY <1>4, <2>3
    <2>5. clients'[n].fd = fd /\ \A i \in Slot : i # n => clients'[i] = clients[i]
        <3>1. clients[n] \in Entry /\ clients \in [Slot -> Entry]
            BY <2>2 DEF IInv, TypeInv, TableType
        <3>2. fd \in 0..Descriptors /\ c \in 0..MaxConns
            BY <1>3, Bounds DEF Fd, Conn
        <3>3. Rewritten(clients[n], fd, c).fd = fd
            BY <3>1, <3>2, EntryRewritten
        <3>4. clients' = [clients EXCEPT ![n] = Rewritten(clients[n], fd, c)]
            BY <2>2, <2>3, <3>1 DEF Rewritten
        <3> QED
            BY <2>2, <3>1, <3>3, <3>4
    <2> QED
        BY <1>1, <1>2, <1>3, <2>2, <2>3, <2>4, <2>5
<1> QED
    BY <1>5, <1>6

\* The ordinary thread clears the entry of the descriptor that it closed.
LEMMA OrdinaryClears ==
    ASSUME Inv, OrdinaryRemoves
    PROVE  /\ opc = "found" /\ opc' = "test" /\ oslot \in Slot
           /\ ofd \in Fd /\ clients[oslot].fd \in {0, ofd} /\ clients'[oslot].fd = 0
           /\ conn[ofd] = 0 \/ role[conn[ofd]] = "admin"
           /\ \A i \in Slot : i # oslot => clients'[i] = clients[i]
           /\ UNCHANGED <<conn, role, client_count, ocount, apc, struck, turned>>
<1> USE DEF Inv, IInv, TypeInv
<1>1. PICK n : n = oslot
    OBVIOUS
<1>2. /\ opc = "found" /\ opc' = "test" /\ clients' = cleared(n)
      /\ UNCHANGED <<kernelVars, ocount, client_count, adminVars, workVars>>
    BY <1>1 DEF OrdinaryRemoves
<1>3. ofd \in ofds /\ ofd \in Fd /\ n \in Slot /\ clients[n].fd \in {0, ofd}
    BY <1>1, <1>2 DEF OrdinaryInv, OrdinaryType, Removing
<1>4. clients'[n].fd = 0 /\ \A i \in Slot : i # n => clients'[i] = clients[i]
    BY <1>2, <1>3, ClientRemoved
<1>5. conn[ofd] = 0 \/ role[conn[ofd]] = "admin"
    BY <1>2, <1>3 DEF KernelInv, Closing, Removing
<1> QED
    BY <1>1, <1>2, <1>3, <1>4, <1>5 DEF kernelVars, adminVars, workVars

\* A client that is in the table is known by its id.
LEMMA MemberIsRegistered ==
    ASSUME Inv, ServedInv, opc = "poll", NEW fd \in Fd, NEW c,
           c = conn[fd], c # 0, role[c] = "member", c \notin struck
    PROVE  is_registered_client(id[c])
<1> USE DEF Inv
<1>1. PICK i \in Slot : clients[i].fd = fd
    BY DEF ServedInv
<1>2. fd > 0 /\ fd # 0
    BY Bounds DEF Fd
<1>3. clients[i].by = c /\ clients[i].client_id = id[c]
    BY <1>1, <1>2 DEF IInv, TableInv
<1> DEFINE S == {k \in Slot : clients[k].client_id = id[c] /\ clients[k].fd > 0}
<1>4. i \in S
    BY <1>1, <1>2, <1>3
<1>5. First(S) \in S
    <2>1. S \subseteq Nat
        BY Bounds DEF Slot
    <2> HIDE DEF S
    <2> QED
        BY <1>4, <2>1, FirstIs
<1>6. First(S) # 0
    <2>1. \A k \in S : k # 0
        BY Bounds DEF Slot
    <2> HIDE DEF S
    <2> QED
        BY <1>5, <2>1
<1> QED
    BY <1>6 DEF is_registered_client, client_of_id

-----------------------------------------------------------------------------
(* The members keep their entries.                                         *)

\* A step that makes no member, opens no member's descriptor and clears no entry.
LEMMA ServedKept ==
    ASSUME Inv, ServedInv, Seated, struck \subseteq struck', turned' = turned,
           \A fd \in Fd : conn'[fd] # 0 /\ role'[conn'[fd]] = "member" =>
               conn'[fd] = conn[fd] /\ role[conn[fd]] = "member",
           \A c \in Conn : role[c] \in {"member", "outside"} => role'[c] = role[c]
    PROVE  ServedInv'
<1>1. \A fd \in Fd : conn'[fd] # 0 /\ role'[conn'[fd]] = "member" /\ conn'[fd] \notin struck' =>
        \E i \in Slot : clients'[i].fd = fd
    <2> SUFFICES ASSUME NEW fd \in Fd, conn'[fd] # 0, role'[conn'[fd]] = "member",
                        conn'[fd] \notin struck'
                 PROVE  \E i \in Slot : clients'[i].fd = fd
        OBVIOUS
    <2>1. conn[fd] # 0 /\ role[conn[fd]] = "member" /\ conn[fd] \notin struck
        OBVIOUS
    <2>2. PICK i \in Slot : clients[i].fd = fd
        BY <2>1 DEF ServedInv
    <2> QED
        BY <2>2 DEF Seated
<1>2. \A c \in turned' : role'[c] = "outside" \/ (role'[c] = "member" /\ c \in struck')
    BY DEF ServedInv, Inv, IInv, TypeInv, WorkType
<1> QED
    BY <1>1, <1>2 DEF ServedInv

\* A descriptor that is accepted is no member's yet.
LEMMA AcceptServed ==
    ASSUME Inv, ServedInv,
           accept_client \/ accept_client_refused \/ accept_admin \/ accept_admin_refused
    PROVE  ServedInv'
<1>1. PICK what \in {"open", "refused", "admin"} :
        \E fd \in Fd, c \in Conn :
            Accept(fd, c, what) /\ (conn' = conn \/ conn' = [conn EXCEPT ![fd] = c])
    BY DEF accept_client, accept_client_refused, accept_admin, accept_admin_refused
<1>2. PICK fd \in Fd, c \in Conn :
        Accept(fd, c, what) /\ (conn' = conn \/ conn' = [conn EXCEPT ![fd] = c])
    BY <1>1
<1>3. /\ conn[fd] = 0 /\ role[c] = "none"
      /\ \A d \in Conn : role'[d] = IF d = c THEN what ELSE role[d]
      /\ \A g \in Fd : conn[g] # c
    BY <1>2, AcceptIs DEF Role, Inv
<1>4. UNCHANGED <<clients, turned, struck>>
    BY DEF accept_client, accept_client_refused, accept_admin, accept_admin_refused,
           tableVars, adminVars, removingVars, workVars
<1>5. \A g \in Fd : conn'[g] # 0 /\ role'[conn'[g]] = "member" =>
        conn'[g] = conn[g] /\ role[conn[g]] = "member"
    <2> SUFFICES ASSUME NEW g \in Fd, conn'[g] # 0, role'[conn'[g]] = "member"
                 PROVE  conn'[g] = conn[g] /\ role[conn[g]] = "member"
        OBVIOUS
    <2>1. conn'[g] = conn[g] \/ (g = fd /\ conn'[g] = c)
        BY <1>2 DEF Inv, IInv, TypeInv, KernelType
    <2>2. role'[c] = what /\ what # "member"
        BY <1>3
    <2>3. conn'[g] = conn[g] /\ conn[g] # 0
        BY <2>1, <2>2
    <2>4. conn[g] \in Conn /\ conn[g] # c
        BY <1>3, <2>3, ConnOf DEF Inv
    <2> QED
        BY <1>3, <2>3, <2>4
<1>6. Seated
    BY <1>4 DEF Seated
<1> QED
    BY <1>3, <1>4, <1>5, <1>6, ServedKept

\* A client that is registered has its entry.
LEMMA ConnectServed == ASSUME Inv, ServedInv, NEW fd \in Fd, Connect(fd) PROVE ServedInv'
<1>1. PICK c : c = conn[fd]
    OBVIOUS
<1>2. /\ fd # 0 /\ c # 0 /\ c \in Conn /\ role[c] = "open"
      /\ \A g \in Fd : conn[g] = c => g = fd
      /\ UNCHANGED <<conn, struck, turned>>
    BY <1>1, ConnectTakes, ConnOf DEF Inv
<1>3. \A g \in Fd : conn[g] # 0 => conn[g] \in Conn
    BY ConnOf DEF Inv
<1>4. CASE clients' = clients /\ \A d \in Conn : role'[d] = IF d = c THEN "outside" ELSE role[d]
    <2>1. Seated
        BY <1>4 DEF Seated
    <2> QED
        BY <1>2, <1>3, <1>4, <2>1, ServedKept
<1>5. ASSUME NEW n \in Slot, clients[n].fd = 0, clients'[n].fd = fd,
             \A i \in Slot : i # n => clients'[i] = clients[i],
             \A d \in Conn : role'[d] = IF d = c THEN "member" ELSE role[d]
      PROVE  ServedInv'
    <2>1. \A g \in Fd : conn[g] # 0 /\ role'[conn[g]] = "member" /\ conn[g] \notin struck =>
            \E i \in Slot : clients'[i].fd = g
        <3> SUFFICES ASSUME NEW g \in Fd, conn[g] # 0, role'[conn[g]] = "member",
                            conn[g] \notin struck, g # fd
                     PROVE  \E i \in Slot : clients'[i].fd = g
            BY <1>5
        <3>1. role[conn[g]] = "member"
            BY <1>2, <1>3, <1>5
        <3>2. PICK i \in Slot : clients[i].fd = g
            BY <3>1 DEF ServedInv
        <3>3. g # 0
            BY Bounds DEF Fd
        <3> QED
            BY <1>5, <3>2, <3>3
    <2>2. \A d \in turned : role'[d] = "outside" \/ (role'[d] = "member" /\ d \in struck)
        BY <1>2, <1>5 DEF ServedInv, Inv, IInv, TypeInv, WorkType
    <2> QED
        BY <1>2, <2>1, <2>2 DEF ServedInv
<1> QED
    BY <1>1, <1>4, <1>5, ConnectTakes

\* A request is refused only to a client that has no entry.
LEMMA SubmitServed == ASSUME Inv, ServedInv, NEW fd \in Fd, Submit(fd) PROVE ServedInv'
<1>1. PICK c : c = conn[fd]
    OBVIOUS
<1>2. /\ opc = "poll" /\ fd \in ofds /\ id[c] > 0
      /\ UNCHANGED <<conn, role, clients, struck>>
      /\ turned' = turned \/ (turned' = turned \union {c} /\ ~is_registered_client(id[c]))
    BY <1>1 DEF Submit, kernelVars, tableVars, adminVars
<1>3. c # 0 /\ c \in Conn
    BY <1>1, <1>2, ConnOf DEF Inv, IInv, KernelInv, Closing, Removing
<1>4. role[c] \in {"member", "outside"}
    <2>1. ~(0 > 0)
        OBVIOUS
    <2>2. id[c] # 0
        BY <1>2, <2>1, Zenon
    <2> QED
        BY <1>3, <2>2, NamedRole DEF Inv
<1>5. turned' # turned /\ role[c] = "member" => c \in struck
    BY <1>1, <1>2, <1>3, MemberIsRegistered
<1>6. \A d \in turned' : role[d] = "outside" \/ (role[d] = "member" /\ d \in struck)
    BY <1>2, <1>4, <1>5 DEF ServedInv
<1> QED
    BY <1>2, <1>6 DEF ServedInv

\* The removals clear the entry of a closed descriptor, or of a client that is struck.
LEMMA RemovesServed ==
    ASSUME Inv, ServedInv, OrdinaryRemoves \/ AdminRemoves PROVE ServedInv'
<1> USE DEF Inv
<1>1. ASSUME NEW n \in Slot, NEW f, clients[n].fd \in {0, f},
             \A i \in Slot : i # n => clients'[i] = clients[i],
             \/ f \notin Fd \/ conn[f] = 0 \/ role[conn[f]] # "member" \/ conn[f] \in struck',
             UNCHANGED <<conn, role, turned>>, struck \subseteq struck'
      PROVE  ServedInv'
    <2>1. \A g \in Fd : conn[g] # 0 /\ role[conn[g]] = "member" /\ conn[g] \notin struck' =>
            \E i \in Slot : clients'[i].fd = g
        <3> SUFFICES ASSUME NEW g \in Fd, conn[g] # 0, role[conn[g]] = "member",
                            conn[g] \notin struck'
                     PROVE  \E i \in Slot : clients'[i].fd = g
            OBVIOUS
        <3>1. PICK i \in Slot : clients[i].fd = g
            BY <1>1 DEF ServedInv
        <3>2. g # f /\ g # 0
            BY <1>1, Bounds DEF Fd
        <3> QED
            BY <1>1, <3>1, <3>2
    <2>2. \A d \in turned : role[d] = "outside" \/ (role[d] = "member" /\ d \in struck')
        BY <1>1 DEF ServedInv
    <2> QED
        BY <1>1, <2>1, <2>2 DEF ServedInv
<1>2. CASE OrdinaryRemoves
    <2>1. PICK n, f : n = oslot /\ f = ofd
        OBVIOUS
    <2>2. /\ n \in Slot /\ clients[n].fd \in {0, f} /\ (conn[f] = 0 \/ role[conn[f]] = "admin")
          /\ \A i \in Slot : i # n => clients'[i] = clients[i]
          /\ UNCHANGED <<conn, role, struck, turned>>
        BY <1>2, <2>1, OrdinaryClears
    <2> QED
        BY <1>1, <2>2
<1>3. CASE AdminRemoves
    <2>1. PICK n, f, b : n = aslot /\ f = clients[n].fd /\ b = clients[n].by
        OBVIOUS
    <2>2. /\ n \in Slot /\ clients' = cleared(n) /\ struck' = struck \union ({b} \ {0})
          /\ UNCHANGED <<conn, role, turned>>
        BY <1>3, <2>1 DEF AdminRemoves, IInv, AdminInv, kernelVars, workVars
    <2>3. \A i \in Slot : i # n => clients'[i] = clients[i]
        BY <2>2, ClientRemoved
    <2>4. \/ f \notin Fd \/ conn[f] = 0 \/ role[conn[f]] # "member" \/ conn[f] \in struck'
        <3> SUFFICES ASSUME f \in Fd, conn[f] # 0, role[conn[f]] = "member"
                     PROVE  conn[f] \in struck'
            OBVIOUS
        <3>1. f # 0 /\ ~Closing(f)
            BY Bounds DEF IInv, KernelInv, Fd
        <3>2. conn[f] = b /\ b \in Conn
            BY <2>1, <2>2, <3>1 DEF IInv, TableInv, Closing, Removing
        <3>3. b # 0
            BY <3>2, Bounds DEF Conn
        <3> QED
            BY <2>2, <3>2, <3>3
    <2> QED
        BY <1>1, <2>1, <2>2, <2>3, <2>4
<1> QED
    BY <1>2, <1>3

\* The other steps clear no entry, and register and turn away nobody.
LEMMA OthersServed ==
    ASSUME Inv, ServedInv,
           \/ (OrdinarySteps /\ ~OrdinaryRemoves) \/ \E fd \in Fd : HangUp(fd)
           \/ (\E n \in 1..MaxConns : AdminDisconnect(n)) \/ (\E a \in Addrs : block_addr(a))
           \/ AdminEnds \/ AdminTimeout \/ (AdminSteps /\ ~AdminRemoves)
           \/ WorkerTakes \/ WorkerAnswers \/ \E c \in Conn : PeerLeaves(c)
    PROVE  ServedInv'
<1>1. UNCHANGED <<role, turned>> /\ struck \subseteq struck'
    BY DEF OrdinarySteps, register_client_names, register_client_loads, register_client_counts,
           OrdinaryFinds, OrdinaryTests, OrdinaryLoads, OrdinaryStores, OrdinaryForgets, HangUp,
           AdminDisconnect, block_addr, AdminEnds, AdminTimeout, AdminCloses, AdminSteps,
           AdminShutdown, AdminFinds, AdminTests, AdminLoads, AdminStores, AdminForgets,
           WorkerTakes, WorkerAnswers, PeerLeaves, kernelVars, adminVars, removingVars, workVars
<1>2. Seated
    <2>1. CASE register_client_names
        BY <2>1, NamesSeated DEF Inv
    <2>2. CASE ~register_client_names
        <3>1. clients' = clients
            BY <2>2
            DEF OrdinarySteps, register_client_loads, register_client_counts, OrdinaryFinds,
                OrdinaryTests, OrdinaryLoads, OrdinaryStores, OrdinaryForgets, HangUp,
                AdminDisconnect, block_addr, AdminEnds, AdminTimeout, AdminCloses, AdminSteps,
                AdminShutdown, AdminFinds, AdminTests, AdminLoads, AdminStores, AdminForgets,
                WorkerTakes, WorkerAnswers, PeerLeaves, tableVars
        <3> QED
            BY <3>1 DEF Seated
    <2> QED
        BY <2>1, <2>2
<1>3. \A fd \in Fd : conn'[fd] # 0 => conn'[fd] = conn[fd]
    <2>1. CASE \/ \E fd \in Fd : HangUp(fd)
               \/ AdminEnds \/ AdminTimeout
        <3>1. \E fd : conn' = [conn EXCEPT ![fd] = 0]
            BY <2>1 DEF HangUp, AdminEnds, AdminTimeout, AdminCloses, close
        <3>2. PICK fd : conn' = [conn EXCEPT ![fd] = 0]
            BY <3>1
        <3> QED
            BY <3>2 DEF Inv, IInv, TypeInv, KernelType
    <2>2. CASE UNCHANGED conn
        BY <2>2
    <2> QED
        BY <2>1, <2>2
        DEF OrdinarySteps, register_client_names, register_client_loads, register_client_counts,
            OrdinaryFinds, OrdinaryTests, OrdinaryLoads, OrdinaryStores, OrdinaryForgets,
            AdminDisconnect, block_addr, AdminSteps, AdminShutdown, AdminFinds, AdminTests,
            AdminLoads, AdminStores, AdminForgets, WorkerTakes, WorkerAnswers, PeerLeaves,
            kernelVars
<1> QED
    BY <1>1, <1>2, <1>3, ServedKept

\* A client that was registered is told to CONNECT first only after the admin
\* thread's remove_pollfd found or cleared its entry (server.c:610-611, 945).
THEOREM MembersAreServed == Spec => []MembersServedUnlessStruck
<1>1. Init => ServedInv
    BY DEF Init, ServedInv
<1>2. Inv /\ ServedInv /\ [Next]_vars => ServedInv'
    <2> SUFFICES ASSUME Inv, ServedInv, [Next]_vars PROVE ServedInv'
        OBVIOUS
    <2>1. CASE Next
        <3>1. CASE \/ accept_client \/ accept_client_refused
                   \/ accept_admin \/ accept_admin_refused
            BY <3>1, AcceptServed
        <3>2. CASE \/ \E fd \in Fd : Connect(fd) \/ Submit(fd)
                   \/ OrdinaryRemoves \/ AdminRemoves
            BY <3>2, ConnectServed, SubmitServed, RemovesServed
        <3>3. CASE \/ (OrdinarySteps /\ ~OrdinaryRemoves) \/ \E fd \in Fd : HangUp(fd)
                   \/ (\E n \in 1..MaxConns : AdminDisconnect(n))
                   \/ (\E a \in Addrs : block_addr(a))
                   \/ AdminEnds \/ AdminTimeout \/ (AdminSteps /\ ~AdminRemoves)
                   \/ WorkerTakes \/ WorkerAnswers \/ \E c \in Conn : PeerLeaves(c)
            BY <3>3, OthersServed
        <3> QED
            BY <2>1, <3>1, <3>2, <3>3 DEF Next
    <2>2. CASE UNCHANGED vars
        <3>1. UNCHANGED <<conn, role, clients, turned, struck>>
            BY <2>2 DEF vars, kernelVars, tableVars, adminVars, workVars
        <3> QED
            BY <3>1 DEF ServedInv
    <2> QED
        BY <2>1, <2>2
<1>3. ServedInv => MembersServedUnlessStruck
    BY DEF ServedInv, MembersServedUnlessStruck
<1> QED
    BY <1>1, <1>2, <1>3, InvariantHolds, PTL DEF Spec

-----------------------------------------------------------------------------
(* The count of the entries.                                               *)

\* The client table is finite, and so are its used entries.
LEMMA EntriesFinite == IsFiniteSet(Entries) /\ Cardinality(Entries) \in Nat
<1>1. 1 \in Int /\ MAX_CLIENTS \in Int
    BY Bounds
<1>2. IsFiniteSet(Slot)
    BY <1>1, FS_Interval DEF Slot
<1>3. Entries \in SUBSET Slot
    BY DEF Entries
<1> QED
    BY <1>2, <1>3, FS_Subset, FS_CardinalityType

\* A step that leaves the entries and the counter alone, and begins no removal.
Uncounting ==
    /\ Seated /\ UNCHANGED client_count /\ struck \subseteq struck'
    /\ Pending' = Pending /\ Uncounted' = Uncounted
    /\ struck' = {} => apc' \in {apc, "poll", "disconnect", "closed", "unaddr"}
    /\ opc' \in {"counted", "store"} => opc' = opc /\ ocount' = ocount
    /\ opc' \in {"naming", "found"} =>
         \/ UNCHANGED <<opc, oslot, ofd>> /\ oslot \in Slot
         \/ clients'[oslot'].fd = ofd'

\* Such a step keeps the count.
LEMMA ExactKept == ASSUME ExactInv, Uncounting PROVE ExactInv'
<1> SUFFICES ASSUME struck' = {}
             PROVE  /\ apc' \in {"poll", "disconnect", "closed", "unaddr"}
                    /\ client_count' + Pending' = Cardinality(Entries') + Uncounted'
                    /\ opc' \in {"counted", "store"} => ocount' = client_count'
                    /\ opc' \in {"naming", "found"} => clients'[oslot'].fd = ofd'
    BY DEF ExactInv
<1>1. struck = {} /\ Entries' = Entries
    BY DEF Uncounting, Seated, Entries
<1>2. /\ apc \in {"poll", "disconnect", "closed", "unaddr"}
      /\ client_count + Pending = Cardinality(Entries) + Uncounted
      /\ opc \in {"counted", "store"} => ocount = client_count
      /\ opc \in {"naming", "found"} => clients[oslot].fd = ofd
    BY <1>1 DEF ExactInv
<1>3. client_count' + Pending' = Cardinality(Entries') + Uncounted'
    BY <1>1, <1>2, Zenon DEF Uncounting
<1>4. opc' \in {"naming", "found"} => clients'[oslot'].fd = ofd'
    BY <1>2 DEF Uncounting, Seated
<1> QED
    BY <1>2, <1>3, <1>4 DEF Uncounting

\* Naming a client takes an entry that is still to be counted.
LEMMA ConnectExact == ASSUME Inv, ExactInv, NEW fd \in Fd, Connect(fd) PROVE ExactInv'
<1>1. /\ opc = "poll" /\ fd # 0
      /\ UNCHANGED <<client_count, ocount, apc, struck>>
    BY ConnectTakes
<1>2. CASE clients' = clients /\ opc' = "poll"
    <2>1. Uncounting
        BY <1>1, <1>2 DEF Uncounting, Seated, Pending, Uncounted
    <2> QED
        BY <2>1, ExactKept
<1>3. ASSUME NEW n \in Slot, clients[n].fd = 0, clients'[n].fd = fd,
             \A i \in Slot : i # n => clients'[i] = clients[i],
             opc' = "naming", oslot' = n, ofd' = fd
      PROVE  ExactInv'
    <2> SUFFICES ASSUME struck = {}
                 PROVE  /\ apc \in {"poll", "disconnect", "closed", "unaddr"}
                        /\ client_count' + Pending' = Cardinality(Entries') + Uncounted'
        BY <1>1, <1>3 DEF ExactInv
    <2>1. Entries' = Entries \union {n} /\ n \notin Entries
        BY <1>1, <1>3 DEF Entries
    <2>2. PICK k, m, e : k = client_count /\ m = Cardinality(Entries) /\ e = Cardinality(Entries')
        OBVIOUS
    <2>3. e = m + 1 /\ m \in Nat
        BY <2>1, <2>2, EntriesFinite, FS_AddElement
    <2>4. k + 0 = m + 0 /\ k \in Int /\ apc \in {"poll", "disconnect", "closed", "unaddr"}
        BY <1>1, <2>2 DEF ExactInv, Pending, Uncounted, Inv, HighInv
    <2>5. k + 1 = e + 0
        BY <2>3, <2>4
    <2>6. Pending' = 1 /\ Uncounted' = 0 /\ client_count' = k
        BY <1>1, <1>3, <2>2 DEF Pending, Uncounted
    <2> QED
        BY <2>2, <2>4, <2>5, <2>6, Zenon
<1> QED
    BY <1>2, <1>3, ConnectTakes

\* Clearing an entry leaves one to be taken off the counter.
LEMMA RemovesExact == ASSUME Inv, ExactInv, OrdinaryRemoves PROVE ExactInv'
<1>1. /\ opc = "found" /\ opc' = "test" /\ oslot \in Slot /\ ofd \in Fd
      /\ clients'[oslot].fd = 0
      /\ \A i \in Slot : i # oslot => clients'[i] = clients[i]
      /\ UNCHANGED <<client_count, ocount, apc, struck>>
    BY OrdinaryClears
<1> SUFFICES ASSUME struck = {}
             PROVE  /\ apc \in {"poll", "disconnect", "closed", "unaddr"}
                    /\ client_count' + Pending' = Cardinality(Entries') + Uncounted'
    BY <1>1 DEF ExactInv
<1>2. clients[oslot].fd = ofd /\ ofd # 0
    BY <1>1, Bounds DEF ExactInv, Fd
<1>3. Entries' = Entries \ {oslot} /\ oslot \in Entries
    BY <1>1, <1>2 DEF Entries
<1>4. PICK k, m, e : k = client_count /\ m = Cardinality(Entries) /\ e = Cardinality(Entries')
    OBVIOUS
<1>5. e = m - 1 /\ m \in Nat
    BY <1>3, <1>4, EntriesFinite, FS_RemoveElement
<1>6. k + 0 = m + 0 /\ k \in Int /\ apc \in {"poll", "disconnect", "closed", "unaddr"}
    BY <1>1, <1>4 DEF ExactInv, Pending, Uncounted, Inv, HighInv
<1>7. k + 0 = e + 1
    BY <1>5, <1>6
<1>8. Pending' = 0 /\ Uncounted' = 1 /\ client_count' = k
    BY <1>1, <1>4 DEF Pending, Uncounted
<1> QED
    BY <1>4, <1>6, <1>7, <1>8, Zenon

\* The ordinary thread's steps on the counter, while the admin thread makes none.
LEMMA CountsExact ==
    ASSUME Inv, ExactInv,
           \/ register_client_loads \/ register_client_counts
           \/ OrdinaryTests \/ OrdinaryLoads \/ OrdinaryStores
    PROVE  ExactInv'
<1>1. UNCHANGED <<clients, apc, struck>>
    BY DEF register_client_loads, register_client_counts, OrdinaryTests, OrdinaryLoads,
           OrdinaryStores, tableVars, adminVars
<1> SUFFICES ASSUME struck = {}
             PROVE  /\ client_count' + Pending' = Cardinality(Entries') + Uncounted'
                    /\ opc' \in {"counted", "store"} => ocount' = client_count'
                    /\ opc' \notin {"naming", "found"}
    BY <1>1 DEF ExactInv
<1>2. PICK k, m : k = client_count /\ m = Cardinality(Entries)
    OBVIOUS
<1>3. Entries' = Entries /\ k \in Int /\ m \in Nat
    BY <1>1, <1>2, EntriesFinite DEF Entries, Inv, HighInv
<1>4. Cardinality(Entries') = m
    BY <1>2, <1>3
<1>5. /\ k + Pending = m + Uncounted
      /\ opc \in {"counted", "store"} => ocount = k
    BY <1>2 DEF ExactInv
<1> SUFFICES /\ client_count' + Pending' = m + Uncounted'
             /\ opc' \in {"counted", "store"} => ocount' = client_count'
             /\ opc' \notin {"naming", "found"}
    BY <1>4
<1>6. CASE register_client_loads
    <2>1. opc = "count" /\ opc' = "counted" /\ ocount' = k /\ client_count' = k
        BY <1>2, <1>6 DEF register_client_loads, tableVars
    <2> QED
        BY <1>3, <1>5, <2>1 DEF Pending, Uncounted
<1>7. CASE register_client_counts
    <2>1. opc = "counted" /\ opc' = "poll" /\ client_count' = k + 1
        BY <1>5, <1>7 DEF register_client_counts
    <2> QED
        BY <1>3, <1>5, <2>1 DEF Pending, Uncounted
<1>8. CASE OrdinaryTests
    <2>1. opc = "test" /\ opc' = (IF k > 0 THEN "load" ELSE "unaddr") /\ client_count' = k
        BY <1>2, <1>8 DEF OrdinaryTests, after_test, counting, tableVars
    <2>2. k + 0 = m + 1
        BY <1>5, <2>1 DEF Pending, Uncounted
    <2>3. k > 0 /\ k + 0 = m + 1
        BY <1>3, <2>2
    <2>4. opc' = "load"
        BY <2>1, <2>3
    <2> QED
        BY <2>1, <2>3, <2>4 DEF Pending, Uncounted
<1>9. CASE OrdinaryLoads
    <2>1. opc = "load" /\ opc' = "store" /\ ocount' = k /\ client_count' = k
        BY <1>2, <1>9 DEF OrdinaryLoads, tableVars
    <2> QED
        BY <1>3, <1>5, <2>1 DEF Pending, Uncounted
<1>10. CASE OrdinaryStores
    <2>1. opc = "store" /\ opc' = "unaddr" /\ client_count' = k - 1
        BY <1>5, <1>10 DEF OrdinaryStores, decremented
    <2> QED
        BY <1>3, <1>5, <2>1 DEF Pending, Uncounted
<1> QED
    BY <1>6, <1>7, <1>8, <1>9, <1>10

\* The ordinary thread's other steps.
LEMMA OrdinaryExact ==
    ASSUME Inv, ExactInv,
           \/ register_client_names \/ OrdinaryFinds \/ OrdinaryForgets
           \/ \E fd \in Fd : HangUp(fd)
    PROVE  ExactInv'
<1>1. UNCHANGED <<client_count, apc, struck>>
    BY DEF register_client_names, OrdinaryFinds, OrdinaryForgets, HangUp, tableVars, adminVars
<1>2. CASE register_client_names
    <2>1. opc = "naming" /\ opc' = "count" /\ Seated
        BY <1>2, NamesSeated DEF register_client_names, Inv
    <2>2. Uncounting
        BY <1>1, <2>1 DEF Uncounting, Pending, Uncounted
    <2> QED
        BY <2>2, ExactKept
<1>3. CASE OrdinaryFinds
    <2>1. PICK n : n = client_of_fd(ofd)
        OBVIOUS
    <2>2. /\ opc = "closed" /\ oslot' = n /\ clients' = clients /\ ofd' = ofd
          /\ (n = 0 /\ opc' = "unaddr") \/ (n # 0 /\ opc' = "found")
        BY <1>3, <2>1 DEF OrdinaryFinds, after_find, tableVars
    <2>3. n # 0 => clients[n].fd = ofd
        BY <2>1, ClientOfFd
    <2>4. Uncounting
        BY <1>1, <2>2, <2>3 DEF Uncounting, Seated, Pending, Uncounted
    <2> QED
        BY <2>4, ExactKept
<1>4. CASE OrdinaryForgets \/ \E fd \in Fd : HangUp(fd)
    <2>1. /\ clients' = clients
          /\ {opc, opc'} \subseteq {"poll", "closed", "unaddr"}
        BY <1>4 DEF OrdinaryForgets, HangUp, tableVars
    <2>2. Uncounting
        BY <1>1, <2>1 DEF Uncounting, Seated, Pending, Uncounted
    <2> QED
        BY <2>2, ExactKept
<1> QED
    BY <1>2, <1>3, <1>4

\* The steps of the others: as long as the admin's removals have matched no entry,
\* they go from the search straight to the address table.
LEMMA OthersExact ==
    ASSUME Inv, ExactInv,
           \/ accept_client \/ accept_client_refused \/ accept_admin \/ accept_admin_refused
           \/ \E fd \in Fd : Submit(fd)
           \/ (\E n \in 1..MaxConns : AdminDisconnect(n)) \/ (\E a \in Addrs : block_addr(a))
           \/ AdminEnds \/ AdminTimeout \/ AdminSteps
           \/ WorkerTakes \/ WorkerAnswers \/ \E c \in Conn : PeerLeaves(c)
    PROVE  ExactInv'
<1> SUFFICES ASSUME struck' = {} PROVE ExactInv'
    BY DEF ExactInv
<1>1. UNCHANGED <<opc, oslot, ofd, ocount>> /\ struck = {}
    BY DEF accept_client, accept_client_refused, accept_admin, accept_admin_refused, Submit,
           AdminDisconnect, block_addr, AdminEnds, AdminTimeout, AdminCloses, AdminSteps,
           AdminShutdown, AdminFinds, AdminRemoves, AdminTests, AdminLoads, AdminStores,
           AdminForgets, WorkerTakes, WorkerAnswers, PeerLeaves, ordinaryVars, adminVars,
           removingVars
<1>2. apc \in {"poll", "disconnect", "closed", "unaddr"}
    BY <1>1 DEF ExactInv
<1>3. UNCHANGED <<clients, client_count>>
    BY <1>2 DEF accept_client, accept_client_refused, accept_admin, accept_admin_refused, Submit,
           AdminDisconnect, block_addr, AdminEnds, AdminTimeout, AdminCloses, AdminSteps,
           AdminShutdown, AdminFinds, AdminRemoves, AdminTests, AdminLoads, AdminStores,
           AdminForgets, WorkerTakes, WorkerAnswers, PeerLeaves, tableVars
<1>4. apc' \in {"poll", "disconnect", "closed", "unaddr"}
    <2>1. CASE AdminFinds
        <3>1. PICK n : n = client_of_fd(atarget.fd)
            OBVIOUS
        <3>2. /\ aslot' = n /\ apc' = (IF n = 0 THEN "unaddr" ELSE "found")
              /\ struck' = struck \union {clients[i].by : i \in {n} \ {0}}
            BY <2>1, <3>1 DEF AdminFinds, after_find
        <3>3. n = 0
            BY <3>2
        <3> QED
            BY <3>2, <3>3
    <2>2. CASE ~AdminFinds
        BY <1>2, <2>2
        DEF accept_client, accept_client_refused, accept_admin, accept_admin_refused, Submit,
            AdminDisconnect, block_addr, AdminEnds, AdminTimeout, AdminCloses, AdminSteps,
            AdminShutdown, AdminRemoves, AdminTests, AdminLoads, AdminStores, AdminForgets,
            WorkerTakes, WorkerAnswers, PeerLeaves, adminVars
    <2> QED
        BY <2>1, <2>2
<1>5. opc \in {"naming", "found"} => oslot \in Slot
    BY DEF Inv, IInv, OrdinaryInv
<1>6. Uncounting
    BY <1>1, <1>3, <1>4, <1>5 DEF Uncounting, Seated, Pending, Uncounted
<1> QED
    BY <1>6, ExactKept

\* As long as no removal of the admin's descriptor has matched a client's entry, the
\* number of clients in the report is the number of entries listed below it
\* whenever the ordinary thread waits (model.c:1017, server.c:610-613, 970).
THEOREM CountIsExact == Spec => []ClientCountExact
<1>1. Init => ExactInv
    <2> SUFFICES ASSUME Init PROVE ExactInv
        OBVIOUS
    <2>1. apc = "poll" /\ opc = "poll" /\ client_count = 0
        BY DEF Init
    <2>2. \A i \in Slot : clients[i].fd = 0
        BY DEF Init, NoClient
    <2>3. Entries = {}
        BY <2>2 DEF Entries
    <2>4. Cardinality(Entries) = 0
        BY <2>3, FS_EmptySet
    <2> QED
        BY <2>1, <2>4 DEF ExactInv, Pending, Uncounted
<1>2. Inv /\ ExactInv /\ [Next]_vars => ExactInv'
    <2> SUFFICES ASSUME Inv, ExactInv, [Next]_vars PROVE ExactInv'
        OBVIOUS
    <2>1. CASE Next
        <3>1. CASE (\E fd \in Fd : Connect(fd)) \/ OrdinaryRemoves
            BY <3>1, ConnectExact, RemovesExact
        <3>2. CASE \/ register_client_loads \/ register_client_counts
                   \/ OrdinaryTests \/ OrdinaryLoads \/ OrdinaryStores
            BY <3>2, CountsExact
        <3>3. CASE \/ register_client_names \/ OrdinaryFinds \/ OrdinaryForgets
                   \/ \E fd \in Fd : HangUp(fd)
            BY <3>3, OrdinaryExact
        <3>4. CASE \/ accept_client \/ accept_client_refused
                   \/ accept_admin \/ accept_admin_refused
                   \/ \E fd \in Fd : Submit(fd)
                   \/ (\E n \in 1..MaxConns : AdminDisconnect(n))
                   \/ (\E a \in Addrs : block_addr(a))
                   \/ AdminEnds \/ AdminTimeout \/ AdminSteps
                   \/ WorkerTakes \/ WorkerAnswers \/ \E c \in Conn : PeerLeaves(c)
            BY <3>4, OthersExact
        <3> QED
            BY <2>1, <3>1, <3>2, <3>3, <3>4 DEF Next, OrdinarySteps
    <2>2. CASE UNCHANGED vars
        <3>1. UNCHANGED <<apc, opc, ofd, oslot, ocount, clients, client_count, struck>>
            BY <2>2 DEF vars, ordinaryVars, tableVars, adminVars
        <3>2. Entries' = Entries /\ Pending' = Pending /\ Uncounted' = Uncounted
            BY <3>1 DEF Entries, Pending, Uncounted
        <3> QED
            BY <3>1, <3>2 DEF ExactInv
    <2> QED
        BY <2>1, <2>2
<1>3. Inv /\ ExactInv => ClientCountExact
    <2> SUFFICES ASSUME Inv, ExactInv, struck = {}, opc = "poll"
                 PROVE  client_count = Cardinality({i \in Slot : clients[i].fd # 0})
        BY DEF ClientCountExact
    <2>1. PICK k, m : k = client_count /\ m = Cardinality(Entries)
        OBVIOUS
    <2>2. k \in Int /\ m \in Nat
        BY <2>1, EntriesFinite DEF Inv, HighInv
    <2>3. k + 0 = m + 0
        BY <2>1 DEF ExactInv, Pending, Uncounted
    <2>4. k = m
        BY <2>2, <2>3
    <2> QED
        BY <2>1, <2>4 DEF Entries
<1> QED
    BY <1>1, <1>2, <1>3, InvariantHolds, PTL DEF Spec

=============================================================================
