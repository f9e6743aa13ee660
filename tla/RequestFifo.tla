---------------------------- MODULE RequestFifo ----------------------------
(***************************************************************************)
(* What the request queue of server.c promises the rest of the server, with *)
(* no lock, no condition variable and no linked list: requests are served  *)
(* one at a time, in the order they were put, none twice, and once the     *)
(* server has been told to stop at most one more request is served.        *)
(*                                                                         *)
(* Requests are numbered in the order in which they are put.               *)
(***************************************************************************)
EXTENDS Naturals, Sequences

CONSTANT MaxRequests

VARIABLES
    pending,    \* the requests put and not yet taken, oldest first
    lastPut,    \* how many requests have been put
    serving,    \* the request being served, 0 when there is none
    served,     \* how many requests have been served
    worker,     \* "idle", "busy" or "gone"
    stopped     \* the server has been told to stop

vars == <<pending, lastPut, serving, served, worker, stopped>>

Init ==
    /\ pending = <<>>
    /\ lastPut = 0
    /\ serving = 0
    /\ served = 0
    /\ worker = "idle"
    /\ stopped = FALSE

Put ==
    /\ lastPut < MaxRequests
    /\ lastPut' = lastPut + 1
    /\ pending' = Append(pending, lastPut + 1)
    /\ UNCHANGED <<serving, served, worker, stopped>>

Take ==
    /\ worker = "idle"
    /\ pending # <<>>
    /\ worker' = "busy"
    /\ serving' = Head(pending)
    /\ pending' = Tail(pending)
    /\ UNCHANGED <<lastPut, served, stopped>>

\* The worker looks at the stop flag between two requests only.
Serve ==
    /\ worker = "busy"
    /\ served' = served + 1
    /\ serving' = 0
    /\ worker' = IF stopped THEN "gone" ELSE "idle"
    /\ UNCHANGED <<pending, lastPut, stopped>>

\* A worker that is between two requests may leave with the stop itself.
Stop ==
    /\ ~stopped
    /\ stopped' = TRUE
    /\ \/ worker' = worker
       \/ worker = "idle" /\ worker' = "gone"
    /\ UNCHANGED <<pending, lastPut, serving, served>>

Leave ==
    /\ stopped
    /\ worker = "idle"
    /\ worker' = "gone"
    /\ UNCHANGED <<pending, lastPut, serving, served, stopped>>

Next == Put \/ Take \/ Serve \/ Stop \/ Leave

Safe == Init /\ [][Next]_vars

Spec == Safe /\ WF_vars(Take \/ Leave) /\ WF_vars(Serve)
=============================================================================
