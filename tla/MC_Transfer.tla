---------------------------- MODULE MC_Transfer ----------------------------
(* The first client has two commands and may fail, the second has one; "er" *)
(* and "hr" are diagrams of two chunks and of one, "bad" is one of one chunk  *)
(* with a bad table.                                                        *)
EXTENDS Transfer

CONSTANTS c1, c2

MCMaxCommands == [c \in Clients |-> IF c = c1 THEN 2 ELSE 1]
MCCommands ==
    [c \in Clients |-> IF c = c1 THEN {"DOWNLOAD_SQL", "JOB_STATUS"} ELSE {"VALIDATE_INSERT"}]
MCMaxFaults == [c \in Clients |-> IF c = c1 THEN 1 ELSE 0]
MCLocal == [c \in Clients |-> IF c = c1 THEN Files \ {"hr"} ELSE {"hr"}]
MCChunks == [f \in Files |-> IF f = "er" THEN 2 ELSE 1]
=============================================================================
