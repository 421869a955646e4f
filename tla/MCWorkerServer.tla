--------------------------- MODULE MCWorkerServer ---------------------------
(***************************************************************************)
(* Small instances of WorkerServer.                                        *)
(***************************************************************************)
EXTENDS WorkerServer

CONSTANTS c1, c2

OneConn == {c1}
MCConns == {c1, c2}

Request(m, t, v, k) ==
    [method |-> m, target |-> t, version |-> v, connection |-> k]

GetKeep  == Request("GET", "file", "1.1", "absent")
GetClose == Request("GET", "file", "1.1", "close")
Put      == Request("OTHER", "file", "1.1", "absent")

KeepOrClose == {GetKeep, GetClose}
KeepOrPut   == {GetKeep, Put}
=============================================================================
