--------------------------- MODULE MCSingleServer ---------------------------
(***************************************************************************)
(* Small instances of SingleServer: two clients, two descriptors.          *)
(***************************************************************************)
EXTENDS SingleServer, TLC

CONSTANTS c1, c2

OneConn == {c1}
MCConns == {c1, c2}
Clones  == Permutations(MCConns)

Request(m, t, v, k) ==
    [method |-> m, target |-> t, version |-> v, connection |-> k]

GetKeep  == Request("GET", "file", "1.1", "absent")
GetClose == Request("GET", "file", "1.1", "close")
GetDir   == Request("GET", "directory", "1.1", "absent")
GetNone  == Request("GET", "missing", "1.1", "keep-alive")
HeadNone == Request("HEAD", "missing", "1.1", "absent")
Put      == Request("OTHER", "file", "1.1", "absent")
Keep10   == Request("GET", "file", "1.0", "keep-alive")
Get10    == Request("GET", "file", "1.0", "absent")

KeepOrClose == {GetKeep, GetClose}
Versions10  == {Keep10, Get10, GetClose, Put}
WithDir     == {GetKeep, GetClose, GetDir}
Mixed       == {GetClose, GetNone, HeadNone}
=============================================================================
