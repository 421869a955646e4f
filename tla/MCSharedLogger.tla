--------------------------- MODULE MCSharedLogger ---------------------------
(***************************************************************************)
(* Small instances of SharedLogger: a master m and two workers.            *)
(***************************************************************************)
EXTENDS SharedLogger

CONSTANTS m, w1, w2

Restart == {<<1, 0>>, <<1, 2>>}
=============================================================================
