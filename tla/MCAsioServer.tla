---------------------------- MODULE MCAsioServer ----------------------------
(***************************************************************************)
(* A small instance of AsioServer.                                         *)
(***************************************************************************)
EXTENDS AsioServer

CONSTANTS c1, c2

Request(m, t) == [method |-> m, target |-> t]

Browsed == {Request("GET", "file"), Request("GET", "dotdot"), Request("OTHER", "file")}
=============================================================================
