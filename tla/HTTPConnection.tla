--------------------------- MODULE HTTPConnection ---------------------------
(***************************************************************************)
(* The request handling of HTTP_Connection.cpp as operators on one input   *)
(* buffer: what handle_input, parse_request and prepare_response decide.   *)
(* Nothing here keeps state; EpollReactor holds it and applies these       *)
(* operators.                                                              *)
(*                                                                         *)
(* The bytes of one request arrive in at most two segments.  "head" is the *)
(* request line and the header lines that came with it, "tail" the rest up *)
(* to and including the blank line "\r\n\r\n", or "end" if the cut was     *)
(* inside these four bytes.  Request bodies are left out: the handlers     *)
(* never look at one.                                                      *)
(***************************************************************************)
EXTENDS Naturals, Sequences

\* What parse_request extracts, reduced to what the handlers tell apart.
Methods  == {"GET", "HEAD", "POST", "OTHER"}
Targets  == {"file", "missing", "dotdot", "directory"}
Versions == {"1.0", "1.1"}

\* The value of the "Connection" key: "absent" when the map has no such key,
\* "close" for every value other than the string "keep-alive".
ConnectionValues == {"absent", "keep-alive", "close"}

RequestRecords == [method     : Methods,
                   target     : Targets,
                   version    : Versions,
                   connection : ConnectionValues]

Statuses == {200, 400, 403, 404, 405}

(***************************************************************************)
(* handle_input looks for the first "\r\n\r\n" in the buffer.              *)
(***************************************************************************)
\* The head of the request is in front of this part of it.
Joined(buf, i) ==
    /\ i > 1
    /\ buf[i - 1].part = "head"
    /\ buf[i - 1].id = buf[i].id

HeaderEnds(buf) ==
    {i \in DOMAIN buf : \/ buf[i].part = "tail"
                        \/ buf[i].part = "end" /\ Joined(buf, i)}

FirstHeaderEnd(buf, i) ==
    /\ i \in HeaderEnds(buf)
    /\ \A j \in HeaderEnds(buf) : i <= j

IncompleteHeaders(buf) == HeaderEnds(buf) = {}

\* The text up to the blank line begins with a request line only if the head
\* of that request comes first in the buffer.
WholeRequest(buf, i) == i = 2 /\ Joined(buf, i)

(***************************************************************************)
(* headers_ is a member of HTTPConnection and parse_request only ever      *)
(* assigns keys in it, so a key outlives the request that carried it.      *)
(***************************************************************************)
FirstKept(stored, req) ==                                           \* mutant
    IF stored = "absent" THEN req.connection ELSE stored

MergedHeaders(stored, req) ==
    IF req.connection = "absent" THEN stored ELSE req.connection

KeepAlive(stored, req) ==
    IF stored = "absent" THEN req.version = "1.1" ELSE stored = "keep-alive"

(***************************************************************************)
(* prepare_response and the handlers it routes to.                         *)
(***************************************************************************)
\* std::filesystem::file_size throws for a directory.
HandlerThrows(req) ==
    /\ req.target = "directory"
    /\ req.method \in {"GET", "HEAD"}

UncheckedMethodStatus(req) ==                                       \* mutant
    CASE req.target = "dotdot"                                    -> 403
      [] req.target = "missing" /\ req.method \in {"GET", "HEAD"} -> 404
      [] req.target # "dotdot" /\ req.method = "OTHER"            -> 501
      [] OTHER                                                    -> 200

\* The routing in prepare_response ends in a 501 that the method check above
\* it makes unreachable.
ResponseStatus(req) ==
    CASE req.target = "dotdot"                                    -> 403
      [] req.target # "dotdot" /\ req.method = "OTHER"            -> 405
      [] req.target = "missing" /\ req.method \in {"GET", "HEAD"} -> 404
      [] OTHER                                                    -> 200

\* Replies built by send_response, which drops keep-alive; handle_head writes
\* its own 404 and leaves the flag alone.
ErrorReply(req) ==
    \/ ResponseStatus(req) \in {403, 405}
    \/ ResponseStatus(req) = 404 /\ req.method = "GET"

RequestedKeepAlive(stored, req) == KeepAlive(stored, req)           \* mutant

\* keep_alive_ once the request is handled.
KeepAliveAfter(stored, req) == KeepAlive(stored, req) /\ ~ErrorReply(req)

Reply(token, status, close) ==
    [id |-> token.id, req |-> token.req, status |-> status, close |-> close]

\* The answer to the whole request that ends at position i of the buffer, with
\* the "Connection" header the handler writes into it.
ReplyTo(buf, i, stored) ==
    LET req == buf[i].req
    IN  Reply(buf[i], ResponseStatus(req), ErrorReply(req) \/ ~KeepAlive(stored, req))
=============================================================================
