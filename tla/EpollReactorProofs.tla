------------------------- MODULE EpollReactorProofs -------------------------
(***************************************************************************)
(* One lemma per action of EpollReactor: it preserves the types and the    *)
(* ownership of descriptors.  SingleServerProofs and WorkerServerProofs    *)
(* put them together.                                                      *)
(***************************************************************************)
EXTENDS EpollReactor, SequenceTheorems, TLAPS

USE FdAssumption, ConnAssumption, RequestAssumption, BoundAssumption

(***************************************************************************)
(* The types of the groups of variables an action leaves alone.            *)
(***************************************************************************)
LEMMA SameTypes ==
    ASSUME TypeOK
    PROVE  /\ UNCHANGED peerVars => PeerTypes'
           /\ UNCHANGED sockVars => SockTypes'
           /\ UNCHANGED pollVars => PollTypes'
           /\ UNCHANGED connVars => ConnTypes'
           /\ UNCHANGED httpVars => HttpTypes'
           /\ UNCHANGED loopVars => LoopTypes'
<1>1. UNCHANGED peerVars => PeerTypes'
  BY DEF TypeOK, PeerTypes, peerVars
<1>2. UNCHANGED sockVars => SockTypes'
  BY DEF TypeOK, SockTypes, sockVars
<1>3. UNCHANGED pollVars => PollTypes'
  BY DEF TypeOK, PollTypes, pollVars
<1>4. UNCHANGED connVars => ConnTypes'
  BY DEF TypeOK, ConnTypes, connVars
<1>5. UNCHANGED httpVars => HttpTypes'
  BY DEF TypeOK, HttpTypes, httpVars
<1>6. UNCHANGED loopVars => LoopTypes'
  BY DEF TypeOK, LoopTypes, loopVars
<1>. QED
  BY <1>1, <1>2, <1>3, <1>4, <1>5, <1>6

LEMMA InitType == Init => TypeOK
<1>. USE DEF Init
<1>1. Init => PeerTypes /\ SockTypes
  BY DEF PeerTypes, SockTypes
<1>2. Init => PollTypes /\ ConnTypes
  BY DEF PollTypes, ConnTypes, NoFd
<1>3. Init => HttpTypes
  BY DEF HttpTypes, ConnectionValues
<1>4. Init => LoopTypes
  BY DEF LoopTypes, Outcomes
<1>. QED
  BY <1>1, <1>2, <1>3, <1>4 DEF TypeOK

LEMMA WakeType ==
    ASSUME NEW c, NEW e, PollTypes
    PROVE  Wake(c, e) \subseteq Watched
  BY DEF Wake, PollTypes, Watched

LEMMA ConnectType ==
    ASSUME TypeOK, NEW c \in Conns, Connect(c)
    PROVE  TypeOK'
<1>. USE DEF TypeOK, Connect
<1>1. PeerTypes'
  BY DEF PeerTypes
<1>2. SockTypes'
  BY DEF SockTypes
<1>3. PollTypes'
  BY DEF PollTypes, Watched
<1>. QED
  BY <1>1, <1>2, <1>3, SameTypes

LEMMA ArrivesType ==
    ASSUME TypeOK, NEW c \in Conns, NEW tokens \in Seq(Tokens), Arrives(c, tokens),
           asked' \in [Conns -> Nat], asking' \in [Conns -> Requests \cup {NoRequest}]
    PROVE  TypeOK'
<1>. USE DEF TypeOK, Arrives
<1>1. PeerTypes'
  BY DEF PeerTypes
<1>2. SockTypes'
  BY DEF SockTypes
<1>3. PollTypes'
  BY WakeType DEF PollTypes
<1>. QED
  BY <1>1, <1>2, <1>3, SameTypes

LEMMA ReceiveType ==
    ASSUME TypeOK, NEW c \in Conns, Receive(c)
    PROVE  TypeOK'
<1>. USE DEF TypeOK, Receive
<1>1. PeerTypes'
  BY DEF PeerTypes, SockTypes
<1>2. SockTypes'
  BY DEF SockTypes
<1>3. PollTypes'
  BY WakeType DEF PollTypes
<1>. QED
  BY <1>1, <1>2, <1>3, SameTypes

LEMMA TokenType ==
    ASSUME NEW id \in Nat, NEW part \in {"head", "tail", "end"}, NEW r \in Requests
    PROVE  Token(id, part, r) \in Tokens
  BY DEF Token, Tokens

LEMMA SendType ==
    ASSUME TypeOK, NEW c \in Conns, NEW r \in Requests,
           SendRequest(c, r) \/ SendHead(c, r) \/ SendTail(c)
    PROVE  TypeOK'
<1>. /\ asked \in [Conns -> Nat] /\ asking \in [Conns -> Requests \cup {NoRequest}]
  BY DEF TypeOK, PeerTypes
<1>1. CASE SendRequest(c, r)
  <2>. DEFINE h == Token(asked[c] + 1, "head", r)
              t == Token(asked[c] + 1, "tail", r)
  <2>1. <<h, t>> \in Seq(Tokens)
    BY TokenType
  <2>2. asked' \in [Conns -> Nat] /\ asking' \in [Conns -> Requests \cup {NoRequest}]
    BY <1>1 DEF SendRequest
  <2>3. Arrives(c, <<h, t>>)
    BY <1>1 DEF SendRequest
  <2>. QED
    BY <2>1, <2>2, <2>3, ArrivesType
<1>2. CASE SendHead(c, r)
  <2>. DEFINE h == Token(asked[c] + 1, "head", r)
  <2>1. <<h>> \in Seq(Tokens)
    BY TokenType
  <2>2. asked' \in [Conns -> Nat] /\ asking' \in [Conns -> Requests \cup {NoRequest}]
    BY <1>2 DEF SendHead
  <2>3. Arrives(c, <<h>>)
    BY <1>2 DEF SendHead
  <2>. QED
    BY <2>1, <2>2, <2>3, ArrivesType
<1>3. CASE SendTail(c)
  <2>1. asking[c] \in Requests
    BY <1>3 DEF SendTail
  <2>5. PICK part \in {"tail", "end"} : Arrives(c, <<Token(asked[c], part, asking[c])>>)
    BY <1>3 DEF SendTail
  <2>. DEFINE t == Token(asked[c], part, asking[c])
  <2>2. <<t>> \in Seq(Tokens)
    BY <2>1, TokenType
  <2>3. asked' \in [Conns -> Nat] /\ asking' \in [Conns -> Requests \cup {NoRequest}]
    BY <1>3 DEF SendTail
  <2>4. Arrives(c, <<t>>)
    BY <2>5
  <2>. QED
    BY <2>2, <2>3, <2>4, ArrivesType
<1>. QED
  BY <1>1, <1>2, <1>3

LEMMA FinType ==
    ASSUME TypeOK, NEW c \in Conns, Fin(c)
    PROVE  TypeOK'
<1>. USE DEF TypeOK, Fin
<1>1. PeerTypes'
  BY DEF PeerTypes
<1>2. PollTypes'
  BY WakeType DEF PollTypes
<1>. QED
  BY <1>1, <1>2, SameTypes

LEMMA RstType ==
    ASSUME TypeOK, NEW c \in Conns, Rst(c)
    PROVE  TypeOK'
<1>. USE DEF TypeOK, Rst
<1>1. PeerTypes'
  BY DEF PeerTypes, Reset
<1>2. SockTypes'
  BY DEF SockTypes
<1>3. PollTypes'
  BY WakeType DEF PollTypes
<1>. QED
  BY <1>1, <1>2, <1>3, SameTypes

\* TypeOK is an invariant of everything the clients do.
LEMMA ClientsType ==
    ASSUME TypeOK, Clients
    PROVE  TypeOK'
<1>. PICK c \in Conns :
        \/ Connect(c)
        \/ \E r \in Requests : SendRequest(c, r) \/ SendHead(c, r)
        \/ SendTail(c)
        \/ Fin(c)
        \/ Rst(c)
        \/ Receive(c)
  BY DEF Clients
<1>1. CASE Connect(c)
  BY <1>1, ConnectType
<1>2. CASE \E r \in Requests : SendRequest(c, r) \/ SendHead(c, r)
  BY <1>2, SendType
<1>3. CASE SendTail(c)
  <2>1. asking[c] \in Requests
    BY <1>3 DEF SendTail, TypeOK, PeerTypes
  <2>. QED
    BY <1>3, <2>1, SendType
<1>4. CASE Fin(c) \/ Rst(c)
  BY <1>4, FinType, RstType
<1>5. CASE Receive(c)
  BY <1>5, ReceiveType
<1>. QED
  BY <1>1, <1>2, <1>3, <1>4, <1>5
-----------------------------------------------------------------------------
(***************************************************************************)
(* The loop and the acceptor.                                              *)
(***************************************************************************)
LEMMA ReportedType ==
    ASSUME NEW f, PollTypes, f \in Watched
    PROVE  Reported(f) \subseteq Events
  BY DEF Reported, Polled, PollTypes, Watched, Events

LEMMA RepolledType ==
    ASSUME NEW f \in Fds, NEW interest, NEW polled, PollTypes
    PROVE  Repolled(f, interest, polled) \subseteq Watched
  BY DEF Repolled, PollTypes, Watched

LEMMA EpollWaitType ==
    ASSUME TypeOK, NEW from \in {"loop", "wait"}, EpollWait(from)
    PROVE  TypeOK'
<1>. USE DEF TypeOK, EpollWait
<1>1. PollTypes'
  BY DEF PollTypes, Watched
<1>2. LoopTypes'
  <2>1. batch' \in [Watched -> SUBSET Events]
    BY ReportedType DEF PollTypes, Watched
  <2>. QED
    BY <2>1 DEF LoopTypes
<1>. QED
  BY <1>1, <1>2, SameTypes

LEMMA DispatchType ==
    ASSUME TypeOK, NEW f \in Fds, Dispatch(f) \/ DispatchAcceptor
    PROVE  TypeOK'
<1>1. LoopTypes'
  BY DEF TypeOK, Dispatch, DispatchAcceptor, LoopTypes, ConnTypes, Watched
<1>. QED
  BY <1>1, SameTypes DEF Dispatch, DispatchAcceptor, TypeOK

\* The groups of variables NewConnection changes.
LEMMA NewConnectionType ==
    ASSUME TypeOK, NEW c \in Conns, NEW f \in Fds, NEW registered \in BOOLEAN,
           NewConnection(c, f, registered), UNCHANGED <<inq, sndq>>
    PROVE  SockTypes' /\ PollTypes' /\ ConnTypes'
<1>. USE DEF TypeOK, NewConnection
<1>1. SockTypes'
  BY DEF SockTypes
<1>2. PollTypes'
  BY RepolledType DEF PollTypes
<1>3. ConnTypes'
  BY DEF ConnTypes, Emplaced
<1>. QED
  BY <1>1, <1>2, <1>3

LEMMA AcceptType ==
    ASSUME TypeOK, Accept
    PROVE  TypeOK'
<1>1. LoopTypes'
  BY DEF TypeOK, Accept, LoopTypes, AcceptMore
<1>. QED
  BY <1>1, NewConnectionType, SameTypes DEF Accept, TypeOK
-----------------------------------------------------------------------------
(***************************************************************************)
(* handle_event and what it calls.                                         *)
(***************************************************************************)
LEMMA ModifyFdType ==
    ASSUME TypeOK, NEW f, NEW interest \in SUBSET {"IN", "OUT"}, NEW polled,
           ModifyFd(f, interest, polled), UNCHANGED fdt
    PROVE  PollTypes' /\ proc' \in Outcomes
<1>1. PollTypes'
  BY RepolledType DEF TypeOK, PollTypes, ModifyFd, Registered
<1>2. proc' \in Outcomes
  BY DEF TypeOK, LoopTypes, ModifyFd, CtlOutcome, Outcomes
<1>. QED
  BY <1>1, <1>2

LEMMA HandledType ==
    ASSUME TypeOK, NEW e, Handled(e), proc' \in Outcomes
    PROVE  LoopTypes'
  BY DEF TypeOK, LoopTypes, Handled

LEMMA HandleCloseType ==
    ASSUME TypeOK, NEW c \in Conns, HandleClose(c)
    PROVE  PollTypes' /\ ConnTypes' /\ LoopTypes' /\ PeerTypes'
<1>. USE DEF TypeOK, HandleClose
<1>1. PollTypes'
  BY DEF PollTypes
<1>2. ConnTypes'
  BY DEF ConnTypes, Erased
<1>3. LoopTypes'
  BY DEF LoopTypes, CtlOutcome, Outcomes
<1>. QED
  BY <1>1, <1>2, <1>3, SameTypes

LEMMA RunOnDestroyedType ==
    ASSUME TypeOK, RunOnDestroyed
    PROVE  TypeOK'
<1>. USE DEF TypeOK, RunOnDestroyed
<1>1. HttpTypes'
  <2>. DEFINE buffers == [input_buffer_ EXCEPT ![cur] = <<>>]
  <2>1. buffers \in [Conns -> Seq(Tokens)]
    <3>. USE DEF HttpTypes
    <3>. HIDE DEF TypeOK, RunOnDestroyed
    <3>. input_buffer_ \in [Conns -> Seq(Tokens)]
      BY DEF TypeOK
    <3>. <<>> \in Seq(Tokens)
      OBVIOUS
    <3>. QED
      OBVIOUS
  <2>. QED
    BY <2>1 DEF HttpTypes
<1>2. LoopTypes'
  <2>1. proc' \in Outcomes
    BY DEF Outcomes
  <2>. QED
    BY <2>1 DEF LoopTypes
<1>. QED
  BY <1>1, <1>2, SameTypes

LEMMA StatusType ==
    ASSUME NEW req PROVE ResponseStatus(req) \in Statuses
  BY DEF ResponseStatus, Statuses

LEMMA MergedType ==
    ASSUME NEW stored \in ConnectionValues, NEW req \in Requests
    PROVE  MergedHeaders(stored, req) \in ConnectionValues
  BY DEF MergedHeaders, RequestRecords

LEMMA ReplyType ==
    ASSUME NEW token \in Tokens, NEW status \in Statuses, NEW close \in BOOLEAN
    PROVE  Reply(token, status, close) \in Replies
  BY DEF Reply, Tokens, Replies

LEMMA NextPiecesType ==
    ASSUME TypeOK, NEW c \in Conns
    PROVE  NextPieces(c) \in Seq(Nat)
<1>1. Len(resp[c]) \in Nat
  BY DEF TypeOK, HttpTypes
<1>2. Pieces * Len(resp[c]) \in Nat
  BY <1>1
<1>3. \A j \in 1..Pieces : Pieces * Len(resp[c]) + j \in Nat
  BY <1>2
<1>. QED
  BY <1>3 DEF NextPieces

LEMMA TokenFieldTypes ==
    ASSUME NEW buf \in Seq(Tokens), NEW i \in DOMAIN buf
    PROVE  buf[i] \in Tokens /\ buf[i].req \in Requests
<1>1. i \in 1..Len(buf)
  BY LenProperties
<1>2. buf[i] \in Tokens
  BY <1>1, ElementOfSeq
<1>. QED
  BY <1>2 DEF Tokens

\* What Send leaves well typed.
LEMMA SendReplyType ==
    ASSUME TypeOK, NEW c \in Conns, NEW reply \in Replies,
           Send(c, reply), UNCHANGED fdt
    PROVE  /\ PollTypes' /\ proc' \in Outcomes
           /\ resp' \in [Conns -> Seq(Replies)]
           /\ output_buffer_' \in [Conns -> Seq(Nat)]
<1>1. PollTypes' /\ proc' \in Outcomes
  BY ModifyFdType DEF Send, WhileWriting
<1>2. resp' \in [Conns -> Seq(Replies)]
  BY DEF Send, TypeOK, HttpTypes
<1>3. output_buffer_' \in [Conns -> Seq(Nat)]
  BY NextPiecesType DEF Send, TypeOK, HttpTypes
<1>. QED
  BY <1>1, <1>2, <1>3

LEMMA HandleInputType ==
    ASSUME TypeOK, NEW c \in Conns, NEW buf \in Seq(Tokens), HandleInput(c, buf),
           input_buffer_' \in [Conns -> Seq(Tokens)], UNCHANGED fdt
    PROVE  HttpTypes' /\ PollTypes' /\ proc' \in Outcomes
<1>. USE DEF TypeOK
<1>1. CASE HandleIncomplete(c, buf)
  BY <1>1 DEF HandleIncomplete, HttpTypes, PollTypes, LoopTypes
<1>2. ASSUME NEW i \in DOMAIN buf, HandleGarbled(c, buf, i)
      PROVE  HttpTypes' /\ PollTypes' /\ proc' \in Outcomes
  <2>1. buf[i] \in Tokens /\ buf[i].req \in Requests
    BY TokenFieldTypes
  <2>2. PICK status \in Statuses : Send(c, Reply(buf[i], status, TRUE))
    <3>1. {400, 403, 405} \subseteq Statuses
      BY DEF Statuses
    <3>2. \E status \in {400, 403, 405} : Send(c, Reply(buf[i], status, TRUE))
      <4>1. CASE Send(c, Reply(buf[i], 400, TRUE))
        BY <4>1
      <4>2. CASE \E status \in {403, 405} : Send(c, Reply(buf[i], status, TRUE))
        BY <4>2
      <4>. QED
        BY <1>2, <4>1, <4>2 DEF HandleGarbled
    <3>. QED
      BY <3>1, <3>2
  <2>3. Reply(buf[i], status, TRUE) \in Replies
    BY <2>1, ReplyType
  <2>4. headers_' \in [Conns -> ConnectionValues]
    <3>. DEFINE merged == MergedHeaders(headers_[c], buf[i].req)
    <3>1. merged \in ConnectionValues
      BY <2>1, MergedType DEF HttpTypes
    <3>2. headers_ \in [Conns -> ConnectionValues]
      BY DEF HttpTypes
    <3>. HIDE DEF merged
    <3>3. CASE headers_' = headers_
      BY <3>2, <3>3
    <3>4. CASE headers_' = [headers_ EXCEPT ![c] = merged]
      BY <3>1, <3>2, <3>4
    <3>5. headers_' = headers_ \/ headers_' = [headers_ EXCEPT ![c] = merged]
      BY <1>2 DEF HandleGarbled, HttpTypes, merged
    <3>. QED
      BY <3>3, <3>4, <3>5
  <2>5. keep_alive_' \in [Conns -> BOOLEAN]
    BY <1>2 DEF HandleGarbled, HttpTypes
  <2>6. /\ PollTypes' /\ proc' \in Outcomes
        /\ resp' \in [Conns -> Seq(Replies)] /\ output_buffer_' \in [Conns -> Seq(Nat)]
    BY <2>2, <2>3, SendReplyType
  <2>. QED
    BY <2>4, <2>5, <2>6 DEF HttpTypes
<1>3. ASSUME NEW i \in DOMAIN buf, HandleWhole(c, buf, i)
      PROVE  HttpTypes' /\ PollTypes' /\ proc' \in Outcomes
  <2>. DEFINE req == buf[i].req
              stored == MergedHeaders(headers_[c], req)
  <2>1. buf[i] \in Tokens /\ req \in Requests
    BY TokenFieldTypes
  <2>2. stored \in ConnectionValues
    BY <2>1, MergedType DEF HttpTypes
  <2>3. headers_' \in [Conns -> ConnectionValues]
    BY <1>3, <2>2 DEF HandleWhole, HttpTypes
  <2>4. keep_alive_' \in [Conns -> BOOLEAN]
    <3>1. KeepAliveAfter(stored, req) \in BOOLEAN
      BY DEF KeepAliveAfter
    <3>. QED
      BY <1>3, <3>1 DEF HandleWhole, HttpTypes
  <2>5. CASE HandlerThrows(req)
    BY <1>3, <2>3, <2>4, <2>5 DEF HandleWhole, HttpTypes, PollTypes, Outcomes
  <2>6. CASE ~HandlerThrows(req)
    <3>1. ReplyTo(buf, i, stored) \in Replies
      BY <2>1, StatusType, ReplyType DEF ReplyTo
    <3>2. Send(c, ReplyTo(buf, i, stored))
      BY <1>3, <2>6 DEF HandleWhole
    <3>. QED
      BY <2>3, <2>4, <3>1, <3>2, SendReplyType DEF HttpTypes
  <2>. QED
    BY <2>5, <2>6
<1>. QED
  BY <1>1, <1>2, <1>3 DEF HandleInput

\* What do_read collects is a run of segments.
LEMMA CollectedType ==
    ASSUME TypeOK, NEW c \in Conns
    PROVE  Collected(c) \in Seq(Tokens)
<1>1. inq[c] \in Seq(Tokens)
  BY DEF TypeOK, SockTypes
<1>2. Collected(c) = SubSeq(inq[c], 1, Len(inq[c]))
  BY <1>1 DEF Collected, Drained, TypeOK, SockTypes
<1>. QED
  BY <1>1, <1>2

LEMMA DoReadType ==
    ASSUME TypeOK, NEW c \in Conns, DoRead(c)
    PROVE  TypeOK'
<1>. USE DEF TypeOK, DoRead
<1>1. input_buffer_[c] \o Collected(c) \in Seq(Tokens)
  BY CollectedType DEF HttpTypes
<1>2. SockTypes'
  BY DEF SockTypes, Drained
<1>3. input_buffer_' \in [Conns -> Seq(Tokens)]
  BY DEF HttpTypes, ClearedInput
<1>4. HttpTypes' /\ PollTypes' /\ proc' \in Outcomes
  BY <1>1, <1>3, HandleInputType
<1>. QED
  BY <1>2, <1>4, HandledType, SameTypes

LEMMA DoReadEndType ==
    ASSUME TypeOK, NEW c \in Conns, DoReadEnd(c)
    PROVE  TypeOK'
<1>. USE DEF TypeOK, DoReadEnd
<1>1. SockTypes'
  BY DEF SockTypes, Released, HandleClose
<1>2. HttpTypes'
  BY CollectedType DEF HttpTypes
<1>. QED
  BY <1>1, <1>2, HandleCloseType

LEMMA WriteAllType ==
    ASSUME TypeOK, NEW c \in Conns, WriteAll(c)
    PROVE  HttpTypes' /\ Flushed(c) \in Seq(Nat)
<1>. USE DEF TypeOK, WriteAll
<1>1. HttpTypes'
  BY DEF HttpTypes
<1>2. Flushed(c) \in Seq(Nat)
  BY DEF HttpTypes, SockTypes, Flushed
<1>. QED
  BY <1>1, <1>2

LEMMA WriteAllKeepType ==
    ASSUME TypeOK, NEW c \in Conns, WriteAllKeep(c)
    PROVE  TypeOK'
<1>. USE DEF TypeOK, WriteAllKeep
<1>1. SockTypes'
  BY WriteAllType DEF SockTypes
<1>2. PollTypes' /\ proc' \in Outcomes
  BY ModifyFdType DEF AfterFlush
<1>. QED
  BY <1>1, <1>2, WriteAllType, HandledType, SameTypes

LEMMA WriteAllCloseType ==
    ASSUME TypeOK, NEW c \in Conns, WriteAllClose(c)
    PROVE  TypeOK'
<1>. USE DEF TypeOK, WriteAllClose
<1>1. HttpTypes' /\ Flushed(c) \in Seq(Nat)
  BY WriteAllType
<1>2. ASSUME NEW kept \in 0..Len(Flushed(c))
      PROVE  SubSeq(Flushed(c), 1, kept) \in Seq(Nat)
  BY <1>1, SubSeqProperties
<1>3. sndq' \in [Conns -> Seq(Nat)]
  BY <1>2 DEF SockTypes
<1>4. SockTypes'
  BY <1>3 DEF SockTypes, Released, HandleClose
<1>. QED
  BY <1>1, <1>4, HandleCloseType

LEMMA WriteSomeType ==
    ASSUME TypeOK, NEW c \in Conns, WriteSome(c), PollTypes', proc' \in Outcomes
    PROVE  TypeOK'
<1>. USE DEF TypeOK, WriteSome
<1>1. output_buffer_[c] \in Seq(Nat) /\ sndq[c] \in Seq(Nat)
  BY DEF HttpTypes, SockTypes
<1>2. Room(c) \in 1..Len(output_buffer_[c])
  BY <1>1 DEF Room
<1>3. SubSeq(output_buffer_[c], 1, Room(c)) \in Seq(Nat)
  BY <1>1, <1>2, SubSeqProperties
<1>4. Unwritten(c) \in Seq(Nat)
  <2>. DEFINE s == output_buffer_[c]
              from == Room(c) + 1
  <2>1. s \in Seq(Nat) /\ Len(s) \in Nat /\ from \in 1..Len(s) + 1
    BY <1>1, <1>2, LenProperties
  <2>. HIDE DEF s, from
  <2>2. \A i \in from..Len(s) : s[i] \in Nat
    BY <2>1
  <2>3. SubSeq(s, from, Len(s)) \in Seq(Nat)
    BY <2>1, <2>2, SubSeqProperties
  <2>. QED
    BY <2>3 DEF Unwritten, s, from
<1>5. SockTypes'
  BY <1>1, <1>3 DEF SockTypes
<1>6. HttpTypes'
  BY <1>4 DEF HttpTypes
<1>. QED
  BY <1>5, <1>6, HandledType, SameTypes

LEMMA WriteResetType ==
    ASSUME TypeOK, NEW c \in Conns, WriteReset(c)
    PROVE  TypeOK'
<1>. USE DEF TypeOK, WriteReset
<1>1. SockTypes'
  BY DEF SockTypes, Released, HandleClose
<1>. QED
  BY <1>1, HandleCloseType, SameTypes

LEMMA WriteBrokenType ==
    ASSUME TypeOK, NEW c \in Conns, WriteBroken(c)
    PROVE  TypeOK'
<1>1. LoopTypes'
  BY DEF TypeOK, LoopTypes, WriteBroken, Outcomes
<1>. QED
  BY <1>1, SameTypes DEF WriteBroken, TypeOK
=============================================================================
