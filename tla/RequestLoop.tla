---------------------------- MODULE RequestLoop ----------------------------
(***************************************************************************)
(* One connection from the inside: Server.handleRequests, parseHeaders and *)
(* BodyReader on one side, a peer that may pipeline, stall, wait for 100   *)
(* Continue or leave on the other.                                         *)
(*                                                                         *)
(* The byte stream is a sequence of units tagged with the request they     *)
(* belong to and their place in it: a head, then the units of its body     *)
(* (for a chunked body one more, the terminator).  The parser is what is   *)
(* left of the current body; what matters is whether the loop ever takes a *)
(* body unit for a head.                                                   *)
(*                                                                         *)
(* The handler is the application's: it may read as much of the body as it *)
(* likes, start its response early (Response.stream), fail, or give up     *)
(* keep-alive (event streams, a body that missed its declared length).  It *)
(* may also upgrade to WebSocket: the peer then sends frames, which the    *)
(* handler reads until it returns to the same loop.                        *)
(***************************************************************************)
EXTENDS Integers, Sequences, FiniteSets, Entries

CONSTANTS
  Requests,         \* the requests a peer may send (records, see Request)
  MaxRequests,      \* how many it sends on this connection (bounds the model)
  MaxFrames,        \* WebSocket frames it sends after an upgrade (the same)
  MaxBodySize,      \* config.request.max_body_size, in units
  MaxCount,         \* config.timeout.request_count, 0 when null
  RequestTimeout,   \* config.timeout.request is set
  KeepaliveTimeout, \* config.timeout.keepalive is set
  HandlerCatches,   \* handlers may catch a timed-out read and go on
  Patient           \* a peer that expects 100 Continue waits for an answer

\* length: body units.  chunked: framed by chunks, else by Content-Length.
\* ka: llhttp_should_keep_alive of the request.  upgrade: it has the headers
\* that upgradeWebSocket asks for.
Request == [length : Nat, chunked : BOOLEAN,
            expect : {"none", "continue", "other"}, ka : BOOLEAN,
            upgrade : BOOLEAN]

ASSUME RequestLoopAssumption ==
  /\ Requests \subseteq Request
  /\ MaxRequests \in Nat /\ MaxFrames \in Nat
  /\ MaxBodySize \in Nat
  /\ MaxCount \in Nat
  \* A WebSocket handshake is a GET without content and so, by RFC 9110, does
  \* not ask for 100 Continue.
  /\ \A r \in Requests : r.upgrade => r.expect # "continue"
  /\ RequestTimeout \in BOOLEAN
  /\ KeepaliveTimeout \in BOOLEAN
  /\ HandlerCatches \in BOOLEAN
  /\ Patient \in BOOLEAN

VARIABLES
  reqs,             \* the requests the peer has begun to send
  owed,             \* units of the last one it has still to send
  frames,           \* WebSocket frames it has sent
  gone,             \* the peer has closed its side
  wire,             \* units on their way to the server
  buf,              \* connection.reader's buffer
  out,              \* everything the server wrote, in order
  phase,            \* where handleRequests is
  request_count,    \* its local of the same name
  left,             \* units of the current body the parser has not consumed
  expects_continue, \* request.expects_continue
  keepalive,        \* response.keepalive
  headers_written,  \* response.headers_written
  timer             \* what the AutoCancel is armed for

peerVars == <<reqs, owed, frames, gone>>
streamVars == <<wire, buf>>
requestVars == <<request_count, left, expects_continue, keepalive, headers_written>>
vars == <<peerVars, streamVars, out, phase, requestVars, timer>>

Phase == {"parse", "handler", "drain", "respond", "idle", "closed"}

\* Units of a request's body on the wire.
Units(r) == r.length + (IF r.chunked THEN 1 ELSE 0)

\* The request being served.
cur == reqs[request_count]

\* at: the unit's place in its request, the head's is 0.
Unit(id, kind, at) == [id |-> id, kind |-> kind, at |-> at]
Reply(id, kind, ka) == [id |-> id, kind |-> kind, ka |-> ka]

\* Mutant: the timer is armed for the first request only.
ArmRequest_FirstOnly == timer' = timer

\* The AutoCancel at the top of the loop, set if timeout.request is.
ArmRequest == timer' = IF RequestTimeout THEN "request" ELSE timer

Init ==
  /\ reqs = <<>> /\ owed = 0 /\ frames = 0 /\ gone = FALSE
  /\ wire = <<>> /\ buf = <<>> /\ out = <<>>
  /\ phase = "parse"
  /\ request_count = 1
  /\ left = 0
  /\ expects_continue = FALSE
  /\ keepalive = TRUE
  /\ headers_written = FALSE
  /\ timer = IF RequestTimeout THEN "request" ELSE "off"

-----------------------------------------------------------------------------
(* The peer *)

\* Some answer, interim or final, to the request being sent has arrived.
Answered == \E i \in DOMAIN out : out[i].id = Len(reqs)

\* The connection was switched to WebSocket.
Upgraded == \E i \in DOMAIN out : out[i].kind = "101"

\* Begin a request as soon as the one before is fully sent, answered or not;
\* only a peer that asked for an upgrade waits for the answer.
SendHead(r) ==
  /\ ~gone /\ owed = 0 /\ Len(reqs) < MaxRequests
  /\ ~Upgraded
  /\ reqs # <<>> /\ reqs[Len(reqs)].upgrade => Answered
  /\ reqs' = Append(reqs, r)
  /\ owed' = Units(r)
  /\ wire' = Append(wire, Unit(Len(reqs) + 1, "head", 0))
  /\ UNCHANGED <<frames, gone, buf, out, phase, requestVars, timer>>

SendBody ==
  /\ ~gone /\ owed > 0
  /\ (Patient /\ reqs[Len(reqs)].expect = "continue") => Answered
  /\ owed' = owed - 1
  /\ wire' = Append(wire, Unit(Len(reqs), "body",
                               Units(reqs[Len(reqs)]) - owed + 1))
  /\ UNCHANGED <<reqs, frames, gone, buf, out, phase, requestVars, timer>>

SendFrame ==
  /\ ~gone /\ Upgraded /\ frames < MaxFrames
  /\ frames' = frames + 1
  /\ wire' = Append(wire, Unit(Len(reqs), "frame", 0))
  /\ UNCHANGED <<reqs, owed, gone, buf, out, phase, requestVars, timer>>

PeerCloses ==
  /\ ~gone
  /\ gone' = TRUE
  /\ UNCHANGED <<reqs, owed, frames, streamVars, out, phase, requestVars, timer>>

-----------------------------------------------------------------------------
(* Reading *)

\* The loop is at a read that needs data: the head, the next body unit, a
\* frame, or the first bytes after a response.
Reading ==
  \/ phase \in {"parse", "idle"}
  \/ phase = "handler" /\ ((~expects_continue /\ left > 0) \/ Upgraded)
  \/ phase = "drain" /\ left > 0

\* fillMore: some of what is on the wire.  In "idle" this starts the next
\* request: the counter goes up and the request timer is armed.
FillMore ==
  /\ Reading /\ buf = <<>>
  /\ \E n \in 1..Len(wire) :
       /\ buf' = SubSeq(wire, 1, n)
       /\ wire' = SubSeq(wire, n + 1, Len(wire))
  /\ IF phase = "idle"
     THEN /\ phase' = "parse"
          /\ request_count' = request_count + 1
          /\ ArmRequest
     ELSE UNCHANGED <<phase, request_count, timer>>
  /\ UNCHANGED <<peerVars, out, left, expects_continue, keepalive,
                 headers_written>>

\* The connection task ends, from whatever it was doing; the timer is cleared.
EndTask ==
  /\ phase' = "closed"
  /\ timer' = "off"
  /\ UNCHANGED <<peerVars, streamVars, request_count, left, expects_continue,
                 headers_written>>

\* It ends without another word to the peer.
Close == EndTask /\ UNCHANGED <<out, keepalive>>

\* End of stream between requests, or in the middle of a head.
ReadEof ==
  /\ phase \in {"parse", "idle"}
  /\ buf = <<>> /\ wire = <<>> /\ gone
  /\ Close

-----------------------------------------------------------------------------
(* One request *)

\* Mutant: the limit is compared with > instead of >=.
KeepaliveAllowed_OffByOne(r) ==
  r.ka /\ (MaxCount = 0 \/ request_count <= MaxCount)

\* The request allows another one, and the connection's budget is not used up.
KeepaliveAllowed(r) ==
  r.ka /\ (MaxCount = 0 \/ request_count < MaxCount)

\* parseHeaders, a fresh Response, the Expect header and the keep-alive rules.
\* An Expect value that is not 100-continue gets a 417 and ends the connection.
ParseHeaders ==
  /\ phase = "parse"
  /\ buf # <<>> /\ Head(buf).kind = "head"
  /\ LET r == reqs[Head(buf).id] IN
     IF r.expect = "other"
     THEN /\ out' = Append(out, Reply(request_count, "final", FALSE))
          /\ keepalive' = FALSE
          /\ EndTask
     ELSE /\ phase' = "handler"
          /\ buf' = Tail(buf)
          /\ left' = Units(r)
          /\ expects_continue' = (r.expect = "continue")
          /\ keepalive' = KeepaliveAllowed(r)
          /\ headers_written' = FALSE
          /\ UNCHANGED <<peerVars, wire, out, request_count, timer>>

\* parseHeaders fails on what is not a head: a frame for a handler that left.
ParseFails ==
  /\ phase = "parse"
  /\ buf # <<>> /\ Head(buf).kind # "head"
  /\ Close

\* Mutant: the flag is not cleared, so every read asks again.
HandlerFirstRead_NoClear ==
  /\ phase = "handler" /\ expects_continue
  /\ out' = Append(out, Reply(request_count, "100", TRUE))
  /\ UNCHANGED <<peerVars, streamVars, phase, requestVars, timer>>

\* BodyReader.stream on the request's own reader: the first read asks the
\* peer to go on.
HandlerFirstRead ==
  /\ phase = "handler" /\ expects_continue
  /\ expects_continue' = FALSE
  /\ out' = Append(out, Reply(request_count, "100", TRUE))
  /\ UNCHANGED <<peerVars, streamVars, phase, request_count, left, keepalive,
                 headers_written, timer>>

\* Mutant: a read does not notice that the body is complete.
ConsumeBody_PastEnd ==
  /\ buf # <<>>
  /\ left' = left - 1
  /\ buf' = Tail(buf)

\* Consume one unit of the body from the buffer.
ConsumeBody ==
  /\ left > 0 /\ buf # <<>>
  /\ left' = left - 1
  /\ buf' = Tail(buf)

HandlerReads ==
  /\ phase = "handler" /\ ~expects_continue
  /\ ConsumeBody
  /\ UNCHANGED <<peerVars, wire, out, phase, request_count, expects_continue,
                 keepalive, headers_written, timer>>

\* Response.stream and startEventStream: the head goes out now.
HandlerStreams(ka) ==
  /\ phase = "handler" /\ ~headers_written
  /\ headers_written' = TRUE
  /\ keepalive' = (keepalive /\ ka)
  /\ out' = Append(out, Reply(request_count, "final", keepalive /\ ka))
  /\ UNCHANGED <<peerVars, streamVars, phase, request_count, left,
                 expects_continue, timer>>

\* Response.upgradeWebSocket: the 101 goes out, keepalive stays as it is.
HandlerUpgrades ==
  /\ phase = "handler" /\ cur.upgrade /\ ~headers_written
  /\ headers_written' = TRUE
  /\ out' = Append(out, Reply(request_count, "101", keepalive))
  /\ UNCHANGED <<peerVars, streamVars, phase, request_count, left,
                 expects_continue, keepalive, timer>>

\* WebSocket.receive reads the connection, past the request's parser.
HandlerReceives ==
  /\ phase = "handler" /\ Upgraded
  /\ buf # <<>>
  /\ buf' = Tail(buf)
  /\ UNCHANGED <<peerVars, wire, out, phase, requestVars, timer>>

\* An I/O error in the handler, an error after the head was sent, or one from
\* the router: no reply, the connection ends.
HandlerAborts ==
  /\ phase = "handler"
  /\ Close

\* The declared length is known and within max_body_size.
Drainable(r) == ~r.chunked /\ r.length <= MaxBodySize

\* Mutant: an unread body that is not drained does not end keep-alive.
HandlerReturns_KeepsUnread ==
  /\ phase = "handler"
  /\ phase' = IF left > 0 /\ Drainable(cur) THEN "drain" ELSE "respond"
  /\ UNCHANGED <<peerVars, streamVars, out, requestVars, timer>>

\* The handler returns (or failed before its head: the 500 is a reply like any
\* other).  What is left of the body is drained, or ends keep-alive.
HandlerReturns ==
  /\ phase = "handler"
  /\ phase' = IF left > 0 /\ Drainable(cur) THEN "drain" ELSE "respond"
  /\ keepalive' = (keepalive /\ (left > 0 => Drainable(cur)))
  /\ UNCHANGED <<peerVars, streamVars, out, request_count, left,
                 expects_continue, headers_written, timer>>

\* discardShort through a reader of its own, which never sends 100 Continue.
DrainBody ==
  /\ phase = "drain"
  /\ ConsumeBody
  /\ phase' = IF left = 1 THEN "respond" ELSE "drain"
  /\ UNCHANGED <<peerVars, wire, out, request_count, expects_continue,
                 keepalive, headers_written, timer>>

\* The peer is gone in the middle of the body: the drain fails, the reply is
\* still tried.  In the handler the failed read ends the connection.
DrainFails ==
  /\ phase = "drain"
  /\ buf = <<>> /\ wire = <<>> /\ gone
  /\ phase' = "respond"
  /\ keepalive' = FALSE
  /\ UNCHANGED <<peerVars, streamVars, out, request_count, left,
                 expects_continue, headers_written, timer>>

\* Mutant: the keep-alive wait clears the timer and does not set it again.
ArmKeepalive_ClearOnly == timer' = IF KeepaliveTimeout THEN "off" ELSE timer

\* The AutoCancel before the keep-alive wait, set if timeout.keepalive is.
ArmKeepalive == timer' = IF KeepaliveTimeout THEN "keepalive" ELSE timer

\* Mutant: buffered data is thrown away with the arena instead of ending the
\* connection.
AfterReply_DropsBuffer(ka) ==
  IF ka
  THEN /\ phase' = "idle"
       /\ buf' = <<>>
       /\ expects_continue' = FALSE
       /\ ArmKeepalive
       /\ UNCHANGED <<peerVars, wire, request_count, left, headers_written>>
  ELSE EndTask

\* Mutant: the loop does not look at keepalive once the response is out.
AfterReply_IgnoresClose(ka) ==
  IF buf = <<>>
  THEN /\ phase' = "idle"
       /\ expects_continue' = FALSE
       /\ ArmKeepalive
       /\ UNCHANGED <<peerVars, streamVars, request_count, left,
                      headers_written>>
  ELSE EndTask

\* parser.reset, request.reset, no pipelining, then the keep-alive wait.
AfterReply(ka) ==
  IF ka /\ buf = <<>>
  THEN /\ phase' = "idle"
       /\ expects_continue' = FALSE
       /\ ArmKeepalive
       /\ UNCHANGED <<peerVars, streamVars, request_count, left,
                      headers_written>>
  ELSE EndTask

\* shutting_down is read (stop: it is set), the response is written or, if it
\* was streamed, finished.
Respond(stop) ==
  /\ phase = "respond"
  /\ LET ka == keepalive /\ ~stop IN
     /\ keepalive' = ka
     /\ out' = IF headers_written THEN out
               ELSE Append(out, Reply(request_count, "final", ka))
     /\ AfterReply(ka)

\* The write fails.
RespondFails ==
  /\ phase = "respond"
  /\ Close

\* The AutoCancel fires: whatever the task is blocked on is canceled, and the
\* error takes it out of the loop.
TimerFires ==
  /\ timer \in {"request", "keepalive"}
  /\ phase # "closed"
  /\ Close

\* The same inside a handler that catches the error.  The cancel has been
\* delivered, and nothing arms the timer again before the next request.
TimerCaught ==
  /\ HandlerCatches
  /\ phase = "handler" /\ timer \in {"request", "keepalive"}
  /\ timer' = "fired"
  /\ UNCHANGED <<peerVars, streamVars, out, phase, requestVars>>

-----------------------------------------------------------------------------
Peer == (\E r \in Requests : SendHead(r)) \/ SendBody \/ SendFrame \/ PeerCloses

\* The steps the task takes by itself once their input is there.
Loop ==
  \/ FillMore \/ ReadEof \/ ParseHeaders \/ ParseFails
  \/ HandlerFirstRead \/ HandlerReads \/ HandlerReceives \/ HandlerReturns \/ DrainBody \/ DrainFails
  \/ \E stop \in BOOLEAN : Respond(stop)

Next ==
  \/ Peer
  \/ Loop
  \/ \E ka \in BOOLEAN : HandlerStreams(ka)
  \/ HandlerUpgrades
  \/ HandlerAborts
  \/ RespondFails
  \/ TimerFires
  \/ TimerCaught
  \/ phase = "closed" /\ UNCHANGED vars

Spec == Init /\ [][Next]_vars

(***************************************************************************)
(* Fairness: the task runs, a handler returns in the end, an armed timer   *)
(* fires.  FairPeer adds a peer that finishes sending what it has begun.   *)
(***************************************************************************)
FairSpec ==
  /\ Spec
  /\ WF_vars(FillMore) /\ WF_vars(ReadEof)
  /\ WF_vars(ParseHeaders) /\ WF_vars(ParseFails)
  /\ WF_vars(HandlerReturns) /\ WF_vars(DrainBody) /\ WF_vars(DrainFails)
  /\ WF_vars(\E stop \in BOOLEAN : Respond(stop))
  /\ WF_vars(TimerFires)

FairPeerSpec == FairSpec /\ WF_vars(SendBody)

-----------------------------------------------------------------------------
(* Properties *)

TypeOK ==
  /\ reqs \in Seq(Requests) /\ Len(reqs) <= MaxRequests
  /\ owed \in Nat /\ frames \in 0..MaxFrames /\ gone \in BOOLEAN
  /\ \A s \in {wire, buf} :
       s \in Seq([id : 1..MaxRequests, kind : {"head", "body", "frame"}, at : Nat])
  /\ out \in Seq([id : 1..MaxRequests, kind : {"100", "101", "final"},
                  ka : BOOLEAN])
  /\ phase \in Phase
  /\ request_count \in 1..MaxRequests + 1
  /\ left \in Nat
  /\ expects_continue \in BOOLEAN
  /\ keepalive \in BOOLEAN
  /\ headers_written \in BOOLEAN
  /\ timer \in {"off", "request", "keepalive", "fired"}

unread == buf \o wire

\* The loop stays in step with the peer: whenever it is about to parse a
\* request, the next unit of the stream is that request's head, never what the
\* previous handler left of a body.
InStep ==
  phase \in {"parse", "idle"} /\ unread # <<>> /\ ~Upgraded =>
    /\ unread[1].kind = "head"
    /\ unread[1].id = request_count + (IF phase = "idle" THEN 1 ELSE 0)

\* While the connection lives, every request the peer began is the current
\* one, was answered, or is still unread: a pipelined request is never dropped.
NoneSwallowed ==
  phase # "closed" =>
    LET pending == {unread[i].id : i \in {j \in DOMAIN unread :
                                               unread[j].kind = "head"}}
    IN  \A id \in 1..Len(reqs) : id <= request_count \/ id \in pending

\* The final responses among everything written.
FinalsAt == {i \in DOMAIN out : out[i].kind \in {"101", "final"}}
finals == EntriesAt(out, FinalsAt)

\* Final responses come one per request, in request order, with at most one
\* 100 Continue each and only for a request that asked for it.  After a 101 the
\* server never speaks HTTP again, although the handler of the upgrade returns to
\* the loop, which may keep the connection: no frame is served as a request.
AnswersInOrder ==
  /\ \A i \in DOMAIN finals : finals[i].id = i
  /\ \A i \in DOMAIN out : out[i].kind = "101" => i = Len(out)
  /\ \A i \in DOMAIN out : out[i].kind = "100" =>
       /\ reqs[out[i].id].expect = "continue"
       /\ \A j \in DOMAIN out :
            out[j].kind = "100" /\ out[j].id = out[i].id => i = j

\* request_count bounds the requests served on a connection, and the peer is
\* told: the response to the last one says close.
LimitAnnounced ==
  MaxCount # 0 =>
    /\ request_count <= MaxCount
    /\ \A i \in DOMAIN finals : finals[i].id = MaxCount => ~finals[i].ka

\* With both timeouts configured the armed timer is always the one meant for
\* what the connection is doing; one that fired is armed again for the next.
TimerMatchesPhase ==
  /\ phase = "idle" => timer = "keepalive"
  /\ phase = "parse" => timer = "request"
  /\ phase \in {"handler", "drain", "respond"} => timer \in {"request", "fired"}

\* With both timeouts configured no peer, however slow, blocks the task for
\* ever: the task comes to its end, or its handler is told of the timeout.
StallInterrupted == []<>(phase = "closed" \/ timer = "fired")

\* A request whose peer keeps its side is answered, or its connection closed:
\* the loop and the peer never wait for each other.
EveryRequestAnswered ==
  phase \in {"handler", "drain", "respond"} ~> phase \in {"idle", "parse", "closed"}

\* What the peer sees of this loop is an HTTP exchange: the answers to its
\* requests in order, up to the first that said it was the last.
Exchange ==
  INSTANCE HttpExchange WITH
    asked <- Len(reqs),
    answers <- [i \in DOMAIN finals |-> finals[i].id],
    last <- \E i \in DOMAIN finals : ~finals[i].ka \/ finals[i].kind = "101",
    open <- phase # "closed"

\* The loop implements the exchange: no step of the task, of its handler or of
\* the timer answers out of turn, twice, or after its own Connection: close.
ImplementsExchange == Exchange!Spec
=============================================================================
