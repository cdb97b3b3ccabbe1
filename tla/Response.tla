------------------------------ MODULE Response ------------------------------
(***************************************************************************)
(* One response: the Response struct, its two body writers, its event      *)
(* stream and its upgrade to WebSocket, driven by a handler in any order,  *)
(* the Executor's error path, and Response.write, which the connection     *)
(* loop calls at the end.                                                  *)
(*                                                                         *)
(* What goes to the connection is a sequence of tokens: a head with the    *)
(* framing it announces, chunks, raw body bytes, the chunk terminator,     *)
(* WebSocket frames, and the debris of a write that failed half way.       *)
(* Header names and bodies are reduced to the ones framing depends on and  *)
(* to lengths.                                                             *)
(***************************************************************************)
EXTENDS Integers, Sequences

CONSTANTS
  MaxHeaders,   \* config.request.max_header_count
  MaxOthers,    \* other headers a handler adds (bounds the model)
  MaxBytes,     \* how much body a handler writes (bounds the model)
  MaxFaults     \* flushes that are canceled half way and may be retried

ASSUME ResponseAssumption ==
  /\ MaxHeaders \in Nat
  /\ MaxOthers \in Nat
  /\ MaxBytes \in Nat
  /\ MaxFaults \in Nat

None == -1
Unparsable == -2    \* a Content-Length that is not a number

VARIABLES
  phase,            \* "handler", "write", "done", or "aborted" (no reply sent)
  head,             \* Response.head: the request was a HEAD
  type_header,      \* Response.headers has a Content-Type
  length_header,    \* its Content-Length, None without one
  others,           \* how many entries it has under other names
  content_type,     \* Response.content_type is set
  body,             \* length of Response.body
  buffer,           \* bytes in Response.buffer
  writer,           \* the body writer the handler holds
  stream,           \* the EventStream ("events") or WebSocket ("socket") it holds
  pending,          \* bytes its StreamingBodyWriter has not drained yet
  keepalive, chunked, streaming, written, headers_written, body_writer_open,
  content_length,   \* Response.content_length
  body_sent,        \* Response.body_sent
  wire,             \* tokens handed to the connection
  faults,           \* canceled flushes so far
  refused           \* a writeHeader found no room and sent nothing

bodyVars == <<body, buffer, writer, stream, pending>>
headerVars == <<type_header, length_header, others, content_type>>
flagVars == <<keepalive, chunked, streaming, written, headers_written,
              body_writer_open>>
countVars == <<content_length, body_sent>>
ghostVars == <<faults, refused>>
vars == <<phase, head, headerVars, bodyVars, flagVars, countVars, wire, ghostVars>>

Init ==
  /\ phase = "handler"
  /\ head \in BOOLEAN
  /\ type_header = FALSE /\ length_header = None /\ others = 0
  /\ content_type = FALSE
  /\ body = 0 /\ buffer = 0 /\ writer = "none" /\ stream = "none"
  /\ pending = 0
  /\ keepalive \in BOOLEAN
  /\ chunked = FALSE /\ streaming = FALSE /\ written = FALSE
  /\ headers_written = FALSE /\ body_writer_open = FALSE
  /\ content_length = None /\ body_sent = 0
  /\ wire = <<>>
  /\ faults = 0 /\ refused = FALSE

-----------------------------------------------------------------------------
(* Tokens *)

HeadToken(framing, n) == [kind |-> "head", framing |-> framing, len |-> n]
DataToken(kind, n) == [kind |-> kind, framing |-> "", len |-> n]
Terminator == DataToken("term", 0)
Debris == DataToken("debris", 0)

\* No body bytes for an empty body.
Raw(n) == IF n = 0 THEN <<>> ELSE <<DataToken("raw", n)>>

-----------------------------------------------------------------------------
(* Headers *)

HeaderCount == (IF type_header THEN 1 ELSE 0)
                 + (IF length_header # None THEN 1 ELSE 0) + others

\* Headers.add: room for one more entry.
FreeSlot == HeaderCount < MaxHeaders

\* The body a buffered response sends: the buffer if it has anything.
BufferedLength == IF buffer > 0 THEN buffer ELSE body

\* writeHeader can fail before it has sent anything: the content type takes a
\* header slot.
HeaderFits == headers_written \/ ~content_type \/ type_header \/ FreeSlot

\* The framing writeHeader announces.
Framing(isChunked, isStreaming) ==
  IF isChunked THEN HeadToken("chunked", 0)
  ELSE IF length_header # None THEN HeadToken("length", length_header)
  ELSE IF isStreaming THEN HeadToken("close", 0)
  ELSE HeadToken("length", BufferedLength)

\* writeHeader, when HeaderFits: what it adds to the wire.
HeadOnWire(isChunked, isStreaming) ==
  IF headers_written THEN <<>> ELSE <<Framing(isChunked, isStreaming)>>

WriteHeader ==
  /\ headers_written' = TRUE
  /\ type_header' = (type_header \/ (content_type /\ ~headers_written))

-----------------------------------------------------------------------------
(* The handler *)

\* Response.header with Content-Type.
SetTypeHeader ==
  /\ phase = "handler" /\ ~headers_written
  /\ type_header \/ FreeSlot
  /\ type_header' = TRUE
  /\ UNCHANGED <<phase, head, length_header, others, content_type, bodyVars,
                 flagVars, countVars, wire, ghostVars>>

\* Response.header with a name framing does not depend on, or setCookie.
AddHeader ==
  /\ phase = "handler" /\ ~headers_written /\ FreeSlot
  /\ others < MaxOthers
  /\ others' = others + 1
  /\ UNCHANGED <<phase, head, type_header, length_header, content_type,
                 bodyVars, flagVars, countVars, wire, ghostVars>>

\* Response.header("Content-Length", n).
SetLength(n) ==
  /\ phase = "handler" /\ ~headers_written
  /\ length_header # None \/ FreeSlot
  /\ length_header' = n
  /\ UNCHANGED <<phase, head, type_header, others, content_type, bodyVars,
                 flagVars, countVars, wire, ghostVars>>

\* res.content_type = ..., at any time.
SetContentType ==
  /\ phase = "handler"
  /\ content_type' = TRUE
  /\ UNCHANGED <<phase, head, type_header, length_header, others, bodyVars,
                 flagVars, countVars, wire, ghostVars>>

\* res.body = ..., at any time.
SetBody(n) ==
  /\ phase = "handler"
  /\ body' = n
  /\ UNCHANGED <<phase, head, headerVars, buffer, writer, stream, pending, flagVars,
                 countVars, wire, ghostVars>>

\* startBody's assertions.
MayStartBody ==
  /\ phase = "handler" /\ ~body_writer_open /\ ~headers_written
  /\ body = 0 /\ buffer = 0

\* Response.writer.
OpenWriter ==
  /\ MayStartBody
  /\ body_writer_open' = TRUE
  /\ writer' = "buffered"
  /\ UNCHANGED <<phase, head, headerVars, body, buffer, stream, pending, keepalive,
                 chunked, streaming, written, headers_written, countVars, wire,
                 ghostVars>>

\* BodyWriter.drain: into the response's own buffer.
BufferBody ==
  /\ phase = "handler" /\ writer = "buffered"
  /\ buffer < MaxBytes
  /\ buffer' = buffer + 1
  /\ UNCHANGED <<phase, head, headerVars, body, writer, stream, pending, flagVars,
                 countVars, wire, ghostVars>>

\* Response.json: the buffer, whatever else was started, and then the header,
\* which may be refused.
Json ==
  /\ phase = "handler"
  /\ buffer < MaxBytes
  /\ buffer' = buffer + 1
  /\ type_header' = (type_header \/ (~headers_written /\ FreeSlot))
  /\ UNCHANGED <<phase, head, length_header, others, content_type, body,
                 writer, stream, pending, flagVars, countVars, wire, ghostVars>>

\* BodyWriter.end.  A second one finds the writer closed and does nothing.
EndWriter ==
  /\ phase = "handler" /\ writer = "buffered" /\ body_writer_open
  /\ body_writer_open' = FALSE
  /\ UNCHANGED <<phase, head, headerVars, bodyVars, keepalive, chunked,
                 streaming, written, headers_written, countVars, wire, ghostVars>>

\* Response.stream: the framing is decided, then the head is sent.  When the
\* length does not parse or the head does not fit, the handler gets the error,
\* no writer, and what was decided so far stays decided.
Stream ==
  /\ MayStartBody
  /\ body_writer_open' = TRUE
  /\ content_length' = IF length_header = Unparsable THEN content_length
                       ELSE length_header
  /\ chunked' = (chunked \/ length_header = None)
  /\ IF HeaderFits /\ length_header # Unparsable
     THEN /\ WriteHeader
          /\ wire' = wire \o HeadOnWire(chunked', streaming)
          /\ writer' = "streaming"
          /\ UNCHANGED refused
     ELSE /\ refused' = (refused \/ (length_header # Unparsable /\ ~HeaderFits))
          /\ UNCHANGED <<type_header, headers_written, wire, writer>>
  /\ UNCHANGED <<phase, head, length_header, others, content_type, body, buffer,
                 stream, pending, keepalive, streaming, written, body_sent, faults>>

\* The handler has a StreamingBodyWriter and has not ended it.
StreamOpen == phase = "handler" /\ writer = "streaming" /\ body_writer_open

\* Bytes go to the writer's own buffer first.
StreamWrite ==
  /\ StreamOpen
  /\ body_sent + pending < MaxBytes
  /\ pending' = pending + 1
  /\ UNCHANGED <<phase, head, headerVars, body, buffer, writer, stream, flagVars,
                 countVars, wire, ghostVars>>

\* Mutant: draining nothing still writes a chunk, of length zero.
Drained_EmptyChunk(n) ==
  IF head THEN <<>>
  ELSE IF chunked THEN <<DataToken(IF n = 0 THEN "term" ELSE "chunk", n)>>
  ELSE Raw(n)

\* What draining n bytes puts on the wire.  A zero length chunk would be the
\* terminator, and a HEAD sends no body.
Drained(n) ==
  IF n = 0 \/ head THEN <<>>
  ELSE IF chunked THEN <<DataToken("chunk", n)>> ELSE Raw(n)

\* StreamingBodyWriter.drain.
StreamFlush ==
  /\ StreamOpen
  /\ wire' = wire \o Drained(pending)
  /\ body_sent' = body_sent + pending
  /\ pending' = 0
  /\ UNCHANGED <<phase, head, headerVars, body, buffer, writer, stream, flagVars,
                 content_length, ghostVars>>

\* The drain is canceled half way, and the handler catches the error: part of
\* it is on the wire, none of it counts as sent.
StreamFlushCanceled ==
  /\ StreamOpen /\ ~head
  /\ pending > 0 /\ faults < MaxFaults
  /\ faults' = faults + 1
  /\ wire' = Append(wire, Debris)
  /\ UNCHANGED <<phase, head, headerVars, bodyVars, flagVars, countVars, refused>>

\* Mutant: a body of the wrong length does not end keep-alive.
StreamEnd_NoMismatch ==
  /\ StreamOpen
  /\ body_writer_open' = FALSE
  /\ written' = TRUE
  /\ body_sent' = body_sent + pending
  /\ pending' = 0
  /\ wire' = wire \o Drained(pending)
                  \o (IF chunked /\ ~head THEN <<Terminator>> ELSE <<>>)
  /\ UNCHANGED <<phase, head, headerVars, body, buffer, writer, stream, keepalive,
                 chunked, streaming, headers_written, content_length, ghostVars>>

\* StreamingBodyWriter.end: drain, terminate, and compare with the length that
\* was declared.  A second end finds the writer closed and does nothing.
StreamEnd ==
  /\ StreamOpen
  /\ body_writer_open' = FALSE
  /\ written' = TRUE
  /\ body_sent' = body_sent + pending
  /\ pending' = 0
  /\ wire' = wire \o Drained(pending)
                  \o (IF chunked /\ ~head THEN <<Terminator>> ELSE <<>>)
  /\ keepalive' = (keepalive /\ (content_length = None
                                   \/ body_sent + pending = content_length))
  /\ UNCHANGED <<phase, head, headerVars, body, buffer, writer, stream, chunked,
                 streaming, headers_written, content_length, ghostVars>>

\* end, canceled while it drains, terminates or flushes: its errdefer ends
\* keep-alive, and nothing reads the counts again.  Of a HEAD's only the flush can
\* be, when all is on the wire.
StreamEndCanceled ==
  /\ StreamOpen
  /\ body_writer_open' = FALSE
  /\ written' = TRUE
  /\ keepalive' = FALSE
  /\ wire' = IF head THEN wire ELSE Append(wire, Debris)
  /\ UNCHANGED <<phase, head, headerVars, bodyVars, chunked, streaming,
                 headers_written, countVars, ghostVars>>

\* n more headers of which any may be there already.
AddOthers(n) ==
  others' \in {others + n - k : k \in {j \in 0..n : j <= others}}

\* startEventStream: two headers, then a head whose body only a close ends.
\* With no room for both the handler gets the error, as from SetTypeHeader.
StartEventStream ==
  /\ phase = "handler" /\ ~headers_written
  /\ type_header' = TRUE
  /\ AddOthers(1)
  /\ HeaderCount + (IF type_header THEN 0 ELSE 1) + (others' - others)
       <= MaxHeaders
  /\ keepalive' = FALSE
  /\ streaming' = TRUE
  /\ headers_written' = TRUE
  /\ wire' = wire \o HeadOnWire(chunked, TRUE)
  /\ stream' = "events"
  /\ UNCHANGED <<phase, head, length_header, content_type, body, buffer, writer,
                 pending, chunked, written, body_writer_open, countVars, ghostVars>>

\* EventStream.send: straight to the connection, or into a sink for a HEAD.
SendEvent ==
  /\ phase = "handler" /\ stream = "events"
  /\ Len(wire) <= MaxBytes
  /\ wire' = IF head THEN wire ELSE wire \o Raw(1)
  /\ UNCHANGED <<phase, head, headerVars, bodyVars, flagVars, countVars, ghostVars>>

\* upgradeWebSocket: three headers, then the head of a 101.  If that does not
\* fit, what was set so far stays set.
UpgradeWebSocket ==
  /\ phase = "handler" /\ ~headers_written
  /\ AddOthers(3)
  /\ HeaderCount + (others' - others) <= MaxHeaders
  /\ streaming' = TRUE
  /\ IF ~content_type \/ type_header \/ HeaderCount + (others' - others) < MaxHeaders
     THEN /\ WriteHeader
          /\ wire' = Append(wire, HeadToken("upgrade", 0))
          /\ stream' = "socket"
          /\ UNCHANGED refused
     ELSE /\ refused' = TRUE
          /\ UNCHANGED <<type_header, headers_written, wire, stream>>
  /\ UNCHANGED <<phase, head, length_header, content_type, body, buffer, writer,
                 pending, keepalive, chunked, written, body_writer_open,
                 countVars, faults>>

\* The WebSocket writes to the connection, past the response.
SendFrame ==
  /\ phase = "handler" /\ stream = "socket"
  /\ Len(wire) <= MaxBytes
  /\ wire' = Append(wire, DataToken("frame", 1))
  /\ UNCHANGED <<phase, head, headerVars, bodyVars, flagVars, countVars, ghostVars>>

-----------------------------------------------------------------------------
(* Executor.run *)

HandlerReturns ==
  /\ phase = "handler"
  /\ phase' = "write"
  /\ UNCHANGED <<head, headerVars, bodyVars, flagVars, countVars, wire, ghostVars>>

\* An I/O error, or any error once the head is out: no reply can be made.
HandlerAborts ==
  /\ phase = "handler"
  /\ phase' = "aborted"
  /\ UNCHANGED <<head, headerVars, bodyVars, flagVars, countVars, wire, ghostVars>>

\* resetBody: a body that was started, and what described it.
ResetBody ==
  /\ buffer' = 0
  /\ body_writer_open' = FALSE
  /\ type_header' = FALSE
  /\ length_header' = None

\* A page of the executor's own, in place of the body.
Page == content_type' = TRUE /\ body' = 1

\* handleError.
HandleError ==
  /\ phase = "handler" /\ ~headers_written
  /\ ResetBody
  /\ Page
  /\ phase' = "write"
  /\ UNCHANGED <<head, others, writer, stream, pending, keepalive, chunked, streaming,
                 written, headers_written, countVars, wire, ghostVars>>

\* handleNotFound, after which the middlewares around it go on.
HandleNotFound ==
  /\ phase = "handler"
  /\ IF headers_written
     THEN UNCHANGED <<buffer, body_writer_open, type_header, length_header>>
     ELSE ResetBody
  /\ Page
  /\ UNCHANGED <<phase, head, others, writer, stream, pending, keepalive, chunked,
                 streaming, written, headers_written, countVars, wire, ghostVars>>

-----------------------------------------------------------------------------
(* Response.write, one action per way through it *)

Done == phase' = "done"

\* Already sent by an end.
WriteNothing ==
  /\ phase = "write" /\ written
  /\ Done
  /\ UNCHANGED <<head, headerVars, bodyVars, flagVars, countVars, wire, ghostVars>>

\* Mutant: the terminator is written for a HEAD too.
WriteAbandoned_Head ==
  /\ phase = "write" /\ ~written /\ body_writer_open /\ headers_written
  /\ body_writer_open' = FALSE
  /\ written' = TRUE
  /\ wire' = IF chunked THEN Append(wire, Terminator) ELSE wire
  /\ Done
  /\ UNCHANGED <<head, headerVars, bodyVars, keepalive, chunked, streaming,
                 headers_written, countVars, ghostVars>>

\* A body writer was left open and the head is out: end its framing, or give up keep-alive.
WriteAbandoned ==
  /\ phase = "write" /\ ~written /\ body_writer_open /\ headers_written
  /\ body_writer_open' = FALSE
  /\ written' = TRUE
  /\ wire' = IF chunked /\ ~head THEN Append(wire, Terminator) ELSE wire
  /\ keepalive' = (keepalive /\ (chunked \/ content_length = None
                                   \/ body_sent = content_length))
  /\ Done
  /\ UNCHANGED <<head, headerVars, bodyVars, chunked, streaming,
                 headers_written, countVars, ghostVars>>

\* Neither of the above, and the response is marked chunked.
WriteTerminator ==
  /\ phase = "write" /\ ~written /\ ~(body_writer_open /\ headers_written)
  /\ chunked
  /\ body_writer_open' = FALSE
  /\ written' = TRUE
  /\ wire' = IF head THEN wire ELSE Append(wire, Terminator)
  /\ Done
  /\ UNCHANGED <<head, headerVars, bodyVars, keepalive, chunked, streaming,
                 headers_written, countVars, ghostVars>>

\* The usual case: the head, unless it is out, and the buffered body.
WriteBuffered ==
  /\ phase = "write" /\ ~written /\ ~(body_writer_open /\ headers_written)
  /\ ~chunked
  /\ HeaderFits
  /\ body_writer_open' = FALSE
  /\ written' = TRUE
  /\ WriteHeader
  /\ wire' = wire \o HeadOnWire(FALSE, streaming)
                  \o (IF head THEN <<>> ELSE Raw(BufferedLength))
  /\ Done
  /\ UNCHANGED <<head, length_header, others, content_type, bodyVars,
                 keepalive, chunked, streaming, countVars, ghostVars>>

\* The head does not fit: write returns the error, the connection ends.
WriteFails ==
  /\ phase = "write" /\ ~written /\ ~(body_writer_open /\ headers_written)
  /\ ~chunked
  /\ ~HeaderFits
  /\ phase' = "aborted"
  /\ body_writer_open' = FALSE
  /\ written' = TRUE
  /\ UNCHANGED <<head, headerVars, bodyVars, keepalive, chunked, streaming,
                 headers_written, countVars, wire, ghostVars>>

-----------------------------------------------------------------------------
Handler ==
  \/ SetTypeHeader \/ AddHeader \/ SetContentType
  \/ \E n \in 0..MaxBytes : SetBody(n)
  \/ \E n \in {Unparsable} \cup 0..MaxBytes : SetLength(n)
  \/ OpenWriter \/ BufferBody \/ Json \/ EndWriter
  \/ Stream \/ StreamWrite \/ StreamFlush \/ StreamFlushCanceled
  \/ StreamEnd \/ StreamEndCanceled
  \/ StartEventStream \/ SendEvent \/ UpgradeWebSocket \/ SendFrame

Executor == HandlerReturns \/ HandlerAborts \/ HandleError \/ HandleNotFound

Write == WriteNothing \/ WriteAbandoned \/ WriteTerminator \/ WriteBuffered
           \/ WriteFails

Next ==
  \/ Handler
  \/ Executor
  \/ Write
  \/ phase \in {"done", "aborted"} /\ UNCHANGED vars

Spec == Init /\ [][Next]_vars

-----------------------------------------------------------------------------
(* Properties *)

\* The raw body bytes among the tokens w are n in all; sum[i] counts those of
\* the first i tokens.
RawBytes(w, n) ==
  \E sum \in [0..Len(w) -> 0..n] :
    /\ sum[0] = 0 /\ sum[Len(w)] = n
    /\ \A i \in 1..Len(w) :
         sum[i] = sum[i - 1] + (IF w[i].kind = "raw" THEN w[i].len ELSE 0)

\* The bytes of the response are one whole message, as its own head frames it.
WholeMessage ==
  /\ wire # <<>> /\ wire[1].kind = "head"
  /\ \/ head /\ Len(wire) = 1
     \/ /\ ~head /\ wire[1].framing = "chunked"
        /\ Len(wire) >= 2
        /\ wire[Len(wire)].kind = "term"
        /\ \A i \in 2..Len(wire) - 1 : wire[i].kind = "chunk"
     \/ /\ ~head /\ wire[1].framing = "length"
        /\ \A i \in 2..Len(wire) : wire[i].kind = "raw"
        /\ RawBytes(wire, wire[1].len)

\* The handler set a Content-Length by hand for a body it then buffered, and
\* it was not the body's length; writeHeader leaves a length that is set alone.
HandlerMisdeclared ==
  /\ content_length = None /\ length_header # None
  /\ length_header # BufferedLength

\* A connection is only kept for another request when this response was one
\* whole message, whatever the handler did: streamed and abandoned it, declared
\* one length and sent another, failed half way, called end twice.  The
\* exceptions are a length the handler set wrong, a canceled flush it ignored,
\* a connection it has made a WebSocket, and a head that was refused.
KeptMeansWhole ==
  phase = "done" /\ keepalive /\ faults = 0 /\ stream # "socket" /\ ~refused =>
    WholeMessage \/ HandlerMisdeclared

\* Unless a head was refused for want of a header slot, everything that goes out
\* follows the response's one head, in every order of the handler's calls.  The
\* comment in write that "a streaming writer sent the headers; all that is left
\* is the terminator" relies on it.  Even on a connection that will be closed,
\* nothing follows the terminator: the peer would read it as the next message.
HeadFirstTermLast ==
  /\ ~refused => \A i \in DOMAIN wire : wire[i].kind = "head" <=> i = 1
  /\ \A i \in DOMAIN wire : wire[i].kind = "term" => i = Len(wire)

\* A HEAD is answered by a head alone, whichever of the writers the handler
\* used and however it left them; body framing counts as body, frames do not.
HeadHasNoBody ==
  head => \A i \in DOMAIN wire : wire[i].kind \in {"head", "frame"}
=============================================================================
