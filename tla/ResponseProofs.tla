--------------------------- MODULE ResponseProofs ---------------------------
(***************************************************************************)
(* Proofs about Response, for every order of the handler's calls, any      *)
(* number of headers and any body.                                         *)
(***************************************************************************)
EXTENDS Response, EntriesProofs, TLAPS

InProgress == {"handler", "write"}

-----------------------------------------------------------------------------
(* The flags *)

\* What the flags say of each other.  Only a stream that was refused for want of
\* a header slot leaves a response chunked without a head; a streaming writer,
\* an event stream and an upgrade each need the head to themselves.
FlagsInv ==
  /\ ~headers_written /\ ~refused => ~chunked /\ ~streaming /\ content_length = None
  /\ writer = "streaming" =>
       headers_written /\ stream = "none" /\ (body_writer_open \/ written)
  /\ stream # "none" => headers_written
  /\ stream \in {"none", "socket"} \/ ~keepalive
  /\ headers_written /\ phase \in InProgress => writer = "streaming" \/ stream # "none"
  /\ written /\ phase \in InProgress => writer = "streaming" /\ ~body_writer_open
  /\ writer = "streaming" /\ ~refused /\ content_length = None => chunked

LEMMA FlagsInit == Init => FlagsInv
  BY Zenon DEF Init, FlagsInv

\* The steps that set no flag.
LEMMA FlagsSame ==
  ASSUME FlagsInv, UNCHANGED <<phase, writer, stream, flagVars, content_length, refused>>
  PROVE  FlagsInv'
<1>1. UNCHANGED <<phase, writer, stream, content_length, refused, keepalive, chunked,
                  streaming, written, headers_written, body_writer_open>>
  BY Zenon DEF flagVars
<1> QED
  BY <1>1 DEF FlagsInv

LEMMA FlagsNext == FlagsInv /\ [Next]_vars => FlagsInv'
<1> SUFFICES ASSUME FlagsInv, [Next]_vars
             PROVE  FlagsInv'
  OBVIOUS
<1>1. CASE \/ SetTypeHeader \/ AddHeader \/ SetContentType
           \/ (\E n \in 0..MaxBytes : SetBody(n))
           \/ (\E n \in {Unparsable} \cup 0..MaxBytes : SetLength(n))
           \/ BufferBody \/ Json \/ StreamWrite \/ StreamFlush \/ StreamFlushCanceled
           \/ SendEvent \/ SendFrame \/ UNCHANGED vars
  <2>1. UNCHANGED <<phase, writer, stream, flagVars, content_length, refused>>
    BY <1>1, Zenon
       DEF SetTypeHeader, AddHeader, SetContentType, SetBody, SetLength, BufferBody, Json,
           StreamWrite, StreamFlush, StreamFlushCanceled, SendEvent, SendFrame, vars,
           bodyVars, countVars, ghostVars
  <2> QED
    BY <2>1, FlagsSame
<1>2. CASE OpenWriter
  BY <1>2, Zenon DEF OpenWriter, MayStartBody, FlagsInv, InProgress, countVars, ghostVars
<1>3. CASE EndWriter
  BY <1>3, Zenon DEF EndWriter, FlagsInv, InProgress, bodyVars, countVars, ghostVars
<1>4. CASE Stream
  <2>1. /\ phase = "handler" /\ phase' = "handler" /\ ~headers_written
        /\ body_writer_open' /\ UNCHANGED <<stream, keepalive, streaming, written>>
        /\ content_length' = IF length_header = Unparsable THEN content_length
                             ELSE length_header
        /\ (chunked' => chunked \/ length_header = None) /\ (length_header = None => chunked')
    BY <1>4, Zenon DEF Stream, MayStartBody
  <2>2. \/ length_header # Unparsable /\ headers_written' /\ writer' = "streaming"
           /\ refused' = refused
        \/ headers_written' = headers_written /\ writer' = writer /\ refused'
        \/ length_header = Unparsable /\ headers_written' = headers_written
           /\ writer' = writer /\ (refused' => refused) /\ (refused => refused')
    BY <1>4, Zenon DEF Stream, WriteHeader
  <2>3. Unparsable # None
    BY DEF Unparsable, None
  <2> QED
    BY <2>1, <2>2, <2>3 DEF FlagsInv, InProgress
<1>5. CASE StreamEnd
  BY <1>5, Zenon DEF StreamEnd, StreamOpen, FlagsInv, InProgress, ghostVars
<1>6. CASE StreamEndCanceled
  BY <1>6, Zenon DEF StreamEndCanceled, StreamOpen, FlagsInv, InProgress, bodyVars,
                     countVars, ghostVars
<1>7. CASE StartEventStream
  BY <1>7, Zenon DEF StartEventStream, FlagsInv, InProgress, countVars, ghostVars
<1>8. CASE UpgradeWebSocket
  <2>1. /\ phase = "handler" /\ phase' = "handler" /\ ~headers_written
        /\ UNCHANGED <<writer, keepalive, chunked, written, body_writer_open, content_length>>
        /\ \/ headers_written' /\ stream' = "socket" /\ refused' = refused
           \/ refused' /\ UNCHANGED <<headers_written, stream>>
    BY <1>8, Zenon DEF UpgradeWebSocket, WriteHeader, countVars
  <2> QED
    BY <2>1 DEF FlagsInv, InProgress
<1>9. CASE HandlerReturns \/ HandlerAborts
  BY <1>9 DEF HandlerReturns, HandlerAborts, FlagsInv, InProgress, bodyVars,
                     flagVars, countVars, ghostVars
<1>10. CASE HandleError
  BY <1>10, Zenon DEF HandleError, ResetBody, FlagsInv, InProgress, countVars, ghostVars
<1>11. CASE HandleNotFound
  <2>1. /\ phase = "handler" /\ phase' = phase
        /\ body_writer_open' = body_writer_open \/ (~headers_written /\ ~body_writer_open')
        /\ UNCHANGED <<writer, stream, keepalive, chunked, streaming, written,
                       headers_written, content_length, refused>>
    BY <1>11, Zenon DEF HandleNotFound, ResetBody, countVars, ghostVars
  <2> QED
    BY <2>1 DEF FlagsInv, InProgress
<1>12. CASE WriteNothing
  BY <1>12, Zenon DEF WriteNothing, Done, FlagsInv, InProgress, bodyVars, flagVars,
                      countVars, ghostVars
<1>13. CASE WriteAbandoned
  BY <1>13, Zenon DEF WriteAbandoned, Done, FlagsInv, InProgress, bodyVars, countVars,
                      ghostVars
<1>14. CASE WriteTerminator
  BY <1>14, Zenon DEF WriteTerminator, Done, FlagsInv, InProgress, bodyVars, countVars,
                      ghostVars
<1>15. CASE WriteBuffered
  BY <1>15, Zenon DEF WriteBuffered, WriteHeader, Done, FlagsInv, InProgress, bodyVars,
                      countVars, ghostVars
<1>16. CASE WriteFails
  BY <1>16, Zenon DEF WriteFails, FlagsInv, InProgress, bodyVars, countVars, ghostVars
<1> QED
  BY <1>1, <1>2, <1>3, <1>4, <1>5, <1>6, <1>7, <1>8, <1>9, <1>10, <1>11, <1>12, <1>13,
     <1>14, <1>15, <1>16
     DEF Next, Handler, Executor, Write

-----------------------------------------------------------------------------
(* Tokens *)

Token == [kind : {"head", "raw", "chunk", "term", "frame", "debris"},
          framing : {"", "chunked", "length", "close", "upgrade"}, len : Int]

OneHead(w) == w # <<>> /\ \A i \in DOMAIN w : w[i].kind = "head" <=> i = 1
NoTerm(w) == \A i \in DOMAIN w : w[i].kind # "term"
TermLast(w) == \A i \in DOMAIN w : w[i].kind = "term" => i = Len(w)
NoBody(w) == \A i \in DOMAIN w : w[i].kind \in {"head", "frame"}
RestIs(w, k) == \A i \in 2..Len(w) : w[i].kind = k

\* One token more.
LEMMA TokenAppend ==
  ASSUME NEW w \in Seq(Token), NEW t \in Token, NEW v, v = Append(w, t)
  PROVE  /\ v \in Seq(Token) /\ v # <<>> /\ Len(v) = Len(w) + 1 /\ v[Len(v)] = t
         /\ OneHead(w) /\ t.kind # "head" => OneHead(v)
         /\ w = <<>> /\ t.kind = "head" => OneHead(v) /\ v[1] = t /\ Len(v) = 1
         /\ w # <<>> => v[1] = w[1] /\ Len(v) >= 2
         /\ NoTerm(w) => TermLast(v)
         /\ NoTerm(w) /\ t.kind # "term" => NoTerm(v)
         /\ NoBody(w) /\ t.kind \in {"head", "frame"} => NoBody(v)
<1>1. /\ v \in Seq(Token) /\ Len(v) = Len(w) + 1 /\ v[Len(w) + 1] = t
      /\ \A i \in DOMAIN w : v[i] = w[i]
      /\ DOMAIN v = 1..(Len(w) + 1) /\ DOMAIN w = 1..Len(w)
      /\ Len(w) \in Nat /\ v # <<>>
  BY AppendFacts
<1>2. w = <<>> <=> Len(w) = 0
  OBVIOUS
<1>3. OneHead(w) /\ t.kind # "head" => OneHead(v)
  BY <1>1, <1>2 DEF OneHead
<1>4. w = <<>> /\ t.kind = "head" => OneHead(v) /\ v[1] = t /\ Len(v) = 1
  BY <1>1, <1>2 DEF OneHead
<1>5. w # <<>> => v[1] = w[1] /\ Len(v) >= 2
  BY <1>1, <1>2
<1>6. /\ NoTerm(w) => TermLast(v)
      /\ NoTerm(w) /\ t.kind # "term" => NoTerm(v)
      /\ NoBody(w) /\ t.kind \in {"head", "frame"} => NoBody(v)
  BY <1>1 DEF NoTerm, TermLast, NoBody
<1> QED
  BY <1>1, <1>3, <1>4, <1>5, <1>6

\* ... of the kind the body consists of, or the one that ends it.
LEMMA RestAppend ==
  ASSUME NEW w \in Seq(Token), NEW t \in Token, NEW k, w # <<>>, RestIs(w, k)
  PROVE  /\ Append(w, t) # <<>> /\ Append(w, t)[1] = w[1] /\ Len(Append(w, t)) >= 2
         /\ Append(w, t)[Len(Append(w, t))] = t
         /\ t.kind = k => RestIs(Append(w, t), k)
         /\ \A i \in 2..Len(Append(w, t)) - 1 : Append(w, t)[i].kind = k
<1> DEFINE v == Append(w, t)
<1>1. v = Append(w, t)
  OBVIOUS
<1> HIDE DEF v
<1>2. /\ v \in Seq(Token) /\ Len(v) = Len(w) + 1 /\ v[Len(w) + 1] = t
      /\ \A i \in DOMAIN w : v[i] = w[i]
      /\ DOMAIN v = 1..(Len(w) + 1) /\ DOMAIN w = 1..Len(w)
      /\ Len(w) \in Nat /\ v # <<>>
  BY <1>1, AppendFacts
<1>3. Len(w) > 0
  BY <1>2
<1> QED
  BY <1>2, <1>3 DEF RestIs, v

LEMMA CatToken ==
  ASSUME NEW w \in Seq(Token), NEW t \in Token
  PROVE  w \o <<t>> = Append(w, t) /\ w \o <<>> = w
  OBVIOUS

LEMMA CatEmpty ==
  ASSUME NEW w \in Seq(Token), NEW e, e = <<>>
  PROVE  w \o e = w
  OBVIOUS

\* A prefix has the sums of its own.
LEMMA RawAppend ==
  ASSUME NEW w \in Seq(Token), NEW t \in Token, NEW n \in Nat, RawBytes(w, n),
         t.kind = "raw" => t.len \in Nat
  PROVE  RawBytes(Append(w, t), n + (IF t.kind = "raw" THEN t.len ELSE 0))
<1> DEFINE k == IF t.kind = "raw" THEN t.len ELSE 0
           v == Append(w, t)
           m == Len(w)
<1>0. k \in Nat /\ m \in Nat
  OBVIOUS
<1>1. /\ Len(v) = m + 1 /\ v[m + 1] = t /\ \A i \in 1..m : v[i] = w[i]
  BY AppendFacts
<1>2. PICK sum \in [0..m -> 0..n] :
        /\ sum[0] = 0 /\ sum[m] = n
        /\ \A i \in 1..m :
             sum[i] = sum[i - 1] + (IF w[i].kind = "raw" THEN w[i].len ELSE 0)
  BY DEF RawBytes
<1> DEFINE g == [i \in 0..(m + 1) |-> IF i = m + 1 THEN n + k ELSE sum[i]]
<1> HIDE DEF v, k
<1>3. g \in [0..(m + 1) -> 0..(n + k)]
  BY <1>0, <1>2
<1>4. g[0] = 0 /\ g[m + 1] = n + k
  BY <1>0, <1>2
<1>5. \A i \in 1..(m + 1) :
        g[i] = g[i - 1] + (IF v[i].kind = "raw" THEN v[i].len ELSE 0)
  <2> SUFFICES ASSUME NEW i \in 1..(m + 1)
               PROVE  g[i] = g[i - 1] + (IF v[i].kind = "raw" THEN v[i].len ELSE 0)
    OBVIOUS
  <2>1. CASE i = m + 1
    BY <1>0, <1>1, <1>2, <2>1 DEF k
  <2>2. CASE i \in 1..m
    <3>1. g[i] = sum[i] /\ g[i - 1] = sum[i - 1] /\ v[i] = w[i]
      BY <1>0, <1>1, <2>2
    <3> QED
      BY <1>2, <2>2, <3>1
  <2> QED
    BY <1>0, <2>1, <2>2
<1> HIDE DEF g
<1>6. RawBytes(v, n + k)
  BY <1>1, <1>3, <1>4, <1>5 DEF RawBytes
<1> QED
  BY <1>6 DEF v, k

\* A head alone has no body bytes.
LEMMA RawHead ==
  ASSUME NEW w \in Seq(Token), Len(w) = 1, w[1].kind # "raw"
  PROVE  RawBytes(w, 0)
<1> DEFINE g == [i \in 0..1 |-> 0]
<1>1. g \in [0..Len(w) -> 0..0] /\ g[0] = 0 /\ g[Len(w)] = 0
  OBVIOUS
<1>2. \A i \in 1..Len(w) : g[i] = g[i - 1] + (IF w[i].kind = "raw" THEN w[i].len ELSE 0)
  OBVIOUS
<1> QED
  BY <1>1, <1>2 DEF RawBytes

-----------------------------------------------------------------------------
(* The wire *)

TypeInv ==
  /\ wire \in Seq(Token)
  /\ length_header \in Int
  /\ body \in Nat /\ buffer \in Nat /\ pending \in Nat /\ body_sent \in Nat
  /\ faults \in Nat

\* One head, and it comes first; before it nothing.
HeadsInv ==
  /\ headers_written => OneHead(wire)
  /\ ~headers_written /\ (phase \in InProgress \/ ~refused) => wire = <<>>

\* The terminator ends the response.
TermInv == TermLast(wire) /\ (phase \in InProgress /\ ~written => NoTerm(wire))

\* What the invariant says of the wire.
WireOK == wire \in Seq(Token) /\ HeadsInv /\ TermInv /\ (head => NoBody(wire))

WireInv == TypeInv /\ FlagsInv /\ HeadsInv /\ TermInv /\ (head => NoBody(wire))

LEMMA TokenTypes ==
  /\ \A n \in Int : DataToken("raw", n) \in Token /\ DataToken("raw", n).kind = "raw"
                    /\ DataToken("raw", n).len = n
  /\ \A n \in Int : DataToken("chunk", n) \in Token /\ DataToken("chunk", n).kind = "chunk"
  /\ \A n \in Int : DataToken("frame", n) \in Token /\ DataToken("frame", n).kind = "frame"
  /\ Debris \in Token /\ Debris.kind = "debris"
  /\ Terminator \in Token /\ Terminator.kind = "term"
  /\ \A f \in {"chunked", "length", "close", "upgrade"}, n \in Int :
       /\ HeadToken(f, n) \in Token /\ HeadToken(f, n).kind = "head"
       /\ HeadToken(f, n).framing = f /\ HeadToken(f, n).len = n
  BY DEF DataToken, HeadToken, Debris, Terminator, Token

\* A response whose head is out and which may go on.
Sent(w) == w \in Seq(Token) /\ OneHead(w) /\ NoTerm(w) /\ (head => NoBody(w))

LEMMA SentNow ==
  ASSUME WireInv, headers_written, phase \in InProgress, ~written
  PROVE  Sent(wire)
  BY DEF WireInv, TypeInv, HeadsInv, TermInv, Sent

LEMMA SentHead ==
  ASSUME NEW t \in Token, t.kind = "head"
  PROVE  Sent(Append(<<>>, t))
<1>1. <<>> \in Seq(Token) /\ NoTerm(<<>>) /\ NoBody(<<>>)
  BY DEF NoTerm, NoBody
<1> QED
  BY <1>1, TokenAppend DEF Sent

LEMMA SentMore ==
  ASSUME NEW w, Sent(w), NEW t \in Token, t.kind \notin {"head", "term"},
         head => t.kind = "frame"
  PROVE  Sent(Append(w, t))
<1>1. w \in Seq(Token) /\ OneHead(w) /\ NoTerm(w) /\ (head => NoBody(w))
  BY DEF Sent
<1>2. Append(w, t) \in Seq(Token) /\ OneHead(Append(w, t)) /\ NoTerm(Append(w, t))
  BY <1>1, TokenAppend
<1>3. head => NoBody(Append(w, t))
  BY <1>1, TokenAppend
<1> QED
  BY <1>2, <1>3 DEF Sent

\* What a step leaves on the wire while the response may go on, or at its end.
LEMMA SentWire ==
  ASSUME head' <=> head, headers_written', Sent(wire')
  PROVE  WireOK'
<1>1. /\ wire' \in Seq(Token) /\ OneHead(wire') /\ NoTerm(wire') /\ (head => NoBody(wire'))
  BY DEF Sent
<1>2. HeadsInv'
  BY <1>1 DEF HeadsInv
<1>3. TermInv'
  BY <1>1 DEF TermInv, TermLast, NoTerm
<1> QED
  BY <1>1, <1>2, <1>3 DEF WireOK

LEMMA EndWire ==
  ASSUME head' <=> head, headers_written', NEW w, Sent(w), ~head,
         wire' = Append(w, Terminator), written' \/ phase' \notin InProgress
  PROVE  WireOK'
<1>1. Terminator \in Token /\ Terminator.kind = "term"
  BY TokenTypes
<1>2. w \in Seq(Token) /\ OneHead(w) /\ NoTerm(w)
  BY DEF Sent
<1>3. wire' \in Seq(Token) /\ OneHead(wire') /\ TermLast(wire')
  BY <1>1, <1>2, TokenAppend
<1>4. HeadsInv' /\ TermInv'
  BY <1>3 DEF HeadsInv, TermInv
<1> QED
  BY <1>3, <1>4 DEF WireOK

LEMMA QuietWire ==
  ASSUME WireInv, head' <=> head, wire' = wire,
         headers_written' <=> headers_written,
         phase' \in InProgress => phase \in InProgress,
         phase' \in InProgress \/ ~refused' => phase \in InProgress \/ ~refused,
         phase' \in InProgress /\ ~written' => ~written
  PROVE  WireOK'
  BY DEF WireInv, TypeInv, HeadsInv, TermInv, WireOK

\* What draining leaves on the wire.
LEMMA DrainedWire ==
  ASSUME NEW w, Sent(w), NEW n \in Nat
  PROVE  /\ Sent(w \o Drained(n))
         /\ \/ w \o Drained(n) = w /\ (n = 0 \/ head)
            \/ /\ ~head
               /\ w \o Drained(n) = Append(w, DataToken(IF chunked THEN "chunk" ELSE "raw", n))
<1>1. w \in Seq(Token)
  BY DEF Sent
<1>2. CASE n = 0 \/ head
  <2>1. w \o Drained(n) = w
    BY <1>1, <1>2 DEF Drained
  <2> QED
    BY <1>2, <2>1
<1>3. CASE n # 0 /\ ~head /\ chunked
  <2>1. Drained(n) = <<DataToken("chunk", n)>>
    BY <1>3 DEF Drained
  <2>2. w \o Drained(n) = Append(w, DataToken("chunk", n))
    BY <1>1, <2>1, CatToken, TokenTypes
  <2>3. Sent(Append(w, DataToken("chunk", n)))
    BY <1>3, TokenTypes, SentMore
  <2> QED
    BY <1>3, <2>2, <2>3
<1>4. CASE n # 0 /\ ~head /\ ~chunked
  <2>1. Drained(n) = <<DataToken("raw", n)>>
    BY <1>4 DEF Drained, Raw
  <2>2. w \o Drained(n) = Append(w, DataToken("raw", n))
    BY <1>1, <2>1, CatToken, TokenTypes
  <2>3. Sent(Append(w, DataToken("raw", n)))
    BY <1>4, TokenTypes, SentMore
  <2> QED
    BY <1>4, <2>2, <2>3
<1> QED
  BY <1>2, <1>3, <1>4

LEMMA FramingType ==
  ASSUME TypeInv, NEW c, NEW s
  PROVE  Framing(c, s) \in Token /\ Framing(c, s).kind = "head"
<1>1. BufferedLength \in Int /\ length_header \in Int
  BY DEF TypeInv, BufferedLength
<1> QED
  BY <1>1, TokenTypes DEF Framing

CountsOK ==
  /\ length_header \in Int
  /\ body \in Nat /\ buffer \in Nat /\ pending \in Nat /\ body_sent \in Nat
  /\ faults \in Nat

LEMMA CountsNext ==
  ASSUME CountsOK, [Next]_vars
  PROVE  CountsOK'
<1>1. body' \in Nat /\ length_header' \in Int
  <2>1. body' \in {body, 1} \/ \E n \in 0..MaxBytes : body' = n
    BY DEF Next, Handler, Executor, Write, SetTypeHeader, AddHeader, SetContentType,
     SetBody, SetLength, OpenWriter, BufferBody, Json, EndWriter, Stream, StreamWrite,
     StreamFlush, StreamFlushCanceled, StreamEnd, StreamEndCanceled, StartEventStream,
     SendEvent, UpgradeWebSocket, SendFrame, HandlerReturns, HandlerAborts, HandleError,
     HandleNotFound, ResetBody, Page, WriteNothing, WriteAbandoned, WriteTerminator,
     WriteBuffered, WriteFails, vars, headerVars, bodyVars
  <2>2. \/ length_header' \in {length_header, None}
        \/ \E n \in {Unparsable} \cup 0..MaxBytes : length_header' = n
    BY DEF Next, Handler, Executor, Write, SetTypeHeader, AddHeader, SetContentType,
     SetBody, SetLength, OpenWriter, BufferBody, Json, EndWriter, Stream, StreamWrite,
     StreamFlush, StreamFlushCanceled, StreamEnd, StreamEndCanceled, StartEventStream,
     SendEvent, UpgradeWebSocket, SendFrame, HandlerReturns, HandlerAborts, HandleError,
     HandleNotFound, ResetBody, Page, WriteNothing, WriteAbandoned, WriteTerminator,
     WriteBuffered, WriteFails, vars, headerVars, bodyVars
  <2> QED
    BY <2>1, <2>2, ResponseAssumption DEF CountsOK, None, Unparsable
<1>2. buffer' \in {buffer, buffer + 1, 0} /\ pending' \in {pending, pending + 1, 0}
      /\ body_sent' \in {body_sent, body_sent + pending} /\ faults' \in {faults, faults + 1}
  BY DEF Next, Handler, Executor, Write, SetTypeHeader, AddHeader, SetContentType,
     SetBody, SetLength, OpenWriter, BufferBody, Json, EndWriter, Stream, StreamWrite,
     StreamFlush, StreamFlushCanceled, StreamEnd, StreamEndCanceled, StartEventStream,
     SendEvent, UpgradeWebSocket, SendFrame, HandlerReturns, HandlerAborts, HandleError,
     HandleNotFound, ResetBody, Page, WriteNothing, WriteAbandoned, WriteTerminator,
     WriteBuffered, WriteFails, vars, bodyVars, countVars, ghostVars
<1> QED
  BY <1>1, <1>2 DEF CountsOK

LEMMA HeadFixed == [Next]_vars => (head' <=> head)
<1> SUFFICES ASSUME [Next]_vars PROVE head' = head
  OBVIOUS
<1> QED
  BY Zenon DEF Next, Handler, Executor, Write, SetTypeHeader, AddHeader, SetContentType,
     SetBody, SetLength, OpenWriter, BufferBody, Json, EndWriter, Stream, StreamWrite,
     StreamFlush, StreamFlushCanceled, StreamEnd, StreamEndCanceled, StartEventStream,
     SendEvent, UpgradeWebSocket, SendFrame, HandlerReturns, HandlerAborts, HandleError,
     HandleNotFound, WriteNothing, WriteAbandoned, WriteTerminator, WriteBuffered,
     WriteFails, vars

LEMMA WireNext == WireInv /\ [Next]_vars => WireInv'
<1> SUFFICES ASSUME WireInv, [Next]_vars
             PROVE  WireInv'
  OBVIOUS
<1> SUFFICES WireOK'
  BY FlagsNext, CountsNext DEF WireInv, WireOK, TypeInv, CountsOK
<1>h. head' <=> head
  BY HeadFixed
<1>0. /\ wire \in Seq(Token) /\ TypeInv /\ FlagsInv /\ CountsOK
      /\ 1 \in Int /\ pending \in Nat
  BY DEF WireInv, TypeInv, CountsOK
<1>1. CASE \/ SetTypeHeader \/ AddHeader \/ SetContentType
           \/ (\E n \in 0..MaxBytes : SetBody(n))
           \/ (\E n \in {Unparsable} \cup 0..MaxBytes : SetLength(n))
           \/ OpenWriter \/ BufferBody \/ Json \/ EndWriter \/ StreamWrite
           \/ HandlerReturns \/ HandlerAborts \/ HandleError \/ HandleNotFound
           \/ WriteNothing \/ WriteFails \/ UNCHANGED vars
  <2>1. /\ wire' = wire /\ (headers_written' <=> headers_written)
        /\ phase' \in InProgress => phase \in InProgress
        /\ phase' = phase \/ phase \in InProgress
        /\ (refused' <=> refused)
        /\ phase' \in InProgress => (written' <=> written)
    BY <1>1 DEF SetTypeHeader, AddHeader, SetContentType, SetBody, SetLength, OpenWriter,
           BufferBody, Json, EndWriter, StreamWrite, HandlerReturns, HandlerAborts,
           HandleError, HandleNotFound, WriteNothing, WriteFails, Done, MayStartBody,
           StreamOpen, vars, flagVars, ghostVars, InProgress
  <2>2. WireOK'
    BY <1>h, <2>1, QuietWire
  <2> QED
    BY <2>2
<1>2. ASSUME ~headers_written, headers_written', phase \in InProgress,
             NEW c, NEW d, wire' = wire \o HeadOnWire(c, d)
                             \/ wire' = Append(wire, HeadToken("upgrade", 0))
      PROVE  WireOK'
  <2>1. wire = <<>>
    BY <1>2, Zenon DEF WireInv, HeadsInv
  <2>2. PICK t \in Token : t.kind = "head" /\ wire' = Append(wire, t)
    <3>1. CASE wire' = wire \o HeadOnWire(c, d)
      <4>1. HeadOnWire(c, d) = <<Framing(c, d)>>
        BY <1>2, Zenon DEF HeadOnWire
      <4>2. Framing(c, d) \in Token /\ Framing(c, d).kind = "head"
        BY <1>0, FramingType, Zenon
      <4> QED
        BY <1>0, <3>1, <4>1, <4>2, CatToken, Zenon
    <3>2. CASE wire' = Append(wire, HeadToken("upgrade", 0))
      BY <3>2, TokenTypes
    <3> QED
      BY <1>2, <3>1, <3>2, Zenon
  <2>3. Sent(wire')
    BY <2>1, <2>2, SentHead, Zenon
  <2> QED
    BY <1>h, <1>2, <2>3, SentWire, Zenon
<1>3. CASE Stream
  <2>1. /\ phase = "handler" /\ phase' = "handler" /\ ~headers_written
        /\ (written' <=> written)
        /\ \/ /\ headers_written'
              /\ wire' = wire \o HeadOnWire(chunked', streaming)
           \/ (headers_written' <=> headers_written) /\ wire' = wire
    BY <1>3, Zenon DEF Stream, MayStartBody, WriteHeader
  <2>2. phase \in InProgress /\ (phase' \in InProgress /\ ~written' => ~written)
    BY <2>1 DEF InProgress
  <2>3. CASE (headers_written' <=> headers_written) /\ wire' = wire
    BY <1>h, <2>1, <2>2, <2>3, QuietWire, Zenon
  <2>4. CASE headers_written' /\ wire' = wire \o HeadOnWire(chunked', streaming)
    BY <1>2, <2>1, <2>2, <2>4, Zenon
  <2> QED
    BY <2>1, <2>3, <2>4, Zenon
<1>4. CASE StartEventStream
  <2>1. /\ phase = "handler" /\ ~headers_written /\ headers_written'
        /\ wire' = wire \o HeadOnWire(chunked, TRUE)
    BY <1>4, Zenon DEF StartEventStream
  <2>2. phase \in InProgress
    BY <2>1 DEF InProgress
  <2> QED
    BY <1>2, <2>1, <2>2, Zenon
<1>5. CASE UpgradeWebSocket
  <2>1. /\ phase = "handler" /\ phase' = "handler" /\ ~headers_written
        /\ (written' <=> written)
        /\ \/ headers_written' /\ wire' = Append(wire, HeadToken("upgrade", 0))
           \/ (headers_written' <=> headers_written) /\ wire' = wire
    BY <1>5, Zenon DEF UpgradeWebSocket, WriteHeader
  <2>2. phase \in InProgress /\ (phase' \in InProgress /\ ~written' => ~written)
    BY <2>1 DEF InProgress
  <2>3. CASE (headers_written' <=> headers_written) /\ wire' = wire
    BY <1>h, <2>1, <2>2, <2>3, QuietWire, Zenon
  <2>4. CASE headers_written' /\ wire' = Append(wire, HeadToken("upgrade", 0))
    BY <1>2, <2>1, <2>2, <2>4, Zenon
  <2> QED
    BY <2>1, <2>3, <2>4, Zenon
<1>6. ASSUME phase = "handler", (headers_written' <=> headers_written),
             (writer = "streaming" /\ body_writer_open) \/ stream # "none"
      PROVE  Sent(wire) /\ headers_written'
  <2>1. headers_written /\ ~written /\ headers_written' /\ phase \in InProgress
    BY <1>0, <1>6 DEF FlagsInv, InProgress
  <2> QED
    BY <2>1, SentNow, Zenon
<1>7. CASE StreamFlush
  <2>1. /\ StreamOpen /\ (headers_written' <=> headers_written)
        /\ wire' = wire \o Drained(pending)
    BY <1>7, Zenon DEF StreamFlush, flagVars
  <2>2. Sent(wire) /\ headers_written'
    BY <1>6, <2>1, Zenon DEF StreamOpen
  <2>3. Sent(wire')
    BY <1>0, <2>1, <2>2, DrainedWire, Zenon
  <2> QED
    BY <1>h, <2>1, <2>2, <2>3, SentWire, Zenon
<1>8. CASE StreamFlushCanceled \/ StreamEndCanceled
  <2>1. /\ StreamOpen /\ (headers_written' <=> headers_written)
        /\ \/ head /\ wire' = wire
           \/ ~head /\ wire' = Append(wire, Debris)
    BY <1>8 DEF StreamFlushCanceled, StreamEndCanceled, flagVars
  <2>2. Sent(wire) /\ headers_written'
    BY <1>6, <2>1, Zenon DEF StreamOpen
  <2>3. Debris \in Token /\ Debris.kind \notin {"head", "term"}
    BY TokenTypes
  <2>4. Sent(wire')
    BY <2>1, <2>2, <2>3, SentMore, Zenon
  <2> QED
    BY <1>h, <2>1, <2>2, <2>4, SentWire, Zenon
<1>9. CASE SendEvent
  <2>1. /\ phase = "handler" /\ stream # "none"
        /\ (headers_written' <=> headers_written)
        /\ wire' = IF head THEN wire ELSE wire \o Raw(1)
    BY <1>9, Zenon DEF SendEvent, flagVars
  <2>2. Sent(wire) /\ headers_written'
    BY <1>6, <2>1, Zenon
  <2>3. /\ Raw(1) = <<DataToken("raw", 1)>> /\ DataToken("raw", 1) \in Token
        /\ DataToken("raw", 1).kind \notin {"head", "term"}
    BY TokenTypes DEF Raw
  <2>4. Sent(wire')
    <3>1. ~head => wire' = Append(wire, DataToken("raw", 1))
      BY <1>0, <2>1, <2>3, CatToken, Zenon
    <3> QED
      BY <2>1, <2>2, <2>3, <3>1, SentMore, Zenon
  <2> QED
    BY <1>h, <2>1, <2>2, <2>4, SentWire, Zenon
<1>10. CASE SendFrame
  <2>1. /\ phase = "handler" /\ stream # "none"
        /\ (headers_written' <=> headers_written)
        /\ wire' = Append(wire, DataToken("frame", 1))
    BY <1>10, Zenon DEF SendFrame, flagVars
  <2>2. Sent(wire) /\ headers_written'
    BY <1>6, <2>1, Zenon
  <2>3. /\ DataToken("frame", 1) \in Token /\ DataToken("frame", 1).kind = "frame"
        /\ DataToken("frame", 1).kind \notin {"head", "term"}
    BY TokenTypes
  <2>4. Sent(wire')
    BY <2>1, <2>2, <2>3, SentMore, Zenon
  <2> QED
    BY <1>h, <2>1, <2>2, <2>4, SentWire, Zenon
<1>11. CASE StreamEnd
  <2> DEFINE w == wire \o Drained(pending)
  <2>1. /\ StreamOpen /\ (headers_written' <=> headers_written) /\ written'
        /\ wire' = w \o (IF chunked /\ ~head THEN <<Terminator>> ELSE <<>>)
    BY <1>11, Zenon DEF StreamEnd
  <2>2. Sent(wire) /\ headers_written'
    BY <1>6, <2>1, Zenon DEF StreamOpen
  <2>3. Sent(w)
    BY <1>0, <2>2, DrainedWire, Zenon
  <2>4. w \in Seq(Token) /\ Terminator \in Token
    BY <2>3, TokenTypes, Zenon DEF Sent
  <2> HIDE DEF w
  <2>5. \/ wire' = w
        \/ ~head /\ wire' = Append(w, Terminator)
    BY <2>1, <2>4, CatToken, Zenon
  <2>6. CASE wire' = w
    BY <1>h, <2>1, <2>2, <2>3, <2>6, SentWire, Zenon
  <2>7. CASE ~head /\ wire' = Append(w, Terminator)
    BY <1>h, <2>1, <2>2, <2>3, <2>7, EndWire, Zenon
  <2> QED
    BY <2>5, <2>6, <2>7, Zenon
<1>12. CASE WriteAbandoned
  <2>1. /\ phase = "write" /\ ~written /\ headers_written
        /\ (headers_written' <=> headers_written) /\ written'
        /\ wire' = IF chunked /\ ~head THEN Append(wire, Terminator) ELSE wire
    BY <1>12, Zenon DEF WriteAbandoned
  <2>2. phase \in InProgress /\ headers_written'
    BY <2>1 DEF InProgress
  <2>3. Sent(wire)
    BY <2>1, <2>2, SentNow, Zenon
  <2>4. CASE wire' = wire
    BY <1>h, <2>1, <2>2, <2>3, <2>4, SentWire, Zenon
  <2>5. CASE ~head /\ wire' = Append(wire, Terminator)
    BY <1>h, <2>1, <2>2, <2>3, <2>5, EndWire, Zenon
  <2> QED
    BY <2>1, <2>4, <2>5, Zenon
<1>13. CASE WriteTerminator
  <2>1. /\ phase = "write" /\ phase' = "done" /\ ~written /\ chunked
        /\ (headers_written' <=> headers_written) /\ written' /\ (refused' <=> refused)
        /\ wire' = IF head THEN wire ELSE Append(wire, Terminator)
    BY <1>13, Zenon DEF WriteTerminator, Done, ghostVars
  <2>2. CASE headers_written
    <3>1. phase \in InProgress /\ headers_written'
      BY <2>1, <2>2 DEF InProgress
    <3>2. Sent(wire)
      BY <2>1, <2>2, <3>1, SentNow, Zenon
    <3>3. CASE wire' = wire
      BY <1>h, <2>1, <3>1, <3>2, <3>3, SentWire, Zenon
    <3>4. CASE ~head /\ wire' = Append(wire, Terminator)
      BY <1>h, <2>1, <3>1, <3>2, <3>4, EndWire, Zenon
    <3> QED
      BY <2>1, <3>3, <3>4, Zenon
  <2>3. CASE ~headers_written
    <3>1. wire = <<>> /\ refused /\ ~headers_written' /\ refused' /\ phase' \notin InProgress
      BY <1>0, <2>1, <2>3 DEF WireInv, HeadsInv, FlagsInv, InProgress
    <3>2. NoTerm(wire) /\ NoBody(wire) /\ TermLast(wire)
      BY <3>1 DEF NoTerm, NoBody, TermLast
    <3>3. wire' = wire \/ (~head /\ wire' = Append(wire, Terminator))
      BY <2>1, Zenon
    <3>4. wire' \in Seq(Token) /\ TermLast(wire')
      <4>1. Terminator \in Token
        BY TokenTypes
      <4> QED
        BY <1>0, <3>2, <3>3, <4>1, TokenAppend
    <3>5. HeadsInv' /\ TermInv'
      BY <3>1, <3>4, Zenon DEF HeadsInv, TermInv
    <3>6. head' => NoBody(wire')
      BY <1>h, <2>1, <3>2
    <3> QED
      BY <3>4, <3>5, <3>6 DEF WireOK
  <2> QED
    BY <2>2, <2>3
<1>14. CASE WriteBuffered
  <2> DEFINE w == wire \o HeadOnWire(FALSE, streaming)
  <2>1. /\ phase = "write" /\ ~written /\ headers_written' /\ written'
        /\ wire' = w \o (IF head THEN <<>> ELSE Raw(BufferedLength))
    BY <1>14, Zenon DEF WriteBuffered, WriteHeader
  <2>2. phase \in InProgress
    BY <2>1 DEF InProgress
  <2>3. Sent(w)
    <3>1. CASE headers_written
      <4>1. HeadOnWire(FALSE, streaming) = <<>>
        BY <3>1, Zenon DEF HeadOnWire
      <4>2. w = wire
        BY <1>0, <4>1, CatEmpty, Zenon
      <4>3. Sent(wire)
        BY <2>1, <2>2, <3>1, SentNow, Zenon
      <4> QED
        BY <4>2, <4>3, Zenon
    <3>2. CASE ~headers_written
      <4>1. wire = <<>>
        BY <2>2, <3>2, Zenon DEF WireInv, HeadsInv
      <4>2. HeadOnWire(FALSE, streaming) = <<Framing(FALSE, streaming)>>
        BY <3>2, Zenon DEF HeadOnWire
      <4>3. Framing(FALSE, streaming) \in Token /\ Framing(FALSE, streaming).kind = "head"
        BY <1>0, FramingType, Zenon
      <4>4. w = Append(<<>>, Framing(FALSE, streaming))
        BY <1>0, <4>1, <4>2, <4>3, CatToken, Zenon
      <4> QED
        BY <4>3, <4>4, SentHead, Zenon
    <3> QED
      BY <3>1, <3>2
  <2>4. w \in Seq(Token)
    BY <2>3, Zenon DEF Sent
  <2>5. BufferedLength \in Int
    BY <1>0 DEF BufferedLength, TypeInv
  <2>6. /\ DataToken("raw", BufferedLength) \in Token
        /\ DataToken("raw", BufferedLength).kind \notin {"head", "term"}
    BY <2>5, TokenTypes
  <2> HIDE DEF w
  <2>7. \/ wire' = w
        \/ ~head /\ wire' = Append(w, DataToken("raw", BufferedLength))
    BY <2>1, <2>4, <2>6, CatToken, Zenon DEF Raw
  <2>8. Sent(wire')
    BY <2>3, <2>6, <2>7, SentMore, Zenon
  <2> QED
    BY <1>h, <2>1, <2>8, SentWire, Zenon
<1> QED
  BY <1>1, <1>3, <1>4, <1>5, <1>7, <1>8, <1>9, <1>10, <1>11, <1>12, <1>13, <1>14
     DEF Next, Handler, Executor, Write

LEMMA WireInit == Init => WireInv
<1> SUFFICES ASSUME Init PROVE WireInv
  OBVIOUS
<1>1. FlagsInv
  BY FlagsInit
<1>2. wire = <<>> /\ ~headers_written
  BY Zenon DEF Init
<1>3. wire \in Seq(Token) /\ NoTerm(wire) /\ TermLast(wire) /\ NoBody(wire)
  BY <1>2 DEF NoTerm, TermLast, NoBody
<1>4. HeadsInv /\ TermInv
  BY <1>2, <1>3 DEF HeadsInv, TermInv
<1>5. TypeInv
  BY <1>3 DEF Init, TypeInv, None
<1> QED
  BY <1>1, <1>3, <1>4, <1>5 DEF WireInv

LEMMA WireInvariant == Spec => []WireInv
  BY WireInit, WireNext, PTL DEF Spec

\* Whatever the handler calls and however it leaves its writers, the bytes of
\* the response start with its one head (unless a writeHeader was refused), and
\* nothing follows a chunk terminator.
THEOREM OneHeadOneTerminator == Spec => []HeadFirstTermLast
<1>1. ASSUME WireInv PROVE HeadFirstTermLast
  <2>1. \A i \in DOMAIN wire : wire[i].kind = "term" => i = Len(wire)
    BY <1>1 DEF WireInv, TermInv, TermLast
  <2>2. ~refused => wire = <<>> \/ OneHead(wire)
    BY <1>1, Zenon DEF WireInv, HeadsInv
  <2>3. ~refused => \A i \in DOMAIN wire : wire[i].kind = "head" <=> i = 1
    <3>1. CASE wire = <<>>
      BY <3>1
    <3>2. CASE OneHead(wire)
      BY <3>2, Zenon DEF OneHead
    <3> QED
      BY <2>2, <3>1, <3>2, Zenon
  <2> QED
    BY <2>1, <2>3, Zenon DEF HeadFirstTermLast
<1> QED
  BY <1>1, WireInvariant, PTL

\* A HEAD is answered without a byte of body or of body framing, from either
\* writer, an event stream, or Response.write itself.
THEOREM HeadSendsNoBody == Spec => []HeadHasNoBody
<1>1. ASSUME WireInv PROVE HeadHasNoBody
  BY <1>1, Zenon DEF WireInv, NoBody, HeadHasNoBody
<1> QED
  BY <1>1, WireInvariant, PTL

-----------------------------------------------------------------------------
(* Whole messages *)

HeadAlone(w) == w # <<>> /\ w[1].kind = "head" /\ Len(w) = 1

\* The head of a chunked body and its chunks so far, and with its terminator.
ChunkPart(w) ==
  w # <<>> /\ w[1].kind = "head" /\ w[1].framing = "chunked" /\ RestIs(w, "chunk")

ChunkWhole(w) ==
  /\ w # <<>> /\ w[1].kind = "head" /\ w[1].framing = "chunked"
  /\ Len(w) >= 2 /\ w[Len(w)].kind = "term"
  /\ \A i \in 2..Len(w) - 1 : w[i].kind = "chunk"

\* A head that announces len bytes of body, and the first n of them.
LengthPart(w, len, n) ==
  /\ w # <<>> /\ w[1].kind = "head" /\ w[1].framing = "length" /\ w[1].len = len
  /\ RestIs(w, "raw") /\ RawBytes(w, n)

LEMMA ChunkMore ==
  ASSUME NEW w \in Seq(Token), ChunkPart(w), NEW n \in Int
  PROVE  ChunkPart(Append(w, DataToken("chunk", n)))
<1>1. DataToken("chunk", n) \in Token /\ DataToken("chunk", n).kind = "chunk"
  BY TokenTypes
<1> QED
  BY <1>1, RestAppend, Zenon DEF ChunkPart

LEMMA ChunkEnd ==
  ASSUME NEW w \in Seq(Token), ChunkPart(w)
  PROVE  ChunkWhole(Append(w, Terminator))
<1>1. Terminator \in Token /\ Terminator.kind = "term"
  BY TokenTypes
<1> QED
  BY <1>1, RestAppend, Zenon DEF ChunkPart, ChunkWhole

LEMMA LengthMore ==
  ASSUME NEW w \in Seq(Token), NEW len, NEW n \in Nat, NEW k \in Nat, LengthPart(w, len, n)
  PROVE  LengthPart(Append(w, DataToken("raw", k)), len, n + k)
<1>1. /\ DataToken("raw", k) \in Token /\ DataToken("raw", k).kind = "raw"
      /\ DataToken("raw", k).len = k
  BY TokenTypes
<1>2. RawBytes(Append(w, DataToken("raw", k)), n + k)
  BY <1>1, RawAppend DEF LengthPart
<1>3. /\ Append(w, DataToken("raw", k)) # <<>> /\ RestIs(Append(w, DataToken("raw", k)), "raw")
      /\ Append(w, DataToken("raw", k))[1] = w[1]
  BY <1>1, RestAppend, Zenon DEF LengthPart
<1> QED
  BY <1>2, <1>3 DEF LengthPart

LEMMA HeadStarts ==
  ASSUME NEW t \in Token, t.kind = "head", NEW w, w = Append(<<>>, t)
  PROVE  /\ HeadAlone(w)
         /\ t.framing = "chunked" => ChunkPart(w)
         /\ t.framing = "length" => LengthPart(w, t.len, 0)
<1>1. <<>> \in Seq(Token)
  OBVIOUS
<1>2. w \in Seq(Token) /\ w # <<>> /\ Len(w) = 1 /\ w[1] = t /\ \A k : RestIs(w, k)
  BY <1>1 DEF RestIs
<1>3. RawBytes(w, 0)
  BY <1>2, RawHead
<1> QED
  BY <1>2, <1>3 DEF HeadAlone, ChunkPart, LengthPart

\* The response is one whole message.
Ends ==
  /\ head => HeadAlone(wire)
  /\ ~head => ChunkWhole(wire) \/ LengthPart(wire, wire[1].len, wire[1].len)

LEMMA EndsWhole == Ends => WholeMessage
<1> SUFFICES ASSUME Ends PROVE WholeMessage
  OBVIOUS
<1>1. CASE head
  BY <1>1, Zenon DEF Ends, HeadAlone, WholeMessage
<1>2. CASE ~head /\ ChunkWhole(wire)
  BY <1>2, Zenon DEF ChunkWhole, WholeMessage
<1>3. CASE ~head /\ LengthPart(wire, wire[1].len, wire[1].len)
  BY <1>3, Zenon DEF LengthPart, RestIs, WholeMessage
<1> QED
  BY <1>1, <1>2, <1>3, Zenon DEF Ends

\* A streamed response that has not ended: what is out agrees with the flags.
Partial ==
  /\ head => HeadAlone(wire)
  /\ ~head /\ chunked => ChunkPart(wire)
  /\ ~head /\ ~chunked => LengthPart(wire, content_length, body_sent)

Streaming == writer = "streaming" /\ phase \in InProgress /\ ~refused /\ faults = 0

StreamInv ==
  Streaming => (written /\ keepalive => Ends) /\ (~written => Partial)

DoneInv ==
  phase = "done" /\ keepalive /\ faults = 0 /\ stream # "socket" /\ ~refused =>
    Ends \/ HandlerMisdeclared

KeptInv == (writer # "streaming" => body_sent = 0) /\ StreamInv /\ DoneInv

\* Draining n bytes is n bytes more of the same message.
LEMMA DrainedPart ==
  ASSUME NEW n \in Nat, body_sent \in Nat, wire \in Seq(Token), Partial, NEW w,
         w = wire \o Drained(n)
  PROVE  /\ head => HeadAlone(w)
         /\ ~head /\ chunked => ChunkPart(w)
         /\ ~head /\ ~chunked => LengthPart(w, content_length, body_sent + n)
<1>1. CASE n = 0 \/ head
  <2>1. w = wire
    BY <1>1 DEF Drained
  <2>2. body_sent + 0 = body_sent
    OBVIOUS
  <2> QED
    BY <1>1, <2>1, <2>2, Zenon DEF Partial
<1>2. CASE n # 0 /\ ~head /\ chunked
  <2>1. Drained(n) = <<DataToken("chunk", n)>>
    BY <1>2, Zenon DEF Drained
  <2>2. w = Append(wire, DataToken("chunk", n))
    BY <2>1, CatToken, TokenTypes
  <2>3. ChunkPart(wire)
    BY <1>2, Zenon DEF Partial
  <2>4. n \in Int
    OBVIOUS
  <2> QED
    BY <1>2, <2>2, <2>3, <2>4, ChunkMore, Zenon
<1>3. CASE n # 0 /\ ~head /\ ~chunked
  <2>1. Drained(n) = <<DataToken("raw", n)>>
    BY <1>3 DEF Drained, Raw
  <2>2. w = Append(wire, DataToken("raw", n))
    BY <2>1, CatToken, TokenTypes
  <2>3. LengthPart(wire, content_length, body_sent)
    BY <1>3, Zenon DEF Partial
  <2> QED
    BY <1>3, <2>2, <2>3, LengthMore, Zenon
<1> QED
  BY <1>1, <1>2, <1>3

\* Ending a part of n bytes: the terminator, or n was the length announced.
LEMMA EndPart ==
  ASSUME NEW w \in Seq(Token), NEW n, head' <=> head,
         head => HeadAlone(w),
         ~head /\ chunked => ChunkPart(w),
         ~head /\ ~chunked => LengthPart(w, content_length, n),
         ~chunked => n = content_length,
         \/ (~chunked \/ head) /\ wire' = w
         \/ chunked /\ ~head /\ wire' = Append(w, Terminator)
  PROVE  Ends'
<1>1. CASE head
  BY <1>1, Zenon DEF Ends
<1>2. CASE ~head /\ chunked
  <2>1. ChunkWhole(wire')
    BY <1>2, ChunkEnd, Zenon
  <2> QED
    BY <1>2, <2>1, Zenon DEF Ends
<1>3. CASE ~head /\ ~chunked
  <2>1. LengthPart(wire', n, n)
    BY <1>3, Zenon
  <2>2. wire'[1].len = n
    BY <2>1, Zenon DEF LengthPart
  <2> QED
    BY <1>3, <2>1, <2>2 DEF Ends
<1> QED
  BY <1>1, <1>2, <1>3

\* The steps that leave what the invariant is about alone.
LEMMA KeptSame ==
  ASSUME KeptInv, UNCHANGED <<writer, head, wire, content_length, body_sent, refused, faults,
                              written, keepalive, chunked>>,
         phase' # "done", phase' \in InProgress => phase \in InProgress
  PROVE  KeptInv'
<1>1. StreamInv'
  <2>1. (Partial <=> Partial') /\ (Ends <=> Ends')
    BY DEF Partial, Ends
  <2>2. Streaming' => Streaming
    BY DEF Streaming
  <2> QED
    BY <2>1, <2>2 DEF KeptInv, StreamInv
<1>2. DoneInv'
  BY DEF DoneInv
<1>3. (writer # "streaming" => body_sent = 0)'
  BY DEF KeptInv
<1> QED
  BY <1>1, <1>2, <1>3 DEF KeptInv

\* The steps that end the handler's hold on the wire, and reach no kept connection.
LEMMA NotKept ==
  ASSUME KeptInv, writer' # "streaming" \/ phase' \notin InProgress,
         phase' = "done" /\ keepalive' /\ stream' # "socket" => refused',
         writer' = writer, body_sent' = body_sent
  PROVE  KeptInv'
  BY DEF KeptInv, StreamInv, Streaming, DoneInv

LEMMA KeptNext == WireInv /\ KeptInv /\ [Next]_vars => KeptInv'
<1> SUFFICES ASSUME WireInv, KeptInv, [Next]_vars
             PROVE  KeptInv'
  OBVIOUS
<1>h. head' <=> head
  BY HeadFixed
<1>0. /\ wire \in Seq(Token) /\ FlagsInv /\ body_sent \in Nat /\ pending \in Nat
      /\ TypeInv
  BY DEF WireInv, TypeInv
<1>1. CASE \/ SetTypeHeader \/ AddHeader \/ SetContentType
           \/ (\E n \in 0..MaxBytes : SetBody(n))
           \/ (\E n \in {Unparsable} \cup 0..MaxBytes : SetLength(n))
           \/ BufferBody \/ Json \/ EndWriter \/ StreamWrite
           \/ HandlerReturns \/ HandlerAborts \/ HandleError \/ HandleNotFound
  <2>1. UNCHANGED <<writer, head, wire, content_length, body_sent, refused, faults,
                    written, keepalive, chunked>>
    BY <1>1 DEF SetTypeHeader, AddHeader, SetContentType, SetBody, SetLength, BufferBody,
           Json, EndWriter, StreamWrite, HandlerReturns, HandlerAborts, HandleError,
           HandleNotFound, StreamOpen, bodyVars, flagVars, countVars, ghostVars
  <2>2. phase' # "done" /\ phase \in InProgress
    BY <1>1 DEF SetTypeHeader, AddHeader, SetContentType, SetBody, SetLength, BufferBody,
           Json, EndWriter, StreamWrite, HandlerReturns, HandlerAborts, HandleError,
           HandleNotFound, StreamOpen, InProgress
  <2> QED
    BY <2>1, <2>2, KeptSame
<1>2. CASE OpenWriter
  <2>1. /\ phase' = "handler" /\ ~headers_written /\ writer' = "buffered"
        /\ body_sent' = body_sent
    BY <1>2, Zenon DEF OpenWriter, MayStartBody, countVars
  <2>2. writer # "streaming"
    BY <1>0, <2>1 DEF FlagsInv
  <2> QED
    BY <2>1, <2>2 DEF KeptInv, StreamInv, Streaming, DoneInv
<1>3. CASE UNCHANGED vars
  <2>1. UNCHANGED <<phase, stream, writer, head, wire, content_length, body_sent, refused,
                    faults, written, keepalive, chunked, length_header, buffer, body>>
    BY <1>3, Zenon DEF vars, headerVars, bodyVars, flagVars, countVars, ghostVars
  <2>2. (Partial <=> Partial') /\ (Ends <=> Ends')
    BY <2>1 DEF Partial, Ends
  <2>3. HandlerMisdeclared <=> HandlerMisdeclared'
    BY <2>1 DEF HandlerMisdeclared, BufferedLength
  <2>4. Streaming' <=> Streaming
    BY <2>1 DEF Streaming
  <2>5. StreamInv' /\ DoneInv'
    BY <2>1, <2>2, <2>3, <2>4 DEF KeptInv, StreamInv, DoneInv
  <2> QED
    BY <2>1, <2>5 DEF KeptInv
<1>4. CASE StartEventStream \/ UpgradeWebSocket
  <2>1. /\ phase = "handler" /\ phase' = "handler" /\ ~headers_written /\ writer' = writer
        /\ body_sent' = body_sent
    BY <1>4, Zenon DEF StartEventStream, UpgradeWebSocket, countVars
  <2>2. writer # "streaming"
    BY <1>0, <2>1 DEF FlagsInv
  <2> QED
    BY <2>1, <2>2, NotKept
<1>5. CASE SendEvent \/ SendFrame
  <2>1. /\ phase = "handler" /\ phase' = "handler" /\ stream # "none" /\ writer' = writer
        /\ body_sent' = body_sent
    BY <1>5, Zenon DEF SendEvent, SendFrame, countVars, bodyVars
  <2>2. writer # "streaming"
    BY <1>0, <2>1 DEF FlagsInv
  <2> QED
    BY <2>1, <2>2, NotKept
<1>6. CASE WriteTerminator
  <2>1. /\ phase = "write" /\ phase' = "done" /\ ~written /\ chunked
        /\ ~(body_writer_open /\ headers_written)
        /\ writer' = writer /\ stream' = stream /\ body_sent' = body_sent
        /\ keepalive' = keepalive /\ refused' = refused
    BY <1>6, Zenon DEF WriteTerminator, Done, bodyVars, countVars, ghostVars
  <2>2. ~headers_written => refused
    BY <1>0, <2>1 DEF FlagsInv
  <2>3. headers_written => stream = "socket" \/ ~keepalive
    <3>1. headers_written => writer # "streaming"
      BY <1>0, <2>1 DEF FlagsInv, InProgress
    <3>2. headers_written => stream # "none"
      BY <1>0, <2>1, <3>1 DEF FlagsInv, InProgress
    <3> QED
      BY <1>0, <3>2 DEF FlagsInv, TypeInv
  <2> QED
    BY <2>1, <2>2, <2>3, NotKept DEF InProgress

<1>7. CASE StreamFlushCanceled
  <2>1. /\ phase' = "handler" /\ writer' = writer /\ body_sent' = body_sent
        /\ faults' = faults + 1
    BY <1>7, Zenon DEF StreamFlushCanceled, StreamOpen, bodyVars, countVars
  <2>2. faults' # 0
    BY <1>0, <2>1 DEF TypeInv
  <2> QED
    BY <2>1, <2>2 DEF KeptInv, StreamInv, Streaming, DoneInv
<1>8. CASE StreamEndCanceled
  <2>1. /\ phase' = "handler" /\ writer' = writer /\ body_sent' = body_sent
        /\ written' /\ ~keepalive'
    BY <1>8, Zenon DEF StreamEndCanceled, StreamOpen, bodyVars, countVars
  <2> QED
    BY <2>1 DEF KeptInv, StreamInv, DoneInv
<1>9. CASE WriteFails
  <2>1. phase' = "aborted" /\ writer' = writer /\ body_sent' = body_sent
    BY <1>9, Zenon DEF WriteFails, bodyVars, countVars
  <2> QED
    BY <2>1, NotKept DEF InProgress
<1>10. CASE WriteNothing
  <2>1. /\ phase = "write" /\ phase' = "done" /\ written
        /\ UNCHANGED <<writer, body_sent, stream, faults, refused, keepalive, wire>>
    BY <1>10, Zenon DEF WriteNothing, Done, bodyVars, flagVars, countVars, ghostVars
  <2>2. writer = "streaming"
    BY <1>0, <2>1 DEF FlagsInv, InProgress
  <2>3. keepalive /\ ~refused /\ faults = 0 => Ends
    BY <2>1, <2>2 DEF KeptInv, StreamInv, Streaming, InProgress
  <2>4. Ends => Ends'
    BY <1>h, <2>1 DEF Ends
  <2>5. StreamInv' /\ DoneInv'
    BY <2>1, <2>3, <2>4 DEF StreamInv, Streaming, DoneInv, InProgress
  <2> QED
    BY <2>1, <2>2, <2>5 DEF KeptInv
<1>11. CASE Stream
  <2>1. /\ phase = "handler" /\ phase' = "handler" /\ ~headers_written
        /\ body_sent' = body_sent /\ written' = written
        /\ content_length' = IF length_header = Unparsable THEN content_length
                             ELSE length_header
        /\ (length_header = None => chunked') /\ (chunked' => chunked \/ length_header = None)
        /\ \/ /\ length_header # Unparsable /\ refused' = refused
              /\ wire' = wire \o HeadOnWire(chunked', streaming)
           \/ writer' = writer
    BY <1>11, Zenon DEF Stream, MayStartBody
  <2>2. writer # "streaming" /\ body_sent = 0 /\ ~written'
    BY <1>0, <2>1 DEF FlagsInv, InProgress, KeptInv
  <2>3. wire = <<>>
    BY <2>1 DEF WireInv, HeadsInv, InProgress
  <2>4. CASE writer' = writer
    BY <2>1, <2>2, <2>4 DEF KeptInv, StreamInv, Streaming, DoneInv
  <2>5. CASE /\ length_header # Unparsable /\ refused' = refused
             /\ wire' = wire \o HeadOnWire(chunked', streaming)
    <3> SUFFICES ASSUME Streaming' PROVE Partial'
      BY <2>1, <2>2 DEF KeptInv, StreamInv, Streaming, DoneInv
    <3>1. ~chunked
      BY <1>0, <2>1, <2>5 DEF FlagsInv, Streaming
    <3>2. PICK t \in Token :
            /\ t.kind = "head" /\ wire' = Append(<<>>, t)
            /\ chunked' => t.framing = "chunked"
            /\ ~chunked' => t.framing = "length" /\ t.len = length_header
      <4> DEFINE f == Framing(chunked', streaming)
      <4>1. HeadOnWire(chunked', streaming) = <<f>>
        BY <2>1, Zenon DEF HeadOnWire
      <4>2. /\ chunked' => f = HeadToken("chunked", 0)
            /\ ~chunked' => f = HeadToken("length", length_header)
        BY <2>1, Zenon DEF Framing
      <4> HIDE DEF f
      <4>3. f \in Token /\ f.kind = "head"
        BY <1>0, FramingType, Zenon DEF f
      <4>4. wire' = Append(<<>>, f)
        BY <1>0, <2>3, <2>5, <4>1, <4>3, CatToken, Zenon
      <4>5. /\ chunked' => f.framing = "chunked"
            /\ ~chunked' => f.framing = "length" /\ f.len = length_header
        BY <4>2, TokenTypes, <1>0 DEF TypeInv
      <4> QED
        BY <4>3, <4>4, <4>5, Zenon
    <3>3. /\ HeadAlone(wire')
          /\ t.framing = "chunked" => ChunkPart(wire')
          /\ t.framing = "length" => LengthPart(wire', t.len, 0)
      BY <3>2, HeadStarts, Zenon
    <3>4. ~chunked' => LengthPart(wire', content_length', body_sent')
      BY <2>1, <2>2, <2>5, <3>2, <3>3
    <3> QED
      BY <3>2, <3>3, <3>4, Zenon DEF Partial
  <2> QED
    BY <2>1, <2>4, <2>5, Zenon
\* What the response owes before it ends.
<1>12. ASSUME writer = "streaming", body_writer_open, phase \in InProgress
       PROVE  /\ ~written => (~refused /\ faults = 0 => Partial)
              /\ ~written /\ ~refused /\ content_length = None => chunked
  BY <1>0, <1>12 DEF FlagsInv, KeptInv, StreamInv, Streaming
<1>13. CASE StreamFlush
  <2>1. /\ phase = "handler" /\ phase' = "handler" /\ writer = "streaming" /\ body_writer_open
        /\ UNCHANGED <<writer, written, refused, faults, content_length>>
        /\ (chunked' <=> chunked)
        /\ wire' = wire \o Drained(pending) /\ body_sent' = body_sent + pending
    BY <1>13 DEF StreamFlush, StreamOpen, flagVars, ghostVars
  <2>2. ~written /\ headers_written
    BY <1>0, <2>1 DEF FlagsInv, InProgress
  <2> SUFFICES ASSUME Streaming' PROVE Partial'
    BY <2>1, <2>2 DEF KeptInv, StreamInv, DoneInv
  <2>3. Partial
    BY <1>12, <2>1, <2>2 DEF Streaming, InProgress
  <2>4. /\ head => HeadAlone(wire')
        /\ ~head /\ chunked => ChunkPart(wire')
        /\ ~head /\ ~chunked => LengthPart(wire', content_length, body_sent + pending)
    BY <1>0, <2>1, <2>3, DrainedPart, Zenon
  <2> QED
    BY <1>h, <2>1, <2>4 DEF Partial
<1>14. CASE StreamEnd
  <2> DEFINE w == wire \o Drained(pending)
  <2>1. /\ phase = "handler" /\ phase' = "handler" /\ writer = "streaming" /\ body_writer_open
        /\ UNCHANGED <<writer, refused, faults, content_length>>
        /\ written'
        /\ wire' = w \o (IF chunked /\ ~head THEN <<Terminator>> ELSE <<>>)
        /\ keepalive' => content_length = None \/ body_sent + pending = content_length
    BY <1>14 DEF StreamEnd, StreamOpen, ghostVars
  <2>2. ~written /\ headers_written
    BY <1>0, <2>1 DEF FlagsInv, InProgress
  <2> SUFFICES ASSUME Streaming', keepalive' PROVE Ends'
    BY <2>1, <2>2 DEF KeptInv, StreamInv, DoneInv
  <2>3. /\ Partial /\ Sent(wire)
        /\ content_length = None => chunked
    <3>1. ~refused /\ faults = 0 /\ phase \in InProgress
      BY <2>1 DEF Streaming, InProgress
    <3> QED
      BY <1>12, <2>1, <2>2, <3>1, SentNow, Zenon
  <2>4. /\ head => HeadAlone(w)
        /\ ~head /\ chunked => ChunkPart(w)
        /\ ~head /\ ~chunked => LengthPart(w, content_length, body_sent + pending)
    BY <1>0, <2>3, DrainedPart, Zenon
  <2>5. w \in Seq(Token)
    BY <1>0, <2>3, DrainedWire, Zenon DEF Sent
  <2> HIDE DEF w
  <2>6. \/ (~chunked \/ head) /\ wire' = w
        \/ chunked /\ ~head /\ wire' = Append(w, Terminator)
    <3>1. Terminator \in Token
      BY TokenTypes
    <3> QED
      BY <2>1, <2>5, <3>1, CatToken, Zenon
  <2>7. ~chunked => body_sent + pending = content_length
    BY <2>1, <2>3
  <2> QED
    BY <1>h, <2>4, <2>5, <2>6, <2>7, EndPart, Zenon
<1>15. CASE WriteAbandoned
  <2>1. /\ phase = "write" /\ phase' = "done" /\ ~written /\ headers_written /\ body_writer_open
        /\ UNCHANGED <<writer, stream, refused, faults, body_sent>>
        /\ wire' = IF chunked /\ ~head THEN Append(wire, Terminator) ELSE wire
        /\ keepalive' => keepalive /\ (chunked \/ content_length = None
                                         \/ body_sent = content_length)
    BY <1>15 DEF WriteAbandoned, Done, bodyVars, countVars, ghostVars
  <2>2. CASE writer # "streaming"
    <3>1. stream = "socket" \/ ~keepalive
      BY <1>0, <2>1, <2>2 DEF FlagsInv, InProgress
    <3> QED
      BY <2>1, <2>2, <3>1, NotKept
  <2>3. CASE writer = "streaming"
    <3> SUFFICES ASSUME ~refused, faults = 0, keepalive' PROVE Ends'
      BY <2>1, <2>3 DEF KeptInv, StreamInv, Streaming, DoneInv, InProgress
    <3>1. Partial /\ (content_length = None => chunked)
      BY <1>12, <2>1, <2>3 DEF InProgress
    <3>2. \/ (~chunked \/ head) /\ wire' = wire
          \/ chunked /\ ~head /\ wire' = Append(wire, Terminator)
      BY <2>1, Zenon
    <3>3. ~chunked => body_sent = content_length
      BY <2>1, <3>1
    <3> QED
      BY <1>0, <1>h, <3>1, <3>2, <3>3, EndPart, Zenon DEF Partial
  <2> QED
    BY <2>2, <2>3
<1>16. CASE WriteBuffered
  <2> DEFINE n == BufferedLength
  <2>1. /\ phase = "write" /\ phase' = "done" /\ ~written /\ ~chunked
        /\ ~(body_writer_open /\ headers_written)
        /\ UNCHANGED <<writer, stream, refused, keepalive, faults, body_sent, content_length,
                       length_header, buffer, body>>
        /\ wire' = wire \o HeadOnWire(FALSE, streaming)
                        \o (IF head THEN <<>> ELSE Raw(n))
    BY <1>16, Zenon DEF WriteBuffered, Done, bodyVars, countVars, ghostVars
  <2>2. n \in Nat /\ length_header \in Int
    BY <1>0 DEF TypeInv, BufferedLength
  <2>3. CASE headers_written
    <3>1. writer # "streaming"
      BY <1>0, <2>1, <2>3 DEF FlagsInv, InProgress
    <3>2. stream = "socket" \/ ~keepalive
      BY <1>0, <2>1, <2>3, <3>1 DEF FlagsInv, InProgress
    <3> QED
      BY <2>1, <3>1, <3>2, NotKept
  <2>4. CASE ~headers_written
    <3>1. writer # "streaming" /\ wire = <<>>
      BY <1>0, <2>1, <2>4 DEF FlagsInv, WireInv, HeadsInv, InProgress
    <3> SUFFICES ASSUME ~refused PROVE Ends' \/ HandlerMisdeclared'
      BY <2>1, <3>1 DEF KeptInv, StreamInv, Streaming, DoneInv, InProgress
    <3>2. ~streaming /\ content_length = None
      BY <1>0, <2>4 DEF FlagsInv
    <3>3. n' = n
      BY <2>1 DEF BufferedLength
    <3>4. CASE length_header # None /\ length_header # n
      BY <2>1, <3>2, <3>3, <3>4 DEF HandlerMisdeclared
    <3>5. CASE length_header = None \/ length_header = n
      <4> DEFINE t == HeadToken("length", n)
      <4>1. HeadOnWire(FALSE, streaming) = <<t>>
        BY <2>4, <3>2, <3>5, Zenon DEF HeadOnWire, Framing
      <4>2. t \in Token /\ t.kind = "head" /\ t.framing = "length" /\ t.len = n
        BY <2>2, TokenTypes
      <4> HIDE DEF t, n
      <4>3. PICK w \in Seq(Token) : w = Append(<<>>, t)
        <5>1. <<>> \in Seq(Token)
          OBVIOUS
        <5>2. Append(<<>>, t) \in Seq(Token)
          BY <4>2, <5>1, TokenAppend, Zenon
        <5> QED
          BY <5>2, Zenon
      <4>4. HeadAlone(w) /\ LengthPart(w, n, 0)
        BY <4>2, <4>3, HeadStarts
      <4>5. wire' = w \o (IF head THEN <<>> ELSE Raw(n))
        BY <1>0, <2>1, <3>1, <4>1, <4>2, <4>3, CatToken, Zenon
      <4>6. CASE head
        <5>1. wire' = w
          BY <4>5, <4>6, CatEmpty
        <5> QED
          BY <1>h, <4>4, <4>6, <5>1, Zenon DEF Ends
      <4>7. CASE ~head
        <5>1. LengthPart(wire', n, n)
          <6>1. CASE n = 0
            <7>1. wire' = w
              BY <4>5, <4>7, <6>1, CatEmpty DEF Raw
            <7> QED
              BY <4>4, <6>1, <7>1
          <6>2. CASE n # 0
            <7>1. DataToken("raw", n) \in Token
              BY <2>2, TokenTypes
            <7>2. wire' = Append(w, DataToken("raw", n))
              BY <4>5, <4>7, <6>2, <7>1, CatToken DEF Raw
            <7>3. LengthPart(wire', n, 0 + n)
              BY <2>2, <4>4, <7>2, LengthMore
            <7> QED
              BY <2>2, <7>3
          <6> QED
            BY <6>1, <6>2
        <5>2. wire'[1].len = n
          BY <5>1, Zenon DEF LengthPart
        <5> QED
          BY <1>h, <4>7, <5>1, <5>2 DEF Ends
      <4> QED
        BY <4>6, <4>7
    <3> QED
      BY <3>4, <3>5
  <2> QED
    BY <2>3, <2>4
<1> QED
  BY <1>1, <1>2, <1>3, <1>4, <1>5, <1>6, <1>7, <1>8, <1>9, <1>10, <1>11, <1>13, <1>14,
     <1>15, <1>16
     DEF Next, Handler, Executor, Write

LEMMA KeptInit == Init => KeptInv
  BY Zenon DEF Init, KeptInv, StreamInv, Streaming, DoneInv

\* A connection kept for another request carried one whole message, whatever the
\* handler did with the response, except for the cases KeptMeansWhole names.
THEOREM KeptIsWhole == Spec => []KeptMeansWhole
<1>1. KeptInv => KeptMeansWhole
  BY EndsWhole, Zenon DEF KeptInv, DoneInv, KeptMeansWhole
<1> QED
  BY <1>1, WireInvariant, KeptInit, KeptNext, PTL DEF Spec
=============================================================================
