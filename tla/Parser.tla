------------------------------- MODULE Parser -------------------------------
(***************************************************************************)
(* How a message's bytes become a head, a body and an end: llhttp's state  *)
(* machine with the callbacks dusty sets, parseHeaders, and the stream     *)
(* function of the BodyReader, fed with whatever the connection delivers.  *)
(*                                                                         *)
(* The input is a sequence of symbols.  A symbol stands for one byte where *)
(* the framing depends on single bytes (CR, LF, digits, separators, body   *)
(* bytes) and for a word where it depends on words (method, header name,   *)
(* value token).  llhttp is run strict: dusty sets no lenient flag.        *)
(***************************************************************************)
EXTENDS Integers, Sequences, FiniteSets, SequencesExt

CONSTANTS
  Messages,    \* messages the peer may send: members of Message
  Follow,      \* what the peer sends after a message that ends by itself
  LenMax,      \* UINT64_MAX, scaled down
  MaxHeaders,  \* config.max_header_count
  Room,        \* bytes of the connection's buffer that parseHeaders leaves
  Arrivals,    \* how many bytes one read of the socket may bring
  Dests        \* sizes of the destination a caller may pass

DecDigits == {"0", "1", "2", "3", "4"}
HexDigits == DecDigits \cup {"a"}
DigitValue == [d \in HexDigits |->
  CASE d = "0" -> 0 [] d = "1" -> 1 [] d = "2" -> 2 [] d = "3" -> 3
    [] d = "4" -> 4 [] d = "a" -> 10]

\* A message as its sender means it: headers with their values, and a payload
\* in chunks or in one piece.
Header == [name : {"connection", "content-length", "transfer-encoding",
                   "upgrade", "x"},
           value : Seq(STRING)]
Chunk == [size : Seq(HexDigits), ext : Seq(STRING), data : Seq(STRING)]
\* eol is what follows the CR of the start line.
Message == [type : {"request", "response"}, start : STRING, minor : {"0", "1"},
            eol : {"CR", "LF"}, headers : Seq(Header), chunked : BOOLEAN, chunks : Seq(Chunk),
            trailers : Seq(Header), data : Seq(STRING)]

ASSUME ParserAssumption ==
  /\ Messages \subseteq Message
  /\ Follow \in Seq(STRING)
  /\ LenMax \in Nat /\ MaxHeaders \in Nat /\ Room \in Nat \ {0}
  /\ Arrivals \subseteq Nat \ {0} /\ Dests \subseteq Nat \ {0}

VARIABLES
  msg,        \* the message on its way
  got,        \* symbols of the wire that arrived
  used,       \* symbols tossed from the connection's reader
  room,       \* bytes still free behind what is buffered
  moved,      \* address of a symbol is its position minus this
  parser,     \* llhttp_t and the state struct of dusty's parser
  phase,      \* where parseHeaders or stream is
  dest,       \* size of the destination of the current stream call
  body        \* what stream returned to its caller so far

vars == <<msg, got, used, room, moved, parser, phase, dest, body>>

-----------------------------------------------------------------------------
(* The wire *)

EncodeHeader(h) == <<h.name, ":">> \o h.value \o <<"CR", "LF">>
EncodeChunk(c) ==
  c.size \o c.ext \o <<"CR", "LF">> \o c.data \o <<"CR", "LF">>
FlatMap(F(_), s) == FlattenSeq([i \in DOMAIN s |-> F(s[i])])

EncodeHead(m) ==
  (IF m.type = "request" THEN <<m.start, "url", m.minor>> ELSE <<m.minor, m.start>>)
    \o <<"CR", m.eol>> \o FlatMap(EncodeHeader, m.headers) \o <<"CR", "LF">>

EncodePayload(m) ==
  IF m.chunked
  THEN FlatMap(EncodeChunk, m.chunks) \o <<"0", "CR", "LF">>
         \o FlatMap(EncodeHeader, m.trailers) \o <<"CR", "LF">>
  ELSE m.data

Encode(m) == EncodeHead(m) \o EncodePayload(m)

-----------------------------------------------------------------------------
(* llhttp: what the headers leave in flags, header_state and content_length *)

\* llhttp_init, or llhttp_reset.
NewParser(type) ==
  [type |-> type, state |-> "start", header_state |-> "general", flags |-> {},
   content_length |-> 0, finish |-> "safe", error |-> "ok", upgrade |-> FALSE,
   start |-> "", minor |-> "0", read |-> 0,
   headers_complete |-> FALSE, message_complete |-> FALSE,
   headers |-> 0, slice |-> -1, out |-> <<>>]

Goto(p, state) == [p EXCEPT !.state = state]
Fail(p) == [p EXCEPT !.error = "error"]
Assertion(p) == [p EXCEPT !.error = "assertion"]
Has(p, flag) == flag \in p.flags

\* mul_add_content_length: a length that does not fit is refused.
MulAdd(p, base, symbol, state) ==
  IF \/ p.content_length > LenMax \div base
     \/ p.content_length * base > LenMax - DigitValue[symbol]
  THEN Fail(p)
  ELSE [p EXCEPT !.content_length = @ * base + DigitValue[symbol], !.state = state]

\* or_flags_5 to or_flags_8: the flag of a value whose last word was seen whole.
FlagOf(header_state) ==
  CASE header_state = "keep_alive" -> {"CONNECTION_KEEP_ALIVE"}
    [] header_state = "close" -> {"CONNECTION_CLOSE"}
    [] header_state = "connection_upgrade" -> {"CONNECTION_UPGRADE"}
    [] header_state = "chunked" -> {"CHUNKED"}
    [] OTHER -> {}

ApplyFlag(p) ==
  [p EXCEPT !.flags = @ \cup FlagOf(p.header_state),
            !.header_state = IF @ \in {"keep_alive", "close", "connection_upgrade"}
                             THEN "connection" ELSE @]

\* llhttp_message_needs_eof.
MessageNeedsEof(p) ==
  /\ p.type = "response"
  /\ p.start \notin {"100", "101", "102", "103", "204", "304"}
  /\ ~Has(p, "SKIPBODY")
  /\ \/ Has(p, "TRANSFER_ENCODING") /\ ~Has(p, "CHUNKED")
     \/ ~Has(p, "CHUNKED") /\ ~Has(p, "CONTENT_LENGTH")

\* Mutant: a body that ends with the connection does not count.
ShouldKeepAlive_EofToo(p) ==
  IF p.minor = "1" THEN ~Has(p, "CONNECTION_CLOSE") ELSE Has(p, "CONNECTION_KEEP_ALIVE")

\* llhttp_should_keep_alive.
ShouldKeepAlive(p) ==
  /\ IF p.minor = "1" THEN ~Has(p, "CONNECTION_CLOSE")
     ELSE Has(p, "CONNECTION_KEEP_ALIVE")
  /\ ~MessageNeedsEof(p)

\* onMessageComplete: dusty pauses; the flags stay as they are.
OnMessageComplete(p) ==
  [p EXCEPT !.message_complete = TRUE, !.error = "paused",
            !.state = "is_equal_upgrade"]

\* llhttp__after_headers_complete, and the jump on its result.
AfterHeadersComplete(p) ==
  LET hasBody == Has(p, "CHUNKED") \/ p.content_length > 0
      skip == \/ p.upgrade /\ (p.start = "CONNECT" \/ Has(p, "SKIPBODY") \/ ~hasBody)
              \/ Has(p, "SKIPBODY")
              \/ /\ p.type = "response"
                 /\ p.start \in {"100", "101", "102", "103", "204", "304"}
  IN  CASE skip -> OnMessageComplete(p)
        [] ~skip /\ Has(p, "CHUNKED") ->
             [p EXCEPT !.content_length = 0, !.state = "chunk_size_digit"]
        [] ~skip /\ ~Has(p, "CHUNKED") /\ Has(p, "TRANSFER_ENCODING") ->
             IF p.type = "request" THEN Fail(p)
             ELSE [p EXCEPT !.finish = "safe_with_cb", !.state = "eof"]
        [] ~skip /\ p.flags \cap {"CHUNKED", "TRANSFER_ENCODING"} = {} ->
             IF ~Has(p, "CONTENT_LENGTH")
             THEN IF MessageNeedsEof(p)
                  THEN [p EXCEPT !.finish = "safe_with_cb", !.state = "eof"]
                  ELSE OnMessageComplete(p)
             ELSE IF p.content_length = 0 THEN OnMessageComplete(p)
             ELSE Goto(p, "body_identity")

\* The empty line: the end of the trailers, or llhttp__before_headers_complete
\* and onHeadersComplete, which pauses.
EndOfFields(p) ==
  IF Has(p, "TRAILING") THEN OnMessageComplete(p)
  ELSE [p EXCEPT
          !.upgrade = IF Has(p, "UPGRADE") /\ Has(p, "CONNECTION_UPGRADE")
                      THEN p.type = "request" \/ p.start = "101"
                      ELSE p.start = "CONNECT",
          !.headers_complete = TRUE, !.error = "paused",
          !.state = "after_headers_complete"]

-----------------------------------------------------------------------------
(* llhttp: the states that read the start line and the headers *)

\* A word of the start line that the state does not expect is refused.
Expect(p, s, words, q) == IF s \in words THEN q ELSE Fail(p)

RequestMethod(p, s) ==
  Expect(p, s, {"GET", "HEAD", "POST", "CONNECT"},
         [p EXCEPT !.finish = "unsafe", !.start = s, !.state = "url"])

RequestTarget(p, s) == Expect(p, s, {"url"}, Goto(p, "version"))

RequestVersion(p, s) ==
  Expect(p, s, {"0", "1"}, [p EXCEPT !.minor = s, !.state = "req_line_end"])

StatusVersion(p, s) ==
  Expect(p, s, {"0", "1"},
         [p EXCEPT !.finish = "unsafe", !.minor = s, !.state = "status"])

StatusCode(p, s) ==
  Expect(p, s, {"100", "101", "200", "204"},
         [p EXCEPT !.start = s, !.state = "res_line_end"])

\* The end of a request line is CR and LF.
RequestLineEnd(p, s) ==
  IF p.state = "req_line_end"
  THEN Expect(p, s, {"CR"}, Goto(p, "req_line_almost_done"))
  ELSE Expect(p, s, {"LF"}, Goto(p, "header_field_start"))

\* A second CR ends a status line as well as the LF does, without any lenient flag.
StatusLineEnd(p, s) ==
  IF p.state = "res_line_end"
  THEN Expect(p, s, {"CR"}, Goto(p, "res_line_almost_done"))
  ELSE Expect(p, s, {"CR", "LF"}, Goto(p, "header_field_start"))

\* Empty lines before a message are skipped; its type decides how it starts.
Start(p, s) ==
  IF s \in {"CR", "LF"} THEN p
  ELSE IF p.type = "request" THEN RequestMethod(p, s) ELSE StatusVersion(p, s)

StartLine(p, s) ==
  CASE p.state = "start" -> Start(p, s)
    [] p.state = "url" -> RequestTarget(p, s)
    [] p.state = "version" -> RequestVersion(p, s)
    [] p.state = "status" -> StatusCode(p, s)
    [] p.state \in {"req_line_end", "req_line_almost_done"} -> RequestLineEnd(p, s)
    [] p.state \in {"res_line_end", "res_line_almost_done"} -> StatusLineEnd(p, s)

\* appendSlice: a piece of a name or value must continue the slice so far.
AppendSlice(p, at) ==
  IF p.slice \in {-1, at} THEN [p EXCEPT !.slice = at + 1] ELSE Assertion(p)

\* The last call for a slice comes with the separator, for what is left of it.
EndSlice(p, at) ==
  IF p.slice \in {-1, at} THEN [p EXCEPT !.slice = -1] ELSE Assertion(p)

HeaderStateOf(name) ==
  CASE name = "connection" -> "connection"
    [] name = "content-length" -> "content_length"
    [] name = "transfer-encoding" -> "transfer_encoding"
    [] name = "upgrade" -> "upgrade"
    [] OTHER -> "general"

\* onHeaderValueComplete: the table of headers may be full.
OnHeaderValueComplete(p) ==
  IF p.headers >= MaxHeaders THEN Fail(p)
  ELSE [p EXCEPT !.headers = @ + 1, !.state = "header_field_start"]

\* The line after a value is read before the value counts: it may not begin
\* with a space, and an empty Content-Length is refused.
AfterLine(p, s) ==
  IF s = " " \/ (p.state = "header_value_discard_lws"
                  /\ p.header_state = "content_length")
  THEN Fail(p) ELSE OnHeaderValueComplete(ApplyFlag(p))

\* Mutant: both framings are accepted, the later header wins.
FieldColon_Both(p) == Goto(p, "header_value_discard_ws")

\* The colon: Content-Length and Transfer-Encoding exclude each other.
FieldColon(p) ==
  IF \/ p.header_state = "content_length" /\ Has(p, "TRANSFER_ENCODING")
     \/ p.header_state = "transfer_encoding" /\ Has(p, "CONTENT_LENGTH")
  THEN Fail(p) ELSE Goto(p, "header_value_discard_ws")

HeaderField(p, s, at) ==
  CASE p.state = "header_field_start" /\ s = "CR" -> Goto(p, "headers_almost_done")
    [] p.state = "header_field_start" /\ s \notin {"CR", "LF", ":", " "} ->
         AppendSlice([p EXCEPT !.header_state = HeaderStateOf(s),
                               !.state = "header_field_colon"], at)
    [] p.state = "header_field_colon" /\ s = ":" -> FieldColon(EndSlice(p, at))
    [] p.state = "headers_almost_done" /\ s = "LF" -> EndOfFields(p)
    [] OTHER -> Fail(p)

\* The first byte of a value decides which value states read it.
ValueStart(p) ==
  CASE p.header_state = "connection" -> Goto(p, "header_value_connection")
    [] p.header_state = "content_length" ->
         IF Has(p, "CONTENT_LENGTH") THEN Fail(p)
         ELSE Goto(p, "header_value_content_length")
    [] p.header_state = "transfer_encoding" ->
         IF Has(p, "CHUNKED") /\ p.type = "request" THEN Fail(p)
         ELSE [p EXCEPT !.flags = (@ \cup {"TRANSFER_ENCODING"}) \ {"CHUNKED"},
                        !.state = "header_value_te_chunked"]
    [] p.header_state = "upgrade" ->
         [p EXCEPT !.flags = @ \cup {"UPGRADE"}, !.header_state = "general",
                   !.state = "header_value"]
    [] OTHER -> Goto(p, "header_value")

\* A list of connection options: a word counts only when it stands alone
\* between commas.
ConnectionValue(p, s) ==
  LET word(hs) == [p EXCEPT !.header_state = hs, !.state = "header_value_connection_ws"]
  IN  CASE p.state = "header_value_connection" /\ s = " " -> p
        [] p.state = "header_value_connection" /\ s = "close" -> word("close")
        [] p.state = "header_value_connection" /\ s = "keep-alive" -> word("keep_alive")
        [] p.state = "header_value_connection" /\ s = "upgrade" -> word("connection_upgrade")
        [] p.state = "header_value_connection_ws" /\ s = " " -> p
        [] p.state = "header_value_connection_ws" /\ s = "," ->
             [ApplyFlag(p) EXCEPT !.header_state = "connection",
                                  !.state = "header_value_connection"]
        [] p.state = "header_value_connection_ws" /\ s \notin {" ", ","} ->
             [p EXCEPT !.header_state = "general", !.state = "header_value_connection_token"]
        [] p.state = "header_value_connection_token" /\ s = "," ->
             Goto(p, "header_value_connection")
        [] OTHER -> Goto(p, "header_value_connection_token")

ContentLengthValue(p, s) ==
  CASE p.state = "header_value_content_length" /\ s \in DecDigits ->
         MulAdd(p, 10, s, "header_value_content_length")
    [] s = " " -> Goto(p, "header_value_content_length_ws")
    [] OTHER -> Fail(p)

\* A coding after chunked: refused in a request.
ChunkedComma(p) ==
  IF p.type = "request" THEN Fail(p) ELSE Goto(p, "header_value_te_token_ows")

\* Only a chunked that ends the value is the message's framing.
TransferEncodingValue(p, s) ==
  CASE p.state \in {"header_value_te_chunked", "header_value_te_token_ows"}
         /\ s = "chunked" -> Goto(p, "header_value_te_chunked_last")
    [] p.state = "header_value_te_chunked_last" /\ s = " " -> p
    [] p.state = "header_value_te_chunked_last" /\ s = "," -> ChunkedComma(p)
    [] p.state = "header_value_te_token_ows" /\ s = " " -> p
    [] p.state \in {"header_value_te_token", "header_value_te_chunked",
                    "header_value_te_token_ows"} /\ s = "," ->
         Goto(p, "header_value_te_token_ows")
    [] OTHER -> Goto(p, "header_value_te_token")

\* The CR that ends a value settles what the value was.
ValueEnd(p, at) ==
  LET q == EndSlice(p, at) IN
  CASE p.state \in {"header_value_content_length", "header_value_content_length_ws"} ->
         [q EXCEPT !.flags = @ \cup {"CONTENT_LENGTH"}, !.state = "header_value_almost_done"]
    [] p.state = "header_value_te_chunked_last" ->
         [q EXCEPT !.header_state = "chunked", !.state = "header_value_almost_done"]
    [] p.state \in {"header_value_te_token", "header_value_te_chunked",
                    "header_value_te_token_ows"} ->
         [q EXCEPT !.header_state = "general", !.state = "header_value_almost_done"]
    [] OTHER -> Goto(q, "header_value_almost_done")

ConnectionStates == {"header_value_connection", "header_value_connection_ws",
                     "header_value_connection_token"}
ContentLengthStates == {"header_value_content_length", "header_value_content_length_ws"}
TransferEncodingStates == {"header_value_te_chunked", "header_value_te_chunked_last",
                           "header_value_te_token", "header_value_te_token_ows"}
ValueStates == ConnectionStates \cup ContentLengthStates \cup TransferEncodingStates
                 \cup {"header_value"}

\* A symbol inside a value, which the value's own states read.
ValueSymbol(p, s, at) ==
  LET q == AppendSlice(p, at) IN
  CASE p.state \in ConnectionStates -> ConnectionValue(q, s)
    [] p.state \in ContentLengthStates -> ContentLengthValue(q, s)
    [] p.state \in TransferEncodingStates -> TransferEncodingValue(q, s)
    [] OTHER -> q

HeaderValue(p, s, at) ==
  CASE p.state = "header_value_discard_ws" /\ s = " " -> p
    [] p.state = "header_value_discard_ws" /\ s = "CR" ->
         Goto(p, "header_value_discard_ws_almost_done")
    [] p.state = "header_value_discard_ws" /\ s \notin {" ", "CR", "LF"} ->
         LET q == ValueStart(p) IN
         IF q.error = "ok" THEN ValueSymbol(q, s, at) ELSE q
    [] p.state = "header_value_discard_ws_almost_done" /\ s = "LF" ->
         Goto(p, "header_value_discard_lws")
    [] p.state = "header_value_almost_done" /\ s = "LF" -> Goto(p, "header_value_lws")
    [] p.state \in ValueStates /\ s = "CR" -> ValueEnd(p, at)
    [] p.state \in ValueStates /\ s \notin {"CR", "LF"} -> ValueSymbol(p, s, at)
    [] OTHER -> Fail(p)

-----------------------------------------------------------------------------
(* llhttp: the states that read the body *)

\* onBody: what does not fit the destination is dropped.
OnBody(p, s, d) == IF Len(p.out) < d THEN [p EXCEPT !.out = Append(@, s)] ELSE p

ChunkSize(p, s) ==
  CASE p.state \in {"chunk_size_digit", "chunk_size"} /\ s \in HexDigits ->
         MulAdd(p, 16, s, "chunk_size")
    [] p.state = "chunk_size" /\ s = "CR" -> Goto(p, "chunk_size_almost_done")
    [] p.state = "chunk_size" /\ s = ";" -> Goto(p, "chunk_extensions")
    [] OTHER -> Fail(p)

\* Names and values of extensions are skipped, quoted ones with what they quote.
ChunkExtension(p, s) ==
  CASE p.state = "chunk_extensions" /\ s \notin {"CR", "LF", " ", ";", "=", "quote"} ->
         Goto(p, "chunk_extension_name")
    [] p.state = "chunk_extension_name" /\ s = "=" -> Goto(p, "chunk_extension_value")
    [] p.state = "chunk_extension_value" /\ s = "quote" ->
         Goto(p, "chunk_extension_quoted_value")
    [] p.state = "chunk_extension_quoted_value" /\ s = "quote" ->
         Goto(p, "chunk_extension_quoted_value_done")
    [] p.state = "chunk_extension_quoted_value" /\ s = "backslash" ->
         Goto(p, "chunk_extension_quoted_value_quoted_pair")
    [] p.state = "chunk_extension_quoted_value_quoted_pair" /\ s \notin {"CR", "LF"} ->
         Goto(p, "chunk_extension_quoted_value")
    [] p.state = "chunk_extension_quoted_value"
         /\ s \notin {"CR", "LF", "quote", "backslash"} -> p
    [] p.state \in {"chunk_extension_name", "chunk_extension_value",
                    "chunk_extension_quoted_value_done"} /\ s = "CR" ->
         Goto(p, "chunk_size_almost_done")
    [] p.state \in {"chunk_extension_name", "chunk_extension_value",
                    "chunk_extension_quoted_value_done"} /\ s = ";" ->
         Goto(p, "chunk_extensions")
    [] p.state \in {"chunk_extension_name", "chunk_extension_value"}
         /\ s \notin {"CR", "LF", " ", ";", "=", "quote"} -> p
    [] OTHER -> Fail(p)

\* The chunk's size is known: data, or the trailers after the last chunk.
ChunkHeader(p) ==
  IF p.content_length = 0
  THEN [p EXCEPT !.flags = @ \cup {"TRAILING"}, !.state = "header_field_start"]
  ELSE Goto(p, "chunk_data")

ChunkFraming(p, s) ==
  CASE p.state = "chunk_size_almost_done" /\ s = "LF" -> ChunkHeader(p)
    [] p.state = "chunk_data_almost_done" /\ s = "CR" -> Goto(p, "chunk_data_almost_done_1")
    [] p.state = "chunk_data_almost_done_1" /\ s = "LF" ->
         [p EXCEPT !.content_length = 0, !.state = "chunk_size_digit"]
    [] OTHER -> Fail(p)

\* consume_content_length, a byte of it: the last one ends the chunk or the
\* message.
BodyByte(p, s, d) ==
  LET q == [OnBody(p, s, d) EXCEPT !.content_length = @ - 1] IN
  CASE p.state = "eof" -> OnBody(p, s, d)
    [] p.state = "chunk_data" ->
         IF q.content_length = 0 THEN Goto(q, "chunk_data_almost_done") ELSE q
    [] p.state = "body_identity" ->
         IF q.content_length = 0 THEN OnMessageComplete(q) ELSE q

-----------------------------------------------------------------------------
(* llhttp_execute and llhttp_finish *)

Step(p, s, at, d) ==
  LET fields == {"header_field_start", "header_field_colon", "headers_almost_done"} IN
  CASE p.state \in {"start", "url", "version", "status", "req_line_end",
                    "req_line_almost_done", "res_line_end", "res_line_almost_done"} ->
         StartLine(p, s)
    [] p.state \in fields -> HeaderField(p, s, at)
    [] p.state \in {"header_value_lws", "header_value_discard_lws"} ->
         LET q == AfterLine(p, s) IN
         IF q.error = "ok" THEN HeaderField(q, s, at) ELSE q
    [] p.state \in {"chunk_size_digit", "chunk_size"} -> ChunkSize(p, s)
    [] p.state \in {"chunk_extensions", "chunk_extension_name", "chunk_extension_value",
                    "chunk_extension_quoted_value", "chunk_extension_quoted_value_done",
                    "chunk_extension_quoted_value_quoted_pair"} -> ChunkExtension(p, s)
    [] p.state \in {"chunk_size_almost_done", "chunk_data_almost_done",
                    "chunk_data_almost_done_1"} -> ChunkFraming(p, s)
    [] p.state \in {"eof", "chunk_data", "body_identity"} -> BodyByte(p, s, d)
    [] OTHER -> HeaderValue(p, s, at)

\* A state that needs no input is left before the first byte is read.
Enter(p) == IF p.state = "after_headers_complete" THEN AfterHeadersComplete(p) ELSE p

\* llhttp_execute on what starts at address `at`: it stops at a pause or an
\* error and counts what it read (error_pos).
Execute(p, input, at, d) ==
  LET one(q, i) == IF q.error = "ok"
                   THEN [Step(q, input[i], at + i - 1, d) EXCEPT !.read = i] ELSE q
      start == [p EXCEPT !.read = 0]
  IN  IF p.error # "ok" THEN start
      ELSE FoldLeft(one, Enter(start), [i \in DOMAIN input |-> i])

\* llhttp_finish: the end of the stream completes only a message framed by it.
Finish(p) ==
  IF p.error = "ok" /\ p.finish = "safe_with_cb"
  THEN [p EXCEPT !.message_complete = TRUE] ELSE p

Resume(p) == IF p.error = "paused" THEN [p EXCEPT !.error = "ok"] ELSE p

-----------------------------------------------------------------------------
(* The reference: what the sender means, stated over the message *)

Named(m, name) == {i \in DOMAIN m.headers : m.headers[i].name = name}
NumberOf(digits, base) == FoldLeft(LAMBDA n, d : n * base + DigitValue[d], 0, digits)

\* A word stands alone in a comma-separated value.
Lists(value, word) ==
  \E i \in DOMAIN value :
    /\ value[i] = word
    /\ i = 1 \/ value[i - 1] = ","
    /\ i = Len(value) \/ value[i + 1] = ","

\* The value's final coding is chunked.
EndsChunked(value) ==
  /\ value # <<>> /\ value[Len(value)] = "chunked"
  /\ Len(value) = 1 \/ value[Len(value) - 1] = ","

Bodiless(m) ==
  \/ m.type = "request" /\ m.start = "CONNECT"
  \/ m.type = "response" /\ m.start \in {"100", "101", "204"}

Lengths(m) == Named(m, "content-length")

\* The Transfer-Encoding headers that name a coding; an empty one is accepted and
\* means nothing.
Codings(m) == {i \in Named(m, "transfer-encoding") : m.headers[i].value # <<>>}

\* ... except behind a Content-Length, where the name alone is refused.
CodingAfterLength(m) ==
  \E i \in Lengths(m), j \in Named(m, "transfer-encoding") : i < j

GoodLength(value) ==
  /\ value # <<>> /\ \A i \in DOMAIN value : value[i] \in DecDigits
  /\ NumberOf(value, 10) <= LenMax

\* Chunked is named where it is not the last coding of all.
ChunkedTooEarly(m) ==
  \E i \in Codings(m) : \E k \in DOMAIN m.headers[i].value :
    /\ m.headers[i].value[k] = "chunked"
    /\ k < Len(m.headers[i].value) \/ \E j \in Codings(m) : j > i

LastCoding(m) == m.headers[CHOOSE i \in Codings(m) : \A j \in Codings(m) : j <= i]

\* How the message is framed, by RFC 7230 section 3.3.3 as http.c cites it.
Framing(m) ==
  CASE (Lengths(m) # {} /\ Codings(m) # {}) \/ CodingAfterLength(m) -> "reject"
    [] Codings(m) = {} /\ (Cardinality(Lengths(m)) > 1
         \/ \E i \in Lengths(m) : ~GoodLength(m.headers[i].value)) -> "reject"
    [] Lengths(m) = {} /\ m.type = "request" /\ ChunkedTooEarly(m) -> "reject"
    [] OTHER ->
         IF Bodiless(m) THEN "none"
         ELSE IF Codings(m) # {}
         THEN IF EndsChunked(LastCoding(m).value) THEN "chunked"
              ELSE IF m.type = "request" THEN "reject" ELSE "eof"
         ELSE IF Lengths(m) # {} THEN "length"
         ELSE IF m.type = "request" THEN "none" ELSE "eof"

ChunksRight(m) ==
  \A i \in DOMAIN m.chunks :
    /\ NumberOf(m.chunks[i].size, 16) = Len(m.chunks[i].data)
    /\ Len(m.chunks[i].data) > 0

\* Only a status line may end in two CRs.
Refused(m) ==
  \/ m.type = "request" /\ m.eol # "LF"
  \/ Framing(m) = "reject"
  \/ Framing(m) = "chunked" /\ ~ChunksRight(m)

FullBody(m) ==
  CASE Framing(m) = "chunked" -> FlatMap(LAMBDA c : c.data, m.chunks)
    [] Framing(m) \in {"length", "eof"} -> m.data
    [] OTHER -> <<>>

\* Whether the sender lets the connection live on.
Persists(m) ==
  LET listed(word) == \E i \in Named(m, "connection") : Lists(m.headers[i].value, word)
  IN  /\ IF m.minor = "1" THEN ~listed("close") ELSE listed("keep-alive")
      /\ Framing(m) # "eof"

-----------------------------------------------------------------------------
(* parseHeaders and BodyReader.stream *)

Wire == Encode(msg) \o (IF Framing(msg) = "eof" THEN <<>> ELSE Follow)
Buffered == SubSeq(Wire, used + 1, got)

Init ==
  /\ msg \in Messages
  /\ got = 0 /\ used = 0 /\ room = Room /\ moved = 0
  /\ parser = NewParser(msg.type)
  /\ phase = "head"
  /\ dest = 0
  /\ body = <<>>

\* One turn of parseHeaders: read, then feed what is not parsed yet.  The
\* buffer holds the whole head and Room more, and is not moved under the head.
ParseHeaders(k) ==
  /\ phase = "head"
  /\ got + k <= Len(Wire) /\ got + k <= Len(EncodeHead(msg)) + Room
  /\ LET p == Execute(parser, SubSeq(Wire, got + 1, got + k), got, 0) IN
     /\ parser' = p
     /\ got' = got + k
     /\ phase' = IF p.headers_complete THEN "parsed"
                 ELSE IF p.error = "error" THEN "failed" ELSE "head"
     /\ used' = IF p.headers_complete THEN got + p.read ELSE 0
  /\ UNCHANGED <<msg, room, moved, dest, body>>

\* The peer is gone before the head is whole.
ParseHeadersEof ==
  /\ phase = "head"
  /\ phase' = "failed"
  /\ UNCHANGED <<msg, got, used, room, moved, parser, dest, body>>

\* Mutant: the empty feed is left out.
HeadersParsed_NoFeed ==
  /\ phase = "parsed"
  /\ parser' = Resume(parser)
  /\ phase' = "idle"
  /\ room' = Room - (got - used)
  /\ UNCHANGED <<msg, got, used, moved, dest, body>>

\* The end of parseHeaders: resume, cut the head off the buffer, and feed
\* nothing so that a message without a body completes.
HeadersParsed ==
  /\ phase = "parsed"
  /\ parser' = Execute(Resume(parser), <<>>, 0, 0)
  /\ phase' = IF parser'.error = "error" THEN "failed" ELSE "idle"
  /\ room' = Room - (got - used)
  /\ UNCHANGED <<msg, got, used, moved, dest, body>>

\* stream begins: a complete body has ended; otherwise the destination is set.
StreamBegin(d) ==
  /\ phase = "idle"
  /\ dest' = d
  /\ phase' = IF parser.message_complete THEN "done" ELSE "stream"
  /\ parser' = [parser EXCEPT !.out = <<>>]
  /\ UNCHANGED <<msg, got, used, room, moved, body>>

\* What stream returns when its loop comes round: the bytes it has, or the end.
Return(p, b) ==
  /\ parser' = p
  /\ body' = b \o p.out
  /\ phase' = IF p.error \in {"error", "assertion"} THEN "failed"
              ELSE IF p.out # <<>> THEN "idle"
              ELSE IF p.message_complete THEN "done" ELSE "stream"

\* Mutant: all that is buffered is fed, whatever the destination holds.
FeedSize_All(n, d) == n

\* Mutant: a byte of the destination is spared.
FeedSize_OneLess(n, d) == IF n < d - 1 THEN n ELSE d - 1

\* Never more is fed than the destination could take.
FeedSize(n, d) == IF n < d THEN n ELSE d

\* What is tossed: everything, or up to where the parser paused.
Consumed(n, p) == IF p.error = "paused" THEN p.read ELSE n

\* stream feeds buffered data to the parser.
StreamFeed ==
  /\ phase = "stream" /\ got > used
  /\ LET n == FeedSize(got - used, dest)
         p == Execute(parser, SubSeq(Buffered, 1, n), used - moved, dest)
     IN  Return(p, body) /\ used' = used + Consumed(n, p)
  /\ UNCHANGED <<msg, got, room, moved, dest>>

\* conn.fillMore: behind what the buffer held, or, when that is its end, at its
\* start again.
StreamFill(k) ==
  /\ phase = "stream" /\ got = used
  /\ LET full == room = 0
         free == IF full THEN Room ELSE room
     IN  /\ k <= free /\ got + k <= Len(Wire)
         /\ room' = free - k
         /\ moved' = IF full THEN got ELSE moved
         /\ got' = got + k
  /\ UNCHANGED <<msg, used, parser, phase, dest, body>>

\* The connection ends under stream.
StreamEof ==
  /\ phase = "stream" /\ got = used
  /\ LET p == Finish(parser) IN
     /\ parser' = p
     /\ phase' = IF p.message_complete THEN "done" ELSE "failed"
  /\ UNCHANGED <<msg, got, used, room, moved, dest, body>>

Next ==
  \/ \E k \in Arrivals : ParseHeaders(k)
  \/ ParseHeadersEof
  \/ HeadersParsed
  \/ \E d \in Dests : StreamBegin(d)
  \/ StreamFeed
  \/ \E k \in Arrivals : StreamFill(k)
  \/ StreamEof

Ended == phase \in {"done", "failed"}

\* Reads end, with data, at the end of the stream or at the socket's timeout;
\* the rest is a loop that a caller, or the drain of the request loop, runs.
Spec == Init /\ [][Next]_vars /\ WF_vars(Next)

-----------------------------------------------------------------------------
(* Properties *)

\* Whatever the reads and the destinations, the caller gets the sender's bytes:
\* no framing among them, none twice, none dropped at a destination that is full.
BodyExact ==
  /\ ~Refused(msg) => IsPrefix(body, FullBody(msg))
  /\ phase = "done" /\ Framing(msg) # "eof" => body = FullBody(msg)
  /\ phase = "done" /\ Framing(msg) = "eof" =>
       body = SubSeq(Wire, Len(EncodeHead(msg)) + 1, got)

\* The end is reported at the message's last byte, not before and not after:
\* what was cut off is never complete, the next message is untouched, and stream
\* does not go back to the socket for the end of a message that is all here.
BoundaryExact ==
  /\ phase = "done" /\ Framing(msg) # "eof" =>
       used = Len(EncodeHead(msg)) + (IF Framing(msg) = "none" THEN 0
                                      ELSE Len(EncodePayload(msg)))
  /\ phase = "stream" /\ used = got /\ Framing(msg) # "eof" /\ ~Refused(msg) =>
       used < Len(Encode(msg))

\* A message whose length two readers could disagree about is never completed,
\* and nothing else is refused, as long as the peer stays and the headers fit.
RefusesExactly ==
  /\ Refused(msg) => phase # "done"
  /\ phase = "failed" /\ parser.error = "error" =>
       Refused(msg) \/ Len(msg.headers) + Len(msg.trailers) > MaxHeaders

\* The connection is kept exactly where the sender keeps it.
KeepAliveAgrees ==
  phase = "done" => (ShouldKeepAlive(parser) <=> Persists(msg))

\* stream never spins: with a peer that sends or goes, every message ends.
ReadingEnds == <>Ended

\* parser.zig:153, the assertion of appendSlice: a piece of a name or a value
\* continues the slice in the buffer.
SlicesContinue == parser.error # "assertion"
=============================================================================
