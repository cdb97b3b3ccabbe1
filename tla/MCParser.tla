------------------------------ MODULE MCParser ------------------------------
(***************************************************************************)
(* Parser for TLC: requests and responses in every framing, well-formed    *)
(* and not.                                                                *)
(***************************************************************************)
EXTENDS Parser

Base == [type |-> "request", start |-> "POST", minor |-> "1", eol |-> "LF",
         headers |-> <<>>, chunked |-> FALSE, chunks |-> <<>>, trailers |-> <<>>, data |-> <<>>]
Req(hs) == [Base EXCEPT !.headers = hs]
Res(status, hs) == [Base EXCEPT !.type = "response", !.start = status, !.headers = hs]
With(m, data) == [m EXCEPT !.data = data]
Chunked(m, chunks) == [m EXCEPT !.chunked = TRUE, !.chunks = chunks]
Old(m) == [m EXCEPT !.minor = "0"]
TwoCRs(m) == [m EXCEPT !.eol = "CR"]
H(name, value) == [name |-> name, value |-> value]
CL(digits) == H("content-length", digits)
TE(value) == H("transfer-encoding", value)
Conn(value) == H("connection", value)
C(size, data) == [size |-> size, ext |-> <<>>, data |-> data]
Ext(c, ext) == [c EXCEPT !.ext = ext]

ChunkedTE == TE(<<"chunked">>)
TwoChunks == <<C(<<"2">>, <<"b", "CR">>), C(<<"1">>, <<"LF">>)>>

Good == {
  Req(<<>>),
  With(Req(<<CL(<<"3">>)>>), <<"b", "0", "LF">>),
  Req(<<CL(<<"0", "0">>), Conn(<<"close">>)>>),
  Chunked(Req(<<ChunkedTE>>), TwoChunks),
  Chunked(Req(<<TE(<<"gzip", ",", "chunked">>)>>), <<C(<<"0", "1">>, <<"b">>)>>),
  Chunked(Req(<<ChunkedTE>>), <<Ext(C(<<"1">>, <<"b">>),
    <<";", "t", "=", "quote", ";", "backslash", "quote", "quote", ";", "t", "=", "t">>)>>),
  [Chunked(Req(<<ChunkedTE>>), <<C(<<"1">>, <<"b">>)>>) EXCEPT
     !.trailers = <<H("x", <<"t", "u">>), H("x", <<>>)>>],
  Old(Req(<<Conn(<<"other", ",", "keep-alive">>), CL(<<"0">>)>>)),
  Req(<<Conn(<<"close", "other">>), CL(<<"0">>)>>),
  Req(<<Conn(<<"upgrade">>), H("upgrade", <<"t">>)>>),
  With(Req(<<Conn(<<"close", ",", "upgrade">>), H("upgrade", <<"t">>), CL(<<"1">>)>>), <<"b">>),
  [Req(<<CL(<<"3">>)>>) EXCEPT !.start = "CONNECT"],
  With(Req(<<TE(<<>>), CL(<<"1">>)>>), <<"b">>), With(Res("200", <<TE(<<>>)>>), <<"b">>),
  Chunked(Req(<<ChunkedTE, TE(<<>>)>>), <<C(<<"1">>, <<"b">>)>>),
  With(Res("200", <<>>), <<"b", "CR">>),
  With(Res("200", <<CL(<<"2">>)>>), <<"b", "b">>),
  TwoCRs(With(Res("200", <<CL(<<"1">>)>>), <<"b">>)), TwoCRs(Res("204", <<>>)),
  With(Res("200", <<TE(<<"chunked", ",", "gzip">>)>>), <<"1", "CR">>),
  Chunked(Res("200", <<TE(<<"chunked">>), TE(<<"chunked">>)>>), TwoChunks),
  Old(Chunked(Res("200", <<ChunkedTE, Conn(<<"keep-alive">>)>>), <<>>)),
  Res("204", <<CL(<<"2">>)>>), Res("100", <<>>),
  Res("101", <<Conn(<<"upgrade">>), H("upgrade", <<"t">>)>>)}

Bad == {
  TwoCRs(Req(<<>>)),
  Req(<<CL(<<"1">>), CL(<<"1">>)>>), Req(<<CL(<<>>)>>), Req(<<CL(<<"1", "t">>)>>),
  With(Req(<<CL(<<"4", "2">>)>>), <<"b">>),
  Req(<<CL(<<"1">>), TE(<<>>)>>),
  Req(<<CL(<<"1">>), ChunkedTE>>), Chunked(Req(<<ChunkedTE, CL(<<"1">>)>>), TwoChunks),
  Chunked(Req(<<TE(<<"chunked", ",", "gzip">>)>>), TwoChunks),
  Req(<<TE(<<"gzip">>)>>), Req(<<ChunkedTE, TE(<<"gzip">>)>>),
  Chunked(Req(<<ChunkedTE>>), <<C(<<"2", "a">>, <<"b">>)>>),
  Chunked(Req(<<ChunkedTE>>), <<C(<<"1">>, <<"b", "b">>)>>),
  Chunked(Req(<<ChunkedTE>>), <<C(<<"2">>, <<"b">>)>>)}

Long == {Req(<<H("x", <<"t">>), H("x", <<"t">>), H("x", <<"t">>), CL(<<"0">>)>>)}

MCMessages == Good \cup Bad \cup Long
MCFollow == <<"CR", "LF", "b">>
=============================================================================
