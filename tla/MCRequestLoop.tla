--------------------------- MODULE MCRequestLoop ---------------------------
(***************************************************************************)
(* RequestLoop for TLC: one request of every kind the loop tells apart.    *)
(***************************************************************************)
EXTENDS RequestLoop

MCReq(length, chunked, expect, ka) ==
  [length |-> length, chunked |-> chunked, expect |-> expect, ka |-> ka,
   upgrade |-> FALSE]

Get == MCReq(0, FALSE, "none", TRUE)
GetClose == MCReq(0, FALSE, "none", FALSE)
PostFits == MCReq(1, FALSE, "none", TRUE)
PostTooBig == MCReq(2, FALSE, "none", TRUE)
PostChunked == MCReq(1, TRUE, "none", TRUE)
PostExpect == MCReq(1, FALSE, "continue", TRUE)
PostExpectOther == MCReq(1, FALSE, "other", TRUE)

Upgrade == [Get EXCEPT !.upgrade = TRUE]

AllKinds == {Get, GetClose, PostFits, PostTooBig, PostChunked, PostExpect,
             PostExpectOther, Upgrade}
ExpectKinds == {Get, PostExpect}
=============================================================================
