---------------------------- MODULE MCWebSocket ----------------------------
(***************************************************************************)
(* WebSocket for TLC.  The peer's frames sit on the boundaries: control    *)
(* frames of 125 and 126 bytes, messages of 65535, 65536 (the limit) and   *)
(* 65537 bytes, whole and in parts, a character split between two parts,   *)
(* and one frame for each thing readFrame refuses.                         *)
(***************************************************************************)
EXTENDS WebSocket

\* A frame from a peer in the other role, its length in the shortest form.
PeerFrame(client, op, fin, n, utf8) ==
  [header |-> [fin |-> fin, op |-> op, rsv |-> FALSE, masked |-> client,
               l7 |-> IF n < 126 THEN n ELSE IF n < 65536 THEN 126 ELSE 127,
               ext |-> IF n < 126 THEN 0 ELSE n],
   utf8 |-> utf8]

Ordinary(client) == {
  PeerFrame(client, "text", TRUE, 126, "whole"),
  PeerFrame(client, "text", FALSE, 1, "open"),
  PeerFrame(client, "binary", FALSE, 65535, "whole"),
  PeerFrame(client, "continuation", FALSE, 1, "whole"),
  PeerFrame(client, "continuation", TRUE, 1, "shut"),
  PeerFrame(client, "binary", TRUE, 65537, "whole"),
  PeerFrame(client, "ping", TRUE, 125, "whole"),
  PeerFrame(client, "pong", TRUE, 126, "whole"),
  PeerFrame(client, "pong", TRUE, 125, "whole"),
  PeerFrame(client, "close", TRUE, 125, "whole"),
  PeerFrame(client, "unknown", TRUE, 0, "whole")}

MCPeerFrames ==
  Ordinary(TRUE) \cup Ordinary(FALSE)
    \cup {[PeerFrame(TRUE, "text", TRUE, 1, "whole") EXCEPT !.header.rsv = TRUE]}
=============================================================================
