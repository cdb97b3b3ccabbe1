---------------------------- MODULE HttpExchange ----------------------------
(***************************************************************************)
(* What a server promises the peer of one HTTP/1.1 connection, whatever    *)
(* its handlers do: the final answers come in the order of the requests,   *)
(* one each and none before its request, and none after an answer that     *)
(* said it was the last (Connection: close, or 101 Switching Protocols) or *)
(* after the end of the connection.  Either side may end it at any time.   *)
(***************************************************************************)
EXTENDS Naturals, Sequences

VARIABLES
  asked,    \* how many requests the peer has begun to send
  answers,  \* the requests that were answered, in the order of the answers
  last,     \* some answer said that no other would follow
  open      \* the server's side of the connection is open

vars == <<asked, answers, last, open>>

Init == asked = 0 /\ answers = <<>> /\ last = FALSE /\ open = TRUE

\* The peer may begin a request before the earlier ones are answered.
Ask ==
  /\ asked' = asked + 1
  /\ UNCHANGED <<answers, last, open>>

\* The answer to the oldest request without one; the connection may end with it.
Answer(isLast, stays) ==
  /\ open /\ ~last
  /\ Len(answers) < asked
  /\ answers' = Append(answers, Len(answers) + 1)
  /\ last' = isLast
  /\ open' = stays
  /\ UNCHANGED asked

Close ==
  /\ open
  /\ open' = FALSE
  /\ UNCHANGED <<asked, answers, last>>

Next == Ask \/ (\E isLast, stays \in BOOLEAN : Answer(isLast, stays)) \/ Close

Spec == Init /\ [][Next]_vars
=============================================================================
