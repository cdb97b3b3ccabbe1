----------------------------- MODULE WebSocket -----------------------------
(***************************************************************************)
(* One end of a WebSocket connection: WebSocket.receive, called by a       *)
(* single task, and send, ping and close, called by any number of them.    *)
(* All of them write to one connection: the receiver too, which answers a  *)
(* ping with a pong and a close with a close.                              *)
(*                                                                         *)
(* A frame goes out in two parts, its header and its payload, and a write  *)
(* may fail or be canceled in either.  A payload is its length and, for    *)
(* UTF-8, whether it begins or ends inside a character.  The peer is       *)
(* anybody: it sends any frames, in any order, and may stop.               *)
(***************************************************************************)
EXTENDS Integers, Sequences, SequencesExt, Entries

CONSTANTS
  Senders,      \* tasks that send
  Receiver,     \* the task that calls receive
  PeerFrames,   \* the frames a peer may send (records, see Frame)
  SendLens,     \* lengths of what is sent (data, ping, close reason)
  MaxMessage,   \* max_message_size
  MaxReads,     \* frames the peer sends (bounds the model)
  MaxSends,     \* frames the senders send (bounds the model)
  MaxFaults     \* writes that fail (bounds the model)

Tasks == Senders \cup {Receiver}
NoTask == "none"

DataOps == {"text", "binary"}
Control == {"close", "ping", "pong"}
Opcode == DataOps \cup Control \cup {"continuation", "unknown"}

\* The first two bytes of a frame and its extended length.
Header == [fin : BOOLEAN, op : Opcode, rsv : BOOLEAN, masked : BOOLEAN,
           l7 : 0..127, ext : Nat]
\* utf8 of a payload: "whole", "open" (ends inside a character), "shut" (begins
\* inside one).
Frame == [header : Header, utf8 : {"whole", "open", "shut"}]

ASSUME WebSocketAssumption ==
  /\ Receiver \notin Senders /\ NoTask \notin Tasks
  /\ PeerFrames \subseteq Frame
  /\ SendLens \subseteq Nat
  /\ MaxMessage \in Nat
  /\ MaxReads \in Nat /\ MaxSends \in Nat /\ MaxFaults \in Nat

VARIABLES
  is_client,        \* WebSocket.is_client
  closed,           \* WebSocket.closed
  write_mutex,      \* who holds WebSocket.write_mutex
  fragmented_type,  \* WebSocket.fragmented_type, "none" when null
  fragmented_data,  \* WebSocket.fragmented_data, as the payloads it is made of
  auto_responded,   \* WebSocket.auto_responded
  pc,               \* what each task is doing
  job,              \* the frame it is writing: its opcode and length
  result,           \* what the last receive returned
  wire,             \* everything written to the connection
  inbound,          \* frames readFrame has returned to this receive
  pings,            \* lengths of all the pings read
  reads, sends, faults  \* counters of the bounds

readVars == <<fragmented_type, fragmented_data, auto_responded, result>>
historyVars == <<inbound, pings>>
boundVars == <<reads, sends, faults>>
vars == <<is_client, closed, write_mutex, readVars, pc, job, wire,
          historyVars, boundVars>>

Result(kind, data) == [kind |-> kind, data |-> data]
NoResult == Result("none", <<>>)
NoJob == [op |-> "unknown", len |-> 0]

Init ==
  /\ is_client \in BOOLEAN
  /\ closed = FALSE
  /\ write_mutex = NoTask
  /\ fragmented_type = "none" /\ fragmented_data = <<>>
  /\ auto_responded = FALSE
  /\ pc = [t \in Tasks |-> "idle"]
  /\ job = [t \in Tasks |-> NoJob]
  /\ result = NoResult
  /\ wire = <<>> /\ inbound = <<>> /\ pings = <<>>
  /\ reads = 0 /\ sends = 0 /\ faults = 0

-----------------------------------------------------------------------------
(* Lengths on the wire *)

\* Mutant: 65536 still goes into the two byte length.
EncodeLen_OffByOne(n) ==
  IF n < 126 THEN [l7 |-> n, ext |-> 0]
  ELSE IF n <= 65536 THEN [l7 |-> 126, ext |-> n % 65536]
  ELSE [l7 |-> 127, ext |-> n]

\* writeFrameLocked: seven bits, or a marker and 16 or 64 bits.
EncodeLen(n) ==
  IF n < 126 THEN [l7 |-> n, ext |-> 0]
  ELSE IF n <= 65535 THEN [l7 |-> 126, ext |-> n % 65536]
  ELSE [l7 |-> 127, ext |-> n]

\* readFrame: the payload's length.
DecodeLen(h) == IF h.l7 \in {126, 127} THEN h.ext ELSE h.l7

\* The header writeFrameLocked sends for a frame, FIN always set.
SentHeader(op, n) ==
  [fin |-> TRUE, op |-> op, rsv |-> FALSE, masked |-> is_client,
   l7 |-> EncodeLen(n).l7, ext |-> EncodeLen(n).ext]

\* readFrame's checks, in its order, by an end that is a client or a server.
ReadFrameError(h, client) ==
  IF h.rsv THEN "ReservedFlags"
  ELSE IF ~client /\ ~h.masked THEN "UnmaskedClientFrame"
  ELSE IF client /\ h.masked THEN "MaskedServerFrame"
  ELSE IF h.op \in Control /\ h.l7 > 125 THEN "LargeControlFrame"
  ELSE IF DecodeLen(h) > MaxMessage THEN "MessageTooLarge"
  ELSE "ok"

TotalLen(data) == FoldSeq(LAMBDA p, n : n + p.len, 0, data)

\* utf8ValidateSlice over payloads joined together: every character that is
\* begun is completed by what follows at once.
ValidUtf8(data) ==
  LET bytes == SelectSeq(data, LAMBDA p : p.len > 0) IN
  /\ \A i \in DOMAIN bytes :
       /\ bytes[i].utf8 = "open" =>
            i < Len(bytes) /\ bytes[i + 1].utf8 = "shut"
       /\ bytes[i].utf8 = "shut" => i > 1 /\ bytes[i - 1].utf8 = "open"

-----------------------------------------------------------------------------
(* Writing *)

\* A task asks to write a frame and goes to the mutex.
Begin(t, op, n) ==
  /\ pc' = [pc EXCEPT ![t] = "lock"]
  /\ job' = [job EXCEPT ![t] = [op |-> op, len |-> n]]

\* A sender's call is over.
SenderDone(t) ==
  /\ t \in Senders
  /\ pc' = [pc EXCEPT ![t] = "idle"]
  /\ job' = [job EXCEPT ![t] = NoJob]
  /\ UNCHANGED <<auto_responded, result>>

\* The receiver goes on after its answer: reads on after a pong, returns the
\* close after a close.
ReceiverDone(t) ==
  /\ t = Receiver
  /\ job' = [job EXCEPT ![t] = NoJob]
  /\ auto_responded' = TRUE
  /\ IF job[t].op = "pong"
     THEN pc' = [pc EXCEPT ![t] = "read"] /\ UNCHANGED result
     ELSE pc' = [pc EXCEPT ![t] = "idle"] /\ result' = Result("close", <<>>)

\* The write failed: a sender's call returns the error, and so does receive.
ReceiverFails(t, err) ==
  /\ t = Receiver
  /\ job' = [job EXCEPT ![t] = NoJob]
  /\ pc' = [pc EXCEPT ![t] = "idle"]
  /\ result' = Result(err, <<>>)
  /\ UNCHANGED auto_responded

Succeed(t) == SenderDone(t) \/ ReceiverDone(t)
Fail(t, err) == SenderDone(t) \/ ReceiverFails(t, err)

\* WebSocket.send.
Send(t, op, n) ==
  /\ pc[t] = "idle" /\ sends < MaxSends
  /\ Begin(t, op, n)
  /\ sends' = sends + 1
  /\ UNCHANGED <<is_client, closed, write_mutex, readVars, wire, historyVars,
                 reads, faults>>

\* WebSocket.ping; a longer one is refused before it is written.
Ping(t, n) ==
  /\ n <= 125
  /\ Send(t, "ping", n)

\* WebSocket.close: two bytes of code and at most 123 of the reason.
CloseLen(reason) == 2 + (IF reason < 123 THEN reason ELSE 123)

Close(t, reason) == Send(t, "close", CloseLen(reason))

\* Mutant: a writer does not wait for the mutex.
MutexFree_Always == TRUE

\* write_mutex.lock returns.
MutexFree == write_mutex = NoTask

\* A close frame marks the connection closed before it is written.
MarksClosed(op) == op = "close"

\* writeFrame and writeClose: take the mutex, and go on if not closed.
Lock(t) ==
  /\ pc[t] = "lock" /\ MutexFree /\ ~closed
  /\ write_mutex' = t
  /\ closed' = MarksClosed(job[t].op)
  /\ pc' = [pc EXCEPT ![t] = "head"]
  /\ UNCHANGED <<is_client, readVars, job, wire, historyVars, boundVars>>

\* Mutant: a writer that finds the connection closed tries again.
LockClosed_Retries(t) ==
  /\ pc[t] = "lock" /\ MutexFree /\ closed
  /\ UNCHANGED vars

\* The connection is closed: writeClose returns, writeFrame fails.
LockClosed(t) ==
  /\ pc[t] = "lock" /\ MutexFree /\ closed
  /\ IF job[t].op = "close" THEN Succeed(t) ELSE Fail(t, "EndOfStream")
  /\ UNCHANGED <<is_client, closed, write_mutex, fragmented_type,
                 fragmented_data, wire, historyVars, boundVars>>

\* The wait for the mutex is canceled; nothing has been written.
LockCanceled(t) ==
  /\ pc[t] = "lock" /\ faults < MaxFaults
  /\ faults' = faults + 1
  /\ Fail(t, "Canceled")
  /\ UNCHANGED <<is_client, closed, write_mutex, fragmented_type,
                 fragmented_data, wire, historyVars, reads, sends>>

\* writeFrameLocked, up to the payload.
WriteHead(t) ==
  /\ pc[t] = "head"
  /\ wire' = Append(wire, [part |-> "head", by |-> t, len |-> 0,
                           header |-> SentHeader(job[t].op, job[t].len)])
  /\ pc' = [pc EXCEPT ![t] = "body"]
  /\ UNCHANGED <<is_client, closed, write_mutex, readVars, job, historyVars,
                 boundVars>>

\* The payload, the flush, and the mutex is released.
WriteBody(t) ==
  /\ pc[t] = "body"
  /\ wire' = Append(wire, [part |-> "body", by |-> t, len |-> job[t].len,
                           header |-> SentHeader(job[t].op, job[t].len)])
  /\ write_mutex' = NoTask
  /\ Succeed(t)
  /\ UNCHANGED <<is_client, closed, fragmented_type, fragmented_data,
                 historyVars, boundVars>>

\* A write fails or is canceled: the errdefer closes the connection, the defer
\* releases the mutex.
WriteFails(t) ==
  /\ pc[t] \in {"head", "body"} /\ faults < MaxFaults
  /\ faults' = faults + 1
  /\ closed' = TRUE
  /\ write_mutex' = NoTask
  /\ Fail(t, "WriteFailed")
  /\ UNCHANGED <<is_client, fragmented_type, fragmented_data, wire,
                 historyVars, reads, sends>>

-----------------------------------------------------------------------------
(* Receiving *)

\* Mutant: a message left unfinished is still there for the next receive.
Forget_Nothing == UNCHANGED <<fragmented_type, fragmented_data>>

\* The message being put together is dropped.
Forget == fragmented_type' = "none" /\ fragmented_data' = <<>>

\* receive is called: what the last one left is gone.
Receive ==
  /\ pc[Receiver] = "idle" /\ reads < MaxReads
  /\ pc' = [pc EXCEPT ![Receiver] = "read"]
  /\ Forget
  /\ auto_responded' = FALSE
  /\ result' = NoResult
  /\ inbound' = <<>>
  /\ UNCHANGED <<is_client, closed, write_mutex, job, wire, pings, boundVars>>

Return(kind, data) ==
  /\ pc' = [pc EXCEPT ![Receiver] = "idle"]
  /\ result' = Result(kind, data)

\* A frame arrives whole.
Reads(f) ==
  /\ pc[Receiver] = "read" /\ reads < MaxReads
  /\ reads' = reads + 1
  /\ UNCHANGED <<is_client, closed, write_mutex, wire, sends, faults>>

Accepted(f) == ReadFrameError(f.header, is_client) = "ok"

\* readFrame returns a frame with this opcode.
ReadFrame(f, ops) ==
  /\ Reads(f)
  /\ Accepted(f) /\ f.header.op \in ops
  /\ inbound' = Append(inbound, f)

PayloadOf(f) == [len |-> DecodeLen(f.header), utf8 |-> f.utf8]

\* readFrame refuses it, or its opcode is none that receive knows.
ReadBad(f) ==
  /\ Reads(f)
  /\ ~Accepted(f) \/ f.header.op = "unknown"
  /\ Return(IF Accepted(f) THEN "InvalidOpcode"
            ELSE ReadFrameError(f.header, is_client), <<>>)
  /\ UNCHANGED <<fragmented_type, fragmented_data, auto_responded, job,
                 historyVars>>

\* The connection ends, before or inside a frame; nothing can be read after it.
ReadEof ==
  /\ pc[Receiver] = "read"
  /\ Return("EndOfStream", <<>>)
  /\ reads' = MaxReads
  /\ UNCHANGED <<is_client, closed, write_mutex, fragmented_type,
                 fragmented_data, auto_responded, job, wire, historyVars,
                 sends, faults>>

\* Mutant: no pong while a message is being put together.
ReadPing_NotInFragments(f) ==
  /\ ReadFrame(f, {"ping"})
  /\ pings' = Append(pings, DecodeLen(f.header))
  /\ IF fragmented_type = "none" THEN Begin(Receiver, "pong", DecodeLen(f.header))
     ELSE UNCHANGED <<pc, job>>
  /\ UNCHANGED readVars

\* A ping is answered with its own payload before anything else is read.
ReadPing(f) ==
  /\ ReadFrame(f, {"ping"})
  /\ pings' = Append(pings, DecodeLen(f.header))
  /\ Begin(Receiver, "pong", DecodeLen(f.header))
  /\ UNCHANGED readVars

ReadPong(f) ==
  /\ ReadFrame(f, {"pong"})
  /\ UNCHANGED <<pc, job, pings, readVars>>

\* Mutant: a close is returned and not echoed.
ReadClose_NoEcho(f) ==
  /\ ReadFrame(f, {"close"})
  /\ Return("close", <<>>)
  /\ UNCHANGED <<fragmented_type, fragmented_data, auto_responded, job, pings>>

\* A close is echoed, code and reason, then returned.
ReadClose(f) ==
  /\ ReadFrame(f, {"close"})
  /\ Begin(Receiver, "close",
           CloseLen(IF DecodeLen(f.header) >= 2 THEN DecodeLen(f.header) - 2 ELSE 0))
  /\ UNCHANGED <<pings, readVars>>

\* The message is complete: text must be UTF-8.
Deliver(type, data) ==
  IF type = "text" /\ ~ValidUtf8(data) THEN Return("InvalidUtf8", <<>>)
  ELSE Return(type, data)

\* A fragment that would take the message over the limit.
TooLong(f) == TotalLen(Append(fragmented_data, PayloadOf(f))) > MaxMessage

\* A continuation frame: no message begun, too long, one more part, or the last.
ReadContinuation(f) ==
  /\ ReadFrame(f, {"continuation"})
  /\ LET joined == Append(fragmented_data, PayloadOf(f)) IN
     \/ /\ fragmented_type = "none" \/ TooLong(f)
        /\ Return(IF fragmented_type = "none" THEN "UnexpectedContinuation"
                  ELSE "MessageTooLarge", <<>>)
        /\ UNCHANGED <<fragmented_type, fragmented_data>>
     \/ /\ fragmented_type # "none" /\ ~TooLong(f) /\ ~f.header.fin
        /\ fragmented_data' = joined
        /\ UNCHANGED <<fragmented_type, pc, result>>
     \/ /\ fragmented_type # "none" /\ ~TooLong(f) /\ f.header.fin
        /\ Deliver(fragmented_type, joined)
        /\ fragmented_type' = "none" /\ fragmented_data' = <<>>
  /\ UNCHANGED <<auto_responded, job, pings>>

\* A text or binary frame: a whole message, even with another one begun, or
\* the first part of one.
ReadData(f) ==
  /\ ReadFrame(f, DataOps)
  /\ \/ /\ f.header.fin
        /\ Deliver(f.header.op, <<PayloadOf(f)>>)
        /\ UNCHANGED <<fragmented_type, fragmented_data>>
     \/ /\ ~f.header.fin /\ fragmented_type # "none"
        /\ Return("NestedFragment", <<>>)
        /\ UNCHANGED <<fragmented_type, fragmented_data>>
     \/ /\ ~f.header.fin /\ fragmented_type = "none"
        /\ fragmented_type' = f.header.op
        /\ fragmented_data' = <<PayloadOf(f)>>
        /\ UNCHANGED <<pc, result>>
  /\ UNCHANGED <<auto_responded, job, pings>>

-----------------------------------------------------------------------------
\* What a task does by itself once it has begun to write.
Writing(t) == Lock(t) \/ LockClosed(t) \/ WriteHead(t) \/ WriteBody(t)

Sending(t) ==
  \E n \in SendLens : Send(t, "text", n) \/ Ping(t, n) \/ Close(t, n)

Receiving ==
  \/ Receive
  \/ ReadEof
  \/ \E f \in PeerFrames :
       ReadBad(f) \/ ReadPing(f) \/ ReadPong(f) \/ ReadClose(f)
         \/ ReadContinuation(f) \/ ReadData(f)

\* Every task is idle and the bounds are used up.
Finished ==
  /\ \A t \in Tasks : pc[t] = "idle"
  /\ UNCHANGED vars

Next ==
  \/ \E t \in Senders : Sending(t)
  \/ \E t \in Tasks : Writing(t) \/ LockCanceled(t) \/ WriteFails(t)
  \/ Receiving
  \/ Finished

(***************************************************************************)
(* Fairness: a task that has begun to write goes on.  The peer owes        *)
(* nothing, and nobody has to send or to receive.                          *)
(***************************************************************************)
Spec ==
  /\ Init /\ [][Next]_vars
  /\ \A t \in Tasks : WF_vars(Writing(t))

-----------------------------------------------------------------------------
(* Properties *)

\* However the tasks' writes interleave, what the peer receives is a sequence
\* of whole frames: a header, its own payload, the next header.  Only the last
\* may be cut short, and then nothing follows it; and a close, whoever wrote it,
\* is the last: no send, ping or second close that waited for the mutex follows.
FramesWhole ==
  \A i \in DOMAIN wire :
    /\ wire[i].part = "head" =>
         \/ i = 1
         \/ wire[i - 1].part = "body" /\ wire[i - 1].header.op # "close"
    /\ wire[i].part = "body" =>
         i > 1 /\ wire[i - 1].part = "head" /\ wire[i - 1].by = wire[i].by

\* The header of a frame tells a peer running the same code in the other role
\* the length that follows, and the peer refuses it for nothing but its size:
\* no boundary of the length encoding, no pong or close made too long.
PeerReadsFrames ==
  \A i \in DOMAIN wire : wire[i].part = "body" =>
    /\ DecodeLen(wire[i].header) = wire[i].len
    /\ ReadFrameError(wire[i].header, ~is_client) \in
         {"ok"} \cup (IF wire[i].len > MaxMessage THEN {"MessageTooLarge"} ELSE {})

PongsAt ==
  {i \in DOMAIN wire : wire[i].part = "head" /\ wire[i].header.op = "pong"}

\* The lengths of the pongs the peer receives.
PongsOnWire ==
  EntriesAt([i \in DOMAIN wire |-> DecodeLen(wire[i].header)], PongsAt)

\* Pings are answered in the order they came, each with its own payload, and
\* before anything else is read: none is passed over, not between the parts of
\* a message either.  (A connection this end has closed gives no more answers,
\* and a write may fail or be canceled.)
PongsMirrorPings ==
  faults = 0 =>
    /\ IsPrefix(PongsOnWire, pings)
    /\ pc[Receiver] = "read" /\ ~closed => PongsOnWire = pings

\* The data frames read since receive was called.
DataAt == {i \in DOMAIN inbound : inbound[i].header.op \notin Control}
data == EntriesAt(inbound, DataAt)

\* They form one message: all parts but the last without FIN, all but the first
\* continuations.
OneMessage ==
  /\ data # <<>>
  /\ \A i \in DOMAIN data : data[i].header.fin <=> i = Len(data)
  /\ \A i \in DOMAIN data : data[i].header.op = "continuation" <=> i > 1

\* Results that say nothing of the message: the connection or the call ended.
ConnectionOver == {"Canceled", "WriteFailed", "EndOfStream", "close",
                   "ReservedFlags", "MaskedServerFrame", "UnmaskedClientFrame",
                   "LargeControlFrame"}

Joined == [i \in DOMAIN data |-> PayloadOf(data[i])]

\* Frames that form one message are delivered as that message, whole and of
\* the first frame's type, whatever control frames came between them, unless
\* it is too long or is a text that is not UTF-8 over its whole length.  And
\* what is delivered is never made of anything else: it is such a message, or
\* a frame that is a message by itself.
MessageWhole ==
  pc[Receiver] = "idle" =>
    /\ (OneMessage /\ result.kind \notin ConnectionOver) =>
         IF TotalLen(Joined) > MaxMessage THEN result.kind = "MessageTooLarge"
         ELSE IF data[1].header.op = "text" /\ ~ValidUtf8(Joined)
         THEN result.kind = "InvalidUtf8"
         ELSE result = Result(data[1].header.op, Joined)
    /\ result.kind \in DataOps =>
         OneMessage \/ result.data = <<Joined[Len(Joined)]>>

\* A task that has begun to write ends: the mutex is released on every path,
\* a failed write's too, and nobody waits for it for ever.
WritesEnd == \A t \in Tasks : pc[t] = "lock" ~> pc[t] \in {"idle", "read"}

\* A close from the peer is answered by a whole close frame, unless a write
\* failed: also when this end is just sending its own.
CloseAnswered ==
  (inbound # <<>> /\ inbound[Len(inbound)].header.op = "close") ~>
    (faults > 0 \/ \E i \in DOMAIN wire :
       wire[i].part = "body" /\ wire[i].header.op = "close")
=============================================================================
