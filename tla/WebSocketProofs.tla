-------------------------- MODULE WebSocketProofs --------------------------
(***************************************************************************)
(* Proofs about what WebSocket writes, for any number of senders, any      *)
(* peer and any lengths.                                                   *)
(***************************************************************************)
EXTENDS WebSocket, EntriesProofs, TLAPS

\* A frame to write: a control frame's payload fits into seven bits.
FitJob == {j \in [op : Opcode, len : Nat] : j.op \in Control => j.len <= 125}

WireEntry == [part : {"head", "body"}, by : Tasks, len : Nat, header : Header]

\* The types of the state that writing depends on.
WriteType ==
  /\ is_client \in BOOLEAN
  /\ closed \in BOOLEAN
  /\ write_mutex \in Tasks \cup {NoTask}
  /\ pc \in [Tasks -> {"idle", "lock", "head", "body", "read"}]
  /\ job \in [Tasks -> FitJob]
  /\ wire \in Seq(WireEntry)

\* The last thing written allows another frame.
Ready ==
  \/ wire = <<>>
  \/ wire[Len(wire)].part = "body" /\ wire[Len(wire)].header.op # "close"

(***************************************************************************)
(* FramesWhole is not inductive: it must also be known that the task       *)
(* between a header and its payload is the one that holds the mutex and    *)
(* wrote the last thing on the wire, and that whoever finds the mutex free *)
(* after a failed write or a close finds the connection closed.            *)
(***************************************************************************)
WriterInv ==
  /\ \A t \in Tasks : pc[t] \in {"head", "body"} <=> write_mutex = t
  /\ \A t \in Tasks : pc[t] \in {"head", "body"} =>
       (closed <=> job[t].op = "close")
  /\ \A t \in Tasks : pc[t] = "head" => Ready
  /\ \A t \in Tasks : pc[t] = "body" =>
       wire # <<>> /\ wire[Len(wire)].part = "head" /\ wire[Len(wire)].by = t
  /\ write_mutex = NoTask /\ ~closed => Ready

\* A step of one task that writes nothing and leaves the mutex alone.
Aside(t) ==
  /\ pc[t] \notin {"head", "body"}
  /\ \E p \in {"idle", "read", "lock"} : pc' = [pc EXCEPT ![t] = p]
  /\ \E j \in FitJob : job' = [job EXCEPT ![t] = j]
  /\ UNCHANGED <<is_client, closed, write_mutex, wire>>

-----------------------------------------------------------------------------
(* What is written is what a peer reads *)

\* readFrame gets back the length that writeFrameLocked put into a header, for
\* every length: no boundary of the encoding loses a byte.
LEMMA LengthRoundTrip ==
  ASSUME NEW n \in Nat, NEW op \in Opcode
  PROVE  DecodeLen(SentHeader(op, n)) = n
<1>1. EncodeLen(n) = IF n < 126 THEN [l7 |-> n, ext |-> 0]
                     ELSE IF n <= 65535 THEN [l7 |-> 126, ext |-> n]
                     ELSE [l7 |-> 127, ext |-> n]
  BY DEF EncodeLen
<1> QED
  BY <1>1 DEF DecodeLen, SentHeader

\* A header sent is a header, and names a length above 125 only with a marker.
LEMMA SentHeaderType ==
  ASSUME NEW n \in Nat, NEW op \in Opcode, is_client \in BOOLEAN
  PROVE  /\ SentHeader(op, n) \in Header
         /\ n <= 125 => SentHeader(op, n).l7 <= 125
<1>1. /\ EncodeLen(n).l7 \in 0..127 /\ EncodeLen(n).ext \in Nat
      /\ n <= 125 => EncodeLen(n).l7 <= 125
  BY DEF EncodeLen
<1> QED
  BY <1>1 DEF SentHeader, Header

\* A peer in the other role accepts every header sent for a job that fits, or
\* refuses it as too large for it.
LEMMA PeerAccepts ==
  ASSUME NEW j \in FitJob, is_client \in BOOLEAN
  PROVE  ReadFrameError(SentHeader(j.op, j.len), ~is_client) \in
           {"ok"} \cup (IF j.len > MaxMessage THEN {"MessageTooLarge"} ELSE {})
<1> DEFINE h == SentHeader(j.op, j.len)
<1>1. j.op \in Opcode /\ j.len \in Nat /\ (j.op \in Control => j.len <= 125)
  BY DEF FitJob
<1>2. DecodeLen(h) = j.len
  BY <1>1, LengthRoundTrip
<1>3. ~h.rsv /\ h.masked = is_client /\ h.op = j.op
  BY DEF SentHeader
<1>4. ~(h.op \in Control /\ h.l7 > 125)
  <2>1. j.len <= 125 => h.l7 <= 125
    BY <1>1, SentHeaderType
  <2>2. h.l7 \in 0..127
    BY <1>1, SentHeaderType DEF Header
  <2> QED
    BY <1>1, <1>3, <2>1, <2>2
<1> HIDE DEF h
<1>5. ReadFrameError(h, ~is_client) = IF DecodeLen(h) > MaxMessage
                                      THEN "MessageTooLarge" ELSE "ok"
  BY <1>3, <1>4, Zenon DEF ReadFrameError
<1> QED
  BY <1>2, <1>5 DEF h

-----------------------------------------------------------------------------
(* How the tasks move *)

\* A ping that is accepted has a payload that fits into a pong.
LEMMA PingFits ==
  ASSUME NEW f \in PeerFrames, Accepted(f), f.header.op \in Control
  PROVE  DecodeLen(f.header) \in Nat /\ DecodeLen(f.header) <= 125
<1>1. f.header \in Header
  BY WebSocketAssumption DEF Frame
<1>2. ~(f.header.l7 > 125)
  BY Zenon DEF Accepted, ReadFrameError
<1> QED
  BY <1>1, <1>2 DEF DecodeLen, Header

\* Every step is a step aside or one of the four of a frame: the mutex taken,
\* the header written, the payload written, the write failed.
LEMMA StepShape ==
  ASSUME WriteType, [Next]_vars
  PROVE  \/ UNCHANGED <<is_client, closed, write_mutex, pc, job, wire>>
         \/ \E t \in Tasks : Aside(t) \/ Lock(t) \/ WriteHead(t)
                               \/ WriteBody(t) \/ WriteFails(t)
<1> USE DEF WriteType
<1>0. Receiver \in Tasks /\ NoJob \in FitJob /\ (\A t \in Tasks : job[t] \in FitJob)
  BY DEF Tasks, NoJob, FitJob, Opcode, Control
<1>1. ASSUME NEW t \in Senders, Sending(t)
      PROVE  Aside(t)
  <2>1. t \in Tasks
    BY DEF Tasks
  <2>2. PICK n \in SendLens : Send(t, "text", n) \/ Ping(t, n) \/ Close(t, n)
    BY <1>1 DEF Sending
  <2>3. n \in Nat
    BY WebSocketAssumption
  <2>4. PICK op \in Opcode, m \in Nat :
           Send(t, op, m) /\ (op \in Control => m <= 125)
    <3>1. CASE Send(t, "text", n)
      BY <2>3, <3>1 DEF Opcode, DataOps, Control
    <3>2. CASE Ping(t, n)
      BY <2>3, <3>2 DEF Ping, Opcode, Control
    <3>3. CASE Close(t, n)
      <4>1. CloseLen(n) \in Nat /\ CloseLen(n) <= 125
        BY <2>3 DEF CloseLen
      <4> QED
        BY <3>3, <4>1 DEF Close, Opcode, Control
    <3> QED
      BY <2>2, <3>1, <3>2, <3>3
  <2>5. [op |-> op, len |-> m] \in FitJob
    BY <2>4 DEF FitJob
  <2> QED
    BY <2>1, <2>4, <2>5 DEF Send, Begin, Aside
<1>2. ASSUME NEW t \in Tasks, LockClosed(t) \/ LockCanceled(t)
      PROVE  Aside(t)
  BY <1>0, <1>2 DEF LockClosed, LockCanceled, Succeed, Fail, SenderDone,
                    ReceiverDone, ReceiverFails, Aside
<1>3. ASSUME Receiving
      PROVE  Aside(Receiver)
  <2>1. job = [job EXCEPT ![Receiver] = job[Receiver]]
    BY <1>0
  <2>2. CASE Receive
    BY <1>0, <2>1, <2>2 DEF Receive, Aside
  <2>3. CASE ReadEof
    BY <1>0, <2>1, <2>3 DEF ReadEof, Return, Aside
  <2>4. ASSUME NEW f \in PeerFrames, ReadBad(f)
        PROVE  Aside(Receiver)
    BY <1>0, <2>1, <2>4 DEF ReadBad, Reads, Return, Aside
  <2>5. ASSUME NEW f \in PeerFrames, ReadPing(f)
        PROVE  Aside(Receiver)
    <3>1. DecodeLen(f.header) \in Nat /\ DecodeLen(f.header) <= 125
      BY <2>5, PingFits DEF ReadPing, ReadFrame, Control
    <3>2. [op |-> "pong", len |-> DecodeLen(f.header)] \in FitJob
      BY <3>1 DEF FitJob, Opcode, Control
    <3> QED
      BY <2>5, <3>2 DEF ReadPing, ReadFrame, Reads, Begin, Aside
  <2>6. ASSUME NEW f \in PeerFrames, ReadClose(f)
        PROVE  Aside(Receiver)
    <3> DEFINE n == IF DecodeLen(f.header) >= 2 THEN DecodeLen(f.header) - 2 ELSE 0
    <3>1. DecodeLen(f.header) \in Nat
      BY <2>6, PingFits DEF ReadClose, ReadFrame, Control
    <3>2. [op |-> "close", len |-> CloseLen(n)] \in FitJob
      BY <3>1 DEF FitJob, Opcode, Control, CloseLen
    <3> QED
      BY <2>6, <3>2 DEF ReadClose, ReadFrame, Reads, Begin, Aside
  <2>7. ASSUME NEW f \in PeerFrames, ReadPong(f) \/ ReadContinuation(f) \/ ReadData(f)
        PROVE  Aside(Receiver)
    <3>1. pc[Receiver] = "read" /\ UNCHANGED <<is_client, closed, write_mutex, wire, job>>
      BY <2>7 DEF ReadPong, ReadContinuation, ReadData, ReadFrame, Reads
    <3>2. pc' = pc \/ pc' = [pc EXCEPT ![Receiver] = "idle"]
      BY <2>7 DEF ReadPong, ReadContinuation, ReadData, Deliver, Return
    <3>3. \E p \in {"idle", "read", "lock"} : pc' = [pc EXCEPT ![Receiver] = p]
      BY <1>0, <3>1, <3>2
    <3> QED
      BY <1>0, <2>1, <3>1, <3>3 DEF Aside
  <2> QED
    BY <1>3, <2>2, <2>3, <2>4, <2>5, <2>6, <2>7 DEF Receiving
<1>4. CASE UNCHANGED vars
  BY <1>4 DEF vars
<1> QED
  BY <1>0, <1>1, <1>2, <1>3, <1>4 DEF Next, Writing, Finished, Tasks

-----------------------------------------------------------------------------
(* Frames are whole *)

WriteInv == WriteType /\ WriterInv /\ FramesWhole /\ PeerReadsFrames

LEMMA WriteInvInit == Init => WriteInv
<1> SUFFICES ASSUME Init
             PROVE  WriteInv
  OBVIOUS
<1>1. WriteType
  <2>1. is_client \in BOOLEAN /\ closed \in BOOLEAN
    BY Zenon DEF Init
  <2>2. NoJob \in FitJob
    BY DEF NoJob, FitJob, Opcode, Control
  <2> QED
    BY <2>1, <2>2 DEF Init, WriteType
<1>2. WriterInv
  BY WebSocketAssumption DEF Init, WriterInv, Ready
<1>3. FramesWhole /\ PeerReadsFrames
  BY DEF Init, FramesWhole, PeerReadsFrames
<1> QED
  BY <1>1, <1>2, <1>3 DEF WriteInv

LEMMA WriteInvNext == WriteInv /\ [Next]_vars => WriteInv'
<1> SUFFICES ASSUME WriteInv, [Next]_vars
             PROVE  WriteInv'
  OBVIOUS
<1> USE DEF WriteInv
<1>1. CASE UNCHANGED <<is_client, closed, write_mutex, pc, job, wire>>
  BY <1>1 DEF WriteType, WriterInv, Ready, FramesWhole, PeerReadsFrames,
              ReadFrameError
<1>2. ASSUME NEW t \in Tasks, Aside(t)
      PROVE  WriteInv'
  <2>1. WriteType'
    BY <1>2 DEF Aside, WriteType
  <2>2. WriterInv'
    BY <1>2 DEF Aside, WriteType, WriterInv, Ready
  <2>3. FramesWhole' /\ PeerReadsFrames'
    BY <1>2 DEF Aside, FramesWhole, PeerReadsFrames, ReadFrameError
  <2> QED
    BY <2>1, <2>2, <2>3
<1>3. ASSUME NEW t \in Tasks, Lock(t)
      PROVE  WriteInv'
  <2>1. WriteType'
    BY <1>3, Zenon DEF Lock, WriteType, MarksClosed
  <2>2. WriterInv'
    BY <1>3, WebSocketAssumption
       DEF Lock, WriteType, WriterInv, Ready, MutexFree, MarksClosed
  <2>3. FramesWhole' /\ PeerReadsFrames'
    BY <1>3 DEF Lock, FramesWhole, PeerReadsFrames, ReadFrameError
  <2> QED
    BY <2>1, <2>2, <2>3
<1>4. ASSUME NEW t \in Tasks, WriteFails(t)
      PROVE  WriteInv'
  <2>1. /\ pc' = [pc EXCEPT ![t] = "idle"] /\ job' = [job EXCEPT ![t] = NoJob]
        /\ closed' = TRUE /\ write_mutex' = NoTask
        /\ UNCHANGED <<is_client, wire>>
    BY <1>4 DEF WriteFails, Fail, SenderDone, ReceiverFails
  <2>2. NoJob \in FitJob
    BY DEF NoJob, FitJob, Opcode, Control
  <2>3. WriteType'
    BY <2>1, <2>2 DEF WriteType
  <2>4. WriterInv'
    BY <1>4, <2>1, WebSocketAssumption DEF WriteFails, WriteType, WriterInv
  <2>5. FramesWhole' /\ PeerReadsFrames'
    BY <2>1 DEF FramesWhole, PeerReadsFrames, ReadFrameError
  <2> QED
    BY <2>3, <2>4, <2>5
<1>5. ASSUME NEW t \in Tasks, WriteHead(t)
      PROVE  WriteInv'
  <2> DEFINE e == [part |-> "head", by |-> t, len |-> 0,
                   header |-> SentHeader(job[t].op, job[t].len)]
  <2>1. job[t] \in FitJob /\ job[t].op \in Opcode /\ job[t].len \in Nat
    BY DEF WriteType, FitJob
  <2>2. e \in WireEntry
    BY <2>1, SentHeaderType DEF WireEntry, WriteType
  <2>3. /\ wire' = Append(wire, e) /\ pc' = [pc EXCEPT ![t] = "body"]
        /\ UNCHANGED <<is_client, closed, write_mutex, job>>
    BY <1>5 DEF WriteHead
  <2>4. e.part = "head" /\ e.by = t
    OBVIOUS
  <2>5. wire \in Seq(WireEntry) /\ Ready /\ pc[t] = "head"
    BY <1>5 DEF WriteHead, WriteType, WriterInv
  <2> HIDE DEF e
  <2>6. WriteType'
    BY <2>2, <2>3 DEF WriteType
  <2>7. WriterInv'
    <3>1. /\ wire' # <<>> /\ wire'[Len(wire')] = e
      BY <2>2, <2>3, <2>5
    <3>2. \A u \in Tasks : u # t => pc[u] \notin {"head", "body"}
      BY <2>5 DEF WriterInv
    <3>3. write_mutex = t
      BY <2>5 DEF WriterInv
    <3> QED
      BY <2>3, <2>4, <2>5, <3>1, <3>2, <3>3, WebSocketAssumption
         DEF WriteType, WriterInv
  <2>8. FramesWhole'
    BY <2>2, <2>3, <2>4, <2>5 DEF FramesWhole, Ready
  <2>9. PeerReadsFrames'
    BY <2>2, <2>3, <2>4, <2>5 DEF PeerReadsFrames, ReadFrameError
  <2> QED
    BY <2>6, <2>7, <2>8, <2>9
<1>6. ASSUME NEW t \in Tasks, WriteBody(t)
      PROVE  WriteInv'
  <2> DEFINE e == [part |-> "body", by |-> t, len |-> job[t].len,
                   header |-> SentHeader(job[t].op, job[t].len)]
  <2>1. job[t] \in FitJob /\ job[t].op \in Opcode /\ job[t].len \in Nat
    BY DEF WriteType, FitJob
  <2>2. e \in WireEntry
    BY <2>1, SentHeaderType DEF WireEntry, WriteType
  <2>3. /\ wire' = Append(wire, e)
        /\ pc'[t] \in {"idle", "read"} /\ pc' = [pc EXCEPT ![t] = pc'[t]]
        /\ job' = [job EXCEPT ![t] = NoJob]
        /\ write_mutex' = NoTask
        /\ UNCHANGED <<is_client, closed>>
    BY <1>6 DEF WriteBody, Succeed, SenderDone, ReceiverDone, WriteType
  <2>4. /\ e.part = "body" /\ e.by = t /\ e.header.op = job[t].op
        /\ DecodeLen(e.header) = e.len
        /\ ReadFrameError(e.header, ~is_client) \in
             {"ok"} \cup (IF e.len > MaxMessage THEN {"MessageTooLarge"} ELSE {})
    <3>1. e.part = "body" /\ e.by = t /\ e.header.op = job[t].op /\ e.len = job[t].len
          /\ e.header = SentHeader(job[t].op, job[t].len)
      BY DEF SentHeader
    <3> QED
      BY <2>1, <3>1, LengthRoundTrip, PeerAccepts DEF WriteType
  <2>5. wire \in Seq(WireEntry) /\ pc[t] = "body"
    BY <1>6 DEF WriteBody, WriteType
  <2> HIDE DEF e
  <2>6. WriteType'
    <3>1. NoJob \in FitJob
      BY DEF NoJob, FitJob, Opcode, Control
    <3> QED
      BY <2>2, <2>3, <3>1 DEF WriteType
  <2>7. WriterInv'
    <3>1. wire' # <<>> /\ wire'[Len(wire')] = e
      BY <2>2, <2>3, <2>5
    <3>2. \A u \in Tasks : u # t => pc[u] \notin {"head", "body"}
      BY <2>5 DEF WriterInv
    <3>3. ~closed => Ready'
      BY <2>4, <2>5, <3>1 DEF WriterInv, Ready
    <3> QED
      BY <2>3, <3>2, <3>3, WebSocketAssumption DEF WriteType, WriterInv
  <2>8. FramesWhole'
    <3>1. wire # <<>> /\ wire[Len(wire)].part = "head" /\ wire[Len(wire)].by = t
      BY <2>5 DEF WriterInv
    <3> QED
      BY <2>2, <2>3, <2>4, <2>5, <3>1 DEF FramesWhole
  <2>9. PeerReadsFrames'
    BY <2>2, <2>3, <2>4, <2>5 DEF PeerReadsFrames, ReadFrameError
  <2> QED
    BY <2>6, <2>7, <2>8, <2>9
<1> QED
  BY <1>1, <1>2, <1>3, <1>4, <1>5, <1>6, StepShape

\* For any number of senders: the peer receives whole frames, never one inside
\* another, nothing after one cut short and nothing after a close.
THEOREM FramesAreWhole == Spec => []FramesWhole
<1>1. WriteInv => FramesWhole
  BY DEF WriteInv
<1> QED
  BY <1>1, WriteInvInit, WriteInvNext, PTL DEF Spec

\* For every length and both roles: the peer reads the length that was written
\* and refuses a frame for nothing but its size.
THEOREM PeerReads == Spec => []PeerReadsFrames
<1>1. WriteInv => PeerReadsFrames
  BY DEF WriteInv
<1> QED
  BY <1>1, WriteInvInit, WriteInvNext, PTL DEF Spec

-----------------------------------------------------------------------------
(* Pings are answered in order *)

\* The receiver has read a ping and not yet written the pong's header.
Owing == pc[Receiver] \in {"lock", "head"} /\ job[Receiver].op = "pong"

(***************************************************************************)
(* The pongs written and the one being written are the pings read, until   *)
(* this end closes; then no further pong is written.                       *)
(***************************************************************************)
PongInv ==
  /\ pings \in Seq(Nat) /\ faults \in Nat
  /\ \A t \in Senders : job[t].op # "pong"
  /\ faults = 0 => IsPrefix(PongsOnWire, pings)
  /\ faults = 0 /\ ~closed =>
       IF Owing THEN pings = Append(PongsOnWire, job[Receiver].len)
       ELSE PongsOnWire = pings

\* The length a header tells is a number.
LEMMA DecodeLenType == \A h \in Header : DecodeLen(h) \in Nat
  BY DEF Header, DecodeLen

\* An entry appended to the wire adds its length, if it is a pong's header.
LEMMA PongsAppend ==
  ASSUME NEW e \in WireEntry, wire \in Seq(WireEntry), wire' = Append(wire, e)
  PROVE  PongsOnWire' =
           IF e.part = "head" /\ e.header.op = "pong"
           THEN Append(PongsOnWire, DecodeLen(e.header)) ELSE PongsOnWire
<1> DEFINE lens(w) == [i \in DOMAIN w |-> DecodeLen(w[i].header)]
           n == DecodeLen(e.header)
<1>1. n \in Nat /\ \A i \in DOMAIN wire : DecodeLen(wire[i].header) \in Nat
  <2>1. \A w \in WireEntry : w.header \in Header
    BY DEF WireEntry
  <2> QED
    BY <2>1, DecodeLenType
<1>2. lens(wire) \in Seq(Nat) /\ Len(lens(wire)) = Len(wire)
  BY <1>1
<1>3. lens(wire') = Append(lens(wire), n)
  BY <1>1, <1>2
<1>4. PongsAt \in SUBSET (1..Len(lens(wire)))
  BY <1>2 DEF PongsAt
<1>5. CASE e.part = "head" /\ e.header.op = "pong"
  <2>1. PongsAt' = PongsAt \cup {Len(lens(wire)) + 1}
    BY <1>2, <1>5 DEF PongsAt
  <2>2. EntriesAt(Append(lens(wire), n), PongsAt \cup {Len(lens(wire)) + 1})
          = Append(EntriesAt(lens(wire), PongsAt), n)
    BY <1>1, <1>2, <1>4, EntriesAppendIn
  <2> QED
    BY <1>3, <1>5, <2>1, <2>2, Zenon DEF PongsOnWire
<1>6. CASE ~(e.part = "head" /\ e.header.op = "pong")
  <2>1. PongsAt' = PongsAt
    BY <1>2, <1>6 DEF PongsAt
  <2>2. EntriesAt(Append(lens(wire), n), PongsAt) = EntriesAt(lens(wire), PongsAt)
    BY <1>1, <1>2, <1>4, EntriesAppendOut
  <2> QED
    BY <1>3, <1>6, <2>1, <2>2, Zenon DEF PongsOnWire
<1> QED
  BY <1>5, <1>6

LEMMA PongsType ==
  ASSUME wire \in Seq(WireEntry)
  PROVE  PongsOnWire \in Seq(Nat)
<1> DEFINE lens == [i \in DOMAIN wire |-> DecodeLen(wire[i].header)]
<1>1. \A i \in DOMAIN wire : DecodeLen(wire[i].header) \in Nat
  <2>1. \A w \in WireEntry : w.header \in Header
    BY DEF WireEntry
  <2> QED
    BY <2>1, DecodeLenType
<1>2. lens \in Seq(Nat) /\ Len(lens) = Len(wire)
  BY <1>1
<1>3. PongsAt \in SUBSET (1..Len(lens))
  BY <1>2 DEF PongsAt
<1> QED
  BY <1>2, <1>3, EntriesType DEF PongsOnWire

\* A prefix stays one when the sequence grows, and a sequence is a prefix of
\* itself.
LEMMA PrefixGrows ==
  ASSUME NEW p \in Seq(Nat), NEW q \in Seq(Nat), NEW n \in Nat
  PROVE  IsPrefix(p, p) /\ (IsPrefix(p, q) => IsPrefix(p, Append(q, n)))
  BY DEF IsPrefix

LEMMA PongInvNext == WriteInv /\ PongInv /\ [Next]_vars => PongInv'
<1> SUFFICES ASSUME WriteInv, PongInv, [Next]_vars
             PROVE  PongInv'
  OBVIOUS
<1>0. /\ wire \in Seq(WireEntry) /\ PongsOnWire \in Seq(Nat)
      /\ pings \in Seq(Nat) /\ faults \in Nat
      /\ Receiver \in Tasks /\ Receiver \notin Senders
      /\ pc \in [Tasks -> {"idle", "lock", "head", "body", "read"}]
      /\ job \in [Tasks -> FitJob] /\ closed \in BOOLEAN
  BY PongsType, WebSocketAssumption DEF WriteInv, WriteType, PongInv, Tasks
<1> DEFINE Calm == /\ UNCHANGED <<wire, pings, faults>>
                   /\ closed => closed'
                   /\ Owing' <=> Owing
                   /\ Owing => job'[Receiver].len = job[Receiver].len
                   /\ \A t \in Senders : job'[t].op # "pong"
<1>1. ASSUME Calm
      PROVE  PongInv'
  <2>1. PongsOnWire' = PongsOnWire
    BY <1>1 DEF PongsOnWire, PongsAt
  <2> QED
    BY <1>1, <2>1 DEF PongInv
<1>2. ASSUME NEW t \in Senders, Sending(t)
      PROVE  PongInv'
  <2>1. PICK op \in Opcode, m \in Nat : Send(t, op, m) /\ op # "pong"
    <3>1. PICK n \in SendLens : Send(t, "text", n) \/ Ping(t, n) \/ Close(t, n)
      BY <1>2 DEF Sending
    <3>2. n \in Nat /\ CloseLen(n) \in Nat
      BY WebSocketAssumption DEF CloseLen
    <3> QED
      BY <3>1, <3>2 DEF Ping, Close, Opcode, DataOps, Control
  <2>2. Calm
    BY <1>0, <2>1 DEF Send, Begin, Owing, historyVars, PongInv
  <2> QED
    BY <1>1, <2>2
<1>3. ASSUME NEW t \in Tasks, Lock(t)
      PROVE  PongInv'
  <2>1. Calm
    BY <1>0, <1>3 DEF Lock, historyVars, boundVars, Owing, PongInv
  <2> QED
    BY <1>1, <2>1
<1>4. ASSUME NEW t \in Tasks, LockClosed(t)
      PROVE  PongInv'
  <2>1. /\ UNCHANGED <<wire, pings, faults>> /\ closed /\ closed'
        /\ job' = [job EXCEPT ![t] = NoJob]
    BY <1>4 DEF LockClosed, historyVars, boundVars, Succeed, Fail, SenderDone,
                ReceiverDone, ReceiverFails
  <2>2. PongsOnWire' = PongsOnWire
    BY <2>1 DEF PongsOnWire, PongsAt
  <2> QED
    BY <1>0, <2>1, <2>2 DEF PongInv, NoJob
<1>5. ASSUME NEW t \in Tasks, LockCanceled(t) \/ WriteFails(t)
      PROVE  PongInv'
  <2>1. /\ UNCHANGED pings /\ faults' = faults + 1
        /\ job' = [job EXCEPT ![t] = NoJob]
    BY <1>5 DEF LockCanceled, WriteFails, historyVars, Fail, SenderDone, ReceiverFails
  <2> QED
    BY <1>0, <2>1 DEF PongInv, NoJob
<1>6. ASSUME NEW t \in Tasks, WriteHead(t)
      PROVE  PongInv'
  <2> DEFINE e == [part |-> "head", by |-> t, len |-> 0,
                   header |-> SentHeader(job[t].op, job[t].len)]
  <2>1. job[t].op \in Opcode /\ job[t].len \in Nat
    BY <1>0 DEF FitJob
  <2>2. e \in WireEntry
    BY <2>1, SentHeaderType DEF WireEntry, WriteInv, WriteType
  <2>3. /\ wire' = Append(wire, e) /\ pc' = [pc EXCEPT ![t] = "body"]
        /\ UNCHANGED <<closed, job, pings, faults>> /\ pc[t] = "head"
    BY <1>6 DEF WriteHead, historyVars, boundVars
  <2>4. e.part = "head" /\ e.header.op = job[t].op /\ DecodeLen(e.header) = job[t].len
    BY <2>1, LengthRoundTrip DEF SentHeader
  <2> HIDE DEF e
  <2>5. PongsOnWire' = IF job[t].op = "pong" THEN Append(PongsOnWire, job[t].len)
                       ELSE PongsOnWire
    BY <1>0, <2>2, <2>3, <2>4, PongsAppend
  <2>6. CASE job[t].op = "pong"
    <3>1. t = Receiver /\ ~closed /\ Owing /\ ~Owing'
      BY <1>0, <2>3, <2>6 DEF PongInv, WriteInv, WriterInv, Owing, Tasks
    <3>2. faults = 0 => pings = PongsOnWire'
      BY <2>5, <2>6, <3>1 DEF PongInv
    <3> QED
      BY <1>0, <2>3, <3>1, <3>2, PrefixGrows DEF PongInv
  <2>7. CASE job[t].op # "pong"
    <3>1. Owing' <=> Owing
      BY <1>0, <2>3, <2>7 DEF Owing
    <3> QED
      BY <1>0, <2>3, <2>5, <2>7, <3>1 DEF PongInv
  <2> QED
    BY <2>6, <2>7
<1>7. ASSUME NEW t \in Tasks, WriteBody(t)
      PROVE  PongInv'
  <2> DEFINE e == [part |-> "body", by |-> t, len |-> job[t].len,
                   header |-> SentHeader(job[t].op, job[t].len)]
  <2>1. job[t].op \in Opcode /\ job[t].len \in Nat
    BY <1>0 DEF FitJob
  <2>2. e \in WireEntry /\ e.part = "body"
    BY <2>1, SentHeaderType DEF WireEntry, WriteInv, WriteType
  <2>3. /\ wire' = Append(wire, e)
        /\ pc'[t] \in {"idle", "read"} /\ pc' = [pc EXCEPT ![t] = pc'[t]]
        /\ job' = [job EXCEPT ![t] = NoJob]
        /\ UNCHANGED <<closed, pings, faults>> /\ pc[t] = "body"
    BY <1>0, <1>7 DEF WriteBody, Succeed, SenderDone, ReceiverDone,
                      historyVars, boundVars
  <2> HIDE DEF e
  <2>4. PongsOnWire' = PongsOnWire
    BY <1>0, <2>2, <2>3, PongsAppend
  <2>5. Owing' <=> Owing
    BY <1>0, <2>3 DEF Owing
  <2>6. Owing => job'[Receiver] = job[Receiver]
    BY <1>0, <2>3 DEF Owing
  <2> QED
    BY <1>0, <2>3, <2>4, <2>5, <2>6 DEF PongInv, NoJob
<1>8. ASSUME Receiving
      PROVE  PongInv'
  <2>1. CASE Receive \/ ReadEof \/ \E f \in PeerFrames : ReadBad(f) \/ ReadPong(f)
               \/ ReadClose(f) \/ ReadContinuation(f) \/ ReadData(f)
    <3>1. /\ pc[Receiver] \in {"idle", "read"}
          /\ UNCHANGED <<wire, pings, faults, closed>>
      BY <2>1 DEF Receive, ReadEof, ReadBad, ReadPong, ReadClose, ReadContinuation,
                  ReadData, ReadFrame, Reads, historyVars, boundVars
    <3>2. /\ pc'[Receiver] \in {"idle", "read"} \/ job'[Receiver].op = "close"
          /\ \A t \in Senders : job'[t] = job[t]
      <4>1. CASE \E f \in PeerFrames : ReadClose(f)
        BY <1>0, <4>1 DEF ReadClose, Begin, Tasks
      <4>2. CASE Receive \/ ReadEof \/ \E f \in PeerFrames : ReadBad(f)
        BY <1>0, <4>2 DEF Receive, ReadEof, ReadBad, Return
      <4>3. CASE \E f \in PeerFrames : ReadPong(f) \/ ReadContinuation(f) \/ ReadData(f)
        BY <1>0, <3>1, <4>3 DEF ReadPong, ReadContinuation, ReadData, ReadFrame, Reads,
                                Return, Deliver
      <4> QED
        BY <2>1, <4>1, <4>2, <4>3
    <3>3. Calm
      BY <3>1, <3>2 DEF Owing, PongInv
    <3> QED
      BY <1>1, <3>3
  <2>2. ASSUME NEW f \in PeerFrames, ReadPing(f)
        PROVE  PongInv'
    <3> DEFINE n == DecodeLen(f.header)
    <3>1. n \in Nat
      BY <2>2, PingFits DEF ReadPing, ReadFrame, Control
    <3>2. /\ pc[Receiver] = "read" /\ pings' = Append(pings, n)
          /\ pc' = [pc EXCEPT ![Receiver] = "lock"]
          /\ job' = [job EXCEPT ![Receiver] = [op |-> "pong", len |-> n]]
          /\ UNCHANGED <<wire, faults, closed>>
      BY <2>2 DEF ReadPing, ReadFrame, Reads, Begin
    <3> HIDE DEF n
    <3>3. PongsOnWire' = PongsOnWire
      BY <3>2 DEF PongsOnWire, PongsAt
    <3>4. ~Owing /\ Owing' /\ job'[Receiver].len = n
      BY <1>0, <3>2 DEF Owing
    <3>5. \A t \in Senders : job'[t].op # "pong"
      BY <1>0, <3>2 DEF PongInv, Tasks
    <3>6. faults = 0 => IsPrefix(PongsOnWire, pings')
      BY <1>0, <3>1, <3>2, PrefixGrows DEF PongInv
    <3>7. faults = 0 /\ ~closed => pings' = Append(PongsOnWire, n)
      BY <3>2, <3>4 DEF PongInv
    <3> QED
      BY <1>0, <3>1, <3>2, <3>3, <3>4, <3>5, <3>6, <3>7 DEF PongInv
  <2> QED
    BY <1>8, <2>1, <2>2 DEF Receiving
<1>9. CASE UNCHANGED vars
  <2>1. Calm
    BY <1>9 DEF vars, historyVars, boundVars, Owing, PongInv
  <2> QED
    BY <1>1, <2>1
<1> QED
  BY <1>2, <1>3, <1>4, <1>5, <1>6, <1>7, <1>8, <1>9 DEF Next, Writing, Finished

\* For any peer and any number of senders: pongs mirror the pings, in order and
\* with their payloads, and none is passed over before the next read.
THEOREM PongsMirror == Spec => []PongsMirrorPings
<1>1. Init => PongInv
  <2> SUFFICES ASSUME Init
               PROVE  PongInv
    OBVIOUS
  <2>1. PongsAt = {}
    BY DEF Init, PongsAt
  <2>2. PongsOnWire = <<>>
    BY <2>1, EntriesEmpty, Zenon DEF PongsOnWire
  <2>3. pings = <<>> /\ faults = 0 /\ ~Owing /\ \A t \in Senders : job[t].op # "pong"
    BY DEF Init, Owing, NoJob, Tasks
  <2> QED
    BY <2>2, <2>3 DEF PongInv, IsPrefix
<1>2. WriteInv /\ PongInv => PongsMirrorPings
  BY DEF PongInv, PongsMirrorPings, Owing
<1> QED
  BY <1>1, <1>2, WriteInvInit, WriteInvNext, PongInvNext, PTL DEF Spec

-----------------------------------------------------------------------------
(* Messages are whole *)

(***************************************************************************)
(* While receive runs, what it has put together is what the data frames    *)
(* read since its call carried, none of them the last of a message.        *)
(***************************************************************************)
Assembled ==
  IF fragmented_type = "none" THEN data = <<>>
  ELSE /\ data # <<>> /\ data[1].header.op = fragmented_type
       /\ \A i \in DOMAIN data : ~data[i].header.fin
       /\ \A i \in DOMAIN data : data[i].header.op = "continuation" <=> i > 1
       /\ fragmented_data = Joined

MessageInv ==
  /\ inbound \in Seq(Frame)
  /\ fragmented_type \in DataOps \cup {"none"}
  /\ pc[Receiver] # "idle" => Assembled
  /\ MessageWhole

Payload == [len : Nat, utf8 : {"whole", "open", "shut"}]

\* A message of one frame has that frame's length: the fold over one payload,
\* unrolled.
LEMMA TotalOne ==
  ASSUME NEW p, p.len \in Nat
  PROVE  TotalLen(<<p>>) = p.len
<1> DEFINE F(g) == [s \in SUBSET {1} |->
        IF s = {} THEN 0
        ELSE g[s \ {CHOOSE x \in s : TRUE}] + <<p>>[CHOOSE x \in s : TRUE].len]
           it == CHOOSE g : g = F(g)
<1>0. DOMAIN <<p>> = {1}
  OBVIOUS
<1>1. TotalLen(<<p>>) = it[{1}]
  BY <1>0, Zenon DEF TotalLen, FoldSeq, FoldFunction, FoldFunctionOnSet, MapThenFoldSet
<1>2. (CHOOSE x \in {1} : TRUE) = 1 /\ {1} \ {1} = {} /\ <<p>>[1] = p /\ {1} # {}
  OBVIOUS
<1>3. \A s \in SUBSET {1} : s = {} \/ s = {1}
  OBVIOUS
<1>4. \E g : g = F(g)
  <2> DEFINE h == [s \in SUBSET {1} |-> IF s = {} THEN 0 ELSE 0 + p.len]
  <2>1. h[{}] = 0
    BY Zenon
  <2>2. h = F(h)
    <3>1. F(h)[{}] = 0 /\ h[{}] = 0
      BY Zenon
    <3>2. h[{1}] = 0 + p.len
      BY <1>2, Zenon
    <3>3. F(h)[{1}] = h[{}] + p.len
      BY <1>2, Zenon
    <3>4. \A s \in SUBSET {1} : h[s] = F(h)[s]
      <4> HIDE DEF h, F
      <4> QED
        BY <1>3, <2>1, <3>1, <3>2, <3>3, Zenon
    <3> QED
      BY <3>4, Zenon
  <2> QED
    BY <2>2, Zenon
<1>5. it = F(it)
  BY <1>4, Zenon
<1>6. it[{}] = 0
  <2> HIDE DEF it
  <2> QED
    BY <1>5, Zenon
<1>7. it[{1}] = it[{}] + p.len
  <2> HIDE DEF it
  <2>1. F(it)[{1}] = it[{}] + p.len
    BY <1>2, Zenon
  <2> QED
    BY <1>5, <2>1, Zenon
<1> QED
  <2> HIDE DEF it
  <2> QED
    BY <1>1, <1>6, <1>7

LEMMA DataType ==
  ASSUME inbound \in Seq(Frame)
  PROVE  data \in Seq(Frame)
  BY EntriesType DEF data, DataAt

\* A data frame read is appended to the data frames, and its payload to theirs.
LEMMA DataAppend ==
  ASSUME NEW f \in Frame, inbound \in Seq(Frame), inbound' = Append(inbound, f),
         f.header.op \notin Control
  PROVE  data' = Append(data, f) /\ Joined' = Append(Joined, PayloadOf(f))
<1>1. DataAt \in SUBSET (1..Len(inbound)) /\ DataAt' = DataAt \cup {Len(inbound) + 1}
  BY DEF DataAt
<1>2. data' = Append(data, f)
  BY <1>1, EntriesAppendIn DEF data
<1>3. data \in Seq(Frame)
  BY DataType
<1> QED
  BY <1>2, <1>3 DEF Joined

LEMMA DataKept ==
  ASSUME NEW f \in Frame, inbound \in Seq(Frame), inbound' = Append(inbound, f),
         f.header.op \in Control
  PROVE  data' = data /\ Joined' = Joined
<1>1. DataAt \in SUBSET (1..Len(inbound)) /\ DataAt' = DataAt
  BY DEF DataAt
<1>2. data' = data
  BY <1>1, EntriesAppendOut DEF data
<1> QED
  BY <1>2 DEF Joined

\* What is still being put together is no message yet.
LEMMA AssembledIsOpen == Assembled /\ inbound \in Seq(Frame) => ~OneMessage
<1> SUFFICES ASSUME Assembled, inbound \in Seq(Frame), OneMessage
             PROVE  FALSE
  OBVIOUS
<1>1. data \in Seq(Frame) /\ data # <<>>
  BY DataType DEF OneMessage
<1>2. Len(data) \in DOMAIN data
  BY <1>1
<1> QED
  BY <1>1, <1>2 DEF Assembled, OneMessage

LEMMA MessageInvNext == WriteType /\ MessageInv /\ [Next]_vars => MessageInv'
<1> SUFFICES ASSUME WriteType, MessageInv, [Next]_vars
             PROVE  MessageInv'
  OBVIOUS
<1>0. /\ inbound \in Seq(Frame) /\ data \in Seq(Frame)
      /\ fragmented_type \in DataOps \cup {"none"}
      /\ Receiver \in Tasks /\ Receiver \notin Senders
      /\ pc \in [Tasks -> {"idle", "lock", "head", "body", "read"}]
  BY DataType, WebSocketAssumption DEF WriteType, MessageInv, Tasks
<1> DEFINE Kept == UNCHANGED <<fragmented_type, fragmented_data, inbound>>
<1>1. ASSUME Kept, UNCHANGED result, pc'[Receiver] = "idle" <=> pc[Receiver] = "idle"
      PROVE  MessageInv'
  BY <1>1, Zenon DEF MessageInv, Assembled, MessageWhole, OneMessage, Joined, data, DataAt
<1>2. ASSUME NEW k \in ConnectionOver, Kept, result' = Result(k, <<>>),
             pc'[Receiver] = "idle"
      PROVE  MessageInv'
  <2>1. k \notin DataOps
    BY <1>2 DEF ConnectionOver, DataOps
  <2>2. result'.kind = k
    BY <1>2 DEF Result
  <2>3. MessageWhole'
    BY <1>2, <2>1, <2>2, Zenon DEF MessageWhole
  <2> QED
    BY <1>0, <1>2, <2>3 DEF MessageInv
<1>3. ASSUME NEW t \in Senders, Sending(t)
      PROVE  MessageInv'
  <2>1. PICK op, n : Send(t, op, n)
    BY <1>3 DEF Sending, Ping, Close
  <2> QED
    BY <1>0, <1>1, <2>1 DEF Send, Begin, readVars, historyVars
<1>4. ASSUME NEW t \in Tasks, Lock(t) \/ WriteHead(t)
      PROVE  MessageInv'
  BY <1>0, <1>1, <1>4 DEF Lock, WriteHead, readVars, historyVars
<1>5. ASSUME NEW t \in Tasks, LockClosed(t) \/ LockCanceled(t) \/ WriteBody(t)
                                \/ WriteFails(t)
      PROVE  MessageInv'
  <2>1. Kept
    BY <1>5 DEF LockClosed, LockCanceled, WriteBody, WriteFails, historyVars
  <2>2. /\ pc[t] \in {"lock", "head", "body"}
        /\ \/ Succeed(t)
           \/ \E k \in {"EndOfStream", "Canceled", "WriteFailed"} : Fail(t, k)
    BY <1>5 DEF LockClosed, LockCanceled, WriteBody, WriteFails
  <2>3. CASE t # Receiver
    BY <1>0, <1>1, <2>1, <2>2, <2>3
       DEF Succeed, Fail, SenderDone, ReceiverDone, ReceiverFails
  <2>4. CASE t = Receiver
    <3>1. ~SenderDone(t)
      BY <1>0, <2>4 DEF SenderDone
    <3>2. CASE ReceiverDone(t)
      <4>1. CASE pc' = [pc EXCEPT ![t] = "read"] /\ UNCHANGED result
        BY <1>0, <1>1, <2>1, <2>2, <2>4, <4>1
      <4>2. CASE pc' = [pc EXCEPT ![t] = "idle"] /\ result' = Result("close", <<>>)
        BY <1>0, <1>2, <2>1, <2>4, <4>2 DEF ConnectionOver
      <4> QED
        BY <3>2, <4>1, <4>2 DEF ReceiverDone
    <3>3. ASSUME NEW k \in {"EndOfStream", "Canceled", "WriteFailed"}, ReceiverFails(t, k)
          PROVE  MessageInv'
      BY <1>0, <1>2, <2>1, <2>4, <3>3 DEF ReceiverFails, ConnectionOver
    <3> QED
      BY <2>2, <3>1, <3>2, <3>3 DEF Succeed, Fail
  <2> QED
    BY <2>3, <2>4
<1>6. CASE Receive
  <2>1. inbound' = <<>> /\ fragmented_type' = "none" /\ pc'[Receiver] = "read"
    BY <1>0, <1>6 DEF Receive, Forget
  <2>2. DataAt' = {}
    BY <2>1 DEF DataAt
  <2>3. data' = <<>>
    BY <2>2, EntriesEmpty, Zenon DEF data
  <2> QED
    BY <2>1, <2>3 DEF MessageInv, Assembled, MessageWhole
<1>7. CASE ReadEof
  BY <1>0, <1>2, <1>7 DEF ReadEof, Return, historyVars, ConnectionOver
<1>8. ASSUME NEW f \in PeerFrames, ReadBad(f)
      PROVE  MessageInv'
  <2>1. /\ Kept /\ pc[Receiver] = "read" /\ pc'[Receiver] = "idle"
        /\ result'.kind \in {"InvalidOpcode", ReadFrameError(f.header, is_client)}
    BY <1>0, <1>8 DEF ReadBad, Reads, Return, Result, historyVars
  <2>2. ReadFrameError(f.header, is_client) \notin DataOps
    BY Zenon DEF ReadFrameError, DataOps
  <2>3. result'.kind \notin DataOps
    BY <2>1, <2>2 DEF DataOps
  <2>4. ~OneMessage
    BY <1>0, <2>1, AssembledIsOpen DEF MessageInv
  <2>5. ~OneMessage'
    BY <2>1, <2>4, Zenon DEF OneMessage, data, DataAt
  <2> QED
    BY <1>0, <2>1, <2>3, <2>5, Zenon DEF MessageInv, MessageWhole
<1>9. ASSUME NEW f \in PeerFrames, ReadPing(f) \/ ReadPong(f) \/ ReadClose(f)
      PROVE  MessageInv'
  <2>1. /\ pc[Receiver] = "read" /\ inbound' = Append(inbound, f)
        /\ f.header.op \in Control /\ f \in Frame
        /\ UNCHANGED <<fragmented_type, fragmented_data>>
    BY <1>9, WebSocketAssumption
       DEF ReadPing, ReadPong, ReadClose, ReadFrame, Reads, Control, readVars
  <2>2. pc'[Receiver] \in {"read", "lock"}
    BY <1>0, <1>9, <2>1 DEF ReadPing, ReadPong, ReadClose, Begin
  <2>3. data' = data /\ Joined' = Joined
    BY <1>0, <2>1, DataKept
  <2>4. Assembled'
    BY <2>1, <2>3, Zenon DEF MessageInv, Assembled
  <2>5. pc'[Receiver] # "idle"
    BY <2>2
  <2>6. MessageWhole'
    BY <2>5, Zenon DEF MessageWhole
  <2> QED
    BY <1>0, <2>1, <2>4, <2>6 DEF MessageInv
<1> DEFINE OneMore(f) ==
             /\ pc[Receiver] = "read" /\ f \in Frame /\ inbound' \in Seq(Frame)
             /\ Assembled
             /\ data' = Append(data, f) /\ Joined' = Append(Joined, PayloadOf(f))
             /\ Joined \in Seq(Payload)
             /\ PayloadOf(f) \in Payload
             /\ Len(Joined) = Len(data) /\ Len(data) \in Nat
<1>10. ASSUME NEW f \in PeerFrames, ReadContinuation(f) \/ ReadData(f)
       PROVE  OneMore(f)
  <2>1. /\ pc[Receiver] = "read" /\ inbound' = Append(inbound, f)
        /\ f.header.op \notin Control /\ f \in Frame
    BY <1>10, WebSocketAssumption
       DEF ReadContinuation, ReadData, ReadFrame, Reads, Control, DataOps
  <2>2. data' = Append(data, f) /\ Joined' = Append(Joined, PayloadOf(f))
    BY <1>0, <2>1, DataAppend
  <2>3. \A g \in Frame : PayloadOf(g) \in Payload
    BY DecodeLenType DEF PayloadOf, Frame, Payload
  <2>4. /\ Joined \in Seq(Payload)
        /\ Len(Joined) = Len(data) /\ Len(data) \in Nat
    <3>1. /\ Len(data) \in Nat /\ DOMAIN data = 1..Len(data)
          /\ \A i \in DOMAIN data : PayloadOf(data[i]) \in Payload
      BY <1>0, <2>3
    <3> QED
      BY <3>1 DEF Joined
  <2> QED
    BY <1>0, <2>1, <2>2, <2>3, <2>4 DEF MessageInv
<1> HIDE DEF OneMore
<1>11. ASSUME NEW f \in PeerFrames, OneMore(f)
       PROVE  /\ inbound' \in Seq(Frame) /\ f \in Frame
              /\ data' # <<>> /\ Len(data') = Len(data) + 1 /\ data'[Len(data')] = f
              /\ \A i \in DOMAIN data : data'[i] = data[i]
              /\ Len(Joined') = Len(data') /\ Joined'[Len(Joined')] = PayloadOf(f)
              /\ DOMAIN data' = 1..(Len(data) + 1) /\ DOMAIN data = 1..Len(data)
              /\ Len(data) \in Nat
  <2>1. /\ inbound' \in Seq(Frame) /\ f \in Frame /\ PayloadOf(f) \in Payload
        /\ data' = Append(data, f) /\ Joined' = Append(Joined, PayloadOf(f))
        /\ Joined \in Seq(Payload) /\ Len(Joined) = Len(data)
    BY <1>11 DEF OneMore
  <2>2. /\ data' # <<>> /\ Len(data') = Len(data) + 1 /\ data'[Len(data')] = f
        /\ \A i \in DOMAIN data : data'[i] = data[i]
        /\ DOMAIN data' = 1..(Len(data) + 1) /\ DOMAIN data = 1..Len(data)
        /\ Len(data) \in Nat
    <3>1. /\ Append(data, f) # <<>> /\ Len(Append(data, f)) = Len(data) + 1
          /\ Append(data, f)[Len(data) + 1] = f
          /\ \A i \in DOMAIN data : Append(data, f)[i] = data[i]
          /\ DOMAIN Append(data, f) = 1..(Len(data) + 1)
          /\ DOMAIN data = 1..Len(data) /\ Len(data) \in Nat
      BY <1>0, <2>1, AppendFacts
    <3> QED
      BY <2>1, <3>1, Zenon
  <2>3. Len(Joined') = Len(Joined) + 1 /\ Joined'[Len(Joined')] = PayloadOf(f)
    BY <2>1
  <2> QED
    BY <2>1, <2>2, <2>3
<1>12. ASSUME NEW f \in PeerFrames, OneMore(f), OneMessage'
       PROVE  /\ f.header.fin
              /\ f.header.op = "continuation" <=> data # <<>>
  <2>1. /\ Len(data') \in DOMAIN data' /\ data'[Len(data')] = f
        /\ data # <<>> <=> Len(data') > 1
    BY <1>0, <1>11, <1>12
  <2> QED
    BY <1>12, <2>1 DEF OneMessage
<1>13. ASSUME NEW f \in PeerFrames, ReadContinuation(f)
       PROVE  MessageInv'
  <2>1. OneMore(f) /\ f.header.op = "continuation"
    BY <1>10, <1>13 DEF ReadContinuation, ReadFrame
  <2>2. CASE fragmented_type = "none"
    <3>1. /\ pc'[Receiver] = "idle" /\ result'.kind = "UnexpectedContinuation"
          /\ UNCHANGED fragmented_type
      BY <1>0, <1>13, <2>2 DEF ReadContinuation, Return, Result
    <3>2. data = <<>>
      BY <2>1, <2>2 DEF OneMore, Assembled
    <3>3. ~OneMessage'
      BY <1>12, <2>1, <3>2
    <3>4. result'.kind \notin DataOps
      BY <3>1 DEF DataOps
    <3> QED
      BY <1>0, <1>11, <2>1, <3>1, <3>3, <3>4, Zenon DEF MessageInv, MessageWhole
  <2>3. CASE fragmented_type # "none" /\ TooLong(f)
    <3>1. /\ pc'[Receiver] = "idle" /\ result'.kind = "MessageTooLarge"
          /\ UNCHANGED fragmented_type
      BY <1>0, <1>13, <2>3 DEF ReadContinuation, Return, Result
    <3>2. TotalLen(Joined') > MaxMessage
      BY <2>1, <2>3, Zenon DEF OneMore, Assembled, TooLong
    <3>3. result'.kind \notin DataOps
      BY <3>1 DEF DataOps
    <3> QED
      BY <1>0, <1>11, <2>1, <3>1, <3>2, <3>3, Zenon DEF MessageInv, MessageWhole
  <2>4. CASE fragmented_type # "none" /\ ~TooLong(f) /\ ~f.header.fin
    <3>1. /\ fragmented_data' = Append(fragmented_data, PayloadOf(f))
          /\ UNCHANGED <<fragmented_type, pc>>
      BY <1>13, <2>4 DEF ReadContinuation
    <3>2. /\ data # <<>> /\ data[1].header.op = fragmented_type
          /\ \A i \in DOMAIN data : ~data[i].header.fin
          /\ \A i \in DOMAIN data : data[i].header.op = "continuation" <=> i > 1
          /\ fragmented_data = Joined
      BY <2>1, <2>4 DEF OneMore, Assembled
    <3>3. /\ data' # <<>> /\ data'[1].header.op = fragmented_type
          /\ \A i \in DOMAIN data' : ~data'[i].header.fin
          /\ \A i \in DOMAIN data' : data'[i].header.op = "continuation" <=> i > 1
      <4>1. 1 \in DOMAIN data /\ Len(data') > 1
        BY <1>0, <1>11, <2>1, <3>2
      <4>2. \A i \in DOMAIN data' : i \in DOMAIN data \/ i = Len(data')
        BY <1>11, <2>1
      <4> QED
        BY <1>11, <2>1, <2>4, <3>2, <4>1, <4>2
    <3>4. fragmented_data' = Joined'
      BY <2>1, <3>1, <3>2 DEF OneMore
    <3>5. Assembled'
      BY <2>4, <3>1, <3>3, <3>4 DEF Assembled
    <3>6. pc'[Receiver] # "idle"
      BY <2>1, <3>1 DEF OneMore
    <3> QED
      BY <1>0, <1>11, <2>1, <3>1, <3>5, <3>6, Zenon DEF MessageInv, MessageWhole
  <2>5. CASE fragmented_type # "none" /\ ~TooLong(f) /\ f.header.fin
    <3>1. /\ Deliver(fragmented_type, Append(fragmented_data, PayloadOf(f)))
          /\ fragmented_type' = "none"
      BY <1>13, <2>5 DEF ReadContinuation
    <3>2. /\ data # <<>> /\ data[1].header.op = fragmented_type
          /\ \A i \in DOMAIN data : ~data[i].header.fin
          /\ \A i \in DOMAIN data : data[i].header.op = "continuation" <=> i > 1
          /\ fragmented_data = Joined
      BY <2>1, <2>5 DEF OneMore, Assembled
    <3>3. data'[1].header.op = fragmented_type /\ OneMessage'
      <4>1. 1 \in DOMAIN data /\ Len(data') > 1
        BY <1>0, <1>11, <2>1, <3>2
      <4>2. /\ \A i \in DOMAIN data' : i \in DOMAIN data \/ i = Len(data')
            /\ \A i \in DOMAIN data : i # Len(data')
        BY <1>11, <2>1
      <4> QED
        BY <1>11, <2>1, <2>5, <3>2, <4>1, <4>2 DEF OneMessage
    <3>4. Deliver(data'[1].header.op, Joined') /\ ~(TotalLen(Joined') > MaxMessage)
      BY <2>1, <2>5, <3>1, <3>2, <3>3, Zenon DEF OneMore, TooLong
    <3>5. CASE data'[1].header.op = "text" /\ ~ValidUtf8(Joined')
      <4>1. pc'[Receiver] = "idle" /\ result'.kind = "InvalidUtf8"
        BY <1>0, <3>4, <3>5 DEF Deliver, Return, Result
      <4>2. result'.kind \notin DataOps
        BY <4>1 DEF DataOps
      <4> QED
        BY <1>0, <1>11, <2>1, <3>1, <3>3, <3>4, <3>5, <4>1, <4>2, Zenon
           DEF MessageInv, MessageWhole
    <3>6. CASE ~(data'[1].header.op = "text" /\ ~ValidUtf8(Joined'))
      <4>1. pc'[Receiver] = "idle" /\ result' = Result(data'[1].header.op, Joined')
        BY <1>0, <3>4, <3>6 DEF Deliver, Return
      <4> QED
        BY <1>0, <1>11, <2>1, <3>1, <3>3, <3>4, <3>6, <4>1, Zenon
           DEF MessageInv, MessageWhole
    <3> QED
      BY <3>5, <3>6
  <2> QED
    BY <1>0, <2>2, <2>3, <2>4, <2>5, <1>13 DEF ReadContinuation
<1>14. ASSUME NEW f \in PeerFrames, ReadData(f)
       PROVE  MessageInv'
  <2>1. /\ OneMore(f) /\ f.header.op \in DataOps /\ f.header.op # "continuation"
        /\ Accepted(f)
    BY <1>10, <1>14 DEF ReadData, ReadFrame, DataOps
  <2>2. fragmented_type = "none" <=> data = <<>>
    BY <2>1 DEF OneMore, Assembled
  <2>3. CASE f.header.fin
    <3>1. Deliver(f.header.op, <<PayloadOf(f)>>) /\ UNCHANGED fragmented_type
      BY <1>14, <2>3 DEF ReadData
    <3>2. pc'[Receiver] = "idle"
      BY <1>0, <3>1 DEF Deliver, Return
    <3>3. CASE data # <<>>
      <4>1. ~OneMessage'
        BY <1>12, <2>1, <3>3
      <4>2. \/ result'.kind = "InvalidUtf8"
            \/ result' = Result(f.header.op, <<PayloadOf(f)>>)
        BY <3>1 DEF Deliver, Return, Result
      <4>3. result'.kind \in DataOps => result'.data = <<PayloadOf(f)>>
        BY <4>2 DEF Result, DataOps
      <4>4. PayloadOf(f) = Joined'[Len(Joined')]
        BY <1>11, <2>1
      <4> QED
        BY <1>0, <1>11, <2>1, <3>1, <3>2, <4>1, <4>3, <4>4, Zenon
           DEF MessageInv, MessageWhole
    <3>4. CASE data = <<>>
      <4>1. Len(data') = 1 /\ data'[1] = f /\ DOMAIN data' = {1}
        BY <1>11, <2>1, <3>4
      <4>2. OneMessage'
        BY <1>11, <2>1, <2>3, <4>1 DEF OneMessage
      <4>3. Joined' = <<PayloadOf(f)>>
        BY <2>1, <3>4 DEF OneMore
      <4>4. PayloadOf(f).len = DecodeLen(f.header) /\ PayloadOf(f).len \in Nat
        BY <2>1, DecodeLenType DEF OneMore, PayloadOf, Frame
      <4>5. TotalLen(<<PayloadOf(f)>>) = PayloadOf(f).len
        BY <4>4, TotalOne
      <4>6. ~(DecodeLen(f.header) > MaxMessage)
        BY <2>1, Zenon DEF Accepted, ReadFrameError
      <4>7. ~(TotalLen(Joined') > MaxMessage)
        BY <4>3, <4>4, <4>5, <4>6, Zenon
      <4>8. Deliver(data'[1].header.op, Joined')
        BY <3>1, <4>1, <4>3, Zenon
      <4>9. CASE data'[1].header.op = "text" /\ ~ValidUtf8(Joined')
        <5>1. result'.kind = "InvalidUtf8"
          BY <4>8, <4>9 DEF Deliver, Return, Result
        <5>2. result'.kind \notin DataOps
          BY <5>1 DEF DataOps
        <5> QED
          BY <1>0, <1>11, <2>1, <3>1, <3>2, <4>2, <4>7, <4>9, <5>1, <5>2, Zenon
             DEF MessageInv, MessageWhole
      <4>10. CASE ~(data'[1].header.op = "text" /\ ~ValidUtf8(Joined'))
        <5>1. result' = Result(data'[1].header.op, Joined')
          BY <4>8, <4>10 DEF Deliver, Return
        <5> QED
          BY <1>0, <1>11, <2>1, <3>1, <3>2, <4>2, <4>7, <4>10, <5>1, Zenon
             DEF MessageInv, MessageWhole
      <4> QED
        BY <4>9, <4>10
    <3> QED
      BY <3>3, <3>4
  <2>4. CASE ~f.header.fin /\ fragmented_type # "none"
    <3>1. /\ pc'[Receiver] = "idle" /\ result'.kind = "NestedFragment"
          /\ UNCHANGED fragmented_type
      BY <1>0, <1>14, <2>4 DEF ReadData, Return, Result
    <3>2. ~OneMessage'
      BY <1>12, <2>1, <2>4
    <3>3. result'.kind \notin DataOps
      BY <3>1 DEF DataOps
    <3> QED
      BY <1>0, <1>11, <2>1, <3>1, <3>2, <3>3, Zenon DEF MessageInv, MessageWhole
  <2>5. CASE ~f.header.fin /\ fragmented_type = "none"
    <3>1. /\ fragmented_type' = f.header.op /\ fragmented_data' = <<PayloadOf(f)>>
          /\ UNCHANGED pc
      BY <1>14, <2>5 DEF ReadData
    <3>2. data = <<>>
      BY <2>2, <2>5
    <3>3. Joined' = <<PayloadOf(f)>>
      BY <2>1, <3>2 DEF OneMore
    <3>4. data' # <<>> /\ data'[1] = f /\ DOMAIN data' = {1}
      BY <1>11, <2>1, <3>2
    <3>5. fragmented_type' # "none" /\ fragmented_type' \in DataOps
      BY <2>1, <3>1 DEF DataOps
    <3>6. Assembled'
      BY <2>1, <2>5, <3>1, <3>3, <3>4, <3>5 DEF Assembled
    <3>7. pc'[Receiver] # "idle"
      BY <2>1, <3>1 DEF OneMore
    <3> QED
      BY <1>11, <2>1, <3>5, <3>6, <3>7, Zenon DEF MessageInv, MessageWhole
  <2> QED
    BY <2>3, <2>4, <2>5
<1>15. CASE UNCHANGED vars
  BY <1>1, <1>15 DEF vars, readVars, historyVars
<1> QED
  BY <1>3, <1>4, <1>5, <1>6, <1>7, <1>8, <1>9, <1>13, <1>14, <1>15
     DEF Next, Writing, Receiving, Finished

\* For any peer: a message that arrives whole is delivered whole, whatever the
\* order of frames, and nothing else is ever delivered.
THEOREM MessagesWhole == Spec => []MessageWhole
<1>1. Init => MessageInv
  <2> SUFFICES ASSUME Init
               PROVE  MessageInv
    OBVIOUS
  <2>1. DataAt = {}
    BY DEF Init, DataAt
  <2>2. data = <<>>
    BY <2>1, EntriesEmpty, Zenon DEF data
  <2>3. ~OneMessage /\ result.kind \notin DataOps
    BY <2>2 DEF Init, OneMessage, NoResult, Result, DataOps
  <2>4. pc[Receiver] = "idle" /\ inbound = <<>> /\ fragmented_type = "none"
    BY DEF Init, Tasks
  <2>5. MessageWhole
    BY <2>3, Zenon DEF MessageWhole
  <2> QED
    BY <2>4, <2>5 DEF MessageInv
<1>2. MessageInv => MessageWhole
  BY DEF MessageInv
<1>3. WriteInv => WriteType
  BY DEF WriteInv
<1> QED
  BY <1>1, <1>2, <1>3, WriteInvInit, WriteInvNext, MessageInvNext, PTL DEF Spec
=============================================================================
