------------------------- MODULE RequestLoopProofs -------------------------
(***************************************************************************)
(* Proofs about RequestLoop, for all requests, any number of them and any  *)
(* configuration.                                                          *)
(***************************************************************************)
EXTENDS RequestLoop, EntriesProofs, TLAPS

InRequest == {"handler", "drain", "respond"}

UnitType == [id : 1..MaxRequests, kind : {"head", "body", "frame"}, at : Nat]
ReplyType == [id : 1..MaxRequests, kind : {"100", "101", "final"}, ka : BOOLEAN]

-----------------------------------------------------------------------------
(* The inductive invariant *)

Place(id, at) == [id |-> id, at |-> at]
PlaceOf(u) == Place(u.id, u.at)

\* Where the stream goes on after a place.
After(p) == IF p.at < Units(reqs[p.id]) THEN Place(p.id, p.at + 1)
            ELSE Place(p.id + 1, 0)

\* The place the loop takes the next unit to have.
Expected ==
  IF phase = "parse" THEN Place(request_count, 0)
  ELSE IF phase \in InRequest /\ left > 0
  THEN Place(request_count, Units(cur) - left + 1)
  ELSE Place(request_count + 1, 0)

\* The place of the next unit the peer sends.
PeerNext ==
  IF owed > 0 THEN Place(Len(reqs), Units(reqs[Len(reqs)]) - owed + 1)
  ELSE Place(Len(reqs) + 1, 0)

\* What is unread runs without a gap from where the loop is to where the peer is.
ChainInv ==
  phase # "closed" /\ ~Upgraded =>
    /\ \A i \in DOMAIN unread : unread[i].kind = IF unread[i].at = 0 THEN "head" ELSE "body"
    /\ Expected = IF unread = <<>> THEN PeerNext ELSE PlaceOf(unread[1])
    /\ \A i \in DOMAIN unread :
         After(PlaceOf(unread[i])) =
           IF i = Len(unread) THEN PeerNext ELSE PlaceOf(unread[i + 1])

\* The unread heads are those of later requests, in order.
HeadsInv ==
  /\ \A i \in DOMAIN unread : unread[i].id \in 1..Len(reqs)
  /\ \A i, j \in DOMAIN unread :
       i < j /\ unread[j].kind = "head" => unread[i].id < unread[j].id
  /\ phase # "closed" => \A i \in DOMAIN unread : unread[i].kind = "head" =>
       unread[i].id > request_count \/ (phase = "parse" /\ i = 1)

\* How far the loop and the peer are.
CountInv ==
  /\ phase \in InRequest \cup {"idle"} => request_count <= Len(reqs)
  /\ request_count <= Len(reqs) + 1
  /\ owed > 0 => reqs # <<>> /\ owed <= Units(reqs[Len(reqs)])
  /\ phase \in InRequest => left <= Units(cur)
  /\ phase = "respond" /\ keepalive => left = 0

\* What was written so far belongs to earlier requests or to this one.
OutInv ==
  /\ \A i \in DOMAIN out : out[i].id <= Len(reqs)
  /\ phase = "parse" => \A i \in DOMAIN out : out[i].id < request_count
  /\ phase # "closed" => \A i \in DOMAIN out : out[i].id <= request_count
  /\ phase \in InRequest /\ ~headers_written =>
       \A i \in DOMAIN out : out[i].id = request_count => out[i].kind = "100"
  /\ phase = "handler" /\ expects_continue =>
       /\ cur.expect = "continue"
       /\ \A i \in DOMAIN out : out[i].id = request_count => out[i].kind # "100"

\* A peer that asked for an upgrade sent no further request unanswered.
WaitInv ==
  \A k \in 1..(Len(reqs) - 1) :
    reqs[k].upgrade => \E i \in DOMAIN out : out[i].id = k

\* After a 101 there is no head left to read, and nothing left to write.
UpgradeInv ==
  phase # "closed" /\ Upgraded =>
    /\ \A i \in DOMAIN unread : unread[i].kind # "head"
    /\ Len(reqs) <= request_count
    /\ phase \in InRequest => headers_written
    /\ phase = "handler" => ~expects_continue

\* There are as many final responses as requests answered.
FinalsInv ==
  /\ \A i \in DOMAIN finals : finals[i].id = i
  /\ phase = "parse" => Len(finals) = request_count - 1
  /\ phase = "idle" => Len(finals) = request_count
  /\ phase \in InRequest =>
       Len(finals) = IF headers_written THEN request_count ELSE request_count - 1

\* A response that announced the end is the last one.
LastInv ==
  (\/ phase \in {"parse", "idle"}
   \/ phase \in InRequest /\ (keepalive \/ ~headers_written))
  => \A i \in DOMAIN finals : finals[i].ka

\* Another request is only waited for within the limit.
LimitInv ==
  MaxCount # 0 =>
    /\ phase = "idle" \/ (phase \in InRequest /\ keepalive) => request_count < MaxCount
    /\ request_count <= MaxCount
    /\ \A i \in DOMAIN finals : finals[i].id = MaxCount => ~finals[i].ka

\* NoneSwallowed, its heads spelled out.
PendingInv ==
  phase # "closed" =>
    \A id \in 1..Len(reqs) : id > request_count =>
      \E i \in DOMAIN unread : unread[i].kind = "head" /\ unread[i].id = id

\* AnswersInOrder, but for the final responses' order.
SpokenInv ==
  /\ \A i \in DOMAIN out : out[i].kind = "101" => i = Len(out)
  /\ \A i \in DOMAIN out : out[i].kind = "100" =>
       /\ reqs[out[i].id].expect = "continue"
       /\ \A j \in DOMAIN out :
            out[j].kind = "100" /\ out[j].id = out[i].id => i = j

\* What is about the requests and the unread stream, and what is about the
\* responses.
StreamInv == CountInv /\ ChainInv /\ HeadsInv /\ PendingInv
ReplyInv == OutInv /\ WaitInv /\ SpokenInv /\ FinalsInv /\ LastInv /\ LimitInv

LoopInv == TypeOK /\ StreamInv /\ UpgradeInv /\ ReplyInv

-----------------------------------------------------------------------------
(* The stream and the output, step by step *)

LEMMA CatAppend ==
  ASSUME NEW X, NEW b \in Seq(X), NEW w \in Seq(X), NEW x \in X
  PROVE  b \o Append(w, x) = Append(b \o w, x)
  OBVIOUS

LEMMA CatTail ==
  ASSUME NEW X, NEW b \in Seq(X), NEW w \in Seq(X), b # <<>>
  PROVE  /\ Tail(b) \o w = Tail(b \o w)
         /\ b \o w # <<>> /\ (b \o w)[1] = Head(b)
  OBVIOUS

LEMMA CatSplit ==
  ASSUME NEW X, NEW w \in Seq(X), NEW n \in 1..Len(w)
  PROVE  /\ SubSeq(w, 1, n) \o SubSeq(w, n + 1, Len(w)) = <<>> \o w
         /\ SubSeq(w, 1, n) \in Seq(X) /\ SubSeq(w, n + 1, Len(w)) \in Seq(X)
         /\ <<>> \o w # <<>>
  OBVIOUS

\* The types, in the form the proofs use.
LEMMA Types ==
  ASSUME TypeOK
  PROVE  /\ reqs \in Seq(Requests) /\ Len(reqs) \in 0..MaxRequests
         /\ \A k \in 1..Len(reqs) : reqs[k] \in Request
         /\ owed \in Nat /\ left \in Nat
         /\ wire \in Seq(UnitType) /\ buf \in Seq(UnitType)
         /\ unread \in Seq(UnitType)
         /\ out \in Seq(ReplyType)
         /\ phase \in Phase /\ request_count \in Nat /\ request_count >= 1
<1>1. reqs \in Seq(Requests) /\ Len(reqs) \in 0..MaxRequests
  BY RequestLoopAssumption DEF TypeOK
<1>2. \A k \in 1..Len(reqs) : reqs[k] \in Request
  BY <1>1, RequestLoopAssumption
<1>3. wire \in Seq(UnitType) /\ buf \in Seq(UnitType)
  BY DEF TypeOK, UnitType
<1>4. unread \in Seq(UnitType)
  BY <1>3 DEF unread
<1>5. /\ owed \in Nat /\ left \in Nat /\ phase \in Phase
      /\ request_count \in Nat /\ request_count >= 1
  BY RequestLoopAssumption DEF TypeOK
<1>6. out \in Seq(ReplyType)
  BY DEF TypeOK, ReplyType
<1> QED
  BY <1>1, <1>2, <1>3, <1>4, <1>5, <1>6

LEMMA UnitsType ==
  ASSUME NEW r \in Request
  PROVE  Units(r) \in Nat
  BY DEF Units, Request

\* The steps that the invariant tells apart.
Same == UNCHANGED <<reqs, owed, wire, buf, out, phase, requestVars>>

LEMMA NextCases ==
  ASSUME [Next]_vars
  PROVE  \/ \E r \in Requests : SendHead(r)
         \/ SendBody \/ SendFrame \/ Same \/ Close
         \/ FillMore \/ ParseHeaders \/ HandlerFirstRead \/ HandlerReads
         \/ HandlerReceives \/ HandlerReturns \/ DrainBody \/ DrainFails
         \/ \E stop \in BOOLEAN : Respond(stop)
         \/ \E ka \in BOOLEAN : HandlerStreams(ka)
         \/ HandlerUpgrades
<1>1. PeerCloses \/ TimerCaught \/ UNCHANGED vars => Same
  BY DEF PeerCloses, TimerCaught, vars, peerVars, streamVars, Same
<1>2. ReadEof \/ ParseFails \/ HandlerAborts \/ RespondFails \/ TimerFires => Close
  BY DEF ReadEof, ParseFails, HandlerAborts, RespondFails, TimerFires
<1> QED
  BY <1>1, <1>2 DEF Next, Peer, Loop

\* What becomes of the unread stream.
LEMMA UnreadSteps ==
  ASSUME TypeOK
  PROVE  /\ \A u \in UnitType : wire' = Append(wire, u) /\ buf' = buf
              => unread' = Append(unread, u)
         /\ FillMore => unread' = unread /\ unread # <<>>
         /\ buf # <<>> => unread # <<>> /\ unread[1] = Head(buf)
         /\ buf # <<>> /\ buf' = Tail(buf) /\ wire' = wire => unread' = Tail(unread)
         /\ UNCHANGED <<buf, wire>> => unread' = unread
<1>1. wire \in Seq(UnitType) /\ buf \in Seq(UnitType)
  BY Types
<1>2. ASSUME NEW u \in UnitType, wire' = Append(wire, u), buf' = buf
      PROVE  unread' = Append(unread, u)
  BY <1>1, <1>2, CatAppend DEF unread
<1>3. ASSUME FillMore
      PROVE  unread' = unread /\ unread # <<>>
  BY <1>1, <1>3, CatSplit, Zenon DEF FillMore, unread
<1>4. ASSUME buf # <<>>
      PROVE  unread # <<>> /\ unread[1] = Head(buf)
  BY <1>1, <1>4, CatTail DEF unread
<1>5. ASSUME buf # <<>>, buf' = Tail(buf), wire' = wire
      PROVE  unread' = Tail(unread)
  BY <1>1, <1>5, CatTail DEF unread
<1>6. UNCHANGED <<buf, wire>> => unread' = unread
  BY DEF unread
<1> QED
  BY <1>2, <1>3, <1>4, <1>5, <1>6

LEMMA FinalsType ==
  ASSUME TypeOK
  PROVE  finals \in Seq(ReplyType)
<1>1. out \in Seq(ReplyType)
  BY Types
<1> QED
  BY <1>1, EntriesType DEF finals, FinalsAt

\* A reply belongs to a request that was begun.
LEMMA OutIds ==
  ASSUME TypeOK, OutInv
  PROVE  \A i \in DOMAIN out : out[i].id \in 1..Len(reqs)
<1>1. out \in Seq(ReplyType) /\ Len(reqs) \in Nat
  BY Types
<1>2. \A i \in DOMAIN out : out[i] \in ReplyType
  BY <1>1
<1>3. \A i \in DOMAIN out : out[i].id \in Nat /\ out[i].id >= 1
  BY <1>2, RequestLoopAssumption DEF ReplyType
<1> QED
  BY <1>1, <1>3 DEF OutInv

\* What becomes of the final responses.
LEMMA OutSteps ==
  ASSUME TypeOK
  PROVE  /\ \A e \in ReplyType : out' = Append(out, e) =>
              /\ Upgraded' <=> Upgraded \/ e.kind = "101"
              /\ finals' = IF e.kind \in {"101", "final"} THEN Append(finals, e)
                           ELSE finals
         /\ out' = out => finals' = finals /\ (Upgraded' <=> Upgraded)
<1>1. out \in Seq(ReplyType)
  BY Types
<1>2. ASSUME NEW e \in ReplyType, out' = Append(out, e)
      PROVE  /\ Upgraded' <=> Upgraded \/ e.kind = "101"
             /\ finals' = IF e.kind \in {"101", "final"} THEN Append(finals, e)
                          ELSE finals
  <2>1. Upgraded' <=> Upgraded \/ e.kind = "101"
    <3>1. /\ \A i \in DOMAIN out : out'[i] = out[i] /\ i \in DOMAIN out'
          /\ Len(out) + 1 \in DOMAIN out' /\ out'[Len(out) + 1] = e
          /\ \A i \in DOMAIN out' : i \in DOMAIN out \/ i = Len(out) + 1
      BY <1>1, <1>2, AppendFacts
    <3> QED
      BY <3>1, Zenon DEF Upgraded
  <2>2. FinalsAt \in SUBSET (1..Len(out))
    BY <1>1 DEF FinalsAt
  <2>3. CASE e.kind \in {"101", "final"}
    <3>1. FinalsAt' = FinalsAt \cup {Len(out) + 1}
      BY <1>1, <1>2, <2>3 DEF FinalsAt
    <3> QED
      BY <1>1, <1>2, <2>1, <2>2, <2>3, <3>1, EntriesAppendIn DEF finals
  <2>4. CASE e.kind \notin {"101", "final"}
    <3>1. FinalsAt' = FinalsAt
      BY <1>1, <1>2, <2>4 DEF FinalsAt
    <3> QED
      BY <1>1, <1>2, <2>1, <2>2, <2>4, <3>1, EntriesAppendOut DEF finals
  <2> QED
    BY <2>3, <2>4
<1>3. out' = out => finals' = finals /\ (Upgraded' <=> Upgraded)
  BY DEF finals, FinalsAt, Upgraded
<1> QED
  BY <1>2, <1>3

-----------------------------------------------------------------------------
(* Each part of the invariant is preserved *)

\* The head that is parsed is the one of the request the loop counts.
LEMMA ParseFacts ==
  ASSUME LoopInv, phase = "parse", buf # <<>>, Head(buf).kind = "head"
  PROVE  /\ ~Upgraded /\ unread # <<>> /\ unread[1] = Head(buf)
         /\ Head(buf).id = request_count /\ Head(buf).at = 0
         /\ request_count \in 1..Len(reqs)
         /\ reqs[Head(buf).id] = cur /\ cur \in Request /\ Units(cur) \in Nat
<1>1. /\ unread \in Seq(UnitType) /\ unread # <<>> /\ unread[1] = Head(buf)
      /\ Len(reqs) \in Nat /\ \A k \in 1..Len(reqs) : reqs[k] \in Request
  BY Types, UnreadSteps DEF LoopInv
<1>2. 1 \in DOMAIN unread
  BY <1>1
<1>3. ~Upgraded
  BY <1>1, <1>2 DEF LoopInv, UpgradeInv
<1>4. PlaceOf(unread[1]) = Place(request_count, 0)
  BY <1>1, <1>3 DEF LoopInv, StreamInv, ChainInv, Expected
<1>5. unread[1].id \in 1..Len(reqs)
  BY <1>2 DEF LoopInv, StreamInv, HeadsInv
<1>6. unread[1].id = request_count /\ unread[1].at = 0
  BY <1>4 DEF PlaceOf, Place
<1> QED
  BY <1>1, <1>3, <1>5, <1>6, UnitsType DEF cur

\* The request being served was begun by the peer.
LEMMA ServedFacts ==
  ASSUME LoopInv, phase \in InRequest
  PROVE  /\ request_count \in 1..Len(reqs) /\ cur \in Request /\ Units(cur) \in Nat
         /\ \A k \in {"100", "101", "final"}, b \in BOOLEAN :
              Reply(request_count, k, b) \in ReplyType
<1>1. /\ Len(reqs) \in 0..MaxRequests /\ \A k \in 1..Len(reqs) : reqs[k] \in Request
      /\ request_count \in Nat /\ request_count >= 1
  BY Types DEF LoopInv
<1>2. request_count \in 1..Len(reqs)
  BY <1>1 DEF LoopInv, StreamInv, CountInv
<1>3. cur \in Request
  BY <1>1, <1>2 DEF cur
<1>4. request_count \in 1..MaxRequests
  BY <1>1, <1>2, RequestLoopAssumption
<1> QED
  BY <1>2, <1>3, <1>4, UnitsType DEF Reply, ReplyType

LEMMA TypeNext == LoopInv /\ [Next]_vars => TypeOK'
<1> SUFFICES ASSUME LoopInv, [Next]_vars
             PROVE  TypeOK'
  OBVIOUS
<1>0. /\ wire \in Seq(UnitType) /\ buf \in Seq(UnitType) /\ out \in Seq(ReplyType)
      /\ Len(reqs) \in 0..MaxRequests /\ request_count \in Nat /\ request_count >= 1
      /\ MaxRequests \in Nat
      /\ TypeOK
  BY Types, RequestLoopAssumption DEF LoopInv
<1> DEFINE Rest == /\ reqs \in Seq(Requests) /\ Len(reqs) <= MaxRequests
                   /\ owed \in Nat /\ frames \in 0..MaxFrames
                   /\ phase \in Phase
                   /\ request_count \in 1..MaxRequests + 1
                   /\ left \in Nat
                   /\ timer \in {"off", "request", "keepalive", "fired"}
           Flags == /\ gone \in BOOLEAN
                    /\ expects_continue \in BOOLEAN
                    /\ keepalive \in BOOLEAN
                    /\ headers_written \in BOOLEAN
<1>1. /\ TypeOK <=> Rest /\ Flags /\ wire \in Seq(UnitType) /\ buf \in Seq(UnitType)
                      /\ out \in Seq(ReplyType)
      /\ TypeOK' <=> Rest' /\ Flags' /\ wire' \in Seq(UnitType) /\ buf' \in Seq(UnitType)
                      /\ out' \in Seq(ReplyType)
  BY Zenon DEF TypeOK, UnitType, ReplyType
<1>2. Rest /\ Flags
  BY <1>0, <1>1, Zenon
<1>3. UNCHANGED <<gone, expects_continue, keepalive, headers_written>> => Flags'
  BY <1>2, Zenon
<1> HIDE DEF Flags
<1>4. ASSUME NEW r \in Requests, SendHead(r)
      PROVE  TypeOK'
  <2>1. Unit(Len(reqs) + 1, "head", 0) \in UnitType /\ Units(r) \in Nat
    BY <1>0, <1>4, UnitsType, RequestLoopAssumption DEF SendHead, Unit, UnitType
  <2> QED
    BY <1>0, <1>1, <1>2, <1>3, <1>4, <2>1 DEF SendHead, requestVars
<1>5. CASE SendBody
  <2>1. Unit(Len(reqs), "body", Units(reqs[Len(reqs)]) - owed + 1) \in UnitType
    <3>1. /\ owed > 0 /\ reqs # <<>> /\ owed <= Units(reqs[Len(reqs)])
          /\ Len(reqs) \in 1..MaxRequests
      BY <1>0, <1>2, <1>5 DEF SendBody, LoopInv, StreamInv, CountInv
    <3>2. Units(reqs[Len(reqs)]) \in Nat
      BY <3>1, Types, UnitsType DEF LoopInv
    <3> QED
      BY <1>2, <3>1, <3>2 DEF Unit, UnitType
  <2> QED
    BY <1>0, <1>1, <1>2, <1>3, <1>5, <2>1 DEF SendBody, requestVars
<1>6. CASE SendFrame
  <2>1. Unit(Len(reqs), "frame", 0) \in UnitType
    <3>1. PICK i \in DOMAIN out : TRUE
      BY <1>6 DEF SendFrame, Upgraded
    <3>2. out[i].id <= Len(reqs) /\ out[i] \in ReplyType
      BY <1>0 DEF LoopInv, ReplyInv, OutInv
    <3>3. Len(reqs) \in 1..MaxRequests
      BY <1>0, <3>2 DEF ReplyType
    <3> QED
      BY <3>3 DEF Unit, UnitType
  <2> QED
    BY <1>0, <1>1, <1>2, <1>3, <1>6, <2>1, RequestLoopAssumption DEF SendFrame, requestVars
<1>7. CASE UNCHANGED vars \/ PeerCloses \/ TimerCaught
  <2>1. Flags'
    <3>1. CASE PeerCloses
      BY <1>2, <3>1, Zenon DEF PeerCloses, requestVars, Flags
    <3>2. CASE UNCHANGED vars \/ TimerCaught
      BY <1>3, <3>2 DEF TimerCaught, vars, peerVars, requestVars
    <3> QED
      BY <1>7, <3>1, <3>2
  <2> QED
    BY <1>0, <1>1, <1>2, <1>7, <2>1
       DEF PeerCloses, TimerCaught, vars, peerVars, streamVars, requestVars
<1>8. CASE Close
  BY <1>0, <1>1, <1>2, <1>3, <1>8 DEF Close, EndTask, peerVars, streamVars, Phase
<1>9. CASE FillMore
  <2>1. wire' \in Seq(UnitType) /\ buf' \in Seq(UnitType)
    BY <1>0, <1>9, CatSplit DEF FillMore
  <2>2. request_count' \in 1..MaxRequests + 1 /\ phase' \in Phase
    BY <1>0, <1>2, <1>9 DEF FillMore, LoopInv, StreamInv, CountInv, Phase
  <2>3. timer' \in {"off", "request", "keepalive", "fired"}
    BY <1>2, <1>9 DEF FillMore, ArmRequest
  <2> QED
    BY <1>0, <1>1, <1>2, <1>3, <1>9, <2>1, <2>2, <2>3 DEF FillMore, peerVars
<1>10. CASE ParseHeaders
  <2>1. /\ request_count \in 1..Len(reqs) /\ Head(buf).id = request_count
        /\ reqs[Head(buf).id] = cur /\ cur \in Request /\ Units(cur) \in Nat
    BY <1>10, ParseFacts DEF ParseHeaders
  <2>2. CASE cur.expect = "other"
    <3>1. Reply(request_count, "final", FALSE) \in ReplyType
      BY <1>0, <2>1 DEF Reply, ReplyType
    <3>2. Flags'
      BY <1>2, <1>10, <2>1, <2>2, Zenon DEF ParseHeaders, EndTask, peerVars, Flags
    <3>3. /\ UNCHANGED <<reqs, owed, frames, wire, buf, request_count, left>>
          /\ phase' = "closed" /\ timer' = "off"
          /\ out' = Append(out, Reply(request_count, "final", FALSE))
      BY <1>10, <2>1, <2>2, Zenon DEF ParseHeaders, EndTask, peerVars, streamVars
    <3>4. out' \in Seq(ReplyType)
      BY <1>0, <3>1, <3>3, AppendFacts, Zenon
    <3> QED
      BY <1>0, <1>1, <1>2, <3>2, <3>3, <3>4, Zenon DEF Phase
  <2>3. CASE cur.expect # "other"
    <3>1. Flags'
      <4>1. KeepaliveAllowed(cur) \in BOOLEAN
        BY Zenon DEF KeepaliveAllowed
      <4> QED
        BY <1>2, <1>10, <2>1, <2>3, <4>1, Zenon DEF ParseHeaders, peerVars, Flags
    <3>2. /\ UNCHANGED <<reqs, owed, frames, wire, out, request_count, timer>>
          /\ phase' = "handler" /\ left' = Units(cur)
          /\ buf' = Tail(buf) /\ buf # <<>>
      BY <1>10, <2>1, <2>3, Zenon DEF ParseHeaders, peerVars
    <3> QED
      BY <1>0, <1>1, <1>2, <2>1, <3>1, <3>2 DEF Phase
  <2> QED
    BY <2>2, <2>3
<1>11. CASE HandlerFirstRead
  <2>1. Reply(request_count, "100", TRUE) \in ReplyType
    BY <1>11, ServedFacts DEF HandlerFirstRead, InRequest
  <2>2. Flags'
    BY <1>2, <1>11, Zenon DEF HandlerFirstRead, peerVars, Flags
  <2>3. /\ UNCHANGED <<reqs, owed, frames, wire, buf, phase, request_count, left, timer>>
        /\ out' = Append(out, Reply(request_count, "100", TRUE))
    BY <1>11, Zenon DEF HandlerFirstRead, peerVars, streamVars
  <2>4. out' \in Seq(ReplyType)
    BY <1>0, <2>1, <2>3, AppendFacts, Zenon
  <2> QED
    BY <1>0, <1>1, <1>2, <2>2, <2>3, <2>4, Zenon
<1>12. CASE HandlerReads \/ HandlerReceives \/ DrainBody
  <2>1. Flags'
    BY <1>3, <1>12, Zenon DEF HandlerReads, HandlerReceives, DrainBody, peerVars, requestVars
  <2>2. /\ UNCHANGED <<reqs, owed, frames, wire, out, request_count, timer>>
        /\ buf # <<>> /\ buf' = Tail(buf)
        /\ phase' = phase \/ phase' \in {"respond", "drain"}
        /\ left' = left \/ (left > 0 /\ left' = left - 1)
    <3>1. CASE HandlerReads
      BY <3>1, Zenon DEF HandlerReads, ConsumeBody, peerVars
    <3>2. CASE HandlerReceives
      BY <3>2, Zenon DEF HandlerReceives, peerVars, requestVars
    <3>3. CASE DrainBody
      BY <3>3 DEF DrainBody, ConsumeBody, peerVars
    <3> QED
      BY <1>12, <3>1, <3>2, <3>3
  <2> QED
    BY <1>0, <1>1, <1>2, <2>1, <2>2 DEF Phase
<1>13. CASE HandlerReturns
  <2>1. Flags'
    BY <1>2, <1>13, Zenon DEF HandlerReturns, Drainable, peerVars, Flags
  <2> QED
    BY <1>0, <1>1, <1>2, <1>13, <2>1 DEF HandlerReturns, peerVars, streamVars, Phase
<1>14. CASE DrainFails
  <2>1. Flags'
    BY <1>2, <1>14, Zenon DEF DrainFails, peerVars, Flags
  <2> QED
    BY <1>0, <1>1, <1>2, <1>14, <2>1 DEF DrainFails, peerVars, streamVars, Phase
<1>15. ASSUME NEW stop \in BOOLEAN, Respond(stop)
       PROVE  TypeOK'
  <2> DEFINE k == keepalive /\ ~stop
  <2>1. k \in BOOLEAN /\ Flags'
    BY <1>2, <1>15, Zenon DEF Respond, AfterReply, EndTask, peerVars, Flags
  <2>2. Reply(request_count, "final", k) \in ReplyType
    BY <1>15, <2>1, ServedFacts DEF Respond, InRequest
  <2>3. out' \in Seq(ReplyType)
    BY <1>0, <1>15, <2>2 DEF Respond
  <2>4. /\ UNCHANGED <<peerVars, streamVars, request_count, left>>
        /\ phase' \in {"idle", "closed"}
        /\ timer' \in {"off", "keepalive", timer}
    BY <1>15 DEF Respond, AfterReply, EndTask, ArmKeepalive
  <2> QED
    BY <1>0, <1>1, <1>2, <2>1, <2>3, <2>4 DEF peerVars, streamVars, Phase
<1>16. ASSUME NEW ka \in BOOLEAN, HandlerStreams(ka)
       PROVE  TypeOK'
  <2>1. (keepalive /\ ka) \in BOOLEAN /\ Flags'
    BY <1>2, <1>16, Zenon DEF HandlerStreams, peerVars, Flags
  <2>2. Reply(request_count, "final", keepalive /\ ka) \in ReplyType
    BY <1>16, <2>1, ServedFacts DEF HandlerStreams, InRequest
  <2> QED
    BY <1>0, <1>1, <1>2, <1>16, <2>1, <2>2 DEF HandlerStreams, peerVars, streamVars
<1>17. CASE HandlerUpgrades
  <2>1. Flags'
    BY <1>2, <1>17, Zenon DEF HandlerUpgrades, peerVars, Flags
  <2>2. Reply(request_count, "101", keepalive) \in ReplyType
    BY <1>2, <1>17, ServedFacts DEF HandlerUpgrades, InRequest, Flags
  <2> QED
    BY <1>0, <1>1, <1>2, <1>17, <2>1, <2>2 DEF HandlerUpgrades, peerVars, streamVars
<1> QED
  BY <1>4, <1>5, <1>6, <1>7, <1>8, <1>9, <1>10, <1>11, <1>12, <1>13, <1>14, <1>15,
     <1>16, <1>17
     DEF Next, Peer, Loop, ReadEof, ParseFails, HandlerAborts, RespondFails, TimerFires

-----------------------------------------------------------------------------
(* What the peer sends *)

\* The parts about responses depend on the server's variables and on what was
\* asked; a request or a unit more disturbs none of them but WaitInv.
LEMMA PeerStepReplies ==
  ASSUME LoopInv, TypeOK',
         UNCHANGED <<out, phase, request_count, keepalive, headers_written,
                     expects_continue>>,
         \A k \in 1..Len(reqs) : reqs'[k] = reqs[k],
         Len(reqs') >= Len(reqs)
  PROVE  OutInv' /\ SpokenInv' /\ FinalsInv' /\ LastInv' /\ LimitInv'
<1>1. /\ out \in Seq(ReplyType) /\ Len(reqs) \in Nat /\ Len(reqs') \in Nat
      /\ request_count \in Nat /\ request_count >= 1
  BY Types DEF LoopInv, TypeOK
<1>2. finals' = finals
  BY OutSteps DEF LoopInv
<1>3. FinalsInv' /\ LastInv' /\ LimitInv'
  BY <1>2, Zenon DEF LoopInv, ReplyInv, FinalsInv, LastInv, LimitInv
<1>4. \A i \in DOMAIN out : out[i].id \in 1..Len(reqs)
  BY OutIds DEF LoopInv, ReplyInv
<1>5. \A i \in DOMAIN out : reqs'[out[i].id] = reqs[out[i].id] /\ out[i].id <= Len(reqs')
  BY <1>1, <1>4
<1>6. SpokenInv'
  BY <1>5, Zenon DEF LoopInv, ReplyInv, SpokenInv
<1>7. OutInv'
  <2>1. phase = "handler" => cur' = cur
    BY <1>1 DEF LoopInv, StreamInv, CountInv, InRequest, cur
  <2> QED
    BY <1>5, <2>1, Zenon DEF LoopInv, ReplyInv, OutInv
<1> QED
  BY <1>3, <1>6, <1>7

\* The stream stays without a gap when the peer sends what comes next.
LEMMA ChainAppend ==
  ASSUME LoopInv,
         UNCHANGED <<out, buf, phase, request_count, left>>,
         \A k \in 1..Len(reqs) : reqs'[k] = reqs[k],
         NEW u \in UnitType, wire' = Append(wire, u),
         u.kind = IF u.at = 0 THEN "head" ELSE "body",
         PlaceOf(u) = PeerNext, After(PlaceOf(u))' = PeerNext'
  PROVE  ChainInv'
<1>0. unread \in Seq(UnitType) /\ Len(reqs) \in Nat
  BY Types DEF LoopInv
<1>1. unread' = Append(unread, u)
  BY UnreadSteps DEF LoopInv
<1>2. /\ Len(unread') = Len(unread) + 1 /\ unread'[Len(unread) + 1] = u
      /\ \A i \in DOMAIN unread : unread'[i] = unread[i]
      /\ DOMAIN unread' = 1..(Len(unread) + 1) /\ DOMAIN unread = 1..Len(unread)
      /\ Len(unread) \in Nat /\ unread' # <<>>
  BY <1>0, <1>1, AppendFacts
<1> SUFFICES ASSUME phase # "closed", ~Upgraded
             PROVE  /\ \A i \in DOMAIN unread' :
                         unread'[i].kind = IF unread'[i].at = 0 THEN "head" ELSE "body"
                    /\ Expected' = PlaceOf(unread'[1])
                    /\ \A i \in DOMAIN unread' :
                         After(PlaceOf(unread[i]))' =
                           IF i = Len(unread') THEN PeerNext' ELSE PlaceOf(unread'[i + 1])
  <2>1. Upgraded' <=> Upgraded
    BY OutSteps DEF LoopInv
  <2> QED
    BY <1>2, <2>1, Zenon DEF ChainInv, PlaceOf, Place
<1>3. /\ \A i \in DOMAIN unread : unread[i].kind = IF unread[i].at = 0 THEN "head" ELSE "body"
      /\ Expected = IF unread = <<>> THEN PeerNext ELSE PlaceOf(unread[1])
      /\ \A i \in DOMAIN unread :
           After(PlaceOf(unread[i])) =
             IF i = Len(unread) THEN PeerNext ELSE PlaceOf(unread[i + 1])
  BY DEF LoopInv, StreamInv, ChainInv
<1>4. \A i \in DOMAIN unread' :
         unread'[i].kind = IF unread'[i].at = 0 THEN "head" ELSE "body"
  BY <1>2, <1>3
<1>5. Expected' = PlaceOf(unread'[1])
  <2>1. phase \in InRequest => cur' = cur
    BY <1>0, Types DEF LoopInv, StreamInv, CountInv, cur
  <2>2. Expected' = Expected
    BY <2>1 DEF Expected
  <2> QED
    BY <1>0, <1>2, <1>3, <2>2
<1>6. ASSUME NEW i \in DOMAIN unread'
      PROVE  After(PlaceOf(unread[i]))' =
               IF i = Len(unread') THEN PeerNext' ELSE PlaceOf(unread'[i + 1])
  <2>1. CASE i = Len(unread) + 1
    BY <1>2, <2>1 DEF After, PlaceOf, Place
  <2>2. CASE i \in DOMAIN unread
    <3>1. unread[i].id \in 1..Len(reqs)
      BY <2>2 DEF LoopInv, StreamInv, HeadsInv
    <3>2. After(PlaceOf(unread[i]))' = After(PlaceOf(unread[i]))
      BY <1>2, <2>2, <3>1 DEF After, PlaceOf, Place
    <3> QED
      BY <1>2, <1>3, <2>2, <3>2
  <2> QED
    BY <1>2, <2>1, <2>2
<1> QED
  BY <1>4, <1>5, <1>6

\* One unit more on the wire, and the requests whose heads are unread.
LEMMA HeadsAppend ==
  ASSUME LoopInv, TypeOK', NEW u \in UnitType,
         UNCHANGED <<buf, phase, request_count>>, wire' = Append(wire, u),
         Len(reqs') >= Len(reqs), u.id \in 1..Len(reqs'),
         u.kind = "head" =>
           /\ u.id = Len(reqs) + 1
           /\ phase # "closed" =>
                u.id > request_count \/ (phase = "parse" /\ unread = <<>>),
         \/ Len(reqs') = Len(reqs)
         \/ Len(reqs') = Len(reqs) + 1 /\ u.kind = "head"
  PROVE  HeadsInv' /\ PendingInv'
<1> DEFINE m == Len(unread)
<1>0. /\ unread \in Seq(UnitType) /\ Len(reqs) \in Nat /\ Len(reqs') \in Nat
      /\ request_count \in Nat
      /\ \A i \in DOMAIN unread : unread[i].id \in 1..Len(reqs)
  BY Types DEF LoopInv, StreamInv, HeadsInv, TypeOK
<1>1. unread' = Append(unread, u)
  BY UnreadSteps DEF LoopInv
<1>2. /\ Len(unread') = m + 1 /\ unread'[m + 1] = u
      /\ \A i \in DOMAIN unread : unread'[i] = unread[i]
      /\ DOMAIN unread' = 1..(m + 1) /\ DOMAIN unread = 1..m
      /\ m \in Nat
  BY <1>0, <1>1, AppendFacts
<1>3. \A i \in DOMAIN unread' : i = m + 1 \/ (i \in DOMAIN unread /\ i < m + 1)
  BY <1>2
<1>4. \A i \in DOMAIN unread' : unread'[i].id \in 1..Len(reqs')
  <2> SUFFICES ASSUME NEW i \in DOMAIN unread'
               PROVE  unread'[i].id \in 1..Len(reqs')
    OBVIOUS
  <2>1. CASE i = m + 1
    BY <1>2, <2>1
  <2>2. CASE i \in DOMAIN unread
    BY <1>0, <1>2, <2>2
  <2> QED
    BY <1>3, <2>1, <2>2
<1>5. ASSUME NEW i \in DOMAIN unread', NEW j \in DOMAIN unread', i < j,
             unread'[j].kind = "head"
      PROVE  unread'[i].id < unread'[j].id
  <2>1. i \in DOMAIN unread /\ unread'[i] = unread[i]
    BY <1>2, <1>5
  <2>2. CASE j = m + 1
    BY <1>0, <1>2, <1>5, <2>1, <2>2
  <2>3. CASE j \in DOMAIN unread
    <3>1. unread'[j] = unread[j]
      BY <1>2, <2>3
    <3> QED
      BY <1>5, <2>1, <2>3, <3>1 DEF LoopInv, StreamInv, HeadsInv
  <2> QED
    BY <1>3, <2>2, <2>3
<1>6. ASSUME phase # "closed", NEW i \in DOMAIN unread', unread'[i].kind = "head"
      PROVE  unread'[i].id > request_count \/ (phase = "parse" /\ i = 1)
  <2>1. CASE i = m + 1
    BY <1>0, <1>2, <1>6, <2>1
  <2>2. CASE i \in DOMAIN unread
    BY <1>2, <1>6, <2>2 DEF LoopInv, StreamInv, HeadsInv
  <2> QED
    BY <1>3, <2>1, <2>2
<1>7. ASSUME phase # "closed", NEW id \in 1..Len(reqs'), id > request_count
      PROVE  \E i \in DOMAIN unread' : unread'[i].kind = "head" /\ unread'[i].id = id
  <2>1. CASE id \in 1..Len(reqs)
    <3>1. PICK i \in DOMAIN unread : unread[i].kind = "head" /\ unread[i].id = id
      BY <1>7, <2>1 DEF LoopInv, StreamInv, PendingInv
    <3>2. i \in DOMAIN unread' /\ unread'[i] = unread[i]
      BY <1>2
    <3> QED
      BY <3>1, <3>2
  <2>2. CASE id \notin 1..Len(reqs)
    <3>1. u.kind = "head" /\ u.id = id
      BY <1>0, <2>2
    <3>2. m + 1 \in DOMAIN unread' /\ unread'[m + 1] = u
      BY <1>2
    <3> QED
      BY <3>1, <3>2
  <2> QED
    BY <2>1, <2>2
<1>8. HeadsInv'
  BY <1>4, <1>5, <1>6, Zenon DEF HeadsInv
<1>9. PendingInv'
  BY <1>7, Zenon DEF PendingInv
<1> QED
  BY <1>8, <1>9

LEMMA SendHeadStep ==
  ASSUME LoopInv, TypeOK', NEW r \in Requests, SendHead(r)
  PROVE  LoopInv'
<1> DEFINE n == Len(reqs)
<1>0. /\ reqs \in Seq(Requests) /\ n \in Nat /\ owed \in Nat /\ left \in Nat
      /\ unread \in Seq(UnitType) /\ out \in Seq(ReplyType)
      /\ request_count \in Nat /\ request_count >= 1
      /\ \A k \in 1..n : reqs[k] \in Request
      /\ \A k \in 1..n : Units(reqs[k]) \in Nat
  BY Types, UnitsType DEF LoopInv
<1>1. /\ reqs' = Append(reqs, r) /\ owed = 0 /\ owed' = Units(r) /\ ~Upgraded
      /\ UNCHANGED <<buf, out, phase, request_count, left, keepalive,
                     headers_written, expects_continue>>
      /\ wire' = Append(wire, Unit(n + 1, "head", 0)) /\ n < MaxRequests
      /\ n > 0 /\ reqs[n].upgrade => Answered
  BY <1>0 DEF SendHead, requestVars
<1>2. PICK u \in UnitType :
         u.id = n + 1 /\ u.kind = "head" /\ u.at = 0 /\ wire' = Append(wire, u)
  <2>1. Unit(n + 1, "head", 0) \in UnitType
    BY <1>0, <1>1, RequestLoopAssumption DEF Unit, UnitType
  <2>2. /\ Unit(n + 1, "head", 0).id = n + 1 /\ Unit(n + 1, "head", 0).kind = "head"
        /\ Unit(n + 1, "head", 0).at = 0
    BY DEF Unit
  <2> QED
    BY <1>1, <2>1, <2>2, Zenon
<1>3. Units(r) \in Nat
  BY UnitsType, RequestLoopAssumption
<1>4. /\ Len(reqs') = n + 1 /\ reqs'[n + 1] = r
      /\ \A k \in 1..n : reqs'[k] = reqs[k]
  BY <1>0, <1>1
<1>5. unread' = Append(unread, u)
  BY <1>1, <1>2, UnreadSteps DEF LoopInv
<1>6. ~Upgraded'
  BY <1>1, OutSteps DEF LoopInv
<1>7. OutInv' /\ SpokenInv' /\ FinalsInv' /\ LastInv' /\ LimitInv'
  BY <1>0, <1>1, <1>4, PeerStepReplies
<1>8. WaitInv'
  <2> SUFFICES ASSUME NEW k \in 1..n, reqs'[k].upgrade
               PROVE  \E i \in DOMAIN out : out[i].id = k
    <3>1. Len(reqs') - 1 = n /\ out' = out
      BY <1>0, <1>1, <1>4
    <3> QED
      BY <3>1, Zenon DEF WaitInv
  <2>1. CASE k = n
    BY <1>0, <1>1, <1>4, <2>1 DEF Answered
  <2>2. CASE k # n
    <3>1. k \in 1..(n - 1)
      BY <1>0, <2>2
    <3>2. reqs[k].upgrade
      BY <1>4
    <3> QED
      BY <3>1, <3>2, Zenon DEF LoopInv, ReplyInv, WaitInv
  <2> QED
    BY <2>1, <2>2
<1>9. UpgradeInv'
  BY <1>6 DEF UpgradeInv
<1>10. CountInv'
  <2>1. phase \in InRequest => cur' = cur
    BY <1>0, <1>1, <1>4 DEF LoopInv, StreamInv, CountInv, cur
  <2> QED
    BY <1>0, <1>1, <1>3, <1>4, <2>1 DEF LoopInv, StreamInv, CountInv
<1>11. HeadsInv' /\ PendingInv'
  <2>1. phase # "closed" => request_count < n + 1 \/ (phase = "parse" /\ unread = <<>>)
    <3> SUFFICES ASSUME phase # "closed", request_count = n + 1, unread # <<>>
                 PROVE  FALSE
      BY <1>0 DEF LoopInv, StreamInv, CountInv, TypeOK, Phase, InRequest
    <3>1. Expected = PlaceOf(unread[1]) /\ 1 \in DOMAIN unread
      BY <1>0, <1>1 DEF LoopInv, StreamInv, ChainInv
    <3>2. Expected.id >= n + 1
      BY <1>0 DEF Expected, Place
    <3>3. unread[1].id \in 1..n
      BY <3>1 DEF LoopInv, StreamInv, HeadsInv
    <3> QED
      BY <1>0, <3>1, <3>2, <3>3 DEF PlaceOf, Place
  <2> QED
    BY <1>0, <1>1, <1>2, <1>4, <2>1, HeadsAppend
<1>12. ChainInv'
  <2>1. PlaceOf(u) = PeerNext
    BY <1>0, <1>1, <1>2 DEF PlaceOf, PeerNext
  <2>2. After(PlaceOf(u))' = PeerNext'
    <3>1. After(PlaceOf(u))' = IF 0 < Units(r) THEN Place(n + 1, 1) ELSE Place(n + 2, 0)
      BY <1>0, <1>2, <1>3, <1>4 DEF After, PlaceOf, Place
    <3>2. PeerNext' = IF Units(r) > 0 THEN Place(n + 1, 1) ELSE Place(n + 2, 0)
      BY <1>0, <1>1, <1>3, <1>4 DEF PeerNext
    <3> QED
      BY <1>3, <3>1, <3>2
  <2> QED
    BY <1>0, <1>1, <1>2, <1>4, <2>1, <2>2, ChainAppend
<1> QED
  BY <1>7, <1>8, <1>9, <1>10, <1>11, <1>12
     DEF LoopInv, StreamInv, ReplyInv

\* A unit that is no head disturbs only the chain.
LEMMA UnitStep ==
  ASSUME LoopInv, TypeOK', NEW u \in UnitType,
         UNCHANGED <<reqs, buf, out, phase, requestVars>>,
         wire' = Append(wire, u), u.kind # "head", u.id = Len(reqs)
  PROVE  HeadsInv' /\ PendingInv' /\ UpgradeInv' /\ ReplyInv'
<1>1. /\ unread \in Seq(UnitType) /\ Len(reqs) \in Nat /\ u.id \in 1..Len(reqs)
  BY Types DEF LoopInv, UnitType
<1>2. HeadsInv' /\ PendingInv'
  BY <1>1, HeadsAppend DEF requestVars
<1>3. OutInv' /\ SpokenInv' /\ FinalsInv' /\ LastInv' /\ LimitInv'
  BY <1>1, PeerStepReplies DEF requestVars
<1>4. WaitInv'
  BY DEF LoopInv, ReplyInv, WaitInv
<1>5. UpgradeInv'
  <2>1. unread' = Append(unread, u)
    BY UnreadSteps DEF LoopInv
  <2>2. Upgraded' <=> Upgraded
    BY OutSteps DEF LoopInv
  <2>3. (\A i \in DOMAIN unread : unread[i].kind # "head")
          => \A i \in DOMAIN unread' : unread'[i].kind # "head"
    BY <1>1, <2>1
  <2> QED
    BY <2>2, <2>3, Zenon DEF LoopInv, UpgradeInv, requestVars
<1> QED
  BY <1>2, <1>3, <1>4, <1>5 DEF ReplyInv

LEMMA SendBodyStep ==
  ASSUME LoopInv, TypeOK', SendBody
  PROVE  LoopInv'
<1> DEFINE n == Len(reqs)
           place == Units(reqs[n]) - owed + 1
<1>0. /\ n \in Nat /\ owed \in Nat /\ owed > 0 /\ reqs # <<>>
      /\ owed <= Units(reqs[n])
      /\ n \in 1..MaxRequests /\ reqs[n] \in Request /\ Units(reqs[n]) \in Nat
  <2>1. reqs # <<>> /\ owed > 0 /\ owed <= Units(reqs[n])
    BY DEF SendBody, LoopInv, StreamInv, CountInv
  <2> QED
    BY <2>1, Types, UnitsType DEF LoopInv
<1>1. /\ UNCHANGED <<reqs, buf, out, phase, requestVars>>
      /\ owed' = owed - 1
  BY DEF SendBody
<1>2. place \in Nat /\ place >= 1
  BY <1>0
<1>3. PICK u \in UnitType :
        u.id = n /\ u.kind = "body" /\ u.at = place /\ wire' = Append(wire, u)
  <2>1. Unit(n, "body", place) \in UnitType
    BY <1>0, <1>2 DEF Unit, UnitType
  <2>2. /\ Unit(n, "body", place).id = n /\ Unit(n, "body", place).kind = "body"
        /\ Unit(n, "body", place).at = place
    BY DEF Unit
  <2>3. wire' = Append(wire, Unit(n, "body", place))
    BY DEF SendBody
  <2> QED
    BY <2>1, <2>2, <2>3, Zenon
<1>4. HeadsInv' /\ PendingInv' /\ UpgradeInv' /\ ReplyInv'
  BY <1>1, <1>3, UnitStep
<1>5. CountInv'
  BY <1>0, <1>1 DEF LoopInv, StreamInv, CountInv, requestVars, cur
<1>6. ChainInv'
  <2>1. PlaceOf(u) = PeerNext
    BY <1>0, <1>3 DEF PlaceOf, PeerNext
  <2>2. After(PlaceOf(u))' = PeerNext'
    <3>1. After(PlaceOf(u))' = IF place < Units(reqs[n]) THEN Place(n, place + 1)
                               ELSE Place(n + 1, 0)
      BY <1>1, <1>3 DEF After, PlaceOf, Place
    <3>2. PeerNext' = IF owed > 1 THEN Place(n, Units(reqs[n]) - (owed - 1) + 1)
                      ELSE Place(n + 1, 0)
      BY <1>0, <1>1 DEF PeerNext
    <3>3. /\ place < Units(reqs[n]) <=> owed > 1
          /\ place + 1 = Units(reqs[n]) - (owed - 1) + 1
      BY <1>0
    <3> QED
      BY <3>1, <3>2, <3>3
  <2>3. u.kind = IF u.at = 0 THEN "head" ELSE "body"
    BY <1>2, <1>3
  <2> QED
    BY <1>1, <1>3, <2>1, <2>2, <2>3, ChainAppend DEF requestVars
<1> QED
  BY <1>4, <1>5, <1>6 DEF LoopInv, StreamInv

LEMMA SendFrameStep ==
  ASSUME LoopInv, TypeOK', SendFrame
  PROVE  LoopInv'
<1> DEFINE n == Len(reqs)
<1>1. /\ UNCHANGED <<reqs, owed, buf, out, phase, requestVars>>
      /\ Upgraded /\ wire' = Append(wire, Unit(n, "frame", 0))
  BY DEF SendFrame
<1>2. n \in 1..MaxRequests
  <2>1. PICK i \in DOMAIN out : TRUE
    BY <1>1 DEF Upgraded
  <2>2. out[i].id \in 1..n
    BY OutIds DEF LoopInv, ReplyInv
  <2> QED
    BY <2>2, Types DEF LoopInv
<1>3. PICK u \in UnitType : u.id = n /\ u.kind # "head" /\ wire' = Append(wire, u)
  <2>1. Unit(n, "frame", 0) \in UnitType
    BY <1>2 DEF Unit, UnitType
  <2>2. Unit(n, "frame", 0).id = n /\ Unit(n, "frame", 0).kind # "head"
    BY DEF Unit
  <2> QED
    BY <1>1, <2>1, <2>2, Zenon
<1>4. HeadsInv' /\ PendingInv' /\ UpgradeInv' /\ ReplyInv'
  BY <1>1, <1>3, UnitStep
<1>5. CountInv'
  BY <1>1 DEF LoopInv, StreamInv, CountInv, requestVars, cur
<1>6. ChainInv'
  BY <1>1, OutSteps DEF LoopInv, ChainInv
<1> QED
  BY <1>4, <1>5, <1>6 DEF LoopInv, StreamInv

-----------------------------------------------------------------------------
(* The steps of the connection task *)

\* Nothing but the timer, the peer's leaving or the buffer's extent changed.
LEMMA SameStep ==
  ASSUME LoopInv, TypeOK', unread' = unread,
         UNCHANGED <<reqs, owed, out, phase, requestVars>>
  PROVE  LoopInv'
<1>1. finals' = finals /\ (Upgraded' <=> Upgraded) /\ cur' = cur
  BY OutSteps DEF LoopInv, requestVars, cur
<1>2. /\ UNCHANGED <<request_count, left, expects_continue, keepalive, headers_written>>
      /\ UNCHANGED <<reqs, owed, out, phase>>
  BY DEF requestVars
<1>3. CountInv' /\ HeadsInv' /\ PendingInv'
  BY <1>1, <1>2, Zenon DEF LoopInv, StreamInv, CountInv, HeadsInv, PendingInv
<1>4. ChainInv'
  <2>1. Expected' = Expected /\ PeerNext' = PeerNext
    BY <1>1, <1>2 DEF Expected, PeerNext
  <2>2. \A i : After(PlaceOf(unread[i]))' = After(PlaceOf(unread[i]))
    BY <1>2 DEF After, PlaceOf, Place
  <2> QED
    BY <1>1, <1>2, <2>1, <2>2, Zenon DEF LoopInv, StreamInv, ChainInv, PlaceOf, Place
<1>5. UpgradeInv' /\ OutInv' /\ WaitInv' /\ SpokenInv'
  BY <1>1, <1>2, Zenon DEF LoopInv, ReplyInv, UpgradeInv, OutInv, WaitInv, SpokenInv
<1>6. FinalsInv' /\ LastInv' /\ LimitInv'
  BY <1>1, <1>2, Zenon DEF LoopInv, ReplyInv, FinalsInv, LastInv, LimitInv
<1> QED
  BY <1>3, <1>4, <1>5, <1>6 DEF LoopInv, StreamInv, ReplyInv

\* What the end of the task leaves to show, when nothing more is written.
LEMMA CloseStep ==
  ASSUME LoopInv, TypeOK', Close
  PROVE  LoopInv'
<1>1. phase' = "closed" /\ UNCHANGED <<reqs, owed, wire, buf, out, request_count>>
  BY DEF Close, EndTask, peerVars, streamVars
<1>2. unread' = unread /\ finals' = finals
  BY <1>1, OutSteps, UnreadSteps DEF LoopInv
<1>3. CountInv' /\ ChainInv' /\ HeadsInv' /\ PendingInv' /\ UpgradeInv'
  BY <1>1, <1>2 DEF LoopInv, StreamInv, CountInv, ChainInv, HeadsInv, PendingInv,
                    UpgradeInv, InRequest
<1>4. OutInv' /\ WaitInv' /\ SpokenInv'
  BY <1>1, <1>2 DEF LoopInv, ReplyInv, OutInv, WaitInv, SpokenInv, InRequest
<1>5. FinalsInv' /\ LastInv' /\ LimitInv'
  BY <1>1, <1>2 DEF LoopInv, ReplyInv, FinalsInv, LastInv, LimitInv, InRequest
<1> QED
  BY <1>3, <1>4, <1>5 DEF LoopInv, StreamInv, ReplyInv

LEMMA FillMoreStep ==
  ASSUME LoopInv, TypeOK', FillMore
  PROVE  LoopInv'
<1>0. /\ unread \in Seq(UnitType) /\ Len(reqs) \in Nat /\ request_count \in Nat
      /\ unread' = unread /\ unread # <<>>
  BY Types, UnreadSteps DEF LoopInv
<1>1. CASE phase # "idle"
  BY <1>0, <1>1, SameStep DEF FillMore, peerVars, requestVars
<1>2. CASE phase = "idle"
  <2>1. /\ phase' = "parse" /\ request_count' = request_count + 1
        /\ UNCHANGED <<reqs, owed, out>>
    BY <1>2 DEF FillMore, peerVars
  <2>2. finals' = finals /\ (Upgraded' <=> Upgraded)
    BY <2>1, OutSteps DEF LoopInv
  <2>3. request_count <= Len(reqs)
    BY <1>2 DEF LoopInv, StreamInv, CountInv
  <2>4. CountInv'
    BY <1>0, <2>1, <2>3 DEF LoopInv, StreamInv, CountInv, InRequest
  <2>5. 1 \in DOMAIN unread /\ (~Upgraded => unread[1].id = request_count + 1)
    BY <1>0, <1>2
       DEF LoopInv, StreamInv, ChainInv, Expected, InRequest, PlaceOf, Place
  <2>6. ChainInv'
    <3>1. Expected' = Expected
      BY <1>2, <2>1 DEF Expected, InRequest
    <3>2. PeerNext' = PeerNext /\ \A i : After(PlaceOf(unread[i]))' = After(PlaceOf(unread[i]))
      BY <1>0, <2>1 DEF PeerNext, After, PlaceOf, Place
    <3> QED
      BY <1>0, <1>2, <2>1, <2>2, <3>1, <3>2 DEF LoopInv, StreamInv, ChainInv
  <2>7. HeadsInv'
    <3> SUFFICES ASSUME NEW i \in DOMAIN unread, unread[i].kind = "head", i # 1
                 PROVE  unread[i].id > request_count + 1
      BY <1>0, <2>1 DEF LoopInv, StreamInv, HeadsInv
    <3>1. ~Upgraded
      BY <1>2 DEF LoopInv, UpgradeInv
    <3>2. 1 < i
      BY <1>0
    <3>3. unread[1].id < unread[i].id
      BY <2>5, <3>2 DEF LoopInv, StreamInv, HeadsInv
    <3>4. unread[i].id \in 1..Len(reqs)
      BY DEF LoopInv, StreamInv, HeadsInv
    <3> QED
      BY <1>0, <2>5, <3>1, <3>3, <3>4
  <2>8. PendingInv'
    BY <1>0, <1>2, <2>1 DEF LoopInv, StreamInv, PendingInv
  <2>9. UpgradeInv'
    BY <1>0, <1>2, <2>1, <2>2 DEF LoopInv, UpgradeInv, InRequest
  <2>10. OutInv' /\ WaitInv' /\ SpokenInv'
    <3>1. \A i \in DOMAIN out : out[i].id \in 1..Len(reqs) /\ out[i].id <= request_count
      BY <1>2, OutIds DEF LoopInv, ReplyInv, OutInv
    <3> QED
      BY <1>0, <2>1, <3>1 DEF LoopInv, ReplyInv, OutInv, WaitInv, SpokenInv, InRequest
  <2>11. FinalsInv' /\ LastInv' /\ LimitInv'
    <3>1. FinalsInv'
      BY <1>0, <1>2, <2>1, <2>2 DEF LoopInv, ReplyInv, FinalsInv, InRequest
    <3>2. LastInv'
      BY <1>2, <2>1, <2>2, Zenon DEF LoopInv, ReplyInv, LastInv
    <3>3. LimitInv'
      <4>1. MaxCount # 0 => request_count + 1 <= MaxCount
        BY <1>0, <1>2, RequestLoopAssumption DEF LoopInv, ReplyInv, LimitInv
      <4> QED
        BY <2>1, <2>2, <4>1 DEF LoopInv, ReplyInv, LimitInv, InRequest
    <3> QED
      BY <3>1, <3>2, <3>3
  <2> QED
    BY <2>4, <2>6, <2>7, <2>8, <2>9, <2>10, <2>11 DEF LoopInv, StreamInv, ReplyInv
<1> QED
  BY <1>1, <1>2

\* The stream is not touched, and the loop still expects what it expected.
LEMMA StayStep ==
  ASSUME LoopInv, UNCHANGED <<reqs, owed, wire, buf, request_count>>,
         phase # "closed", phase # "parse",
         Upgraded => Upgraded', Expected' = Expected
  PROVE  ChainInv' /\ HeadsInv' /\ PendingInv'
<1>1. unread' = unread
  BY UnreadSteps DEF LoopInv
<1>2. HeadsInv' /\ PendingInv'
  BY <1>1, Zenon DEF LoopInv, StreamInv, HeadsInv, PendingInv
<1>3. ChainInv'
  <2>1. PeerNext' = PeerNext /\ \A i : After(PlaceOf(unread[i]))' = After(PlaceOf(unread[i]))
    BY <1>1 DEF PeerNext, After, PlaceOf, Place
  <2> QED
    BY <1>1, <2>1 DEF LoopInv, StreamInv, ChainInv
<1> QED
  BY <1>2, <1>3

\* One unit is taken from the stream, and the loop expects the one after it.
LEMMA TakeStep ==
  ASSUME LoopInv, UNCHANGED <<reqs, owed, wire, out, request_count>>,
         buf # <<>>, buf' = Tail(buf), phase # "closed",
         unread[1].kind = "head" => unread[1].id <= request_count,
         ~Upgraded => Expected' = After(Expected)
  PROVE  /\ ChainInv' /\ HeadsInv' /\ PendingInv'
         /\ unread # <<>> /\ unread' = Tail(unread)
<1> DEFINE m == Len(unread)
<1>0. /\ unread \in Seq(UnitType) /\ unread # <<>> /\ unread' = Tail(unread)
      /\ Len(reqs) \in Nat /\ request_count \in Nat
      /\ \A i \in DOMAIN unread : unread[i].id \in 1..Len(reqs)
  BY Types, UnreadSteps DEF LoopInv, StreamInv, HeadsInv
<1>1. /\ m \in Nat /\ m >= 1 /\ Len(unread') = m - 1
      /\ DOMAIN unread = 1..m /\ DOMAIN unread' = 1..(m - 1)
      /\ \A i \in 1..(m - 1) : unread'[i] = unread[i + 1]
      /\ \A i \in 1..(m - 1) : i + 1 \in 1..m
  BY <1>0
<1>2. HeadsInv'
  <2>1. \A i \in DOMAIN unread' : unread'[i].id \in 1..Len(reqs)
    BY <1>0, <1>1
  <2>2. ASSUME NEW i \in DOMAIN unread', NEW j \in DOMAIN unread', i < j,
               unread'[j].kind = "head"
        PROVE  unread'[i].id < unread'[j].id
    <3>1. i + 1 \in DOMAIN unread /\ j + 1 \in DOMAIN unread /\ i + 1 < j + 1
      BY <1>1, <2>2
    <3>2. unread[j + 1].kind = "head"
      BY <1>1, <2>2
    <3>3. unread[i + 1].id < unread[j + 1].id
      BY <3>1, <3>2 DEF LoopInv, StreamInv, HeadsInv
    <3> QED
      BY <1>1, <3>3
  <2>3. ASSUME NEW i \in DOMAIN unread', unread'[i].kind = "head"
        PROVE  unread'[i].id > request_count
    <3>1. i + 1 \in DOMAIN unread /\ i + 1 # 1 /\ unread[i + 1].kind = "head"
      BY <1>1, <2>3
    <3>2. unread[i + 1].id > request_count
      BY <3>1 DEF LoopInv, StreamInv, HeadsInv
    <3> QED
      BY <1>1, <3>2
  <2> QED
    BY <2>1, <2>2, <2>3, Zenon DEF HeadsInv
<1>3. PendingInv'
  <2> SUFFICES ASSUME NEW id \in 1..Len(reqs), id > request_count
               PROVE  \E i \in DOMAIN unread' : unread'[i].kind = "head" /\ unread'[i].id = id
    BY DEF PendingInv
  <2>1. PICK j \in DOMAIN unread : unread[j].kind = "head" /\ unread[j].id = id
    BY DEF LoopInv, StreamInv, PendingInv
  <2>2. j # 1
    BY <1>0, <2>1
  <2>3. j - 1 \in DOMAIN unread' /\ unread'[j - 1] = unread[j]
    BY <1>1, <2>2
  <2> QED
    BY <2>1, <2>3
<1>4. ChainInv'
  <2>1. Upgraded' <=> Upgraded
    BY OutSteps DEF LoopInv
  <2> SUFFICES ASSUME ~Upgraded
               PROVE  /\ \A i \in DOMAIN unread' :
                           unread'[i].kind = IF unread'[i].at = 0 THEN "head" ELSE "body"
                      /\ Expected' = IF unread' = <<>> THEN PeerNext' ELSE PlaceOf(unread'[1])
                      /\ \A i \in DOMAIN unread' :
                           After(PlaceOf(unread[i]))' =
                             IF i = Len(unread') THEN PeerNext' ELSE PlaceOf(unread'[i + 1])
    BY <2>1, Zenon DEF ChainInv, PlaceOf, Place
  <2>2. /\ \A i \in DOMAIN unread : unread[i].kind = IF unread[i].at = 0 THEN "head" ELSE "body"
        /\ Expected = PlaceOf(unread[1])
        /\ \A i \in DOMAIN unread :
             After(PlaceOf(unread[i])) =
               IF i = m THEN PeerNext ELSE PlaceOf(unread[i + 1])
    BY <1>0 DEF LoopInv, StreamInv, ChainInv
  <2>3. /\ PeerNext' = PeerNext
        /\ \A i \in DOMAIN unread' : After(PlaceOf(unread[i]))' = After(PlaceOf(unread[i + 1]))
    BY <1>1 DEF PeerNext, After, PlaceOf, Place
  <2>4. Expected' = IF unread' = <<>> THEN PeerNext' ELSE PlaceOf(unread'[1])
    <3>1. unread' = <<>> <=> m = 1
      BY <1>0, <1>1
    <3>2. Expected' = IF m = 1 THEN PeerNext ELSE PlaceOf(unread[2])
      BY <1>1, <2>2
    <3>3. m # 1 => unread'[1] = unread[2]
      BY <1>1
    <3> QED
      BY <2>3, <3>1, <3>2, <3>3
  <2>5. ASSUME NEW i \in DOMAIN unread'
        PROVE  After(PlaceOf(unread[i]))' =
                 IF i = Len(unread') THEN PeerNext' ELSE PlaceOf(unread'[i + 1])
    <3>1. i + 1 \in DOMAIN unread /\ (i = Len(unread') <=> i + 1 = m)
      BY <1>1
    <3>2. i # Len(unread') => unread'[i + 1] = unread[i + 1 + 1]
      BY <1>1
    <3> QED
      BY <2>2, <2>3, <3>1, <3>2
  <2>6. \A i \in DOMAIN unread' :
          unread'[i].kind = IF unread'[i].at = 0 THEN "head" ELSE "body"
    BY <1>1, <2>2
  <2> QED
    BY <2>4, <2>5, <2>6
<1> QED
  BY <1>0, <1>2, <1>3, <1>4

\* A unit of the body is consumed, by the handler or by the drain.
LEMMA ConsumeStep ==
  ASSUME LoopInv, phase \in {"handler", "drain"}, phase' \in InRequest,
         ConsumeBody, UNCHANGED <<reqs, owed, wire, out, request_count>>
  PROVE  /\ ChainInv' /\ HeadsInv' /\ PendingInv'
         /\ unread # <<>> /\ unread' = Tail(unread)
<1>0. /\ request_count \in 1..Len(reqs) /\ Units(cur) \in Nat /\ left \in Nat
      /\ left <= Units(cur) /\ cur' = cur /\ request_count \in Nat
      /\ buf # <<>> /\ unread # <<>> /\ unread[1] = Head(buf) /\ unread \in Seq(UnitType)
  BY ServedFacts, Types, UnreadSteps
     DEF LoopInv, StreamInv, CountInv, InRequest, cur, ConsumeBody
<1>1. left > 0 /\ left' = left - 1 /\ buf' = Tail(buf)
  BY DEF ConsumeBody
<1> DEFINE place == Units(cur) - left + 1
<1>2. place \in Nat /\ place >= 1 /\ Expected = Place(request_count, place)
  BY <1>0, <1>1 DEF Expected, InRequest
<1>3. Expected' = After(Expected)
  <2>1. After(Expected) = IF place < Units(cur) THEN Place(request_count, place + 1)
                          ELSE Place(request_count + 1, 0)
    BY <1>2 DEF After, Place, cur
  <2>2. Expected' = IF left - 1 > 0 THEN Place(request_count, Units(cur) - (left - 1) + 1)
                    ELSE Place(request_count + 1, 0)
    BY <1>0, <1>1 DEF Expected, InRequest
  <2>3. /\ place < Units(cur) <=> left - 1 > 0
        /\ place + 1 = Units(cur) - (left - 1) + 1
    BY <1>0, <1>1
  <2> QED
    BY <2>1, <2>2, <2>3
<1>4. unread[1].kind # "head"
  <2>1. CASE Upgraded
    BY <1>0, <2>1 DEF LoopInv, UpgradeInv
  <2>2. CASE ~Upgraded
    <3>1. /\ unread[1].kind = IF unread[1].at = 0 THEN "head" ELSE "body"
          /\ PlaceOf(unread[1]) = Place(request_count, place)
      BY <1>0, <1>2, <2>2 DEF LoopInv, StreamInv, ChainInv
    <3> QED
      BY <1>2, <3>1 DEF PlaceOf, Place
  <2> QED
    BY <2>1, <2>2
<1> QED
  BY <1>0, <1>1, <1>3, <1>4, TakeStep

\* Within a request nothing is written and nothing asked.
LEMMA QuietStep ==
  ASSUME LoopInv, phase \in InRequest, phase' \in InRequest,
         phase' = "handler" => phase = "handler",
         UNCHANGED <<reqs, out, request_count, headers_written, expects_continue>>,
         keepalive' => keepalive,
         unread' = unread \/ (unread # <<>> /\ unread' = Tail(unread))
  PROVE  UpgradeInv' /\ ReplyInv'
<1>1. finals' = finals /\ (Upgraded' <=> Upgraded) /\ cur' = cur
  BY OutSteps DEF LoopInv, cur
<1>2. /\ phase # "closed" /\ phase # "parse" /\ phase # "idle"
      /\ phase' # "closed" /\ phase' # "parse" /\ phase' # "idle"
  BY DEF InRequest
<1>3. UpgradeInv'
  <2>1. (\A i \in DOMAIN unread : unread[i].kind # "head")
          => \A i \in DOMAIN unread' : unread'[i].kind # "head"
    <3>1. unread \in Seq(UnitType)
      BY Types DEF LoopInv
    <3>2. CASE unread' = unread
      BY <3>2
    <3>3. CASE unread # <<>> /\ unread' = Tail(unread)
      <4>1. \A i \in DOMAIN unread' : i + 1 \in DOMAIN unread /\ unread'[i] = unread[i + 1]
        BY <3>1, <3>3
      <4> QED
        BY <4>1
    <3> QED
      BY <3>2, <3>3
  <2> QED
    BY <1>1, <1>2, <2>1, Zenon DEF LoopInv, UpgradeInv
<1>4. OutInv' /\ WaitInv' /\ SpokenInv'
  BY <1>1, <1>2, Zenon DEF LoopInv, ReplyInv, OutInv, WaitInv, SpokenInv
<1>5. FinalsInv' /\ LastInv'
  BY <1>1, <1>2, Zenon DEF LoopInv, ReplyInv, FinalsInv, LastInv
<1>6. LimitInv'
  BY <1>1, <1>2, Zenon DEF LoopInv, ReplyInv, LimitInv
<1> QED
  BY <1>3, <1>4, <1>5, <1>6 DEF ReplyInv

LEMMA HandlerReadsStep ==
  ASSUME LoopInv, TypeOK', HandlerReads
  PROVE  LoopInv'
<1>1. /\ phase = "handler" /\ phase' = "handler" /\ ConsumeBody
      /\ UNCHANGED <<reqs, owed, wire, out, request_count, expects_continue,
                     keepalive, headers_written>>
  BY Zenon DEF HandlerReads, peerVars
<1>2. /\ ChainInv' /\ HeadsInv' /\ PendingInv'
      /\ unread # <<>> /\ unread' = Tail(unread)
  BY <1>1, ConsumeStep DEF InRequest
<1>3. UpgradeInv' /\ ReplyInv'
  BY <1>1, <1>2, QuietStep DEF InRequest
<1>4. CountInv'
  BY <1>1, ServedFacts, Types
     DEF LoopInv, StreamInv, CountInv, InRequest, cur, ConsumeBody
<1> QED
  BY <1>2, <1>3, <1>4 DEF LoopInv, StreamInv

LEMMA DrainBodyStep ==
  ASSUME LoopInv, TypeOK', DrainBody
  PROVE  LoopInv'
<1>1. /\ phase = "drain" /\ phase' \in {"respond", "drain"} /\ ConsumeBody
      /\ phase' = IF left = 1 THEN "respond" ELSE "drain"
      /\ UNCHANGED <<reqs, owed, wire, out, request_count, expects_continue,
                     keepalive, headers_written>>
  BY DEF DrainBody, peerVars
<1>2. /\ ChainInv' /\ HeadsInv' /\ PendingInv'
      /\ unread # <<>> /\ unread' = Tail(unread)
  BY <1>1, ConsumeStep DEF InRequest
<1>3. UpgradeInv' /\ ReplyInv'
  BY <1>1, <1>2, QuietStep DEF InRequest
<1>4. CountInv'
  BY <1>1, ServedFacts, Types
     DEF LoopInv, StreamInv, CountInv, InRequest, cur, ConsumeBody
<1> QED
  BY <1>2, <1>3, <1>4 DEF LoopInv, StreamInv

LEMMA HandlerReceivesStep ==
  ASSUME LoopInv, TypeOK', HandlerReceives
  PROVE  LoopInv'
<1>1. /\ phase = "handler" /\ phase' = "handler" /\ Upgraded
      /\ buf # <<>> /\ buf' = Tail(buf)
      /\ UNCHANGED <<reqs, owed, wire, out, request_count, left, expects_continue,
                     keepalive, headers_written>>
  BY Zenon DEF HandlerReceives, peerVars, requestVars
<1>2. unread[1].kind # "head"
  <2>1. unread \in Seq(UnitType) /\ unread # <<>>
    BY <1>1, Types, UnreadSteps DEF LoopInv
  <2> QED
    BY <1>1, <2>1 DEF LoopInv, UpgradeInv
<1>3. /\ ChainInv' /\ HeadsInv' /\ PendingInv'
      /\ unread # <<>> /\ unread' = Tail(unread)
  BY <1>1, <1>2, TakeStep
<1>4. UpgradeInv' /\ ReplyInv'
  BY <1>1, <1>3, QuietStep DEF InRequest
<1>5. CountInv'
  BY <1>1 DEF LoopInv, StreamInv, CountInv, InRequest, cur
<1> QED
  BY <1>3, <1>4, <1>5 DEF LoopInv, StreamInv

LEMMA HandlerReturnsStep ==
  ASSUME LoopInv, TypeOK', HandlerReturns
  PROVE  LoopInv'
<1>1. /\ phase = "handler" /\ phase' \in {"drain", "respond"}
      /\ phase' = IF left > 0 /\ Drainable(cur) THEN "drain" ELSE "respond"
      /\ UNCHANGED <<reqs, owed, wire, buf, out, request_count, left, expects_continue,
                     headers_written>>
  BY DEF HandlerReturns, peerVars, streamVars
<1>2. keepalive' => keepalive /\ (left > 0 => Drainable(cur))
  BY Zenon DEF HandlerReturns
<1>3. unread' = unread /\ (Upgraded' <=> Upgraded) /\ cur' = cur
  BY <1>1, UnreadSteps, OutSteps DEF LoopInv, cur
<1>4. Expected' = Expected
  BY <1>1, <1>3 DEF Expected, InRequest
<1>5. ChainInv' /\ HeadsInv' /\ PendingInv'
  BY <1>1, <1>3, <1>4, StayStep
<1>6. UpgradeInv' /\ ReplyInv'
  BY <1>1, <1>2, <1>3, QuietStep DEF InRequest
<1>7. CountInv'
  <2>1. phase' = "respond" /\ keepalive' => left' = 0
    BY <1>1, <1>2, Types DEF LoopInv
  <2> QED
    BY <1>1, <1>3, <2>1 DEF LoopInv, StreamInv, CountInv, InRequest
<1> QED
  BY <1>5, <1>6, <1>7 DEF LoopInv, StreamInv

LEMMA DrainFailsStep ==
  ASSUME LoopInv, TypeOK', DrainFails
  PROVE  LoopInv'
<1>1. /\ phase = "drain" /\ phase' = "respond"
      /\ UNCHANGED <<reqs, owed, wire, buf, out, request_count, left, expects_continue,
                     headers_written>>
  BY DEF DrainFails, peerVars, streamVars
<1>2. ~keepalive'
  BY Zenon DEF DrainFails
<1>3. unread' = unread /\ (Upgraded' <=> Upgraded) /\ cur' = cur
  BY <1>1, UnreadSteps, OutSteps DEF LoopInv, cur
<1>4. Expected' = Expected
  BY <1>1, <1>3 DEF Expected, InRequest
<1>5. ChainInv' /\ HeadsInv' /\ PendingInv'
  BY <1>1, <1>3, <1>4, StayStep
<1>6. UpgradeInv' /\ ReplyInv'
  BY <1>1, <1>2, <1>3, QuietStep DEF InRequest
<1>7. CountInv'
  BY <1>1, <1>2, <1>3 DEF LoopInv, StreamInv, CountInv, InRequest
<1> QED
  BY <1>5, <1>6, <1>7 DEF LoopInv, StreamInv

\* What a final response adds to what was written.
LEMMA FinalStep ==
  ASSUME LoopInv, phase # "closed", NEW e \in ReplyType, out' = Append(out, e),
         e.id = request_count, e.kind \in {"101", "final"}, ~Upgraded,
         reqs' = reqs, request_count \in 1..Len(reqs),
         Len(finals) = request_count - 1,
         MaxCount # 0 /\ request_count = MaxCount => ~e.ka
  PROVE  /\ \A i \in DOMAIN out' : out'[i].id \in 1..Len(reqs) /\ out'[i].id <= request_count
         /\ WaitInv' /\ SpokenInv'
         /\ Len(finals') = request_count /\ \A i \in DOMAIN finals' : finals'[i].id = i
         /\ (\A i \in DOMAIN finals : finals[i].ka) /\ e.ka =>
              \A i \in DOMAIN finals' : finals'[i].ka
         /\ MaxCount # 0 =>
              \A i \in DOMAIN finals' : finals'[i].id = MaxCount => ~finals'[i].ka
         /\ Upgraded' <=> e.kind = "101"
<1>0. /\ out \in Seq(ReplyType) /\ finals \in Seq(ReplyType)
      /\ Len(reqs) \in Nat /\ request_count \in Nat
      /\ \A i \in DOMAIN out : out[i].id \in 1..Len(reqs) /\ out[i].id <= request_count
  BY Types, FinalsType, OutIds DEF LoopInv, ReplyInv, OutInv
<1>1. finals' = Append(finals, e) /\ (Upgraded' <=> e.kind = "101")
  BY OutSteps DEF LoopInv
<1>2. /\ Len(out') = Len(out) + 1 /\ out'[Len(out) + 1] = e
      /\ \A i \in DOMAIN out : out'[i] = out[i]
      /\ DOMAIN out' = 1..(Len(out) + 1) /\ DOMAIN out = 1..Len(out)
      /\ Len(out) \in Nat
  BY <1>0, AppendFacts
<1>3. /\ Len(finals') = Len(finals) + 1 /\ finals'[Len(finals) + 1] = e
      /\ \A i \in DOMAIN finals : finals'[i] = finals[i]
      /\ DOMAIN finals' = 1..(Len(finals) + 1) /\ DOMAIN finals = 1..Len(finals)
      /\ Len(finals) \in Nat
  BY <1>0, <1>1, AppendFacts
<1>4. /\ \A i \in DOMAIN out' : i = Len(out) + 1 \/ i \in DOMAIN out
      /\ \A i \in DOMAIN finals' : i = Len(finals) + 1 \/ i \in DOMAIN finals
  BY <1>2, <1>3
<1>5. \A i \in DOMAIN out' : out'[i].id \in 1..Len(reqs) /\ out'[i].id <= request_count
  BY <1>0, <1>2, <1>4
<1>6. WaitInv'
  <2>1. \A i \in DOMAIN out : i \in DOMAIN out' /\ out'[i] = out[i]
    BY <1>2
  <2> QED
    BY <2>1, Zenon DEF LoopInv, ReplyInv, WaitInv
<1>7. SpokenInv'
  <2>1. \A i \in DOMAIN out' : out'[i].kind = "101" => i = Len(out')
    BY <1>2, <1>4 DEF Upgraded
  <2>2. \A i \in DOMAIN out' : out'[i].kind = "100" => i \in DOMAIN out /\ out'[i] = out[i]
    BY <1>2, <1>4
  <2>3. ASSUME NEW i \in DOMAIN out', out'[i].kind = "100"
        PROVE  /\ reqs'[out'[i].id].expect = "continue"
               /\ \A j \in DOMAIN out' :
                    out'[j].kind = "100" /\ out'[j].id = out'[i].id => i = j
    BY <2>2, <2>3 DEF LoopInv, ReplyInv, SpokenInv
  <2> QED
    BY <2>1, <2>3, Zenon DEF SpokenInv
<1>8. Len(finals') = request_count /\ \A i \in DOMAIN finals' : finals'[i].id = i
  <2>1. Len(finals) + 1 = request_count
    BY <1>0, <1>3
  <2> QED
    BY <1>3, <1>4, <2>1 DEF LoopInv, ReplyInv, FinalsInv
<1>9. (\A i \in DOMAIN finals : finals[i].ka) /\ e.ka => \A i \in DOMAIN finals' : finals'[i].ka
  BY <1>3, <1>4, Zenon
<1>10. ASSUME MaxCount # 0, NEW i \in DOMAIN finals', finals'[i].id = MaxCount
       PROVE  ~finals'[i].ka
  <2>1. CASE i = Len(finals) + 1
    BY <1>3, <1>10, <2>1, Zenon
  <2>2. CASE i \in DOMAIN finals
    BY <1>3, <1>10, <2>2, Zenon DEF LoopInv, ReplyInv, LimitInv
  <2> QED
    BY <1>4, <2>1, <2>2
<1> QED
  BY <1>1, <1>5, <1>6, <1>7, <1>8, <1>9, <1>10, Zenon

\* The task ends and leaves the stream as it is.
LEMMA EndStep ==
  ASSUME LoopInv, phase' = "closed", UNCHANGED <<reqs, owed, wire, buf, request_count>>
  PROVE  StreamInv' /\ UpgradeInv'
<1>1. unread' = unread
  BY UnreadSteps DEF LoopInv
<1> QED
  BY <1>1 DEF LoopInv, StreamInv, CountInv, ChainInv, HeadsInv, PendingInv,
              UpgradeInv, InRequest

LEMMA ParseHeadersStep ==
  ASSUME LoopInv, TypeOK', ParseHeaders
  PROVE  LoopInv'
<1>0. /\ phase = "parse" /\ buf # <<>> /\ Head(buf).kind = "head"
      /\ ~Upgraded /\ unread # <<>> /\ unread[1] = Head(buf)
      /\ Head(buf).id = request_count /\ Head(buf).at = 0
      /\ request_count \in 1..Len(reqs) /\ Len(reqs) \in 0..MaxRequests
      /\ reqs[Head(buf).id] = cur /\ cur \in Request /\ Units(cur) \in Nat
      /\ request_count \in Nat
  BY ParseFacts, Types DEF ParseHeaders, LoopInv
<1>1. Len(finals) = request_count - 1
  BY <1>0 DEF LoopInv, ReplyInv, FinalsInv
<1>2. CASE cur.expect = "other"
  <2>1. /\ UNCHANGED <<reqs, owed, wire, buf, request_count>>
        /\ phase' = "closed"
        /\ out' = Append(out, Reply(request_count, "final", FALSE))
    BY <1>0, <1>2, Zenon DEF ParseHeaders, EndTask, peerVars, streamVars
  <2>2. PICK e \in ReplyType : e.id = request_count /\ e.kind = "final" /\ ~e.ka
                                 /\ out' = Append(out, e)
    <3> DEFINE f == Reply(request_count, "final", FALSE)
    <3>1. f \in ReplyType /\ f.id = request_count /\ f.kind = "final"
      BY <1>0, RequestLoopAssumption DEF Reply, ReplyType
    <3>2. ~f.ka
      BY Zenon DEF Reply
    <3> QED
      BY <2>1, <3>1, <3>2, Zenon
  <2>3. /\ \A i \in DOMAIN out' : out'[i].id \in 1..Len(reqs)
        /\ WaitInv' /\ SpokenInv'
        /\ \A i \in DOMAIN finals' : finals'[i].id = i
        /\ MaxCount # 0 =>
             \A i \in DOMAIN finals' : finals'[i].id = MaxCount => ~finals'[i].ka
    BY <1>0, <1>1, <2>1, <2>2, FinalStep
  <2>4. OutInv' /\ FinalsInv' /\ LastInv'
    <3>1. OutInv'
      <4>1. \A i \in DOMAIN out' : out'[i].id <= Len(reqs')
        <5>1. reqs' = reqs /\ \A i \in DOMAIN out' : out'[i].id \in 1..Len(reqs)
          BY <2>1, <2>3, Zenon
        <5> QED
          BY <1>0, <5>1
      <4> QED
        BY <2>1, <4>1, Zenon DEF OutInv, InRequest
    <3>2. FinalsInv' /\ LastInv'
      BY <2>1, <2>3, Zenon DEF FinalsInv, LastInv, InRequest
    <3> QED
      BY <3>1, <3>2
  <2>5. LimitInv'
    BY <2>1, <2>3, Zenon DEF LoopInv, ReplyInv, LimitInv, InRequest
  <2> QED
    BY <2>1, <2>3, <2>4, <2>5, EndStep DEF LoopInv, ReplyInv
<1>3. CASE cur.expect # "other"
  <2>1. /\ UNCHANGED <<reqs, owed, wire, out, request_count>>
        /\ phase' = "handler" /\ buf' = Tail(buf) /\ left' = Units(cur)
    BY <1>0, <1>3, Zenon DEF ParseHeaders, peerVars
  <2>2. /\ expects_continue' => cur.expect = "continue"
        /\ keepalive' => KeepaliveAllowed(cur)
        /\ ~headers_written'
    BY <1>0, <1>3, Zenon DEF ParseHeaders
  <2>3. cur' = cur /\ finals' = finals /\ (Upgraded' <=> Upgraded)
    BY <2>1, OutSteps DEF cur, LoopInv
  <2>4. Expected' = After(Expected)
    <3>1. Expected = Place(request_count, 0)
      BY <1>0 DEF Expected
    <3>2. After(Expected) = IF 0 < Units(cur) THEN Place(request_count, 1)
                            ELSE Place(request_count + 1, 0)
      BY <3>1 DEF After, Place, cur
    <3>3. Expected' = IF Units(cur) > 0 THEN Place(request_count, Units(cur) - Units(cur) + 1)
                      ELSE Place(request_count + 1, 0)
      BY <2>1, <2>3 DEF Expected, InRequest
    <3> QED
      BY <1>0, <3>2, <3>3
  <2>5. ChainInv' /\ HeadsInv' /\ PendingInv'
    BY <1>0, <2>1, <2>4, TakeStep
  <2>6. CountInv'
    BY <1>0, <2>1, <2>3 DEF LoopInv, StreamInv, CountInv, InRequest
  <2>7. UpgradeInv'
    BY <1>0, <2>3 DEF UpgradeInv
  <2>8. OutInv' /\ WaitInv' /\ SpokenInv'
    <3>1. \A i \in DOMAIN out : out[i].id < request_count /\ out[i].id \in 1..Len(reqs)
      BY <1>0, OutIds DEF LoopInv, ReplyInv, OutInv
    <3>2. OutInv'
      BY <1>0, <2>1, <2>2, <2>3, <3>1 DEF OutInv
    <3> QED
      BY <2>1, <3>2 DEF LoopInv, ReplyInv, WaitInv, SpokenInv
  <2>9. FinalsInv' /\ LastInv'
    <3>1. FinalsInv'
      BY <1>1, <2>1, <2>2, <2>3 DEF LoopInv, ReplyInv, FinalsInv, InRequest
    <3>2. LastInv'
      BY <1>0, <2>3, Zenon DEF LoopInv, ReplyInv, LastInv
    <3> QED
      BY <3>1, <3>2
  <2>10. LimitInv'
    <3>1. MaxCount # 0 /\ keepalive' => request_count < MaxCount
      BY <2>2, Zenon DEF KeepaliveAllowed
    <3> QED
      BY <2>1, <2>3, <3>1, Zenon DEF LoopInv, ReplyInv, LimitInv
  <2> QED
    BY <2>5, <2>6, <2>7, <2>8, <2>9, <2>10 DEF LoopInv, StreamInv, ReplyInv
<1> QED
  BY <1>2, <1>3

LEMMA HandlerFirstReadStep ==
  ASSUME LoopInv, TypeOK', HandlerFirstRead
  PROVE  LoopInv'
<1>0. /\ phase = "handler" /\ phase' = "handler"
      /\ UNCHANGED <<reqs, owed, wire, buf, request_count, left, keepalive, headers_written>>
      /\ expects_continue /\ ~expects_continue'
      /\ out' = Append(out, Reply(request_count, "100", TRUE))
  BY Zenon DEF HandlerFirstRead, peerVars, streamVars
<1>1. /\ request_count \in 1..Len(reqs) /\ Len(reqs) \in Nat /\ request_count \in Nat
      /\ out \in Seq(ReplyType)
      /\ Reply(request_count, "100", TRUE) \in ReplyType
  <2>1. phase \in InRequest
    BY <1>0, Zenon DEF InRequest
  <2>2. Reply(request_count, "100", TRUE) \in ReplyType
    BY <2>1, ServedFacts
  <2>3. /\ request_count \in 1..Len(reqs) /\ Len(reqs) \in Nat /\ request_count \in Nat
        /\ out \in Seq(ReplyType)
    BY <2>1, ServedFacts, Types DEF LoopInv
  <2> QED
    BY <2>2, <2>3, Zenon
<1>2. PICK e \in ReplyType : e.id = request_count /\ e.kind = "100" /\ out' = Append(out, e)
  <2>1. /\ Reply(request_count, "100", TRUE).id = request_count
        /\ Reply(request_count, "100", TRUE).kind = "100"
    BY DEF Reply
  <2> QED
    BY <1>0, <1>1, <2>1, Zenon
<1>3. ~Upgraded
  BY <1>0, Zenon DEF LoopInv, UpgradeInv
<1>4. finals' = finals /\ ~Upgraded'
  BY <1>2, <1>3, OutSteps DEF LoopInv
<1>5. /\ \A i \in DOMAIN out : out'[i] = out[i] /\ i \in DOMAIN out'
      /\ \A i \in DOMAIN out' : i \in DOMAIN out \/ i = Len(out) + 1
      /\ out'[Len(out) + 1] = e /\ Len(out') = Len(out) + 1
      /\ Len(out) \in Nat /\ DOMAIN out = 1..Len(out)
  BY <1>1, <1>2, AppendFacts
<1>6. /\ cur' = cur /\ cur.expect = "continue"
      /\ \A i \in DOMAIN out : out[i].id = request_count => out[i].kind # "100"
  <2>1. cur' = cur
    BY <1>0, Zenon DEF cur
  <2> QED
    BY <1>0, <2>1, Zenon DEF LoopInv, ReplyInv, OutInv
<1>7. Expected' = Expected
  <2>1. UNCHANGED <<phase, request_count, left, cur>>
    BY <1>0, <1>6, Zenon
  <2> QED
    BY <2>1 DEF Expected
<1>8. ChainInv' /\ HeadsInv' /\ PendingInv'
  <2>1. /\ UNCHANGED <<reqs, owed, wire, buf, request_count>>
        /\ phase # "closed" /\ phase # "parse"
    BY <1>0, Zenon
  <2> QED
    BY <1>3, <1>7, <2>1, StayStep
<1>9. CountInv'
  BY <1>0, <1>6, Zenon DEF LoopInv, StreamInv, CountInv, InRequest
<1>10. UpgradeInv'
  BY <1>4 DEF UpgradeInv
<1>11. OutInv'
  <2>1. \A i \in DOMAIN out' : out'[i].id <= Len(reqs) /\ out'[i].id <= request_count
    <3>1. \A i \in DOMAIN out : out[i].id <= Len(reqs) /\ out[i].id <= request_count
      BY <1>0, Zenon DEF LoopInv, ReplyInv, OutInv
    <3> QED
      BY <1>1, <1>2, <1>5, <3>1
  <2>2. ~headers_written => \A i \in DOMAIN out' : out'[i].id = request_count =>
                              out'[i].kind = "100"
    <3>1. ~headers_written => \A i \in DOMAIN out : out[i].id = request_count =>
                                out[i].kind = "100"
      BY <1>0, Zenon DEF LoopInv, ReplyInv, OutInv, InRequest
    <3> QED
      BY <1>2, <1>5, <3>1, Zenon
  <2> QED
    BY <1>0, <2>1, <2>2, Zenon DEF OutInv
<1>12. WaitInv'
  BY <1>0, <1>5, Zenon DEF LoopInv, ReplyInv, WaitInv
<1>13. SpokenInv'
  <2>1. \A i \in DOMAIN out' : out'[i].kind = "101" => i = Len(out')
    BY <1>2, <1>3, <1>5 DEF Upgraded
  <2>2. ASSUME NEW i \in DOMAIN out', out'[i].kind = "100"
        PROVE  /\ reqs[out'[i].id].expect = "continue"
               /\ \A j \in DOMAIN out' :
                    out'[j].kind = "100" /\ out'[j].id = out'[i].id => i = j
    <3>1. CASE i = Len(out) + 1
      BY <1>2, <1>5, <1>6, <3>1 DEF cur
    <3>2. CASE i \in DOMAIN out
      <4>1. out'[i] = out[i] /\ out[i].kind = "100"
        BY <1>5, <2>2, <3>2
      <4>2. out[i].id # request_count
        BY <1>6, <3>2, <4>1
      <4> QED
        BY <1>2, <1>5, <3>2, <4>1, <4>2 DEF LoopInv, ReplyInv, SpokenInv
    <3> QED
      BY <1>5, <3>1, <3>2
  <2>3. reqs' = reqs
    BY <1>0, Zenon
  <2> QED
    BY <2>1, <2>2, <2>3, Zenon DEF SpokenInv
<1>14. FinalsInv' /\ LastInv' /\ LimitInv'
  BY <1>0, <1>4, Zenon DEF LoopInv, ReplyInv, FinalsInv, LastInv, LimitInv, InRequest
<1> QED
  BY <1>8, <1>9, <1>10, <1>11, <1>12, <1>13, <1>14 DEF LoopInv, StreamInv, ReplyInv

\* The handler's response head goes out: the reply to the request in hand.
LEMMA HandlerHeadStep ==
  ASSUME LoopInv, TypeOK', NEW e \in ReplyType, out' = Append(out, e),
         e.id = request_count, e.kind \in {"101", "final"},
         phase = "handler", ~headers_written, headers_written',
         UNCHANGED <<reqs, owed, wire, buf, phase, request_count, left, expects_continue>>,
         keepalive' => keepalive, keepalive' => e.ka, e.ka => keepalive,
         e.kind = "101" =>
           /\ Len(reqs) <= request_count /\ ~expects_continue
           /\ \A i \in DOMAIN unread : unread[i].kind # "head"
  PROVE  LoopInv'
<1>0. /\ request_count \in 1..Len(reqs) /\ Len(reqs) \in Nat /\ request_count \in Nat
      /\ cur' = cur /\ out \in Seq(ReplyType) /\ phase \in InRequest /\ phase' \in InRequest
  BY ServedFacts, Types DEF LoopInv, InRequest, cur
<1>1. ~Upgraded
  BY <1>0, Zenon DEF LoopInv, UpgradeInv
<1>2. Len(finals) = request_count - 1
  BY <1>0, Zenon DEF LoopInv, ReplyInv, FinalsInv
<1>3. MaxCount # 0 /\ request_count = MaxCount => ~e.ka
  <2>1. MaxCount # 0 /\ keepalive => request_count < MaxCount
    BY <1>0, Zenon DEF LoopInv, ReplyInv, LimitInv
  <2>2. MaxCount # 0 /\ request_count = MaxCount => ~keepalive
    BY <1>0, <2>1, RequestLoopAssumption
  <2> QED
    BY <2>2, Zenon
<1>4. /\ \A i \in DOMAIN out' : out'[i].id \in 1..Len(reqs) /\ out'[i].id <= request_count
      /\ WaitInv' /\ SpokenInv'
      /\ Len(finals') = request_count /\ \A i \in DOMAIN finals' : finals'[i].id = i
      /\ (\A i \in DOMAIN finals : finals[i].ka) /\ e.ka =>
           \A i \in DOMAIN finals' : finals'[i].ka
      /\ MaxCount # 0 =>
           \A i \in DOMAIN finals' : finals'[i].id = MaxCount => ~finals'[i].ka
      /\ Upgraded' <=> e.kind = "101"
  BY <1>0, <1>1, <1>2, <1>3, FinalStep
<1>5. unread' = unread /\ Expected' = Expected
  BY <1>0, UnreadSteps DEF LoopInv, Expected
<1>6. ChainInv' /\ HeadsInv' /\ PendingInv'
  BY <1>1, <1>5, StayStep
<1>7. CountInv'
  BY <1>0 DEF LoopInv, StreamInv, CountInv
<1>8. UpgradeInv'
  BY <1>4, <1>5, Zenon DEF UpgradeInv
<1>9. OutInv'
  <2>1. \A i \in DOMAIN out' : out'[i].id <= Len(reqs') /\ out'[i].id <= request_count'
    <3>1. \A i \in DOMAIN out' : out'[i].id \in 1..Len(reqs) /\ out'[i].id <= request_count
      BY <1>4, Zenon
    <3> QED
      BY <1>0, <3>1
  <2>2. expects_continue => cur.expect = "continue"
                            /\ \A i \in DOMAIN out : out[i].id = request_count => out[i].kind # "100"
    BY Zenon DEF LoopInv, ReplyInv, OutInv
  <2>3. expects_continue => \A i \in DOMAIN out' : out'[i].id = request_count => out'[i].kind # "100"
    <3>1. /\ \A i \in DOMAIN out : out'[i] = out[i]
          /\ \A i \in DOMAIN out' : i \in DOMAIN out \/ i = Len(out) + 1
          /\ out'[Len(out) + 1] = e
      BY <1>0, AppendFacts
    <3> QED
      BY <2>2, <3>1, Zenon
  <2> QED
    BY <1>0, <2>1, <2>2, <2>3, Zenon DEF OutInv
<1>10. FinalsInv' /\ LastInv' /\ LimitInv'
  <2>1. FinalsInv'
    BY <1>0, <1>4, Zenon DEF FinalsInv, InRequest
  <2>2. LastInv'
    <3>1. \A i \in DOMAIN finals : finals[i].ka
      BY <1>0, Zenon DEF LoopInv, ReplyInv, LastInv
    <3> QED
      BY <1>4, <3>1, Zenon DEF LastInv
  <2>3. LimitInv'
    BY <1>0, <1>4, Zenon DEF LoopInv, ReplyInv, LimitInv
  <2> QED
    BY <2>1, <2>2, <2>3
<1> QED
  BY <1>4, <1>6, <1>7, <1>8, <1>9, <1>10, Zenon DEF LoopInv, StreamInv, ReplyInv

LEMMA HandlerStreamsStep ==
  ASSUME LoopInv, TypeOK', NEW ka \in BOOLEAN, HandlerStreams(ka)
  PROVE  LoopInv'
<1>1. /\ phase = "handler" /\ ~headers_written /\ headers_written'
      /\ UNCHANGED <<reqs, owed, wire, buf, phase, request_count, left, expects_continue>>
      /\ keepalive' = (keepalive /\ ka)
      /\ out' = Append(out, Reply(request_count, "final", keepalive /\ ka))
  BY Zenon DEF HandlerStreams, peerVars, streamVars
<1>2. PICK e \in ReplyType : /\ e.id = request_count /\ e.kind = "final"
                             /\ e.ka = (keepalive /\ ka) /\ out' = Append(out, e)
  <2> DEFINE f == Reply(request_count, "final", keepalive /\ ka)
  <2>1. phase \in InRequest
    BY <1>1, Zenon DEF InRequest
  <2>2. f \in ReplyType
    BY <2>1, ServedFacts
  <2>3. f.id = request_count /\ f.kind = "final" /\ f.ka = (keepalive /\ ka)
    BY Zenon DEF Reply
  <2> QED
    BY <1>1, <2>2, <2>3, Zenon
<1>3. (keepalive' => keepalive) /\ (keepalive' => e.ka) /\ (e.ka => keepalive)
  BY <1>1, <1>2, Zenon
<1>4. e.kind # "101"
  BY <1>2
<1> QED
  BY <1>1, <1>2, <1>3, <1>4, HandlerHeadStep, Zenon

LEMMA HandlerUpgradesStep ==
  ASSUME LoopInv, TypeOK', HandlerUpgrades
  PROVE  LoopInv'
<1>1. /\ phase = "handler" /\ ~headers_written /\ headers_written' /\ cur.upgrade
      /\ UNCHANGED <<reqs, owed, wire, buf, phase, request_count, left, expects_continue,
                     keepalive>>
      /\ out' = Append(out, Reply(request_count, "101", keepalive))
  BY Zenon DEF HandlerUpgrades, peerVars, streamVars
<1>2. phase \in InRequest
  BY <1>1, Zenon DEF InRequest
<1>3. /\ request_count \in 1..Len(reqs) /\ Len(reqs) \in Nat /\ request_count \in Nat
      /\ reqs \in Seq(Requests)
  BY <1>2, ServedFacts, Types DEF LoopInv
<1>4. PICK e \in ReplyType : /\ e.id = request_count /\ e.kind = "101"
                             /\ e.ka = keepalive /\ out' = Append(out, e)
  <2> DEFINE f == Reply(request_count, "101", keepalive)
  <2>1. keepalive \in BOOLEAN
    BY Zenon DEF LoopInv, TypeOK
  <2>2. f \in ReplyType
    BY <1>2, <2>1, ServedFacts, Zenon
  <2>3. f.id = request_count /\ f.kind = "101" /\ f.ka = keepalive
    BY Zenon DEF Reply
  <2> QED
    BY <1>1, <2>2, <2>3, Zenon
<1>5. cur.expect # "continue"
  <2>1. cur \in Requests
    BY <1>3 DEF cur
  <2> QED
    BY <1>1, <2>1, RequestLoopAssumption, Zenon
<1>6. ~expects_continue
  BY <1>1, <1>5, Zenon DEF LoopInv, ReplyInv, OutInv
<1>7. Len(reqs) <= request_count
  <2> SUFFICES ASSUME request_count \in 1..(Len(reqs) - 1)
               PROVE  FALSE
    BY <1>3
  <2>1. PICK i \in DOMAIN out : out[i].id = request_count
    BY <1>1, Zenon DEF LoopInv, ReplyInv, WaitInv, cur
  <2>2. out[i].kind = "100"
    BY <1>1, <1>2, <2>1, Zenon DEF LoopInv, ReplyInv, OutInv
  <2> QED
    BY <1>5, <2>1, <2>2, Zenon DEF LoopInv, ReplyInv, SpokenInv, cur
<1>8. \A i \in DOMAIN unread : unread[i].kind # "head"
  <2> SUFFICES ASSUME NEW i \in DOMAIN unread, unread[i].kind = "head"
               PROVE  FALSE
    OBVIOUS
  <2>1. unread[i].id \in 1..Len(reqs)
    BY DEF LoopInv, StreamInv, HeadsInv
  <2>2. unread[i].id > request_count
    BY <1>1, Zenon DEF LoopInv, StreamInv, HeadsInv
  <2> QED
    BY <1>3, <1>7, <2>1, <2>2
<1>9. (keepalive' => keepalive) /\ (keepalive' => e.ka) /\ (e.ka => keepalive)
  BY <1>1, <1>4, Zenon
<1> QED
  BY <1>1, <1>4, <1>6, <1>7, <1>8, <1>9, HandlerHeadStep, Zenon

LEMMA RespondStep ==
  ASSUME LoopInv, TypeOK', NEW stop \in BOOLEAN, Respond(stop)
  PROVE  LoopInv'
<1> DEFINE k == keepalive /\ ~stop
<1>0. /\ phase = "respond" /\ phase \in InRequest
      /\ UNCHANGED <<reqs, owed, wire, buf, request_count, left>>
      /\ keepalive' = k
      /\ out' = IF headers_written THEN out
                ELSE Append(out, Reply(request_count, "final", k))
      /\ (k /\ phase' = "idle") \/ phase' = "closed"
  BY Zenon DEF Respond, AfterReply, EndTask, peerVars, streamVars, InRequest
<1>1. /\ request_count \in 1..Len(reqs) /\ Len(reqs) \in Nat /\ request_count \in Nat
      /\ out \in Seq(ReplyType) /\ phase \in InRequest
  <2>1. phase \in InRequest
    BY <1>0, Zenon
  <2> QED
    BY <2>1, ServedFacts, Types DEF LoopInv
<1>2. MaxCount # 0 /\ k => request_count < MaxCount
  BY <1>1, Zenon DEF LoopInv, ReplyInv, LimitInv
<1> DEFINE Written ==
             /\ \A i \in DOMAIN out' : out'[i].id \in 1..Len(reqs) /\ out'[i].id <= request_count
             /\ WaitInv' /\ SpokenInv'
             /\ Len(finals') = request_count /\ \A i \in DOMAIN finals' : finals'[i].id = i
             /\ k => \A i \in DOMAIN finals' : finals'[i].ka
             /\ MaxCount # 0 =>
                  \A i \in DOMAIN finals' : finals'[i].id = MaxCount => ~finals'[i].ka
             /\ Upgraded' <=> Upgraded
<1>3. Written
  <2>1. CASE headers_written
    <3>1. out' = out /\ reqs' = reqs
      BY <1>0, <2>1, Zenon
    <3>2. finals' = finals /\ (Upgraded' <=> Upgraded)
      BY <3>1, OutSteps DEF LoopInv
    <3>3. \A i \in DOMAIN out' : out'[i].id \in 1..Len(reqs) /\ out'[i].id <= request_count
      BY <1>1, <3>1, OutIds DEF LoopInv, ReplyInv, OutInv, InRequest
    <3>4. WaitInv' /\ SpokenInv'
      BY <3>1, Zenon DEF LoopInv, ReplyInv, WaitInv, SpokenInv
    <3>5. /\ Len(finals') = request_count /\ \A i \in DOMAIN finals' : finals'[i].id = i
      BY <1>1, <2>1, <3>2, Zenon DEF LoopInv, ReplyInv, FinalsInv
    <3>6. k => \A i \in DOMAIN finals' : finals'[i].ka
      BY <1>1, <3>2, Zenon DEF LoopInv, ReplyInv, LastInv
    <3>7. MaxCount # 0 =>
            \A i \in DOMAIN finals' : finals'[i].id = MaxCount => ~finals'[i].ka
      BY <3>2, Zenon DEF LoopInv, ReplyInv, LimitInv
    <3> QED
      BY <3>2, <3>3, <3>4, <3>5, <3>6, <3>7, Zenon
  <2>2. CASE ~headers_written
    <3>1. PICK e \in ReplyType : /\ e.id = request_count /\ e.kind = "final"
                                 /\ e.ka = k /\ out' = Append(out, e)
      <4> DEFINE f == Reply(request_count, "final", k)
      <4>1. f \in ReplyType
        BY <1>1, ServedFacts
      <4>2. f.id = request_count /\ f.kind = "final" /\ f.ka = k
        BY Zenon DEF Reply
      <4> QED
        BY <1>0, <2>2, <4>1, <4>2, Zenon
    <3>2. ~Upgraded
      BY <1>0, <2>2, Zenon DEF LoopInv, UpgradeInv
    <3>3. Len(finals) = request_count - 1
      BY <1>1, <2>2, Zenon DEF LoopInv, ReplyInv, FinalsInv
    <3>4. MaxCount # 0 /\ request_count = MaxCount => ~e.ka
      <4>1. MaxCount # 0 /\ request_count = MaxCount => ~k
        BY <1>1, <1>2, RequestLoopAssumption
      <4> QED
        BY <3>1, <4>1, Zenon
    <3>5. \A i \in DOMAIN finals : finals[i].ka
      BY <1>1, <2>2, Zenon DEF LoopInv, ReplyInv, LastInv
    <3>6. phase # "closed" /\ reqs' = reqs
      BY <1>0, Zenon
    <3>7. /\ \A i \in DOMAIN out' : out'[i].id \in 1..Len(reqs) /\ out'[i].id <= request_count
          /\ WaitInv' /\ SpokenInv'
          /\ Len(finals') = request_count /\ \A i \in DOMAIN finals' : finals'[i].id = i
          /\ (\A i \in DOMAIN finals : finals[i].ka) /\ e.ka =>
               \A i \in DOMAIN finals' : finals'[i].ka
          /\ MaxCount # 0 =>
               \A i \in DOMAIN finals' : finals'[i].id = MaxCount => ~finals'[i].ka
          /\ Upgraded' <=> e.kind = "101"
      BY <1>1, <3>1, <3>2, <3>3, <3>4, <3>6, FinalStep, Zenon
    <3>8. e.kind # "101"
      BY <3>1
    <3> QED
      BY <3>1, <3>2, <3>5, <3>7, <3>8, Zenon
  <2> QED
    BY <2>1, <2>2, Zenon
<1> HIDE DEF k
<1>4. \A i \in DOMAIN out' : out'[i].id <= Len(reqs') /\ out'[i].id <= request_count'
  <2>1. /\ reqs' = reqs /\ request_count' = request_count
        /\ \A i \in DOMAIN out' : out'[i].id \in 1..Len(reqs) /\ out'[i].id <= request_count
    BY <1>0, <1>3, Zenon
  <2> QED
    BY <1>1, <2>1
<1>5. CASE phase' = "closed"
  <2>1. StreamInv' /\ UpgradeInv'
    <3>1. UNCHANGED <<reqs, owed, wire, buf, request_count>>
      BY <1>0, Zenon
    <3> QED
      BY <1>5, <3>1, EndStep
  <2>2. OutInv' /\ FinalsInv' /\ LastInv'
    BY <1>3, <1>4, <1>5, Zenon DEF OutInv, FinalsInv, LastInv, InRequest
  <2>3. LimitInv'
    BY <1>0, <1>3, <1>5, Zenon DEF LoopInv, ReplyInv, LimitInv, InRequest
  <2> QED
    BY <1>3, <2>1, <2>2, <2>3, Zenon DEF LoopInv, ReplyInv
<1>6. CASE k /\ phase' = "idle"
  <2>1. UNCHANGED <<reqs, owed, wire, buf, request_count>> /\ phase # "closed" /\ phase # "parse"
    BY <1>0, Zenon
  <2>2. left = 0
    BY <1>0, <1>6, Zenon DEF LoopInv, StreamInv, CountInv, k
  <2>3. Expected' = Expected
    <3>1. phase = "respond" /\ phase' = "idle"
      BY <1>0, <1>6, Zenon
    <3> QED
      BY <2>1, <2>2, <3>1 DEF Expected, InRequest
  <2>4. ChainInv' /\ HeadsInv' /\ PendingInv'
    BY <1>3, <2>1, <2>3, StayStep, Zenon
  <2>5. CountInv'
    <3>1. phase' = "idle" /\ request_count <= Len(reqs) /\ request_count <= Len(reqs) + 1
      BY <1>1, <1>6
    <3> QED
      BY <2>1, <3>1, Zenon DEF LoopInv, StreamInv, CountInv, InRequest
  <2>6. UpgradeInv'
    <3>1. unread' = unread
      BY <2>1, UnreadSteps DEF LoopInv
    <3> QED
      BY <1>3, <1>6, <2>1, <3>1, Zenon DEF LoopInv, UpgradeInv, InRequest
  <2>7. OutInv'
    BY <1>4, <1>6, Zenon DEF OutInv, InRequest
  <2>8. FinalsInv' /\ LastInv'
    BY <1>3, <1>6, <2>1, Zenon DEF FinalsInv, LastInv, InRequest
  <2>9. LimitInv'
    BY <1>2, <1>3, <1>6, <2>1, Zenon DEF LoopInv, ReplyInv, LimitInv, InRequest
  <2> QED
    BY <1>3, <2>4, <2>5, <2>6, <2>7, <2>8, <2>9, Zenon DEF LoopInv, StreamInv, ReplyInv
<1> QED
  BY <1>0, <1>5, <1>6, Zenon

-----------------------------------------------------------------------------
(* The theorems *)

LEMMA LoopInvInit == Init => LoopInv
<1> SUFFICES ASSUME Init
             PROVE  LoopInv
  OBVIOUS
<1>1. /\ reqs = <<>> /\ owed = 0 /\ frames = 0 /\ wire = <<>> /\ buf = <<>> /\ out = <<>>
      /\ phase = "parse" /\ request_count = 1 /\ left = 0
      /\ timer \in {"off", "request"}
  BY DEF Init
<1>2. TypeOK
  <2>1. {gone, expects_continue, keepalive, headers_written} \subseteq BOOLEAN
    BY Zenon DEF Init
  <2>2. gone \in BOOLEAN /\ expects_continue \in BOOLEAN /\ keepalive \in BOOLEAN
        /\ headers_written \in BOOLEAN
    BY <2>1, Zenon
  <2>3. /\ reqs \in Seq(Requests) /\ Len(reqs) <= MaxRequests
        /\ owed \in Nat /\ frames \in 0..MaxFrames /\ phase \in Phase /\ left \in Nat
        /\ request_count \in 1..MaxRequests + 1
        /\ timer \in {"off", "request", "keepalive", "fired"}
    BY <1>1, RequestLoopAssumption DEF Phase
  <2>4. \A X : wire \in Seq(X) /\ buf \in Seq(X) /\ out \in Seq(X)
    BY <1>1
  <2> QED
    BY <2>2, <2>3, <2>4, Zenon DEF TypeOK
<1>3. unread = <<>> /\ finals = <<>>
  <2>1. FinalsAt = {}
    BY <1>1 DEF FinalsAt
  <2> QED
    BY <1>1, <2>1, EntriesEmpty DEF unread, finals
<1>4. ~Upgraded
  BY <1>1 DEF Upgraded
<1>5. CountInv /\ HeadsInv /\ PendingInv
  BY <1>1, <1>3 DEF CountInv, HeadsInv, PendingInv, InRequest
<1>6. ChainInv
  BY <1>1, <1>3 DEF ChainInv, Expected, PeerNext
<1>7. UpgradeInv
  BY <1>4 DEF UpgradeInv
<1>8. OutInv /\ WaitInv /\ SpokenInv
  BY <1>1 DEF OutInv, WaitInv, SpokenInv, InRequest
<1>9. FinalsInv /\ LastInv /\ LimitInv
  BY <1>1, <1>3, RequestLoopAssumption DEF FinalsInv, LastInv, LimitInv, InRequest
<1> QED
  BY <1>2, <1>5, <1>6, <1>7, <1>8, <1>9 DEF LoopInv, StreamInv, ReplyInv

LEMMA LoopInvNext == LoopInv /\ [Next]_vars => LoopInv'
<1> SUFFICES ASSUME LoopInv, [Next]_vars
             PROVE  LoopInv'
  OBVIOUS
<1>1. TypeOK'
  BY TypeNext
<1>2. CASE Same
  <2>1. unread' = unread
    BY <1>2 DEF Same, unread
  <2> QED
    BY <1>1, <1>2, <2>1, SameStep DEF Same
<1> QED
  BY <1>1, <1>2, NextCases, SendHeadStep, SendBodyStep, SendFrameStep, CloseStep,
     FillMoreStep, ParseHeadersStep, HandlerFirstReadStep, HandlerReadsStep,
     HandlerReceivesStep, HandlerReturnsStep, DrainBodyStep, DrainFailsStep,
     RespondStep, HandlerStreamsStep, HandlerUpgradesStep

\* The inductive invariant of the loop holds: handleRequests and its peer agree
\* on where in the stream they are, and on which requests were answered.
THEOREM LoopInvariant == Spec => []LoopInv
  BY LoopInvInit, LoopInvNext, PTL DEF Spec

\* handleRequests never takes what a handler left of a body for a request.
THEOREM StaysInStep == Spec => []InStep
<1>1. LoopInv => InStep
  <2> SUFFICES ASSUME LoopInv, phase \in {"parse", "idle"}, unread # <<>>, ~Upgraded
               PROVE  /\ unread[1].kind = "head"
                      /\ unread[1].id = request_count + (IF phase = "idle" THEN 1 ELSE 0)
    BY DEF InStep
  <2>1. unread \in Seq(UnitType) /\ request_count \in Nat
    BY Types DEF LoopInv
  <2>2. 1 \in DOMAIN unread
    BY <2>1
  <2>3. /\ unread[1].kind = IF unread[1].at = 0 THEN "head" ELSE "body"
        /\ Expected = PlaceOf(unread[1])
    BY <2>2 DEF LoopInv, StreamInv, ChainInv
  <2>4. Expected = Place(request_count + (IF phase = "idle" THEN 1 ELSE 0), 0)
    BY <2>1 DEF Expected, InRequest
  <2> QED
    BY <2>3, <2>4 DEF PlaceOf, Place
<1> QED
  BY <1>1, LoopInvariant, PTL

\* No request that was pipelined is dropped while the connection lives.
THEOREM RequestsKept == Spec => []NoneSwallowed
<1>1. LoopInv => NoneSwallowed
  <2> SUFFICES ASSUME LoopInv, phase # "closed", NEW id \in 1..Len(reqs),
                      ~(id <= request_count)
               PROVE  id \in {unread[i].id : i \in {j \in DOMAIN unread :
                                                        unread[j].kind = "head"}}
    BY Zenon DEF NoneSwallowed
  <2>1. id > request_count
    BY Types DEF LoopInv
  <2>2. PICK i \in DOMAIN unread : unread[i].kind = "head" /\ unread[i].id = id
    BY <2>1, Zenon DEF LoopInv, StreamInv, PendingInv
  <2> QED
    BY <2>2, Zenon
<1> QED
  BY <1>1, LoopInvariant, PTL

\* One final response per request, in order; a 100 Continue at most once and
\* on demand; nothing after a 101.
THEOREM RepliesInOrder == Spec => []AnswersInOrder
<1>1. LoopInv => AnswersInOrder
  BY Zenon DEF LoopInv, ReplyInv, SpokenInv, FinalsInv, AnswersInOrder
<1> QED
  BY <1>1, LoopInvariant, PTL

\* timeout.request_count bounds the requests of a connection, and the last
\* response announces the end.
THEOREM LimitHolds == Spec => []LimitAnnounced
<1>1. LoopInv => LimitAnnounced
  BY Zenon DEF LoopInv, ReplyInv, LimitInv, LimitAnnounced
<1> QED
  BY <1>1, LoopInvariant, PTL

\* Type correctness.
THEOREM LoopTypes == Spec => []TypeOK
<1>1. LoopInv => TypeOK
  BY DEF LoopInv
<1> QED
  BY <1>1, LoopInvariant, PTL

\* With both timeouts configured the armed timer is the one for what the
\* connection is doing, whatever handlers catch.
THEOREM TimersArmed ==
  ASSUME RequestTimeout, KeepaliveTimeout
  PROVE  Spec => []TimerMatchesPhase
<1>1. Init => TimerMatchesPhase
  BY DEF Init, TimerMatchesPhase
<1>2. TimerMatchesPhase /\ [Next]_vars => TimerMatchesPhase'
  <2> SUFFICES ASSUME TimerMatchesPhase, [Next]_vars
               PROVE  TimerMatchesPhase'
    OBVIOUS
  <2>1. CASE UNCHANGED <<phase, timer>>
    BY <2>1, Zenon DEF TimerMatchesPhase
  <2>2. ((\E r \in Requests : SendHead(r)) \/ SendBody \/ SendFrame \/ PeerCloses
         \/ HandlerFirstRead \/ HandlerReads \/ HandlerReceives \/ HandlerUpgrades
         \/ (\E ka \in BOOLEAN : HandlerStreams(ka)) \/ UNCHANGED vars)
          => UNCHANGED <<phase, timer>>
    BY Zenon DEF SendHead, SendBody, SendFrame, PeerCloses, HandlerFirstRead, HandlerReads,
             HandlerReceives, HandlerUpgrades, HandlerStreams, vars
  <2>3. CASE FillMore
    BY <2>1, <2>3 DEF FillMore, ArmRequest, TimerMatchesPhase
  <2>4. ASSUME phase' = "closed"
        PROVE  TimerMatchesPhase'
    BY <2>4, Zenon DEF TimerMatchesPhase
  <2>5. Close => phase' = "closed"
    BY DEF Close, EndTask
  <2>6. CASE ParseHeaders
    <3>1. phase = "parse" /\ (phase' = "closed" \/ (phase' = "handler" /\ timer' = timer))
      BY <2>6, Zenon DEF ParseHeaders, EndTask
    <3> QED
      BY <2>4, <3>1, Zenon DEF TimerMatchesPhase
  <2>7. CASE HandlerReturns \/ DrainBody \/ DrainFails
    <3>1. /\ phase \in {"handler", "drain"} /\ phase' \in {"drain", "respond"}
          /\ timer' = timer
      BY <2>7 DEF HandlerReturns, DrainBody, DrainFails
    <3> QED
      BY <3>1 DEF TimerMatchesPhase
  <2>8. ASSUME NEW stop \in BOOLEAN, Respond(stop)
        PROVE  TimerMatchesPhase'
    <3>1. phase' = "closed" \/ (phase' = "idle" /\ ArmKeepalive)
      BY <2>8, Zenon DEF Respond, AfterReply, EndTask
    <3>2. ArmKeepalive => timer' = "keepalive"
      BY DEF ArmKeepalive
    <3> QED
      BY <2>4, <3>1, <3>2, Zenon DEF TimerMatchesPhase
  <2>9. CASE TimerCaught
    <3>1. phase = "handler" /\ phase' = "handler" /\ timer' = "fired"
      BY <2>9, Zenon DEF TimerCaught
    <3> QED
      BY <3>1, Zenon DEF TimerMatchesPhase
  <2> QED
    BY <2>1, <2>2, <2>3, <2>4, <2>5, <2>6, <2>7, <2>8, <2>9
       DEF Next, Peer, Loop, ReadEof, ParseFails, HandlerAborts, RespondFails, TimerFires
<1> QED
  BY <1>1, <1>2, PTL DEF Spec

-----------------------------------------------------------------------------
(* The loop implements the exchange *)

\* The requests answered so far, as the exchange sees them.
LEMMA AnswerIds ==
  ASSUME TypeOK
  PROVE  /\ Len([i \in DOMAIN finals |-> finals[i].id]) = Len(finals)
         /\ \A e \in ReplyType : finals' = Append(finals, e) /\ e.id = Len(finals) + 1 =>
              [i \in DOMAIN finals |-> finals[i].id]' =
                Append([i \in DOMAIN finals |-> finals[i].id], Len(finals) + 1)
<1> DEFINE A == [i \in DOMAIN finals |-> finals[i].id]
<1>1. /\ finals \in Seq(ReplyType) /\ Len(finals) \in Nat
      /\ DOMAIN finals = 1..Len(finals)
  BY FinalsType
<1>2. \A i \in DOMAIN finals : finals[i].id \in Nat
  <2>1. \A i \in DOMAIN finals : finals[i] \in ReplyType
    BY <1>1
  <2> QED
    BY <2>1, RequestLoopAssumption DEF ReplyType
<1>3. A \in Seq(Nat) /\ Len(A) = Len(finals)
  BY <1>1, <1>2
<1>4. ASSUME NEW e \in ReplyType, finals' = Append(finals, e), e.id = Len(finals) + 1
      PROVE  A' = Append(A, Len(finals) + 1)
  <2>1. /\ DOMAIN finals' = 1..(Len(finals) + 1) /\ finals'[Len(finals) + 1] = e
        /\ \A i \in DOMAIN finals : finals'[i] = finals[i]
    BY <1>1, <1>4, AppendFacts
  <2>2. A' = [i \in 1..(Len(finals) + 1) |-> finals'[i].id]
    BY <2>1, Zenon
  <2>3. \A i \in 1..(Len(finals) + 1) :
          finals'[i].id = IF i = Len(finals) + 1 THEN Len(finals) + 1 ELSE A[i]
    BY <1>1, <1>4, <2>1
  <2>4. Append(A, Len(finals) + 1) =
          [i \in 1..(Len(finals) + 1) |-> IF i = Len(finals) + 1 THEN Len(finals) + 1 ELSE A[i]]
    <3> HIDE DEF A
    <3> QED
      BY <1>1, <1>3
  <2> HIDE DEF A
  <2> QED
    BY <2>2, <2>3, <2>4, Zenon
<1> QED
  BY <1>3, <1>4

\* A final response is among what was written.
LEMMA FinalsWritten ==
  ASSUME TypeOK, NEW j \in DOMAIN finals
  PROVE  \E i \in DOMAIN out : finals[j] = out[i]
<1>1. out \in Seq(ReplyType)
  BY Types
<1>2. FinalsAt \in SUBSET (1..Len(out))
  BY <1>1 DEF FinalsAt
<1>3. j \in 1..Cardinality(FinalsAt)
  BY DEF finals, EntriesAt
<1>4. \E i \in FinalsAt : finals[j] = out[i]
  BY <1>1, <1>2, <1>3, EntriesType DEF finals
<1> QED
  BY <1>4 DEF FinalsAt

LEMMA ExchangeAnswers ==
  ASSUME LoopInv, phase # "closed", NEW e \in ReplyType, out' = Append(out, e),
         e.id = request_count, e.kind \in {"101", "final"}, ~Upgraded,
         reqs' = reqs, request_count \in 1..Len(reqs),
         Len(finals) = request_count - 1, \A i \in DOMAIN finals : finals[i].ka
  PROVE  Exchange!Next
<1>1. finals' = Append(finals, e)
  BY OutSteps DEF LoopInv
<1>2. \A j \in DOMAIN finals : finals[j].kind # "101"
  BY FinalsWritten DEF Upgraded, LoopInv
<1>3. Len(finals) \in Nat /\ e.id = Len(finals) + 1 /\ Len(finals) < Len(reqs)
  BY Types, FinalsType DEF LoopInv
<1> DEFINE A == [i \in DOMAIN finals |-> finals[i].id]
           L == \E i \in DOMAIN finals : ~finals[i].ka \/ finals[i].kind = "101"
<1>4. Len(A) = Len(finals) /\ A' = Append(A, Len(finals) + 1)
  BY <1>1, <1>3, AnswerIds DEF LoopInv
<1>5. ~L
  BY <1>2, Zenon
<1>6. PICK l \in BOOLEAN, o \in BOOLEAN : l = L' /\ o = (phase' # "closed")
  <2>1. L' \in BOOLEAN /\ (phase' # "closed") \in BOOLEAN
    BY Zenon
  <2> QED
    BY <2>1, Zenon
<1>7. A' = Append(A, Len(A) + 1) /\ Len(A) < Len(reqs)
  BY <1>3, <1>4
<1> HIDE DEF A, L
<1>8. Exchange!Answer(l, o)
  BY <1>5, <1>6, <1>7, Zenon DEF Exchange!Answer, A, L
<1> QED
  BY <1>6, <1>8, Zenon DEF Exchange!Next

\* A step that answers nothing is none of the exchange's, or its end.
LEMMA ExchangeStutters ==
  ASSUME reqs' = reqs, finals' = finals, phase' = "closed" \/ phase # "closed",
         phase = "closed" => phase' = "closed"
  PROVE  [Exchange!Next]_Exchange!vars
<1>1. UNCHANGED <<Len(reqs), [i \in DOMAIN finals |-> finals[i].id],
                  \E i \in DOMAIN finals : ~finals[i].ka \/ finals[i].kind = "101">>
  BY Zenon
<1>2. CASE phase # "closed" /\ phase' = "closed"
  <2>1. Exchange!Close
    BY <1>1, <1>2, Zenon DEF Exchange!Close
  <2> QED
    BY <2>1 DEF Exchange!Next
<1>3. CASE (phase # "closed") = (phase' # "closed")
  BY <1>1, <1>3, Zenon DEF Exchange!vars
<1> QED
  BY <1>2, <1>3

LEMMA ExchangeStep == LoopInv /\ [Next]_vars => [Exchange!Next]_Exchange!vars
<1> SUFFICES ASSUME LoopInv, [Next]_vars
             PROVE  [Exchange!Next]_Exchange!vars
  OBVIOUS
<1>1. ASSUME NEW r \in Requests, SendHead(r)
      PROVE  [Exchange!Next]_Exchange!vars
  <2>1. reqs \in Seq(Requests) /\ reqs' = Append(reqs, r) /\ phase' = phase /\ out' = out
    BY <1>1, Types DEF SendHead, LoopInv
  <2>2. Len(reqs') = Len(reqs) + 1 /\ finals' = finals
    BY <2>1, OutSteps DEF LoopInv
  <2>3. Exchange!Ask
    BY <2>1, <2>2, Zenon DEF Exchange!Ask
  <2> QED
    BY <2>3 DEF Exchange!Next
<1>2. ASSUME reqs' = reqs, out' = out,
             phase = "closed" => phase' = "closed"
      PROVE  [Exchange!Next]_Exchange!vars
  <2>1. finals' = finals
    BY <1>2, OutSteps DEF LoopInv
  <2> QED
    BY <1>2, <2>1, ExchangeStutters
<1>3. CASE \/ SendBody \/ SendFrame \/ Same \/ Close \/ FillMore \/ HandlerReads
           \/ HandlerReceives \/ HandlerReturns \/ DrainBody \/ DrainFails
  <2>1. CASE SendBody \/ SendFrame \/ Same
    BY <1>2, <2>1, Zenon DEF SendBody, SendFrame, Same
  <2>2. CASE Close
    BY <1>2, <2>2, Zenon DEF Close, EndTask, peerVars
  <2>3. CASE FillMore
    <3>1. phase # "closed" /\ reqs' = reqs /\ out' = out
      BY <2>3, Zenon DEF FillMore, Reading, peerVars
    <3> QED
      BY <1>2, <3>1, Zenon
  <2>4. CASE HandlerReads \/ HandlerReceives \/ HandlerReturns \/ DrainBody \/ DrainFails
    BY <1>2, <2>4, Zenon
       DEF HandlerReads, HandlerReceives, HandlerReturns, DrainBody, DrainFails, peerVars
  <2> QED
    BY <1>3, <2>1, <2>2, <2>3, <2>4
<1>4. CASE HandlerFirstRead
  <2>1. /\ phase = "handler" /\ reqs' = reqs /\ phase' = phase
        /\ out' = Append(out, Reply(request_count, "100", TRUE))
    BY <1>4, Zenon DEF HandlerFirstRead, peerVars
  <2>2. phase \in InRequest
    BY <2>1, Zenon DEF InRequest
  <2>3. Reply(request_count, "100", TRUE) \in ReplyType
    BY <2>2, ServedFacts
  <2>4. Reply(request_count, "100", TRUE).kind = "100"
    BY DEF Reply
  <2>5. PICK e \in ReplyType : e.kind = "100" /\ out' = Append(out, e)
    BY <2>1, <2>3, <2>4, Zenon
  <2>6. finals' = finals
    BY <2>5, OutSteps DEF LoopInv
  <2>7. reqs' = reqs /\ phase' = phase
    BY <2>1, Zenon
  <2> QED
    BY <2>6, <2>7, ExchangeStutters
<1>5. CASE ParseHeaders
  <2>1. /\ phase = "parse" /\ buf # <<>> /\ Head(buf).kind = "head" /\ reqs' = reqs
    BY <1>5, Zenon DEF ParseHeaders, EndTask, peerVars
  <2>2. /\ ~Upgraded /\ request_count \in 1..Len(reqs) /\ Len(reqs) \in 0..MaxRequests
        /\ Head(buf).id = request_count /\ reqs[Head(buf).id] = cur
    BY <2>1, ParseFacts, Types DEF LoopInv
  <2>3. CASE cur.expect # "other"
    BY <1>2, <1>5, <2>1, <2>2, <2>3, Zenon DEF ParseHeaders, peerVars
  <2>4. CASE cur.expect = "other"
    <3>1. out' = Append(out, Reply(request_count, "final", FALSE))
      BY <1>5, <2>2, <2>4, Zenon DEF ParseHeaders
    <3>2. PICK e \in ReplyType : e.id = request_count /\ e.kind = "final" /\ out' = Append(out, e)
      <4> DEFINE f == Reply(request_count, "final", FALSE)
      <4>1. f \in ReplyType /\ f.id = request_count /\ f.kind = "final"
        BY <2>2, RequestLoopAssumption DEF Reply, ReplyType
      <4> QED
        BY <3>1, <4>1, Zenon
    <3>3. Len(finals) = request_count - 1
      BY <2>1 DEF LoopInv, ReplyInv, FinalsInv
    <3>4. \A i \in DOMAIN finals : finals[i].ka
      BY <2>1, Zenon DEF LoopInv, ReplyInv, LastInv
    <3>5. phase # "closed" /\ e.kind \in {"101", "final"}
      BY <2>1, <3>2
    <3>6. Exchange!Next
      BY <2>1, <2>2, <3>2, <3>3, <3>4, <3>5, ExchangeAnswers, Zenon
    <3> QED
      BY <3>6
  <2> QED
    BY <2>3, <2>4
<1>6. ASSUME phase \in InRequest, ~headers_written, reqs' = reqs,
             NEW k \in {"101", "final"}, NEW b \in BOOLEAN,
             out' = Append(out, Reply(request_count, k, b))
      PROVE  [Exchange!Next]_Exchange!vars
  <2>1. request_count \in 1..Len(reqs)
    BY <1>6, ServedFacts
  <2>2. PICK e \in ReplyType : e.id = request_count /\ e.kind = k /\ out' = Append(out, e)
    <3>1. Reply(request_count, k, b) \in ReplyType
      BY <1>6, ServedFacts, Zenon
    <3>2. Reply(request_count, k, b).id = request_count /\ Reply(request_count, k, b).kind = k
      BY Zenon DEF Reply
    <3> QED
      BY <1>6, <3>1, <3>2, Zenon
  <2>3. phase # "closed"
    BY <1>6 DEF InRequest
  <2>4. ~Upgraded
    BY <1>6, <2>3, Zenon DEF LoopInv, UpgradeInv
  <2>5. Len(finals) = request_count - 1
    BY <1>6, Zenon DEF LoopInv, ReplyInv, FinalsInv
  <2>6. \A i \in DOMAIN finals : finals[i].ka
    BY <1>6, Zenon DEF LoopInv, ReplyInv, LastInv
  <2>7. Exchange!Next
    BY <1>6, <2>1, <2>2, <2>3, <2>4, <2>5, <2>6, ExchangeAnswers, Zenon
  <2> QED
    BY <2>7
<1>7. ASSUME NEW stop \in BOOLEAN, Respond(stop)
      PROVE  [Exchange!Next]_Exchange!vars
  <2>1. /\ phase = "respond" /\ phase \in InRequest /\ reqs' = reqs
        /\ out' = IF headers_written THEN out
                  ELSE Append(out, Reply(request_count, "final", keepalive /\ ~stop))
    BY <1>7, Zenon DEF Respond, AfterReply, EndTask, peerVars, InRequest
  <2>2. CASE headers_written
    BY <1>2, <2>1, <2>2, Zenon
  <2>3. CASE ~headers_written
    <3>1. (keepalive /\ ~stop) \in BOOLEAN /\ "final" \in {"101", "final"}
      BY Zenon
    <3> QED
      BY <1>6, <2>1, <2>3, <3>1, Zenon
  <2> QED
    BY <2>2, <2>3, Zenon
<1>8. ASSUME NEW ka \in BOOLEAN, HandlerStreams(ka)
      PROVE  [Exchange!Next]_Exchange!vars
  <2>1. /\ phase \in InRequest /\ reqs' = reqs /\ ~headers_written
        /\ out' = Append(out, Reply(request_count, "final", keepalive /\ ka))
    BY <1>8, Zenon DEF HandlerStreams, peerVars, InRequest
  <2>2. (keepalive /\ ka) \in BOOLEAN /\ "final" \in {"101", "final"}
    BY Zenon
  <2> QED
    BY <1>6, <2>1, <2>2, Zenon
<1>9. CASE HandlerUpgrades
  <2>1. /\ phase \in InRequest /\ reqs' = reqs /\ ~headers_written
        /\ out' = Append(out, Reply(request_count, "101", keepalive))
    BY <1>9, Zenon DEF HandlerUpgrades, peerVars, InRequest
  <2>2. keepalive \in BOOLEAN /\ "101" \in {"101", "final"}
    BY Zenon DEF LoopInv, TypeOK
  <2> QED
    BY <1>6, <2>1, <2>2, Zenon
<1> QED
  BY <1>1, <1>3, <1>4, <1>5, <1>7, <1>8, <1>9, NextCases

\* handleRequests implements the HTTP exchange: requests are answered in order,
\* once each, and never after an answer that said it was the last.
THEOREM LoopImplementsExchange == Spec => ImplementsExchange
<1>1. Init => Exchange!Init
  <2> SUFFICES ASSUME Init
               PROVE  Exchange!Init
    OBVIOUS
  <2>1. reqs = <<>> /\ out = <<>> /\ phase = "parse"
    BY DEF Init
  <2>2. FinalsAt = {}
    BY <2>1 DEF FinalsAt
  <2>3. finals = <<>>
    BY <2>2, EntriesEmpty DEF finals
  <2>4. /\ Len(reqs) = 0 /\ [i \in DOMAIN finals |-> finals[i].id] = <<>>
    BY <2>1, <2>3
  <2>5. (\E i \in DOMAIN finals : ~finals[i].ka \/ finals[i].kind = "101") = FALSE
    <3>1. DOMAIN finals = {}
      BY <2>3
    <3> QED
      BY <3>1, Zenon
  <2>6. (phase # "closed") = TRUE
    BY <2>1, Zenon
  <2> QED
    BY <2>4, <2>5, <2>6, Zenon DEF Exchange!Init
<1> QED
  BY <1>1, LoopInvariant, ExchangeStep, PTL DEF Spec, ImplementsExchange, Exchange!Spec
=============================================================================
