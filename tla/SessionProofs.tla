--------------------------- MODULE SessionProofs ---------------------------
(***************************************************************************)
(* Proofs about Session: for every chain of middlewares, any number of     *)
(* users, entries, values and headers, and every max_age.                  *)
(***************************************************************************)
EXTENDS Session, FiniteSetTheorems, TLAPS

\* A chain has one Session, as SessionData belongs to the request: two would
\* load into the same entries.
OneSession ==
  \A ch \in Chains : \A i, j \in DOMAIN ch :
    ch[i] = "session" /\ ch[j] = "session" => i = j

Entry == [key : Keys, value : Values]

\* Where the executor is in its chain.
PlaceInv ==
  /\ chain \in Chains /\ index \in Nat /\ depth \in Nat
  /\ depth <= index /\ index <= Len(chain)
  /\ phase \in {"idle", "enter", "handler", "unwind", "page", "write", "done"}
  /\ phase = "idle" => index = 0
  /\ phase \in {"enter", "handler"} => depth = index
  /\ phase \in {"page", "write", "done"} => depth = 0
  /\ phase \notin {"idle", "enter"} => index >= 1 \/ Len(chain) = 0

Blank == headers = {} /\ cookies = 0 /\ ~headers_written
CorsFirst == chain # <<>> /\ Head(chain) = "cors"

\* Before a Cors that is first the response is untouched, so that there is room for
\* its header; after it the header stays.
CorsInv ==
  /\ phase = "idle" => Blank
  /\ phase = "enter" /\ index = 0 /\ CorsFirst => Blank
  /\ phase # "idle" /\ index >= 1 /\ CorsFirst /\ MaxHeaders > 0 => AllowOrigin \in headers
  /\ AllowOrigin \in headers => \E i \in 1..index : chain[i] = "cors"

\* What a user's last saving request left, as a handler would find it now.
Expected(u) ==
  IF MaxAge # 0 /\ now > used[u] + MaxAge THEN <<>> ELSE left[u]

\* At time n a cookie brings back a session s that was saved at time t: because s is
\* nothing and nothing can be read of the cookie then or later, or because it is the
\* token of just that.
Brings(s, t, cookie, n) ==
  \/ /\ s = <<>>
     /\ \/ ~cookie.valid
        \/ cookie.expires \in Nat \ {0} /\ cookie.expires < n
        \/ Pairs(cookie.payload, MaxEntries) = <<>>
  \/ /\ cookie.valid
     /\ cookie.expires = IF MaxAge = 0 THEN 0 ELSE t + MaxAge
     /\ Pairs(cookie.payload, MaxEntries) = s

DataInv ==
  /\ jar = [u \in Users |-> jar[u]] /\ user \in Users
  /\ left \in [Users -> Seq(Entry)] /\ used \in [Users -> Nat] /\ now \in Nat
  /\ session \in Seq(Entry) /\ Len(session) <= MaxEntries
  /\ saved # <<>> => saved[1] \in Seq(Entry) /\ Len(saved[1]) <= MaxEntries
  /\ \A u \in Users : Len(left[u]) <= MaxEntries

\* What the users hold and what the response would add to it bring back what they
\* have to; nothing is saved while the session is still in use.
CarryInv ==
  /\ \A u \in Users : Brings(left[u], used[u], jar[u], now)
  /\ saved = <<>> => set_cookie = NoCookie
  /\ saved # <<>> => Brings(saved[1], now, Stored(jar[user], set_cookie), now)
  /\ phase \in {"idle", "enter", "handler"} \/ Loaded => saved = <<>>
  /\ phase \in {"idle", "enter"} /\ ~Loaded => session = <<>>
  /\ Loaded /\ ~modified => session = Expected(user)

-----------------------------------------------------------------------------
(* The cookie *)

LEMMA Four ==
  ASSUME NEW n \in Nat, NEW i \in 1..n
  PROVE  /\ 4 * i - 3 \in 1..(4 * n) /\ 4 * i - 1 \in 1..(4 * n)
         /\ (4 * i - 3 + 3) \div 4 = i /\ (4 * i - 1 + 3) \div 4 = i
         /\ (4 * i - 3) % 4 = 1 /\ (4 * i - 1) % 4 = 3
         /\ (4 * n) \div 4 = n
  OBVIOUS

\* Signing loses nothing: what load reads of a payload is what was put into it,
\* while it keeps to the limit.
LEMMA RoundTrip ==
  ASSUME NEW s \in Seq(Entry), Len(s) <= MaxEntries
  PROVE  Pairs(Payload(s), MaxEntries) = s
<1> DEFINE p == Payload(s)
           n == Len(s)
<1>1. n \in Nat /\ DOMAIN s = 1..n /\ MaxEntries \in Nat
  BY SessionAssumption
<1>2. p = [j \in 1..(4 * n) |->
            LET entry == s[(j + 3) \div 4] IN
            IF j % 4 = 1 THEN entry.key ELSE IF j % 4 = 3 THEN entry.value ELSE Separator]
  BY Zenon DEF Payload
<1>3. \A i \in 1..n : p[4 * i - 3] = s[i].key /\ p[4 * i - 1] = s[i].value
  <2> SUFFICES ASSUME NEW i \in 1..n
               PROVE  p[4 * i - 3] = s[i].key /\ p[4 * i - 1] = s[i].value
    BY Zenon
  <2> HIDE DEF p, n
  <2> QED
    BY <1>1, <1>2, Four
<1>4. Len(p) = 4 * n
  <2> HIDE DEF n
  <2> HIDE DEF p
  <2>1. DOMAIN p = 1..(4 * n)
    BY <1>2
  <2> QED
    BY <1>1, <2>1
<1>5. Len(p) \div 4 = n
  <2> HIDE DEF p, n
  <2> QED
    BY <1>1, <1>4
<1>6. \A i \in 1..n : [key |-> s[i].key, value |-> s[i].value] = s[i]
  <2>1. \A e \in Entry : [key |-> e.key, value |-> e.value] = e
    BY DEF Entry
  <2>2. \A i \in 1..n : s[i] \in Entry
    OBVIOUS
  <2> QED
    BY <2>1, <2>2, Zenon
<1> HIDE DEF p
<1>7. (IF Len(p) \div 4 < MaxEntries THEN Len(p) \div 4 ELSE MaxEntries) = n
  <2>1. n <= MaxEntries
    OBVIOUS
  <2> HIDE DEF n
  <2> QED
    BY <1>1, <1>5, <2>1
<1>8. Pairs(p, MaxEntries) = [i \in 1..n |-> [key |-> p[4 * i - 3], value |-> p[4 * i - 1]]]
  BY <1>7, Zenon DEF Pairs
<1>9. Pairs(p, MaxEntries) = [i \in 1..n |-> s[i]]
  BY <1>3, <1>6, <1>8
<1> QED
  BY <1>1, <1>9 DEF p

\* What load returns of the cookie a user holds is what the user's last saving
\* request left, or nothing once that is too old.
LEMMA LoadHeld ==
  ASSUME NEW u \in Users, NEW cookie, Brings(left[u], used[u], cookie, now),
         used[u] \in Nat, now \in Nat
  PROVE  Load(cookie, MaxEntries) = Expected(u)
<1>1. MaxAge \in Nat
  BY SessionAssumption
<1>2. CASE /\ left[u] = <<>>
           /\ \/ ~cookie.valid
              \/ cookie.expires \in Nat \ {0} /\ cookie.expires < now
              \/ Pairs(cookie.payload, MaxEntries) = <<>>
  <2>1. Expected(u) = <<>>
    BY <1>2, Zenon DEF Expected
  <2>2. CASE cookie.expires \in Nat \ {0} /\ cookie.expires < now
    BY <2>1, <2>2 DEF Load
  <2> QED
    BY <1>2, <2>1, <2>2, Zenon DEF Load
<1>3. CASE /\ cookie.valid
           /\ cookie.expires = IF MaxAge = 0 THEN 0 ELSE used[u] + MaxAge
           /\ Pairs(cookie.payload, MaxEntries) = left[u]
  <2>1. (MaxAge # 0 /\ now > used[u] + MaxAge) <=>
          ~(cookie.expires = 0 \/ cookie.expires >= now)
    BY <1>1, <1>3
  <2> QED
    BY <1>3, <2>1, Zenon DEF Load, Expected
<1> QED
  BY <1>2, <1>3, Zenon DEF Brings

\* The cookie for a session that is saved now.
LEMMA SavedCookie ==
  ASSUME DataInv, NEW old, NEW cookie,
         cookie = IF session = <<>> THEN Deletion ELSE Sign(session)
  PROVE  Brings(session, now, Stored(old, cookie), now)
<1>1. /\ Deletion.kind = "delete" /\ ~NoCookie.valid
      /\ Sign(session).kind = "token" /\ Sign(session).valid
      /\ Sign(session).expires = IF MaxAge = 0 THEN 0 ELSE now + MaxAge
      /\ Sign(session).payload = Payload(session)
  BY DEF Deletion, NoCookie, Sign
<1>2. Stored(old, Deletion) = NoCookie /\ Stored(old, Sign(session)) = Sign(session)
  BY <1>1 DEF Stored
<1>3. Pairs(Payload(session), MaxEntries) = session
  BY RoundTrip, Zenon DEF DataInv
<1> QED
  BY <1>1, <1>2, <1>3, Zenon DEF Brings

\* The user's cookie stays, as the session was only read and does not slide.
LEMMA KeptCookie ==
  ASSUME DataInv, NEW u \in Users, NEW c, Brings(left[u], used[u], c, now),
         session = Expected(u), MaxAge = 0 \/ session = <<>>
  PROVE  Brings(session, now, c, now)
<1>1. MaxAge \in Nat /\ used[u] \in Nat /\ now \in Nat
  BY SessionAssumption DEF DataInv
<1>2. CASE MaxAge = 0
  <2>1. session = left[u]
    BY <1>2, Zenon DEF Expected
  <2> QED
    BY <1>2, <2>1, Zenon DEF Brings
<1>3. CASE MaxAge # 0 /\ session = <<>>
  <2>1. CASE left[u] = <<>>
    BY <1>3, <2>1, Zenon DEF Brings
  <2>2. CASE left[u] # <<>>
    <3>1. c.expires = used[u] + MaxAge
      BY <1>3, <2>2, Zenon DEF Brings
    <3>2. now > used[u] + MaxAge
      BY <1>3, <2>2, Zenon DEF Expected
    <3>3. c.expires \in Nat \ {0} /\ c.expires < now
      BY <1>1, <1>3, <3>1, <3>2
    <3> QED
      BY <1>3, <3>3, Zenon DEF Brings
  <2> QED
    BY <2>1, <2>2
<1> QED
  BY <1>2, <1>3

-----------------------------------------------------------------------------
(* The executor *)

LEMMA ChainType == ASSUME chain \in Chains PROVE Len(chain) \in Nat /\ DOMAIN chain = 1..Len(chain)
<1>1. chain \in Seq({"cors", "session", "app"})
  BY SessionAssumption
<1> QED
  BY <1>1

\* How a step moves the executor.
Moves ==
  \/ phase' = phase /\ index' = index /\ depth' = depth
  \/ phase = "enter" /\ index = Len(chain) /\ phase' \in {"handler", "unwind"}
       /\ index' = index /\ depth' = depth
  \/ phase = "handler" /\ phase' = "unwind" /\ index' = index /\ depth' = depth
  \/ /\ phase = "enter" /\ index < Len(chain) /\ index' = index + 1
     /\ \/ phase' = "enter" /\ depth' = index + 1
        \/ phase' = "unwind" /\ depth' = index
  \/ phase = "unwind" /\ depth > 0 /\ depth' = depth - 1 /\ phase' = phase /\ index' = index
  \/ /\ phase = "unwind" /\ depth = 0 /\ phase' \in {"page", "write", "done"}
     /\ index' = index /\ depth' = depth
  \/ /\ phase \in {"page", "write"} /\ phase' \in {"write", "done"}
     /\ index' = index /\ depth' = depth
  \/ phase = "done" /\ phase' = "idle" /\ index' = 0 /\ depth' = depth

LEMMA NextMoves ==
  ASSUME [Next]_vars
  PROVE  \/ \E u \in Users, ch \in Chains : SendRequest(u, ch)
         \/ chain' = chain /\ Moves
<1>1. CASE Application
  BY <1>1, Zenon DEF Application, Moves, SessionSet, SessionRemove, SessionClear, Change,
                     PutHeader, AddCookie, SetContentType, StartStream, PageReturns,
                     HandlerReturns, LeaveApp, Leave, EnterApp, Enter, Nested, requestVars
<1>2. CASE Executor
  BY <1>2, Zenon DEF Executor, Moves, EnterSession, LoadFails, EnterCors, CallAction, Enter,
                     Nested, LeaveSession, LeaveCors, Leave, HandleNotFound, HandleError,
                     RunReturns, RunFails, WriteResponse, Returned
<1>3. CASE Tick \/ UNCHANGED vars
  BY <1>3, Zenon DEF Tick, Moves, vars, requestVars
<1>4. CASE Agent
  BY <1>4, Zenon DEF Agent, Moves, TouchCookie, EndRequest, requestVars
<1> QED
  BY <1>1, <1>2, <1>3, <1>4, Zenon DEF Next

LEMMA PlaceNext == PlaceInv /\ [Next]_vars => PlaceInv'
<1> SUFFICES ASSUME PlaceInv, [Next]_vars PROVE PlaceInv'
  OBVIOUS
<1>1. Len(chain) \in Nat
  BY ChainType DEF PlaceInv
<1>2. CASE \E u \in Users, ch \in Chains : SendRequest(u, ch)
  <2>1. /\ chain' \in Chains /\ phase = "idle" /\ phase' = "enter" /\ index' = index
        /\ depth' = depth
    BY <1>2, Zenon DEF SendRequest
  <2>2. chain' \in Seq({"cors", "session", "app"})
    BY <2>1, SessionAssumption
  <2>3. Len(chain') \in Nat
    BY <2>2
  <2> QED
    BY <2>1, <2>3 DEF PlaceInv
<1>3. CASE chain' = chain /\ Moves
  BY <1>1, <1>3 DEF PlaceInv, Moves
<1> QED
  BY <1>2, <1>3, NextMoves, Zenon

LEMMA PlaceInvariant == Spec => []PlaceInv
<1>1. Init => PlaceInv
  <2> SUFFICES ASSUME Init PROVE PlaceInv
    OBVIOUS
  <2>1. Len(chain) \in Nat
    BY ChainType DEF Init
  <2> QED
    BY <2>1 DEF Init, PlaceInv
<1> QED
  BY <1>1, PlaceNext, PTL DEF Spec

-----------------------------------------------------------------------------
(* Cors *)

\* A step that keeps Cors's header as it is, and touches the response before the
\* chain is through only where a middleware of the application runs.
Keeps ==
  /\ chain' = chain
  /\ AllowOrigin \in headers' <=> AllowOrigin \in headers
  /\ index' = index \/ Enter("session") \/ Enter("app")
  /\ \/ headers' = headers /\ cookies' = cookies /\ headers_written' = headers_written
     \/ phase \notin {"idle", "enter"}
     \/ phase = "enter" /\ index = Len(chain)
     \/ phase = "enter" /\ chain[index + 1] = "app"
  /\ phase' = "idle" => phase = "idle"
  /\ phase' = "enter" => phase = "enter"

LEMMA KeepsOrCors ==
  ASSUME [Next]_vars
  PROVE  \/ \E u \in Users, ch \in Chains : SendRequest(u, ch)
         \/ \E arrives \in BOOLEAN : EndRequest(arrives)
         \/ \E b \in BOOLEAN : EnterCors(b)
         \/ Keeps
<1>1. AllowOrigin \notin AppHeaders \cup {"Content-Type", "Content-Length"}
  BY SessionAssumption DEF AllowOrigin
<1> HIDE DEF AllowOrigin
<1>2. CASE Application
  <2>1. CASE \E name \in AppHeaders : PutHeader(name)
    BY <1>1, <2>1, Zenon DEF PutHeader, AppRuns, Keeps, requestVars
  <2>2. CASE StartStream
    BY <1>1, <2>2, Zenon DEF StartStream, WriteHeader, AppRuns, Keeps, requestVars
  <2>3. CASE AddCookie
    BY <2>3, Zenon DEF AddCookie, AppRuns, Keeps, requestVars
  <2>4. CASE \/ \E k \in Keys, v \in Values : SessionSet(k, v)
             \/ \E k \in Keys : SessionRemove(k)
             \/ SessionClear \/ SetContentType
    BY <2>4, Zenon DEF SessionSet, SessionRemove, SessionClear, Change, SetContentType, Keeps,
                       requestVars, responseVars, tableVars
  <2>5. CASE PageReturns \/ \E e \in Errors : HandlerReturns(e) \/ LeaveApp(e)
    <3>1. "write" # "idle" /\ "write" # "enter" /\ "unwind" # "idle" /\ "unwind" # "enter"
      OBVIOUS
    <3> QED
      BY <2>5, <3>1, Zenon DEF PageReturns, HandlerReturns, LeaveApp, Leave, Keeps, responseVars, tableVars
  <2>6. CASE \E calls \in BOOLEAN, e \in Errors : EnterApp(calls, e)
    <3>1. PICK calls \in BOOLEAN, e \in Errors : EnterApp(calls, e)
      BY <2>6, Zenon
    <3>2. Enter("app") /\ phase = "enter" /\ phase' \in {"enter", "unwind"}
      BY <3>1, Zenon DEF EnterApp, Enter, Nested
    <3>3. phase' # "idle"
      BY <3>2
    <3> QED
      BY <3>1, <3>2, <3>3, Zenon DEF EnterApp, Keeps, responseVars, tableVars
  <2> QED
    BY <1>2, <2>1, <2>2, <2>3, <2>4, <2>5, <2>6, Zenon DEF Application
<1>3. CASE Executor
  <2>1. CASE EnterSession \/ LoadFails
    <3>1. Enter("session") /\ phase = "enter" /\ phase' \in {"enter", "unwind"}
      BY <2>1, Zenon DEF EnterSession, LoadFails, Enter, Nested
    <3>2. phase' # "idle"
      BY <3>1
    <3> QED
      BY <2>1, <3>1, <3>2, Zenon DEF EnterSession, LoadFails, Keeps, responseVars, tableVars
  <2>2. CASE \E b \in BOOLEAN : HandleNotFound(b) \/ HandleError(b)
    <3>1. /\ phase' \notin {"idle", "enter"} /\ chain' = chain /\ index' = index
          /\ \/ phase = "enter" /\ index = Len(chain)
             \/ phase = "unwind"
      BY <2>2 DEF HandleNotFound, HandleError, Returned
    <3>2. AllowOrigin \in headers' <=> AllowOrigin \in headers
      BY <1>1, <2>2, Zenon DEF HandleNotFound, HandleError, ResetBody
    <3> QED
      BY <3>1, <3>2 DEF Keeps
  <2>3. CASE WriteResponse
    <3>1. AllowOrigin \in headers' <=> AllowOrigin \in headers
      BY <1>1, <2>3, Zenon DEF WriteResponse, WriteHeader
    <3> QED
      BY <2>3, <3>1 DEF WriteResponse, Keeps
  <2>4. CASE \/ CallAction \/ LeaveCors \/ RunReturns \/ RunFails
    BY <2>4 DEF CallAction, LeaveCors, Leave, RunReturns, RunFails, Returned, Keeps, responseVars, tableVars
  <2>5. CASE \E b \in BOOLEAN : LeaveSession(b)
    <3>1. /\ phase = "unwind" /\ phase' = phase /\ chain' = chain /\ index' = index
          /\ headers' = headers
      BY <2>5, Zenon DEF LeaveSession, Leave
    <3> QED
      BY <3>1 DEF Keeps
  <2> QED
    BY <1>3, <2>1, <2>2, <2>3, <2>4, <2>5, Zenon DEF Executor
<1>4. CASE Tick \/ UNCHANGED vars
  BY <1>4, Zenon DEF Tick, Keeps, vars, requestVars, responseVars, tableVars
<1>5. CASE \E u \in Users, cookie \in {NoCookie, Forged} : TouchCookie(u, cookie)
  BY <1>5, Zenon DEF TouchCookie, Keeps, requestVars, responseVars, tableVars
<1> QED
  BY <1>2, <1>3, <1>4, <1>5, Zenon DEF Next, Agent

LEMMA EmptyOrOne == ASSUME NEW S, NEW a \in S PROVE <<>> \in Seq(S) /\ <<a>> \in Seq(S)
  OBVIOUS

LEMMA Wider == ASSUME NEW S, NEW T, T \subseteq S PROVE Seq(T) \subseteq Seq(S)
  OBVIOUS

LEMMA Headed ==
  ASSUME NEW S, NEW a \in S, NEW p \in Seq(S), NEW q \in Seq(S)
  PROVE  Len(<<a>> \o p \o q) \in Nat \ {0} /\ (<<a>> \o p \o q)[1] = a
<1> DEFINE h == <<a>> \o p
<1>1. h \in Seq(S) /\ Len(h) \in Nat \ {0} /\ h[1] = a
  <2>1. <<a>> \in Seq(S) /\ Len(<<a>>) = 1 /\ <<a>>[1] = a
    OBVIOUS
  <2> QED
    BY <2>1
<1> HIDE DEF h
<1>2. Len(h \o q) \in Nat \ {0} /\ (h \o q)[1] = a
  BY <1>1
<1> QED
  BY <1>2 DEF h

\* Cors itself: its first header is taken, as nothing came before it.
LEMMA CorsEnters ==
  ASSUME PlaceInv, CorsInv, NEW b \in BOOLEAN, EnterCors(b)
  PROVE  CorsInv'
<1> DEFINE names == CorsHeaders(b)
           with(n) == headers \cup {names[i] : i \in 1..n}
<1>1. PICK n \in 0..Len(names) :
        /\ \A i \in 1..n : Takes(with(i - 1), names[i])
        /\ n < Len(names) => ~Takes(with(n), names[n + 1])
        /\ Enter("cors") /\ Nested(n = Len(names) /\ ~b)
        /\ headers' = with(n) /\ chain' = chain
        /\ cookies' = cookies /\ headers_written' = headers_written
  BY Zenon DEF EnterCors
<1>2. Len(names) \in Nat \ {0} /\ names[1] = AllowOrigin
  <2>1. PICK S : S = STRING \cup {"Vary", AllowOrigin}
    BY Zenon
  <2>2. "Vary" \in S /\ AllowOrigin \in S /\ STRING \subseteq S
    BY <2>1, Zenon
  <2>3. <<>> \in Seq(S) /\ <<"Vary">> \in Seq(S) /\ Preflight \in Seq(S)
    BY <2>2, EmptyOrOne, Wider, SessionAssumption, Zenon
  <2>4. PICK p \in Seq(S) : p = IF AnyOrigin THEN <<>> ELSE <<"Vary">>
    BY <2>3, Zenon
  <2>5. PICK q \in Seq(S) : q = IF b THEN Preflight ELSE <<>>
    BY <2>3, Zenon
  <2>6. names = <<AllowOrigin>> \o p \o q
    BY <2>4, <2>5, Zenon DEF CorsHeaders
  <2> HIDE DEF names
  <2>7. /\ Len(<<AllowOrigin>> \o p \o q) \in Nat \ {0}
        /\ (<<AllowOrigin>> \o p \o q)[1] = AllowOrigin
    BY <2>2, Headed
  <2> QED
    BY <2>6, <2>7, Zenon
<1>3. /\ phase = "enter" /\ index \in Nat /\ index' = index + 1
      /\ phase' \in {"enter", "unwind"} /\ chain[index + 1] = "cors"
  BY <1>1 DEF Enter, Nested, PlaceInv
<1>4. headers \subseteq headers'
  BY <1>1, Zenon
<1>5. ASSUME CorsFirst, MaxHeaders > 0 PROVE AllowOrigin \in headers'
  <2>1. CASE index >= 1
    <3>1. phase # "idle"
      BY <1>3
    <3> QED
      BY <1>4, <1>5, <2>1, <3>1, Zenon DEF CorsInv
  <2>2. CASE index = 0
    <3>1. Blank
      BY <1>3, <1>5, <2>2, Zenon DEF CorsInv
    <3>2. Takes(headers, AllowOrigin)
      <4>1. Cardinality(headers) = 0
        BY <3>1, FS_EmptySet DEF Blank
      <4> QED
        BY <1>5, <3>1, <4>1, SessionAssumption DEF Blank, Takes, FreeSlot
    <3>3. n # 0
      <4> SUFFICES ASSUME n = 0 PROVE FALSE
        OBVIOUS
      <4>1. with(n) = headers
        <5>1. 1..n = {}
          OBVIOUS
        <5> QED
          BY <5>1, Zenon
      <4>2. names[n + 1] = AllowOrigin /\ n < Len(names)
        BY <1>2
      <4> HIDE DEF with, names
      <4> QED
        BY <1>1, <3>2, <4>1, <4>2, Zenon
    <3>4. 1 \in 1..n
      BY <1>2, <3>3
    <3> QED
      BY <1>1, <1>2, <3>4, Zenon
  <2> QED
    BY <1>3, <2>1, <2>2
<1>6. \E i \in 1..index' : chain'[i] = "cors"
  <2>1. index + 1 \in 1..index'
    BY <1>3
  <2> QED
    BY <1>1, <1>3, <2>1, Zenon
<1>7. phase' # "idle" /\ index' # 0 /\ CorsFirst' = CorsFirst
  BY <1>1, <1>3 DEF CorsFirst
<1> QED
  BY <1>5, <1>6, <1>7, Zenon DEF CorsInv

LEMMA CorsNext == PlaceInv /\ CorsInv /\ [Next]_vars => CorsInv'
<1> SUFFICES ASSUME PlaceInv, CorsInv, [Next]_vars PROVE CorsInv'
  OBVIOUS
<1>1. CASE \E u \in Users, ch \in Chains : SendRequest(u, ch)
  <2>1. /\ phase = "idle" /\ phase' = "enter" /\ index' = index /\ headers' = headers
        /\ cookies' = cookies /\ headers_written' = headers_written
    BY <1>1, Zenon DEF SendRequest, responseVars, tableVars
  <2>2. Blank /\ Blank' /\ index' = 0
    BY <2>1 DEF CorsInv, Blank, PlaceInv
  <2> QED
    BY <2>1, <2>2 DEF CorsInv, Blank
<1>2. CASE \E arrives \in BOOLEAN : EndRequest(arrives)
  <2>1. phase' = "idle" /\ headers' = {} /\ cookies' = 0 /\ ~headers_written'
    BY <1>2, Zenon DEF EndRequest
  <2> QED
    BY <2>1 DEF CorsInv, Blank
<1>3. CASE Keeps
  <2>1. chain \in Seq({"cors", "session", "app"}) /\ index \in Nat
    BY SessionAssumption DEF PlaceInv
  <2>2. CorsFirst' = CorsFirst /\ (CorsFirst => chain[1] = "cors" /\ Len(chain) # 0)
    BY <1>3, <2>1 DEF Keeps, CorsFirst
  <2>3. index' \in Nat /\ index' >= index /\ (CorsFirst /\ index' >= 1 => index >= 1)
    BY <1>3, <2>1, <2>2 DEF Keeps, Enter
  <2>4. AllowOrigin \in headers' => \E i \in 1..index' : chain'[i] = "cors"
    <3>1. 1..index \subseteq 1..index'
      BY <2>1, <2>3
    <3> QED
      BY <1>3, <3>1, Zenon DEF Keeps, CorsInv
  <2>5. phase' # "idle" /\ index' >= 1 /\ CorsFirst' /\ MaxHeaders > 0 => AllowOrigin \in headers'
    <3>1. ASSUME index >= 1 PROVE phase # "idle"
      BY <3>1 DEF PlaceInv
    <3> QED
      BY <1>3, <2>2, <2>3, <3>1, Zenon DEF Keeps, CorsInv
  <2>6. phase' = "idle" => Blank'
    BY <1>3 DEF Keeps, CorsInv, Blank
  <2>7. phase' = "enter" /\ index' = 0 /\ CorsFirst' => Blank'
    <3> SUFFICES ASSUME phase' = "enter", index' = 0, CorsFirst PROVE Blank'
      BY <2>2, Zenon
    <3>1. phase = "enter" /\ index = 0 /\ Blank
      BY <1>3, <2>1, <2>3 DEF Keeps, CorsInv
    <3>2. headers' = headers /\ cookies' = cookies /\ headers_written' = headers_written
      BY <1>3, <2>1, <2>2, <3>1 DEF Keeps
    <3> QED
      BY <3>1, <3>2 DEF Blank
  <2> QED
    BY <2>4, <2>5, <2>6, <2>7, Zenon DEF CorsInv
<1> QED
  BY <1>1, <1>2, <1>3, CorsEnters, KeepsOrCors, Zenon

\* With Cors first in the chain every head that goes out carries its header: the
\* stream's, the 404's, the error page's, whatever the application puts into the
\* table and however small that is; and no head carries it without a Cors having run.
THEOREM CorsAlways == Spec => []CorsOnEveryReply
<1>1. Init => CorsInv
  BY DEF Init, CorsInv, Blank
<1>2. PlaceInv /\ CorsInv => CorsOnEveryReply
  <2> SUFFICES ASSUME PlaceInv, CorsInv, headers_written
               PROVE  /\ CorsFirst /\ MaxHeaders > 0 => AllowOrigin \in headers
                      /\ AllowOrigin \in headers => \E i \in 1..index : chain[i] = "cors"
    BY Zenon DEF CorsOnEveryReply, CorsFirst
  <2>1. ASSUME CorsFirst, MaxHeaders > 0 PROVE AllowOrigin \in headers
    <3>1. chain \in Seq({"cors", "session", "app"})
      BY SessionAssumption DEF PlaceInv
    <3>2. Len(chain) # 0
      BY <2>1, <3>1 DEF CorsFirst
    <3>3. phase # "idle" /\ index >= 1
      BY <2>1, <3>2 DEF PlaceInv, CorsInv, Blank
    <3> QED
      BY <2>1, <3>3, Zenon DEF CorsInv
  <2> QED
    BY <2>1, Zenon DEF CorsInv
<1> QED
  BY <1>1, <1>2, PlaceInvariant, CorsNext, PTL DEF Spec

-----------------------------------------------------------------------------
(* The session *)

LEMMA SetEntryType ==
  ASSUME NEW s \in Seq(Entry), Len(s) <= MaxEntries, NEW k \in Keys, NEW v \in Values,
         Fits(s, k)
  PROVE  SetEntry(s, k, v) \in Seq(Entry) /\ Len(SetEntry(s, k, v)) <= MaxEntries
<1> DEFINE e == [key |-> k, value |-> v]
<1>1. e \in Entry /\ MaxEntries \in Nat
  BY SessionAssumption DEF Entry
<1> HIDE DEF e
<1>2. CASE At(s, k) = {}
  <2>1. SetEntry(s, k, v) = Append(s, e)
    BY <1>2, Zenon DEF SetEntry, e
  <2>2. Len(s) < MaxEntries
    BY <1>2, Zenon DEF Fits
  <2> QED
    BY <1>1, <2>1, <2>2
<1>3. CASE At(s, k) # {}
  <2>1. SetEntry(s, k, v) = [i \in DOMAIN s |-> IF i \in At(s, k) THEN e ELSE s[i]]
    BY <1>3, Zenon DEF SetEntry, e
  <2> QED
    BY <1>1, <2>1
<1> QED
  BY <1>2, <1>3

LEMMA RemoveEntryType ==
  ASSUME NEW s \in Seq(Entry), Len(s) <= MaxEntries, NEW k, At(s, k) # {}
  PROVE  RemoveEntry(s, k) \in Seq(Entry) /\ Len(RemoveEntry(s, k)) <= MaxEntries
<1>1. Len(s) \in Nat \ {0} /\ DOMAIN s = 1..Len(s) /\ MaxEntries \in Nat
  BY SessionAssumption DEF At
<1>2. RemoveEntry(s, k) = [i \in 1..(Len(s) - 1) |-> IF i \in At(s, k) THEN s[Len(s)] ELSE s[i]]
  BY Zenon DEF RemoveEntry
<1> QED
  BY <1>1, <1>2

LEMMA ExpectedType ==
  ASSUME DataInv, NEW u \in Users
  PROVE  Expected(u) \in Seq(Entry) /\ Len(Expected(u)) <= MaxEntries
<1>1. left[u] \in Seq(Entry) /\ Len(left[u]) <= MaxEntries
  BY DEF DataInv
<1>2. <<>> \in Seq(Entry) /\ Len(<<>>) <= MaxEntries
  BY SessionAssumption
<1> QED
  BY <1>1, <1>2, Zenon DEF Expected

LEMMA NotLoaded == ASSUME depth = 0 PROVE ~Loaded
  BY DEF Loaded

\* A step that leaves cookies, session and ghosts alone.
LEMMA CarrySame ==
  ASSUME DataInv, CarryInv, jar' = jar, user' = user, set_cookie' = set_cookie,
         saved' = saved, left' = left, used' = used, now' = now, session' = session,
         modified' = modified, Loaded' => Loaded,
         phase' \in {"idle", "enter"} => phase \in {"idle", "enter"} /\ (Loaded => Loaded'),
         phase' \in {"idle", "enter", "handler"} => phase \in {"idle", "enter", "handler"}
  PROVE  DataInv' /\ CarryInv'
<1>1. DataInv'
  BY Zenon DEF DataInv
<1>2. \A u \in Users : Brings(left'[u], used'[u], jar'[u], now')
  BY Zenon DEF CarryInv
<1>3. Loaded' /\ ~modified' => session' = Expected(user)'
  BY Zenon DEF CarryInv, Expected
<1>4. saved' # <<>> => Brings(saved'[1], now', Stored(jar'[user'], set_cookie'), now')
  BY Zenon DEF CarryInv
<1> QED
  BY <1>1, <1>2, <1>3, <1>4, Zenon DEF CarryInv

\* The handler changes the session.
LEMMA CarryChange ==
  ASSUME DataInv, CarryInv, NEW s \in Seq(Entry), Len(s) <= MaxEntries, Change(s)
  PROVE  DataInv' /\ CarryInv'
<1>1. /\ phase = "handler" /\ phase' = phase /\ session' = s /\ modified'
      /\ jar' = jar /\ user' = user /\ set_cookie' = set_cookie /\ left' = left
      /\ used' = used /\ now' = now /\ saved' = saved
  BY Zenon DEF Change, requestVars, responseVars, ghosts
<1>2. DataInv'
  BY <1>1, Zenon DEF DataInv
<1>3. /\ \A u \in Users : Brings(left'[u], used'[u], jar'[u], now')
      /\ saved' = <<>> /\ set_cookie' = NoCookie
  BY <1>1 DEF CarryInv
<1> QED
  BY <1>1, <1>2, <1>3 DEF CarryInv

\* A middleware that is not Session's neither loads nor unloads it on the way in.
LEMMA LoadedEnter ==
  ASSUME PlaceInv, NEW kind, NEW calls \in BOOLEAN, Enter(kind), Nested(calls), chain' = chain,
         kind # "session" \/ ~calls
  PROVE  (Loaded' <=> Loaded) /\ phase = "enter" /\ phase' \in {"enter", "unwind"}
<1>1. /\ phase = "enter" /\ depth = index /\ index \in Nat /\ chain[index + 1] = kind
      /\ \/ calls /\ depth' = index + 1 /\ phase' = "enter"
         \/ ~calls /\ depth' = index /\ phase' = "unwind"
  BY DEF PlaceInv, Enter, Nested
<1>2. CASE depth' = depth
  BY <1>1, <1>2 DEF Loaded
<1>3. CASE depth' = index + 1 /\ kind # "session"
  <2>1. \A i \in 1..depth' : i \in 1..depth \/ i = index + 1
    BY <1>1, <1>3
  <2>2. 1..depth \subseteq 1..depth'
    BY <1>1, <1>3
  <2> QED
    BY <1>1, <1>3, <2>1, <2>2, Zenon DEF Loaded
<1> QED
  BY <1>1, <1>2, <1>3

\* Steps that enter a middleware that loads nothing, that leave one, and that keep
\* the place.
PassesIn ==
  \/ LoadFails \/ \E b \in BOOLEAN : EnterCors(b)
  \/ \E calls \in BOOLEAN, e \in Errors : EnterApp(calls, e)
PassesOut == LeaveCors \/ \E e \in Errors : LeaveApp(e)
PassesBy ==
  \/ \E name \in AppHeaders : PutHeader(name)
  \/ AddCookie \/ SetContentType \/ StartStream \/ PageReturns \/ CallAction
  \/ \E e \in Errors : HandlerReturns(e)
  \/ \E b \in BOOLEAN : HandleNotFound(b) \/ HandleError(b)
  \/ RunReturns \/ RunFails \/ WriteResponse \/ UNCHANGED vars

LEMMA PassesKeep ==
  ASSUME PassesIn \/ PassesOut \/ PassesBy
  PROVE  /\ jar' = jar /\ user' = user /\ set_cookie' = set_cookie /\ saved' = saved
         /\ left' = left /\ used' = used /\ now' = now /\ session' = session
         /\ modified' = modified /\ chain' = chain
<1>1. CASE PassesIn
  BY <1>1, Zenon DEF PassesIn, EnterCors, EnterApp, LoadFails, sessionVars, responseVars, ghosts
<1>2. CASE PassesOut
  BY <1>2, Zenon DEF PassesOut, LeaveApp, LeaveCors, sessionVars, responseVars, ghosts
<1>3. CASE PassesBy
  BY <1>3, Zenon DEF PassesBy, PutHeader, AddCookie, SetContentType, StartStream, PageReturns,
                     CallAction, HandlerReturns, HandleNotFound, HandleError, RunReturns,
                     RunFails, WriteResponse, vars, requestVars, sessionVars, responseVars,
                     ghosts
<1> QED
  BY <1>1, <1>2, <1>3

LEMMA CarryPasses ==
  ASSUME PlaceInv, DataInv, CarryInv, PassesIn \/ PassesOut \/ PassesBy
  PROVE  DataInv' /\ CarryInv'
<1>1. CASE PassesIn
  <2>1. \E kind \in {"app", "cors", "session"}, calls \in BOOLEAN :
          Enter(kind) /\ Nested(calls) /\ (kind # "session" \/ ~calls)
    <3>1. CASE LoadFails
      BY <3>1 DEF LoadFails
    <3>2. CASE \E b \in BOOLEAN : EnterCors(b)
      <4>1. PICK b \in BOOLEAN : EnterCors(b)
        BY <3>2, Zenon
      <4>2. \E n \in 0..Len(CorsHeaders(b)) :
              Enter("cors") /\ Nested(n = Len(CorsHeaders(b)) /\ ~b)
        BY <4>1, Zenon DEF EnterCors
      <4>3. \E calls \in BOOLEAN : Enter("cors") /\ Nested(calls)
        BY <4>2
      <4> QED
        BY <4>3
    <3>3. CASE \E calls \in BOOLEAN, e \in Errors : EnterApp(calls, e)
      <4>1. \E calls \in BOOLEAN : Enter("app") /\ Nested(calls)
        BY <3>3 DEF EnterApp
      <4> QED
        BY <4>1
    <3> QED
      BY <1>1, <3>1, <3>2, <3>3, Zenon DEF PassesIn
  <2>2. (Loaded' <=> Loaded) /\ phase = "enter" /\ phase' \in {"enter", "unwind"}
    BY <1>1, <2>1, PassesKeep, LoadedEnter, Zenon
  <2>3. /\ phase' \in {"idle", "enter"} => phase \in {"idle", "enter"}
        /\ phase' \in {"idle", "enter", "handler"} => phase \in {"idle", "enter", "handler"}
    BY <2>2
  <2> QED
    BY <1>1, <2>2, <2>3, PassesKeep, CarrySame, Zenon
<1>2. CASE PassesOut
  <2>1. phase = "unwind" /\ phase' = "unwind" /\ depth' = depth - 1 /\ depth > 0
    BY <1>2 DEF PassesOut, LeaveCors, LeaveApp, Leave
  <2>2. 1..depth' \subseteq 1..depth
    BY <2>1 DEF PlaceInv
  <2>3. Loaded' => Loaded
    BY <1>2, <2>2, PassesKeep, Zenon DEF Loaded
  <2>4. phase' \notin {"idle", "enter", "handler"} /\ phase' \notin {"idle", "enter"}
    BY <2>1
  <2> QED
    BY <1>2, <2>3, <2>4, PassesKeep, CarrySame, Zenon
<1>3. CASE PassesBy
  <2>1. /\ depth' = depth
        /\ phase' = phase \/ phase' \notin {"idle", "enter"}
        /\ phase' \in {"idle", "enter", "handler"} => phase \in {"idle", "enter", "handler"}
    BY <1>3 DEF PassesBy, PutHeader, AddCookie, SetContentType, StartStream, PageReturns,
                CallAction, HandlerReturns, HandleNotFound, HandleError, RunReturns,
                RunFails, WriteResponse, Returned, vars, requestVars
  <2>2. Loaded' <=> Loaded
    BY <1>3, <2>1, PassesKeep, Zenon DEF Loaded
  <2> QED
    BY <1>3, <2>1, <2>2, PassesKeep, CarrySame, Zenon
<1> QED
  BY <1>1, <1>2, <1>3

LEMMA CarrySend ==
  ASSUME PlaceInv, DataInv, CarryInv, NEW u \in Users, NEW ch \in Chains, SendRequest(u, ch)
  PROVE  DataInv' /\ CarryInv'
<1>1. /\ phase = "idle" /\ phase' = "enter" /\ user' = u /\ depth' = depth /\ jar' = jar
      /\ set_cookie' = set_cookie /\ left' = left /\ used' = used /\ now' = now
      /\ session' = session /\ saved' = saved
  BY Zenon DEF SendRequest, sessionVars, responseVars, ghosts
<1>2. depth = 0 /\ depth' = 0
  BY <1>1 DEF PlaceInv
<1>3. saved = <<>> /\ set_cookie = NoCookie /\ session = <<>> /\ ~Loaded /\ ~Loaded'
  BY <1>1, <1>2 DEF CarryInv, Loaded
<1>4. DataInv'
  BY <1>1, Zenon DEF DataInv
<1>5. \A v \in Users : Brings(left'[v], used'[v], jar'[v], now')
  BY <1>1, Zenon DEF CarryInv
<1> QED
  BY <1>1, <1>3, <1>4, <1>5, Zenon DEF CarryInv

\* A cookie that goes, or is none of the server's, brings nothing.
LEMMA CarryTouch ==
  ASSUME PlaceInv, DataInv, CarryInv, NEW u \in Users, NEW cookie \in {NoCookie, Forged},
         TouchCookie(u, cookie)
  PROVE  DataInv' /\ CarryInv'
<1>1. /\ phase = "idle" /\ phase' = phase /\ user' = user /\ depth' = depth
      /\ jar' = [jar EXCEPT ![u] = cookie] /\ set_cookie' = set_cookie
      /\ left' = [left EXCEPT ![u] = <<>>]
      /\ used' = used /\ now' = now /\ session' = session /\ saved' = saved
  BY Zenon DEF TouchCookie, requestVars, sessionVars, responseVars
<1>2. depth = 0 /\ depth' = 0
  BY <1>1 DEF PlaceInv
<1>3. saved = <<>> /\ set_cookie = NoCookie /\ session = <<>> /\ ~Loaded /\ ~Loaded'
  BY <1>1, <1>2 DEF CarryInv, Loaded
<1>4. ~cookie.valid
  BY DEF NoCookie, Forged
<1>5. /\ jar' = [v \in Users |-> jar'[v]] /\ jar'[u] = cookie
      /\ \A v \in Users \ {u} : jar'[v] = jar[v]
  BY <1>1 DEF DataInv
<1>6. /\ left' \in [Users -> Seq(Entry)] /\ left'[u] = <<>>
      /\ \A v \in Users \ {u} : left'[v] = left[v]
      /\ \A v \in Users : Len(left'[v]) <= MaxEntries
  BY <1>1, SessionAssumption DEF DataInv
<1>7. DataInv'
  BY <1>1, <1>3, <1>5, <1>6, Zenon DEF DataInv
<1>8. \A v \in Users : Brings(left'[v], used'[v], jar'[v], now')
  <2>1. Brings(<<>>, used[u], cookie, now)
    BY <1>4, Zenon DEF Brings
  <2> QED
    BY <1>1, <1>5, <1>6, <2>1, Zenon DEF CarryInv
<1> QED
  BY <1>1, <1>3, <1>7, <1>8, Zenon DEF CarryInv

\* What is too old stays so.
LEMMA CarryTick ==
  ASSUME PlaceInv, DataInv, CarryInv, Tick
  PROVE  DataInv' /\ CarryInv'
<1>1. /\ phase = "idle" /\ phase' = phase /\ user' = user /\ depth' = depth
      /\ jar' = jar /\ set_cookie' = set_cookie /\ left' = left
      /\ used' = used /\ now' = now + 1 /\ session' = session /\ saved' = saved
  BY Zenon DEF Tick, requestVars, sessionVars, responseVars, ghosts
<1>2. depth = 0 /\ depth' = 0
  BY <1>1 DEF PlaceInv
<1>3. saved = <<>> /\ set_cookie = NoCookie /\ session = <<>> /\ ~Loaded /\ ~Loaded'
  BY <1>1, <1>2 DEF CarryInv, Loaded
<1>4. now \in Nat /\ now' \in Nat
  BY <1>1 DEF DataInv
<1>5. DataInv'
  BY <1>1, <1>4, Zenon DEF DataInv
<1>6. \A v \in Users : Brings(left'[v], used'[v], jar'[v], now')
  <2> SUFFICES ASSUME NEW v \in Users PROVE Brings(left[v], used[v], jar[v], now')
    BY <1>1, Zenon
  <2>1. jar[v].expires \in Nat /\ jar[v].expires < now => jar[v].expires < now'
    BY <1>1, <1>4
  <2>2. Brings(left[v], used[v], jar[v], now)
    BY Zenon DEF CarryInv
  <2> QED
    BY <2>1, <2>2, Zenon DEF Brings
<1> QED
  BY <1>1, <1>3, <1>5, <1>6, Zenon DEF CarryInv

\* Session.execute loads what the user's last saving request left.
LEMMA CarryEnter ==
  ASSUME OneSession, PlaceInv, DataInv, CarryInv, EnterSession
  PROVE  DataInv' /\ CarryInv'
<1>1. /\ phase = "enter" /\ phase' = "enter" /\ user' = user /\ chain' = chain
      /\ jar' = jar /\ set_cookie' = set_cookie /\ left' = left /\ saved' = saved
      /\ used' = used /\ now' = now /\ depth' = index + 1 /\ index < Len(chain)
      /\ chain[index + 1] = "session"
      /\ session' = session \o Load(jar[user], MaxEntries - Len(session))
  BY Zenon DEF EnterSession, Enter, Nested, responseVars, ghosts
<1>2. /\ Len(chain) \in Nat /\ DOMAIN chain = 1..Len(chain) /\ depth = index /\ index \in Nat
      /\ index + 1 \in DOMAIN chain /\ 1..depth \subseteq DOMAIN chain
      /\ index + 1 \notin 1..depth /\ index + 1 \in 1..depth' /\ chain \in Chains
  BY <1>1, ChainType DEF PlaceInv
<1>3. ~Loaded
  BY <1>1, <1>2, Zenon DEF Loaded, OneSession
<1>4. saved = <<>> /\ session = <<>> /\ set_cookie = NoCookie
  BY <1>1, <1>3 DEF CarryInv
<1>5. Load(jar[user], MaxEntries) = Expected(user)
  <2>1. user \in Users /\ used[user] \in Nat /\ now \in Nat
    BY DEF DataInv
  <2>2. Brings(left[user], used[user], jar[user], now)
    BY <2>1, Zenon DEF CarryInv
  <2> QED
    BY <2>1, <2>2, LoadHeld, Zenon
<1>6. Expected(user) \in Seq(Entry) /\ Len(Expected(user)) <= MaxEntries
  BY ExpectedType, Zenon DEF DataInv
<1>7. session' = Expected(user)
  <2>1. MaxEntries - Len(session) = MaxEntries
    BY <1>4, SessionAssumption
  <2>2. session' = <<>> \o Expected(user)
    BY <1>1, <1>4, <1>5, <2>1, Zenon
  <2> QED
    BY <1>6, <2>2
<1>8. DataInv'
  BY <1>1, <1>6, <1>7, Zenon DEF DataInv
<1>9. \A v \in Users : Brings(left'[v], used'[v], jar'[v], now')
  BY <1>1, Zenon DEF CarryInv
<1>10. Expected(user)' = Expected(user)
  BY <1>1, Zenon DEF Expected
<1>11. Loaded'
  BY <1>1, <1>2, Zenon DEF Loaded
<1> QED
  BY <1>1, <1>4, <1>7, <1>8, <1>9, <1>10, <1>11, Zenon DEF CarryInv

\* Session.execute after next.
LEMMA CarryLeave ==
  ASSUME OneSession, PlaceInv, DataInv, CarryInv, NEW oom \in BOOLEAN, LeaveSession(oom)
  PROVE  DataInv' /\ CarryInv'
<1> DEFINE saves == err = "none" /\ ShouldSet
           sets == saves /\ ~SaveFails(oom) /\ ~headers_written
<1>1. /\ phase = "unwind" /\ phase' = phase /\ user' = user /\ chain' = chain
      /\ depth' = depth - 1 /\ depth > 0 /\ chain[depth] = "session"
      /\ jar' = jar /\ now' = now /\ left' = left /\ used' = used
      /\ session' = session /\ modified' = modified
      /\ set_cookie' = IF ~sets THEN set_cookie
                       ELSE IF session = <<>> THEN Deletion ELSE Sign(session)
      /\ saved' = IF err = "none" /\ ~headers_written /\ (ShouldSet => sets)
                  THEN <<session>> ELSE saved
  BY Zenon DEF LeaveSession, Leave, sessionVars
<1>2. /\ Len(chain) \in Nat /\ DOMAIN chain = 1..Len(chain) /\ chain \in Chains
      /\ depth \in DOMAIN chain /\ depth \in 1..depth /\ depth \notin 1..depth'
      /\ 1..depth' \subseteq DOMAIN chain
  BY <1>1, ChainType DEF PlaceInv
<1>3. Loaded /\ ~Loaded'
  BY <1>1, <1>2, Zenon DEF Loaded, OneSession
<1>4. saved = <<>> /\ set_cookie = NoCookie /\ user \in Users
  BY <1>3 DEF CarryInv, DataInv
<1>5. DataInv'
  <2>1. saved' # <<>> => saved'[1] = session
    <3>1. <<session>>[1] = session
      OBVIOUS
    <3> QED
      BY <1>1, <1>4, <3>1, Zenon
  <2> QED
    BY <1>1, <2>1, Zenon DEF DataInv
<1>6. \A v \in Users : Brings(left'[v], used'[v], jar'[v], now')
  BY <1>1, Zenon DEF CarryInv
<1>7. CASE saved' = <<>>
  <2>1. ~(err = "none" /\ ~headers_written /\ (ShouldSet => sets))
    <3>1. <<session>> # <<>>
      OBVIOUS
    <3> QED
      BY <1>1, <1>7, <3>1, Zenon
  <2>2. set_cookie' = NoCookie
    BY <1>1, <1>4, <2>1, Zenon
  <2> QED
    BY <1>1, <1>3, <1>5, <1>6, <1>7, <2>2 DEF CarryInv
<1>8. CASE saved' # <<>>
  <2>1. saved' = <<session>> /\ (ShouldSet => sets)
    BY <1>1, <1>4, <1>8, Zenon
  <2>2. saved'[1] = session
    BY <2>1
  <2>3. Brings(session, now, Stored(jar[user], set_cookie'), now)
    <3>1. CASE ShouldSet
      BY <1>1, <2>1, <3>1, SavedCookie, Zenon
    <3>2. CASE ~ShouldSet
      <4>1. ~modified /\ (MaxAge = 0 \/ session = <<>>)
        BY <3>2, Zenon DEF ShouldSet
      <4>2. session = Expected(user)
        BY <1>3, <4>1, Zenon DEF CarryInv
      <4>3. Stored(jar[user], set_cookie') = jar[user]
        <5>1. NoCookie.kind = "none"
          BY DEF NoCookie
        <5> QED
          BY <1>1, <1>4, <3>2, <5>1, Zenon DEF Stored
      <4>4. Brings(left[user], used[user], jar[user], now)
        BY <1>4, Zenon DEF CarryInv
      <4>5. Brings(session, now, jar[user], now)
        BY <1>4, <4>1, <4>2, <4>4, KeptCookie, Zenon
      <4> QED
        BY <4>3, <4>5, Zenon
    <3> QED
      BY <3>1, <3>2
  <2>4. Brings(saved'[1], now', Stored(jar'[user'], set_cookie'), now')
    BY <1>1, <2>2, <2>3, Zenon
  <2>5. phase' \notin {"idle", "enter", "handler"} /\ phase' \notin {"idle", "enter"}
    BY <1>1
  <2> QED
    BY <1>3, <1>5, <1>6, <1>8, <2>4, <2>5, Zenon DEF CarryInv
<1> QED
  BY <1>7, <1>8

\* The head has arrived, and the user holds its cookie; or it has not, and all hold
\* what they held.
LEMMA CarryEnd ==
  ASSUME PlaceInv, DataInv, CarryInv, NEW arrives \in BOOLEAN, EndRequest(arrives)
  PROVE  DataInv' /\ CarryInv'
<1>1. /\ phase = "done" /\ phase' = "idle" /\ user' = user /\ depth' = depth
      /\ jar' = IF arrives THEN [jar EXCEPT ![user] = Stored(jar[user], set_cookie)] ELSE jar
      /\ IF arrives /\ saved # <<>>
         THEN left' = [left EXCEPT ![user] = saved[1]] /\ used' = [used EXCEPT ![user] = now]
         ELSE left' = left /\ used' = used
      /\ set_cookie' = NoCookie /\ now' = now /\ session' = <<>> /\ saved' = <<>>
  BY Zenon DEF EndRequest
<1>2. ~Loaded'
  BY <1>1 DEF PlaceInv, Loaded
<1>3. user \in Users
  BY DEF DataInv
<1>4. /\ jar' = [v \in Users |-> jar'[v]]
      /\ \A v \in Users : jar'[v] = IF arrives /\ v = user THEN Stored(jar[v], set_cookie)
                                    ELSE jar[v]
  BY <1>1 DEF DataInv
<1>5. /\ left' \in [Users -> Seq(Entry)] /\ used' \in [Users -> Nat]
      /\ \A v \in Users : /\ Len(left'[v]) <= MaxEntries
                          /\ left'[v] = IF arrives /\ saved # <<>> /\ v = user THEN saved[1] ELSE left[v]
                          /\ used'[v] = IF arrives /\ saved # <<>> /\ v = user THEN now ELSE used[v]
  <2>1. CASE arrives /\ saved # <<>>
    BY <1>1, <2>1 DEF DataInv
  <2>2. CASE ~(arrives /\ saved # <<>>)
    BY <1>1, <2>2, Zenon DEF DataInv
  <2> QED
    BY <2>1, <2>2
<1>6. DataInv'
  <2>1. <<>> \in Seq(Entry) /\ Len(<<>>) <= MaxEntries
    BY SessionAssumption
  <2> QED
    BY <1>1, <1>4, <1>5, <2>1, Zenon DEF DataInv
<1>7. \A v \in Users : Brings(left'[v], used'[v], jar'[v], now')
  <2> SUFFICES ASSUME NEW v \in Users PROVE Brings(left'[v], used'[v], jar'[v], now)
    BY <1>1, Zenon
  <2>1. Brings(left[v], used[v], jar[v], now)
    BY Zenon DEF CarryInv
  <2>2. CASE ~arrives \/ v # user
    BY <1>4, <1>5, <2>1, <2>2, Zenon
  <2>3. CASE arrives /\ v = user /\ saved # <<>>
    BY <1>4, <1>5, <2>3, Zenon DEF CarryInv
  <2>4. CASE arrives /\ v = user /\ saved = <<>>
    <3>1. NoCookie.kind = "none" /\ set_cookie = NoCookie
      BY <2>4 DEF CarryInv, NoCookie
    <3>2. jar'[v] = jar[v] /\ left'[v] = left[v] /\ used'[v] = used[v]
      BY <1>4, <1>5, <2>4, <3>1, Zenon DEF Stored
    <3> QED
      BY <2>1, <3>2, Zenon
  <2> QED
    BY <2>2, <2>3, <2>4, Zenon
<1> QED
  BY <1>1, <1>2, <1>6, <1>7, Zenon DEF CarryInv

LEMMA CarryNext ==
  ASSUME OneSession
  PROVE  PlaceInv /\ DataInv /\ CarryInv /\ [Next]_vars => DataInv' /\ CarryInv'
<1> SUFFICES ASSUME PlaceInv, DataInv, CarryInv, [Next]_vars
             PROVE  DataInv' /\ CarryInv'
  BY Zenon
<1>1. CASE \/ \E k \in Keys, v \in Values : SessionSet(k, v)
           \/ \E k \in Keys : SessionRemove(k)
           \/ SessionClear
  <2>1. session \in Seq(Entry) /\ Len(session) <= MaxEntries
    BY Zenon DEF DataInv
  <2>2. <<>> \in Seq(Entry) /\ Len(<<>>) <= MaxEntries
    BY SessionAssumption
  <2>3. \E s \in Seq(Entry) : Len(s) <= MaxEntries /\ Change(s)
    BY <1>1, <2>1, <2>2, SetEntryType, RemoveEntryType, Zenon
       DEF SessionSet, SessionRemove, SessionClear
  <2> QED
    BY <2>3, CarryChange, Zenon
<1>2. CASE PassesIn \/ PassesOut \/ PassesBy
  BY <1>2, CarryPasses, Zenon
<1>3. CASE Agent
  BY <1>3, CarrySend, CarryTouch, CarryEnd, Zenon DEF Agent
<1>4. CASE EnterSession \/ \E b \in BOOLEAN : LeaveSession(b)
  BY <1>4, CarryEnter, CarryLeave, Zenon
<1>5. CASE Application
  BY <1>1, <1>2, <1>5, Zenon DEF Application, PassesIn, PassesOut, PassesBy
<1>6. CASE Executor
  BY <1>2, <1>4, <1>6, Zenon DEF Executor, PassesIn, PassesOut, PassesBy
<1> QED
  BY <1>2, <1>3, <1>5, <1>6, CarryTick, Zenon DEF Next, PassesBy

LEMMA CarryInit == Init => DataInv /\ CarryInv
<1> SUFFICES ASSUME Init PROVE DataInv /\ CarryInv
  OBVIOUS
<1>1. /\ jar = [u \in Users |-> NoCookie] /\ left = [u \in Users |-> <<>>]
      /\ used = [u \in Users |-> 0] /\ user \in Users /\ now = 0 /\ session = <<>>
      /\ set_cookie = NoCookie /\ saved = <<>> /\ depth = 0 /\ MaxEntries \in Nat
  BY SessionAssumption DEF Init
<1>2. DataInv
  BY <1>1 DEF DataInv
<1>3. ~Loaded
  BY <1>1, NotLoaded
<1>4. \A u \in Users : Brings(left[u], used[u], jar[u], now)
  <2> SUFFICES ASSUME NEW u \in Users PROVE Brings(left[u], used[u], jar[u], now)
    BY Zenon
  <2>1. jar[u] = NoCookie /\ left[u] = <<>>
    BY <1>1
  <2>2. ~NoCookie.valid
    BY DEF NoCookie
  <2> QED
    BY <2>1, <2>2, Zenon DEF Brings
<1> QED
  BY <1>1, <1>2, <1>3, <1>4, Zenon DEF CarryInv

\* A handler finds the session as its user's last request left it that could save it
\* and was answered, within its limit and its sliding expiry: for every chain with one
\* Session, any number of users, entries and requests, every max_age, whatever fails
\* on the way out and whatever becomes of the connection.
THEOREM SessionsCarried == ASSUME OneSession PROVE Spec => []SessionCarried
<1>1. DataInv /\ CarryInv => SessionCarried
  BY Zenon DEF DataInv, CarryInv, SessionCarried, Expected
<1> QED
  BY <1>1, PlaceInvariant, CarryInit, CarryNext, PTL DEF Spec
=============================================================================
