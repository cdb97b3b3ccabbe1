------------------------------ MODULE Session ------------------------------
(***************************************************************************)
(* The middleware chain (Executor) with the two middlewares that come with *)
(* the server, Session and Cors, around a handler, up to the head of the   *)
(* response: requests of several users, one after the other, each with the *)
(* chain of its route and each user with a cookie of its own.              *)
(*                                                                         *)
(* A session lives in the cookie alone: it is read on the way in, signed   *)
(* and set again on the way out.  A signature is valid or not; keys and    *)
(* values are single symbols, so that the payload is a sequence of         *)
(* symbols and separators.  "app" is a middleware of the application.      *)
(* Of a header only its name is kept, of a body nothing.                   *)
(***************************************************************************)
EXTENDS Integers, Sequences, FiniteSets

CONSTANTS
  Users,       \* who sends requests
  Chains,      \* the middleware chains of the routes
  Keys, Values,
  MaxEntries,  \* max_entries
  MaxAge,      \* config.max_age, 0 when null
  MaxHeaders,  \* config.request.max_header_count
  AnyOrigin,   \* Cors.origin is "*"
  Preflight,   \* the headers only a preflight gets, as configured
  AppHeaders,  \* headers the application sets, by their names
  MaxTime      \* how far the clock goes (bounds the model)

AllowOrigin == "Access-Control-Allow-Origin"

ASSUME SessionAssumption ==
  /\ Chains \subseteq Seq({"cors", "session", "app"})
  /\ MaxEntries \in Nat /\ MaxAge \in Nat /\ MaxTime \in Nat /\ MaxHeaders \in Nat
  /\ Users # {}
  /\ AnyOrigin \in BOOLEAN /\ Preflight \in Seq(STRING) /\ AppHeaders \subseteq STRING
  /\ AllowOrigin \notin AppHeaders

VARIABLES
  chain,           \* Executor.middlewares
  jar,             \* the session cookie each user holds
  now,             \* the clock
  user,            \* whose request it is
  phase,           \* where handleRequests and the executor are
  index,           \* Executor.index
  depth,           \* middlewares that have not returned yet
  err,             \* what went wrong: "none", "app" (a handler's error) or "io"
  session,         \* Request.session: its entries
  modified,        \* Request.session.modified
  headers,         \* Response.headers: the names, but for Set-Cookie
  cookies,         \* and how many entries it has under Set-Cookie
  content_type,    \* Response.content_type is set
  headers_written, \* Response.headers_written
  set_cookie,      \* the session's Set-Cookie: none, a token or a deletion
  saved,           \* ghost: <<the session>> once this request has saved it
  left,            \* ghost: what the last answered request to save left of a session
  used             \* ghost: when that was

requestVars == <<user, phase, index, depth, err>>
sessionVars == <<session, modified>>
tableVars == <<headers, cookies, content_type>>
responseVars == <<tableVars, headers_written, set_cookie>>
ghosts == <<saved, left, used>>
vars == <<chain, jar, now, requestVars, sessionVars, responseVars, ghosts>>

Separator == "NUL"
NoCookie == [kind |-> "none", valid |-> FALSE, expires |-> 0, payload |-> <<>>]
Deletion == [NoCookie EXCEPT !.kind = "delete"]
Forged == [NoCookie EXCEPT !.kind = "token"]

Init ==
  /\ chain \in Chains
  /\ jar = [u \in Users |-> NoCookie]
  /\ now = 0
  /\ user \in Users
  /\ phase = "idle" /\ index = 0 /\ depth = 0 /\ err = "none"
  /\ session = <<>> /\ modified = FALSE
  /\ headers = {} /\ cookies = 0 /\ content_type = FALSE
  /\ headers_written = FALSE /\ set_cookie = NoCookie
  /\ saved = <<>>
  /\ left = [u \in Users |-> <<>>]
  /\ used = [u \in Users |-> 0]

-----------------------------------------------------------------------------
(* The cookie *)

\* key\0value\0 of each entry, four symbols.
Payload(s) ==
  [j \in 1..(4 * Len(s)) |->
     LET entry == s[(j + 3) \div 4] IN
     IF j % 4 = 1 THEN entry.key ELSE IF j % 4 = 3 THEN entry.value ELSE Separator]

\* signSession: header, signature over header and payload, payload.
Sign(s) ==
  [kind |-> "token", valid |-> TRUE,
   expires |-> IF MaxAge = 0 THEN 0 ELSE now + MaxAge,
   payload |-> Payload(s)]

\* The pairs of a payload, as many as there is room for.
Pairs(p, room) ==
  LET n == Len(p) \div 4 IN
  [i \in 1..(IF n < room THEN n ELSE room) |->
     [key |-> p[4 * i - 3], value |-> p[4 * i - 1]]]

\* load: nothing of a cookie that is not ours or too old.
Load(cookie, room) ==
  IF cookie.valid /\ (cookie.expires = 0 \/ cookie.expires >= now)
  THEN Pairs(cookie.payload, room) ELSE <<>>

-----------------------------------------------------------------------------
(* SessionData *)

At(s, k) == {i \in DOMAIN s : s[i].key = k}

\* An entry to replace, or room for one more; error.SessionFull otherwise.
Fits(s, k) == At(s, k) # {} \/ Len(s) < MaxEntries

SetEntry(s, k, v) ==
  LET entry == [key |-> k, value |-> v] IN
  IF At(s, k) = {} THEN Append(s, entry)
  ELSE [i \in DOMAIN s |-> IF i \in At(s, k) THEN entry ELSE s[i]]

\* The last entry takes the place of the one that goes.
RemoveEntry(s, k) ==
  [i \in 1..(Len(s) - 1) |-> IF i \in At(s, k) THEN s[Len(s)] ELSE s[i]]

-----------------------------------------------------------------------------
(* The table of headers *)

\* Headers.add: room for one more entry.
FreeSlot(names) == Cardinality(names) + cookies < MaxHeaders

\* Response.header: the head is not out, and there is an entry to replace or room.
Takes(names, name) == ~headers_written /\ (name \in names \/ FreeSlot(names))

\* Mutant: the page begins with no headers at all.
ResetBody_AllHeaders == headers' = {}

\* Response.resetBody, of the headers.
ResetBody == headers' = headers \ {"Content-Type", "Content-Length"}

\* writeHeader puts the content type into the table first, and fails before it has
\* sent anything if that is full.
HeaderFits == content_type => Takes(headers, "Content-Type")

WriteHeader ==
  /\ headers' = IF content_type THEN headers \cup {"Content-Type"} ELSE headers
  /\ headers_written' = TRUE

-----------------------------------------------------------------------------
(* Users *)

\* A request, whose route or the lack of one decides the chain.
SendRequest(u, ch) ==
  /\ phase = "idle"
  /\ phase' = "enter"
  /\ user' = u
  /\ chain' = ch
  /\ UNCHANGED <<jar, now, index, depth, err, sessionVars, responseVars, ghosts>>

\* The cookie is dropped, or replaced by something the server did not sign.
TouchCookie(u, cookie) ==
  /\ phase = "idle"
  /\ jar' = [jar EXCEPT ![u] = cookie]
  /\ left' = [left EXCEPT ![u] = <<>>]
  /\ UNCHANGED <<chain, now, requestVars, sessionVars, responseVars, saved, used>>

Tick ==
  /\ phase = "idle" /\ now < MaxTime
  /\ now' = now + 1
  /\ UNCHANGED <<chain, jar, requestVars, sessionVars, responseVars, ghosts>>

-----------------------------------------------------------------------------
(* Executor.next, on the way in *)

\* The next middleware, which is of this kind, is called.
Enter(kind) ==
  /\ phase = "enter" /\ index < Len(chain)
  /\ chain[index + 1] = kind
  /\ index' = index + 1

\* It calls executor.next, or returns without.
Nested(calls) ==
  IF calls THEN phase' = "enter" /\ depth' = index + 1
  ELSE phase' = "unwind" /\ depth' = index

EnterSession ==
  /\ Enter("session") /\ Nested(TRUE)
  /\ session' = session \o Load(jar[user], MaxEntries - Len(session))
  /\ UNCHANGED <<chain, jar, now, user, err, modified, responseVars, ghosts>>

\* There is a cookie and no memory to decode it: execute returns before next.
LoadFails ==
  /\ Enter("session") /\ Nested(FALSE)
  /\ jar[user].kind = "token"
  /\ err' = "app"
  /\ UNCHANGED <<chain, jar, now, user, sessionVars, responseVars, ghosts>>

\* The headers Cors sets, in its order.
CorsHeaders(preflight) ==
  <<AllowOrigin>> \o (IF AnyOrigin THEN <<>> ELSE <<"Vary">>)
    \o (IF preflight THEN Preflight ELSE <<>>)

\* Cors.execute: it fails at the first header that is not taken (the n before it
\* stay); a preflight is answered here.
EnterCors(preflight) ==
  LET names == CorsHeaders(preflight)
      with(n) == headers \cup {names[i] : i \in 1..n}
  IN  \E n \in 0..Len(names) :
        /\ \A i \in 1..n : Takes(with(i - 1), names[i])
        /\ n < Len(names) => ~Takes(with(n), names[n + 1])
        /\ Enter("cors") /\ Nested(n = Len(names) /\ ~preflight)
        /\ headers' = with(n)
        /\ err' = IF n = Len(names) THEN err ELSE "app"
        /\ UNCHANGED <<chain, jar, now, user, sessionVars, cookies, content_type,
                       headers_written, set_cookie, ghosts>>

\* A middleware of the application calls next, answers by itself, or fails.
EnterApp(calls, error) ==
  /\ Enter("app") /\ Nested(calls /\ error = "none")
  /\ err' = error
  /\ UNCHANGED <<chain, jar, now, user, sessionVars, responseVars, ghosts>>

\* The end of the chain: the action of a route.
CallAction ==
  /\ phase = "enter" /\ index = Len(chain)
  /\ phase' = "handler"
  /\ UNCHANGED <<chain, jar, now, user, index, depth, err, sessionVars,
                 responseVars, ghosts>>

\* handleNotFound: the application's notFound, or a page of the executor's own.
HandleNotFound(custom) ==
  /\ phase = "enter" /\ index = Len(chain)
  /\ phase' = IF custom THEN "handler" ELSE "unwind"
  /\ IF headers_written THEN UNCHANGED headers ELSE ResetBody
  /\ content_type' = (~custom \/ (content_type /\ headers_written))
  /\ UNCHANGED <<chain, jar, now, user, index, depth, err, sessionVars, cookies,
                 headers_written, set_cookie, ghosts>>

-----------------------------------------------------------------------------
(* The application *)

\* Its code runs: the handler, uncaughtError, or a middleware before or after its
\* call of next.
AppRuns ==
  \/ phase \in {"handler", "page"}
  \/ phase = "enter" /\ index < Len(chain) /\ chain[index + 1] = "app"
  \/ phase = "unwind" /\ depth > 0 /\ chain[depth] = "app"

\* Response.header, when it does not fail.
PutHeader(name) ==
  /\ AppRuns /\ Takes(headers, name)
  /\ headers' = headers \cup {name}
  /\ UNCHANGED <<chain, jar, now, requestVars, sessionVars, cookies, content_type,
                 headers_written, set_cookie, ghosts>>

\* Response.setCookie, with a cookie of the application's.
AddCookie ==
  /\ AppRuns /\ ~headers_written /\ FreeSlot(headers)
  /\ cookies' = cookies + 1
  /\ UNCHANGED <<chain, jar, now, requestVars, sessionVars, headers, content_type,
                 headers_written, set_cookie, ghosts>>

SetContentType ==
  /\ AppRuns
  /\ content_type' = TRUE
  /\ UNCHANGED <<chain, jar, now, requestVars, sessionVars, headers, cookies,
                 headers_written, set_cookie, ghosts>>

\* Response.stream: the head goes out.
StartStream ==
  /\ AppRuns /\ ~headers_written /\ HeaderFits
  /\ WriteHeader
  /\ UNCHANGED <<chain, jar, now, requestVars, sessionVars, cookies, content_type,
                 set_cookie, ghosts>>

Change(s) ==
  /\ phase = "handler"
  /\ session' = s
  /\ modified' = TRUE
  /\ UNCHANGED <<chain, jar, now, requestVars, responseVars, ghosts>>

\* SessionData.set, remove (of a key that is there) and clear.
SessionSet(k, v) == Fits(session, k) /\ Change(SetEntry(session, k, v))
SessionRemove(k) == At(session, k) # {} /\ Change(RemoveEntry(session, k))
SessionClear == Change(<<>>)

HandlerReturns(error) ==
  /\ phase = "handler"
  /\ phase' = "unwind"
  /\ err' = error
  /\ UNCHANGED <<chain, jar, now, user, index, depth, sessionVars, responseVars,
                 ghosts>>

-----------------------------------------------------------------------------
(* The way out *)

\* The innermost middleware that has not returned is of this kind.
Leave(kind) ==
  /\ phase = "unwind" /\ depth > 0
  /\ chain[depth] = kind
  /\ depth' = depth - 1

\* Mutant: the cookie is only refreshed when the session was changed.
ShouldSet_OnlyModified == modified

\* modified, or a sliding expiry.
ShouldSet == modified \/ (MaxAge # 0 /\ session # <<>>)

\* Signing needs memory, setCookie needs memory and a slot, unless the head is out.
SaveFails(oom) ==
  IF headers_written THEN oom /\ session # <<>> ELSE oom \/ ~FreeSlot(headers)

\* Session.execute after next.  An error goes by; a response that has started
\* keeps the cookie it has; any other failure becomes an error.
LeaveSession(oom) ==
  /\ Leave("session")
  /\ LET saves == err = "none" /\ ShouldSet
         sets == saves /\ ~SaveFails(oom) /\ ~headers_written
     IN  /\ set_cookie' = IF ~sets THEN set_cookie
                          ELSE IF session = <<>> THEN Deletion ELSE Sign(session)
         /\ cookies' = IF sets THEN cookies + 1 ELSE cookies
         /\ err' = IF saves /\ SaveFails(oom) THEN "app" ELSE err
         /\ saved' = IF err = "none" /\ ~headers_written /\ (ShouldSet => sets)
                     THEN <<session>> ELSE saved
  /\ UNCHANGED <<chain, jar, now, user, phase, index, sessionVars, headers,
                 content_type, headers_written, left, used>>

LeaveCors ==
  /\ Leave("cors")
  /\ UNCHANGED <<chain, jar, now, user, phase, index, err, sessionVars,
                 responseVars, ghosts>>

\* It passes an error on, handles it, or fails itself.
LeaveApp(error) ==
  /\ Leave("app")
  /\ err' = error
  /\ UNCHANGED <<chain, jar, now, user, phase, index, sessionVars, responseVars,
                 ghosts>>

-----------------------------------------------------------------------------
(* Executor.run, and what handleRequests does with its result *)

Returned == phase = "unwind" /\ depth = 0

RunReturns ==
  /\ Returned /\ err = "none"
  /\ phase' = "write"
  /\ UNCHANGED <<chain, jar, now, user, index, depth, err, sessionVars,
                 responseVars, ghosts>>

\* An I/O error, or any error once the head is out, ends the connection.
RunFails ==
  /\ Returned
  /\ err = "io" \/ (err = "app" /\ headers_written)
  /\ phase' = "done"
  /\ UNCHANGED <<chain, jar, now, user, index, depth, err, sessionVars,
                 responseVars, ghosts>>

\* handleError: the application's uncaughtError, or a page of the executor's own.
HandleError(custom) ==
  /\ Returned /\ err = "app" /\ ~headers_written
  /\ ResetBody
  /\ content_type' = ~custom
  /\ phase' = IF custom THEN "page" ELSE "write"
  /\ UNCHANGED <<chain, jar, now, user, index, depth, err, sessionVars, cookies,
                 headers_written, set_cookie, ghosts>>

PageReturns ==
  /\ phase = "page"
  /\ phase' = "write"
  /\ UNCHANGED <<chain, jar, now, user, index, depth, err, sessionVars,
                 responseVars, ghosts>>

\* Response.write, of the head: unless it is out or does not fit, which ends the
\* connection.
WriteResponse ==
  /\ phase = "write"
  /\ phase' = "done"
  /\ IF ~headers_written /\ HeaderFits THEN WriteHeader
     ELSE UNCHANGED <<headers, headers_written>>
  /\ UNCHANGED <<chain, jar, now, user, index, depth, err, sessionVars, cookies,
                 content_type, set_cookie, ghosts>>

\* The cookie as the user's agent keeps it.
Stored(old, cookie) ==
  IF cookie.kind = "none" THEN old
  ELSE IF cookie.kind = "delete" THEN NoCookie ELSE cookie

\* The head arrives, or is lost with the connection.  request.reset and a new
\* Response follow, or a new connection.
EndRequest(arrives) ==
  /\ phase = "done"
  /\ arrives => headers_written
  /\ jar' = IF arrives THEN [jar EXCEPT ![user] = Stored(@, set_cookie)] ELSE jar
  /\ IF arrives /\ saved # <<>>
     THEN /\ left' = [left EXCEPT ![user] = saved[1]]
          /\ used' = [used EXCEPT ![user] = now]
     ELSE UNCHANGED <<left, used>>
  /\ phase' = "idle" /\ index' = 0 /\ err' = "none"
  /\ session' = <<>> /\ modified' = FALSE
  /\ headers' = {} /\ cookies' = 0 /\ content_type' = FALSE
  /\ headers_written' = FALSE /\ set_cookie' = NoCookie
  /\ saved' = <<>>
  /\ UNCHANGED <<chain, now, user, depth>>

-----------------------------------------------------------------------------
Errors == {"none", "app", "io"}

Agent ==
  \/ \E u \in Users, ch \in Chains : SendRequest(u, ch)
  \/ \E u \in Users, cookie \in {NoCookie, Forged} : TouchCookie(u, cookie)
  \/ \E arrives \in BOOLEAN : EndRequest(arrives)

Application ==
  \/ \E k \in Keys, v \in Values : SessionSet(k, v)
  \/ \E k \in Keys : SessionRemove(k)
  \/ SessionClear
  \/ \E name \in AppHeaders : PutHeader(name)
  \/ AddCookie \/ SetContentType \/ StartStream \/ PageReturns
  \/ \E e \in Errors : HandlerReturns(e) \/ LeaveApp(e)
  \/ \E calls \in BOOLEAN, e \in Errors : EnterApp(calls, e)

Executor ==
  \/ EnterSession \/ LoadFails \/ CallAction \/ LeaveCors
  \/ \E b \in BOOLEAN : \/ EnterCors(b) \/ LeaveSession(b)
                         \/ HandleNotFound(b) \/ HandleError(b)
  \/ RunReturns \/ RunFails \/ WriteResponse

Next == Agent \/ Tick \/ Application \/ Executor

Spec == Init /\ [][Next]_vars

-----------------------------------------------------------------------------
(* Properties *)

\* Session.execute has loaded the session and waits for next to return.
Loaded == \E i \in 1..depth : chain[i] = "session"

\* A handler finds the session as this user's last request that could save it and
\* was answered left it: not an older one, not another user's, not what a failed or
\* an already started response made of it; and none once it has not been used for
\* longer than max_age, however often it was read before.  It keeps to its limit
\* over any number of trips through the cookie.
SessionCarried ==
  /\ Len(session) <= MaxEntries
  /\ Loaded /\ ~modified =>
       session = IF MaxAge # 0 /\ now > used[user] + MaxAge THEN <<>>
                 ELSE left[user]

\* With Cors around everything else, every head that goes out has its header: that
\* of a stream, of the 404 and of an error page that replaced what the handler had
\* set, and also when the table was full for one of Cors's later headers.  A browser
\* would hide the answer from the page otherwise.  A head has it only because Cors
\* ran for this request, not from an earlier one.
CorsOnEveryReply ==
  headers_written =>
    /\ chain # <<>> /\ Head(chain) = "cors" /\ MaxHeaders > 0 => AllowOrigin \in headers
    /\ AllowOrigin \in headers => \E i \in 1..index : chain[i] = "cors"
=============================================================================
