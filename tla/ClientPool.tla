----------------------------- MODULE ClientPool -----------------------------
(***************************************************************************)
(* The client: tasks that share one Client call fetch (and                 *)
(* connectWebSocket), take connections from its ConnectionPool, follow     *)
(* redirects, read as much of a response as they like and give the         *)
(* connection back.  For https they first see to it that the CA bundle,    *)
(* which they share too, is loaded.                                        *)
(*                                                                         *)
(* One step is one critical section of the pool's mutex, one close of a    *)
(* connection (closing suspends, so it happens outside the lock), one      *)
(* access to the bundle's lock or flag, or one exchange with the server.   *)
(* A server is what it answers with; what matters of the byte stream is    *)
(* whether anything of an earlier exchange is still to come on it.         *)
(***************************************************************************)
EXTENDS Integers, Sequences, FiniteSets, Entries

CONSTANTS
  Tasks,          \* tasks that share the client
  Conns,          \* connections open at one time (bounds the model)
  NoConn,         \* no connection
  Keys,           \* what Connection.matches compares: host, port, protocol
  SecureKeys,     \* those whose protocol is https
  Responses,      \* what a server may answer (records, see Response)
  MaxIdle,        \* config.max_idle_connections
  MaxRedirects,   \* config.max_redirects
  ServerMax,      \* Keep-Alive: max=, 0 when the server does not send it
  ServerTimeout,  \* Keep-Alive: timeout=, 0 when the server does not send it
  MaxTime,        \* how far the clock goes (bounds the model)
  WebSockets      \* tasks call connectWebSocket too

\* redirect: a 3xx whose Location is absent or not a 3xx ("none"), one the
\* client can follow ("good") or one it cannot ("bad").  body: nothing to read,
\* at most 2 KB, more.  ka: llhttp_should_keep_alive.  interim: a 1xx, which the
\* final response follows.
Response == [redirect : {"none", "good", "bad"}, body : {"none", "small", "large"},
             ka : BOOLEAN, decodable : BOOLEAN, interim : BOOLEAN]

ASSUME PoolAssumption ==
  /\ Responses \subseteq Response
  /\ MaxIdle \in Nat /\ MaxRedirects \in Nat
  /\ ServerMax \in Nat /\ ServerTimeout \in Nat
  /\ SecureKeys \subseteq Keys /\ MaxTime \in Nat
  /\ WebSockets \in BOOLEAN
  /\ NoConn \notin Conns /\ Keys # {} /\ Responses # {}

NoDeadline == -1

VARIABLES
  pc,        \* where each task is
  after,     \* where it goes once it has closed what it had to
  mode,      \* "fetch" or "ws"
  key,       \* the host it talks to
  hops,      \* redirects_remaining
  held,      \* the connection it owns
  doomed,    \* connections it took out of the pool and has still to close
  resp,      \* the response head it received
  got,       \* whose response that was: its own, or what an earlier one left
  open,      \* the connections that exist
  conn,      \* their fields
  idle,      \* ConnectionPool.idle, oldest first
  idle_len,  \* ConnectionPool.idle_len
  ca_bundle, \* Client.ca_bundle: "empty", "partial" or "whole"
  ca_bundle_loaded, \* the flag of that name
  now        \* the clock

taskVars == <<pc, after, mode, key, hops, held, doomed, resp, got>>
poolVars == <<idle, idle_len>>
caVars == <<ca_bundle, ca_bundle_loaded>>
vars == <<taskVars, open, conn, poolVars, caVars, now>>

Pc == {"idle", "ca", "calock", "cascan", "acquire", "connect", "send", "receive",
       "head", "body", "release", "sweep", "ws"}

(***************************************************************************)
(* closing, request_count, deadline and the two Keep-Alive parameters are  *)
(* Connection's fields.  unread says that the parser's message is not      *)
(* complete, dirty that something of an earlier exchange is still to come, *)
(* ending that the last response said close.                               *)
(***************************************************************************)
Fresh(k) ==
  [key |-> k, closing |-> FALSE, count |-> 0, max |-> 0, timeout |-> 0,
   deadline |-> NoDeadline, unread |-> FALSE, dirty |-> FALSE, ending |-> FALSE]

AnyKey == CHOOSE k \in Keys : TRUE
AnyResponse == CHOOSE r \in Responses : TRUE

Init ==
  /\ pc = [t \in Tasks |-> "idle"]
  /\ after = [t \in Tasks |-> "idle"]
  /\ mode = [t \in Tasks |-> "fetch"]
  /\ key = [t \in Tasks |-> AnyKey]
  /\ hops = [t \in Tasks |-> 0]
  /\ held = [t \in Tasks |-> NoConn]
  /\ doomed = [t \in Tasks |-> {}]
  /\ resp = [t \in Tasks |-> AnyResponse]
  /\ got = [t \in Tasks |-> "own"]
  /\ open = {}
  /\ conn = [c \in Conns |-> Fresh(AnyKey)]
  /\ idle = <<>> /\ idle_len = 0
  /\ ca_bundle = "empty" /\ ca_bundle_loaded = FALSE
  /\ now = 0

-----------------------------------------------------------------------------
(* Helpers *)

Goto(t, where) == pc' = [pc EXCEPT ![t] = where]

Min2(a, b) == IF a < b THEN a ELSE b

\* Connection.deinit and destroy: the id may be used again.
CloseConn(c) ==
  /\ open' = open \ {c}
  /\ conn' = [conn EXCEPT ![c] = Fresh(AnyKey)]

\* The task has a connection of its own, at this point of the code.
Holding(t, where, m) == pc[t] = where /\ mode[t] = m

\* fetch or connectWebSocket returns to its caller, and its locals go.
Forget(t) ==
  /\ mode' = [mode EXCEPT ![t] = "fetch"]
  /\ key' = [key EXCEPT ![t] = AnyKey]
  /\ hops' = [hops EXCEPT ![t] = 0]

\* Go on where the task was going, after it has closed what is doomed.
Proceed(t, isDoomed) ==
  IF isDoomed THEN Goto(t, "sweep") /\ UNCHANGED after
  ELSE Goto(t, after[t]) /\ after' = [after EXCEPT ![t] = "idle"]

\* Mark it and hand it to pool.release, then go on at "next".  The response
\* lives in the connection and goes with it.
GiveBack(t, c, fields, next) ==
  /\ conn' = [conn EXCEPT ![c] = fields]
  /\ Goto(t, "release")
  /\ after' = [after EXCEPT ![t] = next]
  /\ resp' = [resp EXCEPT ![t] = AnyResponse]

-----------------------------------------------------------------------------
(* ConnectionPool *)

Matching(k) == {i \in DOMAIN idle : conn[idle[i]].key = k}

Expired(c) == conn[c].deadline # NoDeadline /\ now >= conn[c].deadline

\* Mutant: expired connections are put aside without leaving the list.
Acquire_KeepsExpired(t) ==
  /\ pc[t] = "acquire"
  /\ LET match == Matching(key[t])
         live == {i \in match : ~Expired(idle[i])}
         taken == {i \in live : \A j \in live : j <= i}
         dead == {i \in match \ live : \A j \in taken : j < i}
         found == IF taken = {} THEN NoConn ELSE idle[CHOOSE i \in taken : TRUE]
         next == IF taken = {} THEN "connect" ELSE "send"
     IN
     /\ held' = [held EXCEPT ![t] = found]
     /\ doomed' = [doomed EXCEPT ![t] = {idle[i] : i \in dead}]
     /\ idle' = EntriesAt(idle, DOMAIN idle \ taken)
     /\ idle_len' = idle_len - Cardinality(taken)
     /\ after' = [after EXCEPT ![t] = IF dead = {} THEN "idle" ELSE next]
     /\ Goto(t, IF dead = {} THEN next ELSE "sweep")
  /\ UNCHANGED <<mode, key, hops, resp, got, open, conn, caVars, now>>

\* ConnectionPool.acquire, the critical section: the most recently used match
\* that has not expired; expired matches met on the way leave the pool too.
Acquire(t) ==
  /\ pc[t] = "acquire"
  /\ LET match == Matching(key[t])
         live == {i \in match : ~Expired(idle[i])}
         taken == {i \in live : \A j \in live : j <= i}
         dead == {i \in match \ live : \A j \in taken : j < i}
         found == IF taken = {} THEN NoConn ELSE idle[CHOOSE i \in taken : TRUE]
         next == IF taken = {} THEN "connect" ELSE "send"
     IN
     /\ held' = [held EXCEPT ![t] = found]
     /\ doomed' = [doomed EXCEPT ![t] = {idle[i] : i \in dead}]
     /\ idle' = EntriesAt(idle, DOMAIN idle \ (taken \cup dead))
     /\ idle_len' = idle_len - Cardinality(taken \cup dead)
     /\ after' = [after EXCEPT ![t] = IF dead = {} THEN "idle" ELSE next]
     /\ Goto(t, IF dead = {} THEN next ELSE "sweep")
  /\ UNCHANGED <<mode, key, hops, resp, got, open, conn, caVars, now>>

\* Outside the lock: close one of the connections that were taken out.
Sweep(t, c) ==
  /\ pc[t] = "sweep" /\ c \in doomed[t]
  /\ CloseConn(c)
  /\ doomed' = [doomed EXCEPT ![t] = @ \ {c}]
  /\ Proceed(t, doomed[t] # {c})
  /\ UNCHANGED <<mode, key, hops, held, resp, got, poolVars, caVars, now>>

\* ConnectionPool.release of a connection that must not be pooled.
ReleaseClosing(t) ==
  /\ pc[t] = "release"
  /\ conn[held[t]].closing \/ MaxIdle = 0
  /\ CloseConn(held[t])
  /\ held' = [held EXCEPT ![t] = NoConn]
  /\ Proceed(t, FALSE)
  /\ UNCHANGED <<mode, key, hops, doomed, resp, got, poolVars, caVars, now>>

PoolFull == idle_len >= MaxIdle

\* ConnectionPool.release otherwise: reset, evict the oldest if the pool is
\* full, append; the evicted one is closed outside the lock.
ReleasePooled(t) ==
  /\ pc[t] = "release"
  /\ ~conn[held[t]].closing /\ MaxIdle # 0
  /\ LET c == held[t]
         evicted == IF PoolFull /\ idle # <<>> THEN {Head(idle)} ELSE {}
         kept == IF evicted = {} THEN idle ELSE Tail(idle)
     IN
     /\ conn' = [conn EXCEPT ![c].dirty = @ \/ conn[c].unread,
                             ![c].unread = FALSE]
     /\ idle' = Append(kept, c)
     /\ idle_len' = idle_len - Cardinality(evicted) + 1
     /\ doomed' = [doomed EXCEPT ![t] = evicted]
     /\ Proceed(t, evicted # {})
  /\ held' = [held EXCEPT ![t] = NoConn]
  /\ UNCHANGED <<mode, key, hops, resp, got, open, caVars, now>>

\* Resetting the connection for reuse fails (the parser's init allocates).
ResetFails(t) ==
  /\ pc[t] = "release"
  /\ ~conn[held[t]].closing /\ MaxIdle # 0
  /\ CloseConn(held[t])
  /\ held' = [held EXCEPT ![t] = NoConn]
  /\ Proceed(t, FALSE)
  /\ UNCHANGED <<mode, key, hops, doomed, resp, got, poolVars, caVars, now>>

-----------------------------------------------------------------------------
(* Client.ensureCaBundle *)

\* The first read of the flag, without the lock.
CaCheck(t) ==
  /\ pc[t] = "ca"
  /\ Goto(t, IF ca_bundle_loaded THEN "acquire" ELSE "calock")
  /\ UNCHANGED <<after, mode, key, hops, held, doomed, resp, got, open, conn,
                 poolVars, caVars, now>>

\* Mutant: the flag is not read again under the lock.
CaLock_NoRecheck(t) ==
  /\ pc[t] = "calock"
  /\ \A u \in Tasks : pc[u] # "cascan"
  /\ Goto(t, "cascan")
  /\ ca_bundle' = "partial"
  /\ UNCHANGED <<after, mode, key, hops, held, doomed, resp, got, open, conn,
                 poolVars, ca_bundle_loaded, now>>

\* The lock is free and the flag is read again: another task may have loaded
\* the bundle meanwhile, and this one only unlocks.  Otherwise rescan begins.
CaLock(t) ==
  /\ pc[t] = "calock"
  /\ \A u \in Tasks : pc[u] # "cascan"
  /\ Goto(t, IF ca_bundle_loaded THEN "acquire" ELSE "cascan")
  /\ ca_bundle' = IF ca_bundle_loaded THEN ca_bundle ELSE "partial"
  /\ UNCHANGED <<after, mode, key, hops, held, doomed, resp, got, open, conn,
                 poolVars, ca_bundle_loaded, now>>

\* rescan is done, the flag is set, the lock is free again.
CaScanned(t) ==
  /\ pc[t] = "cascan"
  /\ ca_bundle' = "whole"
  /\ ca_bundle_loaded' = TRUE
  /\ Goto(t, "acquire")
  /\ UNCHANGED <<after, mode, key, hops, held, doomed, resp, got, open, conn,
                 poolVars, now>>

\* The wait for the lock is canceled, or rescan fails half way and unlocks.
CaFails(t) ==
  /\ pc[t] \in {"calock", "cascan"}
  /\ Goto(t, "idle")
  /\ Forget(t)
  /\ UNCHANGED <<after, held, doomed, resp, got, open, conn, poolVars, caVars,
                 now>>

-----------------------------------------------------------------------------
(* Client.fetch *)

\* Where fetchInternal starts.
Entry(k) == IF k \in SecureKeys THEN "ca" ELSE "acquire"

StartFetch(t, k, m) ==
  /\ pc[t] = "idle"
  /\ m = "ws" => WebSockets
  /\ Goto(t, Entry(k))
  /\ key' = [key EXCEPT ![t] = k]
  /\ mode' = [mode EXCEPT ![t] = m]
  /\ hops' = [hops EXCEPT ![t] = IF m = "ws" THEN 0 ELSE MaxRedirects]
  /\ UNCHANGED <<after, held, doomed, resp, got, open, conn, poolVars, caVars, now>>

\* acquireConnection found nothing in the pool.
Connect(t, c) ==
  /\ pc[t] = "connect" /\ c \notin open
  /\ open' = open \cup {c}
  /\ conn' = [conn EXCEPT ![c] = Fresh(key[t])]
  /\ held' = [held EXCEPT ![t] = c]
  /\ Goto(t, "send")
  /\ UNCHANGED <<after, mode, key, hops, doomed, resp, got, poolVars, caVars, now>>

\* The address, the connection or its TLS handshake fails, before the task has
\* a connection.
ConnectFails(t) ==
  /\ pc[t] \in {"acquire", "connect"}
  /\ Goto(t, "idle")
  /\ Forget(t)
  /\ UNCHANGED <<after, held, doomed, resp, got, open, conn,
                 poolVars, caVars, now>>

\* writeRequest and flush.
SendRequest(t) ==
  /\ pc[t] = "send"
  /\ Goto(t, "receive")
  /\ UNCHANGED <<after, mode, key, hops, held, doomed, resp, got, open, conn,
                 poolVars, caVars, now>>

\* writeRequest, flush or parseResponseHeaders failed (or TLS chose HTTP/2).
ExchangeFails(t) ==
  /\ pc[t] \in {"send", "receive"} /\ mode[t] = "fetch"
  /\ GiveBack(t, held[t], [conn[held[t]] EXCEPT !.closing = TRUE], "idle")
  /\ Forget(t)
  /\ UNCHANGED <<held, doomed, got, open, poolVars, caVars, now>>

\* parseResponseHeaders: the next message on the connection, whoever's it is.
\* After a 1xx the final response is still to come.
ReceiveHead(t, r) ==
  /\ Holding(t, "receive", "fetch")
  /\ got' = [got EXCEPT ![t] = IF conn[held[t]].dirty THEN "stale" ELSE "own"]
  /\ resp' = [resp EXCEPT ![t] = r]
  /\ conn' = [conn EXCEPT ![held[t]].unread = r.body # "none",
                          ![held[t]].dirty = @ \/ r.interim,
                          ![held[t]].ending = ~r.ka]
  /\ Goto(t, "head")
  /\ UNCHANGED <<after, mode, key, hops, held, doomed, open, poolVars, caVars, now>>

Follows(t) == resp[t].redirect # "none" /\ hops[t] > 0

\* error.UnsupportedContentEncoding.
RejectEncoding(t) ==
  /\ pc[t] = "head" /\ ~resp[t].decodable
  /\ LET c == conn[held[t]] IN
     GiveBack(t, held[t], [c EXCEPT !.closing = @ \/ c.unread], "idle")
  /\ Forget(t)
  /\ UNCHANGED <<held, doomed, got, open, poolVars, caVars, now>>

\* A Location that is too long, does not resolve or has another scheme.
RejectLocation(t) ==
  /\ pc[t] = "head" /\ resp[t].decodable
  /\ Follows(t) /\ resp[t].redirect = "bad"
  /\ GiveBack(t, held[t], conn[held[t]], "idle")
  /\ Forget(t)
  /\ UNCHANGED <<held, doomed, got, open, poolVars, caVars, now>>

\* A redirect's connection once up to 2 KB of its body have been drained.
AfterDrain(c, r) ==
  [c EXCEPT !.closing = @ \/ r.body = "large" \/ ~r.ka,
            !.unread = r.body = "large"]

\* Mutant: the next hop gets the same budget of redirects.
FollowRedirect_NoDecrement(t, k) ==
  /\ pc[t] = "head" /\ resp[t].decodable
  /\ Follows(t) /\ resp[t].redirect = "good"
  /\ GiveBack(t, held[t], AfterDrain(conn[held[t]], resp[t]), Entry(k))
  /\ key' = [key EXCEPT ![t] = k]
  /\ UNCHANGED <<mode, hops, held, doomed, got, open, poolVars, caVars, now>>

\* The connection goes back to the pool (not through Connection.release), and
\* the next hop starts over with one redirect less.
FollowRedirect(t, k) ==
  /\ pc[t] = "head" /\ resp[t].decodable
  /\ Follows(t) /\ resp[t].redirect = "good"
  /\ GiveBack(t, held[t], AfterDrain(conn[held[t]], resp[t]), Entry(k))
  /\ key' = [key EXCEPT ![t] = k]
  /\ hops' = [hops EXCEPT ![t] = @ - 1]
  /\ UNCHANGED <<mode, held, doomed, got, open, poolVars, caVars, now>>

\* The new host turns out to be invalid after the connection was given back.
RedirectHostInvalid(t) ==
  /\ pc[t] = "head" /\ resp[t].decodable
  /\ Follows(t) /\ resp[t].redirect = "good"
  /\ GiveBack(t, held[t], AfterDrain(conn[held[t]], resp[t]), "idle")
  /\ Forget(t)
  /\ UNCHANGED <<held, doomed, got, open, poolVars, caVars, now>>

\* The drain of a redirect's body fails.
RedirectDrainFails(t) ==
  /\ pc[t] = "head" /\ resp[t].decodable
  /\ Follows(t) /\ resp[t].redirect = "good"
  /\ conn[held[t]].unread
  /\ GiveBack(t, held[t], [conn[held[t]] EXCEPT !.closing = TRUE], "idle")
  /\ Forget(t)
  /\ UNCHANGED <<held, doomed, got, open, poolVars, caVars, now>>

\* Mutant: a 3xx is followed although no redirect is left.
ReturnResponse_Unlimited(t) ==
  /\ pc[t] = "head" /\ resp[t].decodable
  /\ IF resp[t].redirect = "none"
     THEN Goto(t, "body") /\ UNCHANGED <<after, conn, hops, resp>>
     ELSE /\ GiveBack(t, held[t], AfterDrain(conn[held[t]], resp[t]), Entry(key[t]))
          /\ hops' = [hops EXCEPT ![t] = @ - 1]
  /\ UNCHANGED <<mode, key, held, doomed, got, open, poolVars, caVars, now>>

\* fetch returns a ClientResponse.
ReturnResponse(t) ==
  /\ pc[t] = "head" /\ resp[t].decodable
  /\ ~Follows(t)
  /\ Goto(t, "body")
  /\ UNCHANGED <<after, mode, key, hops, held, doomed, resp, got, open, conn,
                 poolVars, caVars, now>>

\* The caller reads the body to its end.
ReadBody(t) ==
  /\ pc[t] = "body" /\ conn[held[t]].unread
  /\ conn' = [conn EXCEPT ![held[t]].unread = FALSE]
  /\ UNCHANGED <<taskVars, open, poolVars, caVars, now>>

\* The Keep-Alive parameters, taken from the first response.
KeepAlive(c, field, announced) == IF c.count = 0 THEN announced ELSE c[field]

\* Mutant: the position in the stream is not looked at.
Released_IgnoresUnread(c, r) ==
  [c EXCEPT !.count = Min2(@ + 1, ServerMax + 1), !.closing = @ \/ ~r.ka]

\* Mutant: the last request the server allows is not counted.
Released_OffByOne(c, r) ==
  LET max == IF r.ka THEN KeepAlive(c, "max", ServerMax) ELSE c.max
  IN  [c EXCEPT !.count = Min2(@ + 1, ServerMax + 1), !.max = max,
                !.closing = @ \/ c.unread \/ ~r.ka \/ (max # 0 /\ c.count >= max)]

\* Connection.release, all but its call of pool.release.
Released(c, r) ==
  LET count == c.count + 1
      max == IF r.ka THEN KeepAlive(c, "max", ServerMax) ELSE c.max
      timeout == IF r.ka THEN KeepAlive(c, "timeout", ServerTimeout) ELSE c.timeout
  IN  [c EXCEPT
         !.count = Min2(count, ServerMax + 1),
         !.max = max, !.timeout = timeout,
         !.deadline = IF r.ka /\ timeout # 0 THEN now + timeout ELSE @,
         !.closing = @ \/ c.unread \/ ~r.ka \/ (max # 0 /\ count >= max)]

\* ClientResponse.deinit.
Deinit(t) ==
  /\ pc[t] = "body"
  /\ GiveBack(t, held[t], Released(conn[held[t]], resp[t]), "idle")
  /\ Forget(t)
  /\ UNCHANGED <<held, doomed, got, open, poolVars, caVars, now>>

-----------------------------------------------------------------------------
(* Client.connectWebSocket *)

Upgraded(t) ==
  /\ Holding(t, "receive", "ws")
  /\ ~conn[held[t]].dirty
  /\ Goto(t, "ws")
  /\ UNCHANGED <<after, mode, key, hops, held, doomed, resp, got, open, conn,
                 poolVars, caVars, now>>

\* The upgrade fails, or WebSocketClient.deinit: never through the pool.
CloseWebSocket(t) ==
  /\ mode[t] = "ws" /\ pc[t] \in {"send", "receive", "ws"}
  /\ CloseConn(held[t])
  /\ held' = [held EXCEPT ![t] = NoConn]
  /\ Goto(t, "idle")
  /\ Forget(t)
  /\ UNCHANGED <<after, doomed, resp, got, poolVars, caVars, now>>

-----------------------------------------------------------------------------
Tick ==
  /\ now < MaxTime
  /\ now' = now + 1
  /\ UNCHANGED <<taskVars, open, conn, poolVars, caVars>>

\* What a task does by itself once it has called fetch.
Progress(t) ==
  \/ CaCheck(t) \/ CaLock(t) \/ CaScanned(t) \/ CaFails(t)
  \/ Acquire(t) \/ (\E c \in Conns : Sweep(t, c) \/ Connect(t, c))
  \/ ReleaseClosing(t) \/ ReleasePooled(t) \/ ResetFails(t)
  \/ ConnectFails(t) \/ SendRequest(t) \/ ExchangeFails(t)
  \/ \E r \in Responses : ReceiveHead(t, r)
  \/ RejectEncoding(t) \/ RejectLocation(t) \/ RedirectHostInvalid(t)
  \/ (\E k \in Keys : FollowRedirect(t, k)) \/ RedirectDrainFails(t)
  \/ ReturnResponse(t) \/ Deinit(t)
  \/ Upgraded(t) \/ CloseWebSocket(t)

Next ==
  \/ \E t \in Tasks :
       \/ Progress(t)
       \/ \E k \in Keys, m \in {"fetch", "ws"} : StartFetch(t, k, m)
       \/ ReadBody(t)
  \/ Tick

Spec == Init /\ [][Next]_vars

(***************************************************************************)
(* Fairness: the runtime runs every task, a server answers or its          *)
(* connection breaks, and the caller gives its response back.              *)
(***************************************************************************)
FairSpec == Spec /\ \A t \in Tasks : WF_vars(Progress(t))

-----------------------------------------------------------------------------
(* Properties *)

ConnFields ==
  [key : Keys, closing : BOOLEAN, count : 0..ServerMax + 1, max : {0, ServerMax},
   timeout : {0, ServerTimeout},
   deadline : {NoDeadline} \cup 0..MaxTime + ServerTimeout,
   unread : BOOLEAN, dirty : BOOLEAN, ending : BOOLEAN]

TypeOK ==
  /\ pc \in [Tasks -> Pc] /\ after \in [Tasks -> Pc]
  /\ mode \in [Tasks -> {"fetch", "ws"}]
  /\ key \in [Tasks -> Keys]
  /\ hops \in [Tasks -> 0..MaxRedirects]
  /\ held \in [Tasks -> Conns \cup {NoConn}]
  /\ doomed \in [Tasks -> SUBSET Conns]
  /\ resp \in [Tasks -> Responses]
  /\ got \in [Tasks -> {"own", "stale"}]
  /\ open \subseteq Conns
  /\ conn \in [Conns -> ConnFields]
  /\ idle \in Seq(Conns) /\ idle_len \in Int
  /\ ca_bundle \in {"empty", "partial", "whole"} /\ ca_bundle_loaded \in BOOLEAN
  /\ now \in 0..MaxTime

\* Everywhere a connection can be: with a task, on a task's list of
\* connections to close, at a place of the pool.
Places(c) ==
  {<<"held", t>> : t \in {u \in Tasks : held[u] = c}}
    \cup {<<"doomed", t>> : t \in {u \in Tasks : c \in doomed[u]}}
    \cup {<<"idle", i>> : i \in {j \in DOMAIN idle : idle[j] = c}}

\* Every connection that exists is in exactly one place, and one that was
\* destroyed is in none: no two tasks share a connection, none is released
\* twice, used after it was freed, or lost.  The pool's separate counter is its
\* length, and the pool keeps to its limit however many tasks release at once.
OneOwner ==
  /\ \A c \in Conns : Cardinality(Places(c)) = IF c \in open THEN 1 ELSE 0
  /\ idle_len = Len(idle) /\ Len(idle) <= MaxIdle

\* client.zig, Connection.release: "A response body that wasn't fully read
\* leaves the connection at an unknown stream position, so it must not be
\* reused".  A task is never given what an earlier request left behind.
OwnResponse == \A t \in Tasks : got[t] = "own"

\* client.zig, ConnectionPool.release: "Release a connection back to the pool,
\* or close it if pool is full or connection is closing".  A connection whose
\* server said it would close it, or whose announced number of requests is used
\* up, does not wait in the pool for the next request.
IdleUsable ==
  \A i \in DOMAIN idle :
    LET c == conn[idle[i]] IN ~c.ending /\ (c.max # 0 => c.count < c.max)

\* A task that verifies a server with the shared bundle reads one that is whole
\* and that no other task is about to change: it reads it without the lock.
BundleWhole ==
  \A t \in Tasks :
    pc[t] \in {"acquire", "connect"} /\ key[t] \in SecureKeys =>
      ca_bundle = "whole" /\ \A u \in Tasks : pc[u] # "cascan"

\* Every fetch ends, also when servers redirect for ever and tasks compete for
\* the pool.
EveryFetchEnds ==
  \A t \in Tasks : pc[t] \in {"ca", "acquire"} ~> pc[t] = "idle"
=============================================================================
