-------------------------- MODULE ClientPoolProofs --------------------------
(***************************************************************************)
(* Proofs about ClientPool, for any number of tasks and connections, every *)
(* pool size and whatever a server announces.                              *)
(***************************************************************************)
EXTENDS ClientPool, EntriesProofs, TLAPS

-----------------------------------------------------------------------------
(* Types *)

LEMMA AnyTypes == AnyKey \in Keys /\ AnyResponse \in Responses
<1>1. Keys # {} /\ Responses # {}
  BY PoolAssumption, Zenon
<1> QED
  BY <1>1, Zenon DEF AnyKey, AnyResponse

LEMMA FreshType ==
  ASSUME NEW k \in Keys
  PROVE  Fresh(k) \in ConnFields
  BY PoolAssumption DEF Fresh, ConnFields, NoDeadline

\* A connection's record stays one when its flags are set.
LEMMA FlagsType ==
  ASSUME NEW c \in ConnFields, NEW a \in BOOLEAN, NEW b \in BOOLEAN, NEW d \in BOOLEAN
  PROVE  /\ [c EXCEPT !.closing = a] \in ConnFields
         /\ [c EXCEPT !.closing = a, !.unread = b] \in ConnFields
         /\ [c EXCEPT !.dirty = a, !.unread = b] \in ConnFields
         /\ [c EXCEPT !.unread = a, !.dirty = b, !.ending = d] \in ConnFields
         /\ [c EXCEPT !.unread = a] \in ConnFields
  BY DEF ConnFields

LEMMA ReleasedType ==
  ASSUME NEW c \in ConnFields, NEW r \in Responses, now \in 0..MaxTime
  PROVE  Released(c, r) \in ConnFields
<1>1. /\ ServerMax \in Nat /\ ServerTimeout \in Nat /\ MaxTime \in Nat
      /\ r.ka \in BOOLEAN
  BY PoolAssumption DEF Response
<1>2. /\ c.key \in Keys /\ c.closing \in BOOLEAN /\ c.count \in 0..ServerMax + 1
      /\ c.max \in {0, ServerMax} /\ c.timeout \in {0, ServerTimeout}
      /\ c.deadline \in {NoDeadline} \cup 0..MaxTime + ServerTimeout
      /\ c.unread \in BOOLEAN /\ c.dirty \in BOOLEAN /\ c.ending \in BOOLEAN
  BY DEF ConnFields
<1> DEFINE count == c.count + 1
           max == IF r.ka THEN KeepAlive(c, "max", ServerMax) ELSE c.max
           timeout == IF r.ka THEN KeepAlive(c, "timeout", ServerTimeout) ELSE c.timeout
           deadline == IF r.ka /\ timeout # 0 THEN now + timeout ELSE c.deadline
           closing == c.closing \/ c.unread \/ ~r.ka \/ (max # 0 /\ count >= max)
<1>3. max \in {0, ServerMax} /\ timeout \in {0, ServerTimeout}
  BY <1>2 DEF KeepAlive
<1> HIDE DEF max, timeout
<1>4. Min2(count, ServerMax + 1) \in 0..ServerMax + 1
  BY <1>1, <1>2 DEF Min2
<1>5. deadline \in {NoDeadline} \cup 0..MaxTime + ServerTimeout
  BY <1>1, <1>2, <1>3
<1>6. closing \in BOOLEAN
  OBVIOUS
<1> HIDE DEF count, deadline, closing
<1>7. [c EXCEPT !.count = Min2(count, ServerMax + 1), !.max = max, !.timeout = timeout,
                !.deadline = deadline, !.closing = closing] \in ConnFields
  BY <1>3, <1>4, <1>5, <1>6 DEF ConnFields
<1>8. Released(c, r) =
        [c EXCEPT !.count = Min2(count, ServerMax + 1), !.max = max, !.timeout = timeout,
                  !.deadline = deadline, !.closing = closing]
  BY Zenon DEF Released, count, max, timeout, deadline, closing
<1> QED
  BY <1>7, <1>8, Zenon

-----------------------------------------------------------------------------
(* Where the tasks are *)

HoldPc == {"send", "receive", "head", "body", "release", "ws"}

\* The task has a connection: acquired, and with others still to close perhaps.
Owns(t) == pc[t] \in HoldPc \/ (pc[t] = "sweep" /\ after[t] = "send")

TaskInv(t) ==
  /\ held[t] \in Conns <=> Owns(t)
  /\ doomed[t] # {} <=> pc[t] = "sweep"
  /\ pc[t] = "release" => after[t] \in {"idle", "ca", "acquire"}
  /\ pc[t] = "sweep" => after[t] \in {"idle", "ca", "acquire", "connect", "send"}

ControlInv == \A t \in Tasks : TaskInv(t)

\* What every action on the connection a task holds needs.
LEMMA HeldType ==
  ASSUME TypeOK, ControlInv, NEW t \in Tasks, pc[t] \in HoldPc
  PROVE  held[t] \in Conns /\ conn[held[t]] \in ConnFields
<1>1. held[t] \in Conns
  BY DEF ControlInv, TaskInv, Owns
<1> QED
  BY <1>1 DEF TypeOK

LEMMA TypeInit == Init => TypeOK /\ ControlInv
<1> SUFFICES ASSUME Init PROVE TypeOK /\ ControlInv
  OBVIOUS
<1>1. AnyKey \in Keys /\ AnyResponse \in Responses /\ Fresh(AnyKey) \in ConnFields
  BY AnyTypes, FreshType
<1>2. TypeOK
  <2>1. MaxRedirects \in Nat /\ MaxTime \in Nat
    BY PoolAssumption
  <2>2. /\ pc \in [Tasks -> Pc] /\ after \in [Tasks -> Pc]
        /\ mode \in [Tasks -> {"fetch", "ws"}] /\ got \in [Tasks -> {"own", "stale"}]
        /\ held \in [Tasks -> Conns \cup {NoConn}] /\ doomed \in [Tasks -> SUBSET Conns]
    BY DEF Init, Pc
  <2>3. /\ key \in [Tasks -> Keys] /\ resp \in [Tasks -> Responses]
        /\ conn \in [Conns -> ConnFields] /\ hops \in [Tasks -> 0..MaxRedirects]
    BY <1>1, <2>1 DEF Init
  <2>4. /\ idle \in Seq(Conns) /\ idle_len \in Int /\ now \in 0..MaxTime
        /\ open \subseteq Conns /\ ca_bundle \in {"empty", "partial", "whole"}
    BY <2>1 DEF Init
  <2>5. ca_bundle_loaded \in BOOLEAN
    BY DEF Init
  <2> QED
    BY <2>2, <2>3, <2>4, <2>5 DEF TypeOK
<1>3. ControlInv
  BY PoolAssumption DEF Init, ControlInv, TaskInv, Owns, HoldPc
<1> QED
  BY <1>2, <1>3

\* A step of one task that leaves the others where they are.
LEMMA ControlStep ==
  ASSUME TypeOK, ControlInv, NEW t \in Tasks,
         \A u \in Tasks \ {t} : /\ pc'[u] = pc[u] /\ after'[u] = after[u]
                                /\ held'[u] = held[u] /\ doomed'[u] = doomed[u],
         TaskInv(t)'
  PROVE  ControlInv'
  BY DEF ControlInv, TaskInv, Owns

\* A step that only moves one task, between places where it holds the same.
LEMMA MoveStep ==
  ASSUME TypeOK, ControlInv, NEW t \in Tasks, NEW where \in Pc, NEW next \in Pc,
         pc' = [pc EXCEPT ![t] = where], after' = [after EXCEPT ![t] = next],
         UNCHANGED <<held, doomed>>,
         pc[t] # "sweep", where # "sweep", pc[t] \in HoldPc <=> where \in HoldPc,
         where = "release" => next \in {"idle", "ca", "acquire"}
  PROVE  /\ ControlInv' /\ pc' \in [Tasks -> Pc] /\ after' \in [Tasks -> Pc]
<1>1. /\ pc' \in [Tasks -> Pc] /\ after' \in [Tasks -> Pc]
      /\ pc'[t] = where /\ after'[t] = next
      /\ \A u \in Tasks \ {t} : /\ pc'[u] = pc[u] /\ after'[u] = after[u]
                                /\ held'[u] = held[u] /\ doomed'[u] = doomed[u]
  BY DEF TypeOK
<1>2. TaskInv(t)'
  BY <1>1 DEF ControlInv, TaskInv, Owns
<1> QED
  BY <1>1, <1>2, ControlStep

LEMMA GiveBackStep ==
  ASSUME TypeOK, ControlInv, NEW t \in Tasks, pc[t] \in HoldPc, NEW f \in ConnFields,
         NEW next \in {"idle", "ca", "acquire"}, GiveBack(t, held[t], f, next),
         UNCHANGED <<held, doomed>>
  PROVE  /\ ControlInv' /\ pc' \in [Tasks -> Pc] /\ after' \in [Tasks -> Pc]
         /\ conn' \in [Conns -> ConnFields] /\ resp' \in [Tasks -> Responses]
<1>1. held[t] \in Conns
  BY HeldType
<1>2. conn' \in [Conns -> ConnFields] /\ resp' \in [Tasks -> Responses]
  BY <1>1, AnyTypes DEF TypeOK, GiveBack
<1>3. /\ "release" \in Pc /\ next \in Pc /\ "release" # "sweep" /\ "release" \in HoldPc
      /\ pc[t] # "sweep"
  BY DEF Pc, HoldPc
<1>4. pc' = [pc EXCEPT ![t] = "release"] /\ after' = [after EXCEPT ![t] = next]
  BY Zenon DEF GiveBack, Goto
<1> QED
  BY <1>2, <1>3, <1>4, MoveStep

LEMMA ForgetType ==
  ASSUME TypeOK, NEW t \in Tasks, Forget(t)
  PROVE  /\ mode' \in [Tasks -> {"fetch", "ws"}] /\ key' \in [Tasks -> Keys]
         /\ hops' \in [Tasks -> 0..MaxRedirects]
<1>1. MaxRedirects \in Nat
  BY PoolAssumption
<1> QED
  BY <1>1, AnyTypes DEF TypeOK, Forget

LEMMA EntryType == \A k : Entry(k) \in {"ca", "acquire"}
  BY Zenon DEF Entry

LEMMA AfterDrainType ==
  ASSUME NEW c \in ConnFields, NEW r \in Responses
  PROVE  AfterDrain(c, r) \in ConnFields
<1>1. AfterDrain(c, r) = [c EXCEPT !.closing = c.closing \/ r.body = "large" \/ ~r.ka,
                                   !.unread = (r.body = "large")]
  BY Zenon DEF AfterDrain
<1>2. (c.closing \/ r.body = "large" \/ ~r.ka) \in BOOLEAN /\ (r.body = "large") \in BOOLEAN
  OBVIOUS
<1> QED
  BY <1>1, <1>2, FlagsType

\* The pool's own steps on a connection that is closed.
LEMMA CloseType ==
  ASSUME TypeOK, NEW c \in Conns, CloseConn(c)
  PROVE  open' \subseteq Conns /\ conn' \in [Conns -> ConnFields]
  BY AnyTypes, FreshType DEF TypeOK, CloseConn

\* What a task gives back, each way it may.
GivesBack(t) ==
  \/ ExchangeFails(t) \/ RejectEncoding(t) \/ RejectLocation(t) \/ RedirectHostInvalid(t)
  \/ (\E k \in Keys : FollowRedirect(t, k)) \/ RedirectDrainFails(t) \/ Deinit(t)

LEMMA GivesBackIs ==
  ASSUME TypeOK, ControlInv, NEW t \in Tasks, GivesBack(t)
  PROVE  /\ pc[t] \in HoldPc
         /\ \E f \in ConnFields, next \in {"idle", "ca", "acquire"} :
              GiveBack(t, held[t], f, next)
         /\ \/ Forget(t)
            \/ /\ hops[t] > 0 /\ hops' = [hops EXCEPT ![t] = @ - 1] /\ mode' = mode
               /\ \E k \in Keys : key' = [key EXCEPT ![t] = k]
         /\ UNCHANGED <<held, doomed, got, open, poolVars, caVars, now>>
<1>1. pc[t] \in {"send", "receive", "head", "body"}
  BY DEF GivesBack, ExchangeFails, RejectEncoding, RejectLocation, RedirectHostInvalid,
         FollowRedirect, RedirectDrainFails, Deinit
<1>2. held[t] \in Conns /\ conn[held[t]] \in ConnFields /\ pc[t] \in HoldPc
  BY <1>1, HeldType DEF HoldPc
<1>3. resp[t] \in Responses /\ now \in 0..MaxTime
  BY DEF TypeOK
<1>4. /\ \/ Forget(t)
         \/ /\ hops[t] > 0 /\ hops' = [hops EXCEPT ![t] = @ - 1] /\ mode' = mode
            /\ \E k \in Keys : key' = [key EXCEPT ![t] = k]
      /\ UNCHANGED <<held, doomed, got, open, poolVars, caVars, now>>
  BY Zenon DEF GivesBack, ExchangeFails, RejectEncoding, RejectLocation, RedirectHostInvalid,
         FollowRedirect, RedirectDrainFails, Deinit, Follows
<1> DEFINE c == conn[held[t]]
           Gives(f, next) == GiveBack(t, held[t], f, next)
           Ends == {"idle", "ca", "acquire"}
<1>5. \E f \in ConnFields, next \in Ends : Gives(f, next)
  <2>1. CASE ExchangeFails(t) \/ RedirectDrainFails(t)
    <3>1. Gives([c EXCEPT !.closing = TRUE], "idle")
      BY <2>1, Zenon DEF ExchangeFails, RedirectDrainFails
    <3>2. [c EXCEPT !.closing = TRUE] \in ConnFields
      BY <1>2, FlagsType
    <3> QED
      BY <3>1, <3>2, Zenon
  <2>2. CASE RejectEncoding(t)
    <3>1. Gives([c EXCEPT !.closing = c.closing \/ c.unread], "idle")
      BY <2>2, Zenon DEF RejectEncoding
    <3>2. [c EXCEPT !.closing = c.closing \/ c.unread] \in ConnFields
      <4>1. (c.closing \/ c.unread) \in BOOLEAN
        OBVIOUS
      <4> QED
        BY <1>2, <4>1, FlagsType
    <3> QED
      BY <3>1, <3>2, Zenon
  <2>3. CASE RejectLocation(t)
    <3>1. Gives(c, "idle")
      BY <2>3, Zenon DEF RejectLocation
    <3> QED
      BY <1>2, <3>1, Zenon
  <2>4. CASE RedirectHostInvalid(t) \/ \E k \in Keys : FollowRedirect(t, k)
    <3>1. \E next \in Ends : Gives(AfterDrain(c, resp[t]), next)
      BY <2>4, EntryType, Zenon DEF RedirectHostInvalid, FollowRedirect
    <3>2. AfterDrain(c, resp[t]) \in ConnFields
      BY <1>2, <1>3, AfterDrainType
    <3> QED
      BY <3>1, <3>2, Zenon
  <2>5. CASE Deinit(t)
    <3>1. Gives(Released(c, resp[t]), "idle")
      BY <2>5, Zenon DEF Deinit
    <3>2. Released(c, resp[t]) \in ConnFields
      BY <1>2, <1>3, ReleasedType
    <3> QED
      BY <3>1, <3>2, Zenon
  <2> QED
    BY <2>1, <2>2, <2>3, <2>4, <2>5 DEF GivesBack
<1> QED
  BY <1>2, <1>4, <1>5, Zenon

\* The task goes on where it was going, or closes what is doomed first.
LEMMA ProceedStep ==
  ASSUME TypeOK, ControlInv, NEW t \in Tasks, NEW d, d \in BOOLEAN, Proceed(t, d),
         pc[t] \in {"release", "sweep"},
         \A u \in Tasks \ {t} : held'[u] = held[u] /\ doomed'[u] = doomed[u],
         held'[t] \in Conns <=> after[t] = "send",
         doomed'[t] # {} <=> d
  PROVE  ControlInv' /\ pc' \in [Tasks -> Pc] /\ after' \in [Tasks -> Pc]
<1>1. after[t] \in {"idle", "ca", "acquire", "connect", "send"}
  BY DEF ControlInv, TaskInv
<1>2. CASE d
  <2>1. pc' = [pc EXCEPT ![t] = "sweep"] /\ after' = after
    BY <1>2, Zenon DEF Proceed, Goto
  <2>2. /\ pc' \in [Tasks -> Pc] /\ after' \in [Tasks -> Pc] /\ pc'[t] = "sweep"
        /\ \A u \in Tasks \ {t} : pc'[u] = pc[u] /\ after'[u] = after[u]
    BY <2>1 DEF TypeOK, Pc
  <2>3. TaskInv(t)'
    BY <1>1, <1>2, <2>1, <2>2 DEF TaskInv, Owns, HoldPc
  <2> QED
    BY <2>2, <2>3, ControlStep
<1>3. CASE ~d
  <2>1. pc' = [pc EXCEPT ![t] = after[t]] /\ after' = [after EXCEPT ![t] = "idle"]
    BY <1>3, Zenon DEF Proceed, Goto
  <2>2. /\ pc' \in [Tasks -> Pc] /\ after' \in [Tasks -> Pc] /\ pc'[t] = after[t]
        /\ \A u \in Tasks \ {t} : pc'[u] = pc[u] /\ after'[u] = after[u]
    BY <1>1, <2>1 DEF TypeOK, Pc
  <2>3. TaskInv(t)'
    BY <1>1, <1>3, <2>1, <2>2 DEF TaskInv, Owns, HoldPc
  <2> QED
    BY <2>2, <2>3, ControlStep
<1> QED
  BY <1>2, <1>3

\* A task's step that leaves connections and pool alone.
Walks(t) ==
  \/ CaCheck(t) \/ CaLock(t) \/ CaScanned(t) \/ CaFails(t) \/ ConnectFails(t)
  \/ SendRequest(t) \/ ReturnResponse(t) \/ Upgraded(t)
  \/ \E k \in Keys, m \in {"fetch", "ws"} : StartFetch(t, k, m)

LEMMA WalksType ==
  ASSUME TypeOK, ControlInv, NEW t \in Tasks, Walks(t)
  PROVE  TypeOK' /\ ControlInv'
<1>1. UNCHANGED <<after, held, doomed, resp, got, open, conn, poolVars, now>>
  BY Zenon DEF Walks, CaCheck, CaLock, CaScanned, CaFails, ConnectFails, SendRequest,
               ReturnResponse, Upgraded, StartFetch, caVars
<1>2. \E where \in Pc : /\ pc' = [pc EXCEPT ![t] = where]
                        /\ pc[t] # "sweep" /\ where \notin {"sweep", "release"}
                        /\ pc[t] \in HoldPc <=> where \in HoldPc
  BY DEF Walks, CaCheck, CaLock, CaScanned, CaFails, ConnectFails, SendRequest,
         ReturnResponse, Upgraded, StartFetch, Goto, Pc, HoldPc, Entry, Holding
<1>3. /\ mode' \in [Tasks -> {"fetch", "ws"}] /\ key' \in [Tasks -> Keys]
      /\ hops' \in [Tasks -> 0..MaxRedirects]
  <2>1. CASE CaFails(t) \/ ConnectFails(t)
    BY <2>1, ForgetType DEF CaFails, ConnectFails
  <2>2. CASE \E k \in Keys, m \in {"fetch", "ws"} : StartFetch(t, k, m)
    <3>1. MaxRedirects \in Nat
      BY PoolAssumption
    <3> QED
      BY <2>2, <3>1 DEF StartFetch, TypeOK
  <2>3. CASE \/ CaCheck(t) \/ CaLock(t) \/ CaScanned(t) \/ SendRequest(t)
             \/ ReturnResponse(t) \/ Upgraded(t)
    BY <2>3 DEF CaCheck, CaLock, CaScanned, SendRequest, ReturnResponse, Upgraded, TypeOK
  <2> QED
    BY <2>1, <2>2, <2>3 DEF Walks
<1>4. ca_bundle' \in {"empty", "partial", "whole"} /\ ca_bundle_loaded' \in BOOLEAN
  <2>1. ca_bundle' \in {ca_bundle, "partial", "whole"}
    BY Zenon DEF Walks, CaCheck, CaLock, CaScanned, CaFails, ConnectFails, SendRequest,
                 ReturnResponse, Upgraded, StartFetch, caVars
  <2>2. ca_bundle_loaded' = ca_bundle_loaded \/ ca_bundle_loaded' = TRUE
    BY Zenon DEF Walks, CaCheck, CaLock, CaScanned, CaFails, ConnectFails, SendRequest,
                 ReturnResponse, Upgraded, StartFetch, caVars
  <2> QED
    BY <2>1, <2>2 DEF TypeOK
<1>5. ControlInv' /\ pc' \in [Tasks -> Pc] /\ after' \in [Tasks -> Pc]
  <2>1. after' = [after EXCEPT ![t] = after[t]] /\ after[t] \in Pc
    BY <1>1 DEF TypeOK
  <2> QED
    BY <1>1, <1>2, <2>1, MoveStep
<1>6. /\ held' = held /\ doomed' = doomed /\ resp' = resp /\ got' = got /\ open' = open
      /\ conn' = conn /\ idle' = idle /\ idle_len' = idle_len /\ now' = now
  BY <1>1, Zenon DEF poolVars
<1> QED
  BY <1>3, <1>4, <1>5, <1>6 DEF TypeOK

LEMMA GivesBackType ==
  ASSUME TypeOK, ControlInv, NEW t \in Tasks, GivesBack(t)
  PROVE  TypeOK' /\ ControlInv'
<1>1. /\ pc[t] \in HoldPc /\ UNCHANGED <<held, doomed>>
      /\ \E f \in ConnFields, next \in {"idle", "ca", "acquire"} :
           GiveBack(t, held[t], f, next)
      /\ \/ Forget(t)
         \/ /\ hops[t] > 0 /\ hops' = [hops EXCEPT ![t] = @ - 1] /\ mode' = mode
            /\ \E k \in Keys : key' = [key EXCEPT ![t] = k]
      /\ held' = held /\ doomed' = doomed /\ got' = got /\ open' = open
      /\ idle' = idle /\ idle_len' = idle_len /\ ca_bundle' = ca_bundle
      /\ ca_bundle_loaded' = ca_bundle_loaded /\ now' = now
  BY GivesBackIs, Zenon DEF poolVars, caVars
<1>2. /\ ControlInv' /\ pc' \in [Tasks -> Pc] /\ after' \in [Tasks -> Pc]
      /\ conn' \in [Conns -> ConnFields] /\ resp' \in [Tasks -> Responses]
  BY <1>1, GiveBackStep, Zenon
<1>3. /\ mode' \in [Tasks -> {"fetch", "ws"}] /\ key' \in [Tasks -> Keys]
      /\ hops' \in [Tasks -> 0..MaxRedirects]
  <2>1. CASE Forget(t)
    BY <2>1, ForgetType
  <2>2. CASE /\ hops[t] > 0 /\ hops' = [hops EXCEPT ![t] = @ - 1] /\ mode' = mode
             /\ \E k \in Keys : key' = [key EXCEPT ![t] = k]
    <3>1. MaxRedirects \in Nat
      BY PoolAssumption
    <3> QED
      BY <2>2, <3>1 DEF TypeOK
  <2> QED
    BY <1>1, <2>1, <2>2
<1> QED
  BY <1>1, <1>2, <1>3 DEF TypeOK

\* What acquire does: it takes one connection of the pool or none, and puts
\* others of it aside.
Takes(t, taken, dead, found) ==
  /\ taken \cap dead = {}
  /\ \/ taken = {} /\ found = NoConn
     \/ \E m \in DOMAIN idle : taken = {m} /\ found = idle[m]
  /\ held' = [held EXCEPT ![t] = found]
  /\ doomed' = [doomed EXCEPT ![t] = {idle[i] : i \in dead}]
  /\ idle' = EntriesAt(idle, DOMAIN idle \ (taken \cup dead))
  /\ idle_len' = idle_len - Cardinality(taken \cup dead)
  /\ LET next == IF taken = {} THEN "connect" ELSE "send" IN
     /\ after' = [after EXCEPT ![t] = IF dead = {} THEN "idle" ELSE next]
     /\ pc' = [pc EXCEPT ![t] = IF dead = {} THEN next ELSE "sweep"]

LEMMA AcquireIs ==
  ASSUME TypeOK, NEW t \in Tasks, Acquire(t)
  PROVE  \E taken \in SUBSET DOMAIN idle, dead \in SUBSET DOMAIN idle,
            found \in Conns \cup {NoConn} : Takes(t, taken, dead, found)
<1> DEFINE match == Matching(key[t])
           live == {i \in match : ~Expired(idle[i])}
           taken == {i \in live : \A j \in live : j <= i}
           dead == {i \in match \ live : \A j \in taken : j < i}
           m == CHOOSE i \in taken : TRUE
           found == IF taken = {} THEN NoConn ELSE idle[m]
           next == IF taken = {} THEN "connect" ELSE "send"
<1>1. match \subseteq DOMAIN idle /\ DOMAIN idle \subseteq Int
      /\ \A i \in DOMAIN idle : idle[i] \in Conns
  BY DEF Matching, TypeOK
<1>2. /\ held' = [held EXCEPT ![t] = found]
      /\ doomed' = [doomed EXCEPT ![t] = {idle[i] : i \in dead}]
      /\ idle' = EntriesAt(idle, DOMAIN idle \ (taken \cup dead))
      /\ idle_len' = idle_len - Cardinality(taken \cup dead)
      /\ after' = [after EXCEPT ![t] = IF dead = {} THEN "idle" ELSE next]
      /\ pc' = [pc EXCEPT ![t] = IF dead = {} THEN next ELSE "sweep"]
  BY Zenon DEF Acquire, Goto
<1> HIDE DEF match
<1>3. live \subseteq match /\ taken \subseteq live /\ dead \subseteq match \ live
  BY Zenon
<1>4. \A i, j \in taken : i = j
  <2>1. taken \subseteq Int
    BY <1>1, <1>3, Zenon
  <2>2. \A i, j \in taken : i <= j /\ j <= i
    BY <1>3, Zenon
  <2> HIDE DEF taken
  <2> QED
    BY <2>1, <2>2
<1> HIDE DEF live, taken, dead
<1>5. taken \in SUBSET DOMAIN idle /\ dead \in SUBSET DOMAIN idle /\ taken \cap dead = {}
  BY <1>1, <1>3
<1>6. taken # {} => m \in taken /\ taken = {m}
  BY <1>4, Zenon
<1>7. /\ found \in Conns \cup {NoConn}
      /\ \/ taken = {} /\ found = NoConn
         \/ \E k \in DOMAIN idle : taken = {k} /\ found = idle[k]
  BY <1>1, <1>5, <1>6, Zenon
<1> HIDE DEF found, m
<1>8. Takes(t, taken, dead, found)
  BY <1>2, <1>5, <1>7, Zenon DEF Takes
<1> QED
  BY <1>5, <1>7, <1>8, Zenon

LEMMA AcquireType ==
  ASSUME TypeOK, ControlInv, NEW t \in Tasks, Acquire(t)
  PROVE  TypeOK' /\ ControlInv'
<1>1. PICK taken \in SUBSET DOMAIN idle, dead \in SUBSET DOMAIN idle,
            found \in Conns \cup {NoConn} : Takes(t, taken, dead, found)
  BY AcquireIs, Zenon
<1>2. /\ idle \in Seq(Conns) /\ idle_len \in Int /\ DOMAIN idle = 1..Len(idle)
      /\ \A i \in DOMAIN idle : idle[i] \in Conns
  BY DEF TypeOK
<1>3. idle' \in Seq(Conns)
  BY <1>1, <1>2, EntriesType DEF Takes
<1>4. idle_len' \in Int
  <2>1. (taken \cup dead) \in SUBSET (1..Len(idle)) /\ Len(idle) \in Nat
    BY <1>2
  <2>2. Cardinality(taken \cup dead) \in Nat
    BY <2>1, PositionsFinite
  <2> QED
    BY <1>1, <1>2, <2>2 DEF Takes
<1>5. /\ pc' \in [Tasks -> Pc] /\ after' \in [Tasks -> Pc]
      /\ pc'[t] = (IF dead = {} THEN (IF taken = {} THEN "connect" ELSE "send") ELSE "sweep")
      /\ after'[t] = (IF dead = {} THEN "idle" ELSE IF taken = {} THEN "connect" ELSE "send")
      /\ \A u \in Tasks \ {t} : pc'[u] = pc[u] /\ after'[u] = after[u]
  BY <1>1 DEF TypeOK, Pc, Takes
<1>6. /\ held' \in [Tasks -> Conns \cup {NoConn}] /\ held'[t] = found
      /\ \A u \in Tasks \ {t} : held'[u] = held[u]
  BY <1>1 DEF TypeOK, Takes
<1>7. /\ doomed' \in [Tasks -> SUBSET Conns] /\ doomed'[t] = {idle[i] : i \in dead}
      /\ \A u \in Tasks \ {t} : doomed'[u] = doomed[u]
  BY <1>1, <1>2 DEF TypeOK, Takes
<1>8. doomed'[t] # {} <=> dead # {}
  BY <1>7
<1>9. held'[t] \in Conns <=> taken # {}
  BY <1>1, <1>2, <1>6, PoolAssumption DEF Takes
<1>10. ControlInv'
  <2>1. TaskInv(t)'
    BY <1>5, <1>8, <1>9 DEF TaskInv, Owns, HoldPc
  <2> QED
    BY <1>5, <1>6, <1>7, <2>1, ControlStep
<1>11. /\ mode' = mode /\ key' = key /\ hops' = hops /\ resp' = resp /\ got' = got
       /\ open' = open /\ conn' = conn /\ ca_bundle' = ca_bundle
       /\ ca_bundle_loaded' = ca_bundle_loaded /\ now' = now
  BY Zenon DEF Acquire, caVars
<1> QED
  BY <1>3, <1>4, <1>5, <1>6, <1>7, <1>10, <1>11 DEF TypeOK

\* The steps with which a task closes the connection it holds.
Drops(t) == ReleaseClosing(t) \/ ResetFails(t) \/ CloseWebSocket(t)

LEMMA DropsType ==
  ASSUME TypeOK, ControlInv, NEW t \in Tasks, Drops(t)
  PROVE  TypeOK' /\ ControlInv'
<1>1. /\ pc[t] \in HoldPc /\ CloseConn(held[t]) /\ held' = [held EXCEPT ![t] = NoConn]
      /\ doomed' = doomed /\ resp' = resp /\ got' = got /\ idle' = idle
      /\ idle_len' = idle_len /\ ca_bundle' = ca_bundle
      /\ ca_bundle_loaded' = ca_bundle_loaded /\ now' = now
  BY DEF Drops, ReleaseClosing, ResetFails, CloseWebSocket, poolVars, caVars, HoldPc
<1>2. held[t] \in Conns
  BY <1>1, HeldType
<1>3. open' \subseteq Conns /\ conn' \in [Conns -> ConnFields]
  BY <1>1, <1>2, CloseType
<1>4. /\ held' \in [Tasks -> Conns \cup {NoConn}] /\ held'[t] \notin Conns
      /\ \A u \in Tasks \ {t} : held'[u] = held[u] /\ doomed'[u] = doomed[u]
      /\ doomed'[t] = {}
  BY <1>1, PoolAssumption DEF TypeOK, ControlInv, TaskInv, HoldPc
<1>5. /\ ControlInv' /\ pc' \in [Tasks -> Pc] /\ after' \in [Tasks -> Pc]
      /\ mode' \in [Tasks -> {"fetch", "ws"}] /\ key' \in [Tasks -> Keys]
      /\ hops' \in [Tasks -> 0..MaxRedirects]
  <2>1. CASE ReleaseClosing(t) \/ ResetFails(t)
    <3>1. /\ Proceed(t, FALSE) /\ pc[t] = "release" /\ mode' = mode /\ key' = key
          /\ hops' = hops
      BY <2>1, Zenon DEF ReleaseClosing, ResetFails
    <3>2. after[t] # "send"
      BY <3>1 DEF ControlInv, TaskInv
    <3>3. ControlInv' /\ pc' \in [Tasks -> Pc] /\ after' \in [Tasks -> Pc]
      <4>1. /\ pc[t] \in {"release", "sweep"} /\ FALSE \in BOOLEAN
            /\ held'[t] \in Conns <=> after[t] = "send"
            /\ doomed'[t] # {} <=> FALSE
        BY <1>4, <3>1, <3>2
      <4> QED
        BY <1>4, <3>1, <4>1, ProceedStep, Zenon
    <3> QED
      BY <3>1, <3>3 DEF TypeOK
  <2>2. CASE CloseWebSocket(t)
    <3>1. pc' = [pc EXCEPT ![t] = "idle"] /\ after' = after /\ Forget(t)
      BY <2>2, Zenon DEF CloseWebSocket, Goto
    <3>2. /\ pc' \in [Tasks -> Pc] /\ after' \in [Tasks -> Pc] /\ pc'[t] = "idle"
          /\ \A u \in Tasks \ {t} : pc'[u] = pc[u] /\ after'[u] = after[u]
      BY <3>1 DEF TypeOK, Pc
    <3>3. TaskInv(t)'
      BY <1>4, <3>2 DEF TaskInv, Owns, HoldPc
    <3> QED
      BY <1>4, <3>1, <3>2, <3>3, ControlStep, ForgetType
  <2> QED
    BY <2>1, <2>2 DEF Drops
<1> QED
  BY <1>1, <1>3, <1>4, <1>5 DEF TypeOK

LEMMA SweepType ==
  ASSUME TypeOK, ControlInv, NEW t \in Tasks, NEW c \in Conns, Sweep(t, c)
  PROVE  TypeOK' /\ ControlInv'
<1>1. /\ pc[t] = "sweep" /\ c \in doomed[t] /\ CloseConn(c)
      /\ doomed' = [doomed EXCEPT ![t] = @ \ {c}] /\ Proceed(t, doomed[t] # {c})
      /\ held' = held /\ resp' = resp /\ got' = got /\ idle' = idle
      /\ idle_len' = idle_len /\ ca_bundle' = ca_bundle
      /\ ca_bundle_loaded' = ca_bundle_loaded /\ now' = now
      /\ mode' = mode /\ key' = key /\ hops' = hops
  BY Zenon DEF Sweep, poolVars, caVars
<1>2. open' \subseteq Conns /\ conn' \in [Conns -> ConnFields]
  BY <1>1, CloseType
<1>3. /\ doomed' \in [Tasks -> SUBSET Conns] /\ doomed'[t] = doomed[t] \ {c}
      /\ \A u \in Tasks \ {t} : held'[u] = held[u] /\ doomed'[u] = doomed[u]
  BY <1>1 DEF TypeOK
<1>4. ControlInv' /\ pc' \in [Tasks -> Pc] /\ after' \in [Tasks -> Pc]
  <2>1. doomed'[t] # {} <=> doomed[t] # {c}
    BY <1>1, <1>3
  <2>2. held'[t] \in Conns <=> after[t] = "send"
    BY <1>1 DEF ControlInv, TaskInv, Owns, HoldPc
  <2>3. (doomed[t] # {c}) \in BOOLEAN /\ pc[t] \in {"release", "sweep"}
    BY <1>1
  <2> QED
    BY <1>1, <1>3, <2>1, <2>2, <2>3, ProceedStep, Zenon
<1> QED
  BY <1>1, <1>2, <1>3, <1>4 DEF TypeOK

LEMMA ConnectType ==
  ASSUME TypeOK, ControlInv, NEW t \in Tasks, NEW c \in Conns, Connect(t, c)
  PROVE  TypeOK' /\ ControlInv'
<1>1. /\ pc[t] = "connect" /\ open' = open \cup {c}
      /\ conn' = [conn EXCEPT ![c] = Fresh(key[t])] /\ held' = [held EXCEPT ![t] = c]
      /\ pc' = [pc EXCEPT ![t] = "send"]
      /\ after' = after /\ doomed' = doomed /\ resp' = resp /\ got' = got /\ idle' = idle
      /\ idle_len' = idle_len /\ ca_bundle' = ca_bundle
      /\ ca_bundle_loaded' = ca_bundle_loaded /\ now' = now
      /\ mode' = mode /\ key' = key /\ hops' = hops
  BY Zenon DEF Connect, Goto, poolVars, caVars
<1>2. Fresh(key[t]) \in ConnFields
  BY FreshType DEF TypeOK
<1>3. open' \subseteq Conns /\ conn' \in [Conns -> ConnFields]
  BY <1>1, <1>2 DEF TypeOK
<1>4. /\ held' \in [Tasks -> Conns \cup {NoConn}] /\ held'[t] = c
      /\ pc' \in [Tasks -> Pc] /\ pc'[t] = "send"
      /\ \A u \in Tasks \ {t} : /\ held'[u] = held[u] /\ doomed'[u] = doomed[u]
                                /\ pc'[u] = pc[u] /\ after'[u] = after[u]
  BY <1>1 DEF TypeOK, Pc
<1>5. TaskInv(t)'
  BY <1>1, <1>4 DEF ControlInv, TaskInv, Owns, HoldPc
<1>6. ControlInv'
  BY <1>4, <1>5, ControlStep
<1> QED
  BY <1>1, <1>3, <1>4, <1>6 DEF TypeOK

\* What release does: one connection goes to the end of the pool, and the oldest
\* leaves it when there is no room.
LEMMA ReleasePooledIs ==
  ASSUME TypeOK, ControlInv, NEW t \in Tasks, ReleasePooled(t)
  PROVE  \E evicted \in SUBSET Conns, kept \in Seq(Conns) :
           /\ \/ evicted = {} /\ kept = idle /\ (idle_len < MaxIdle \/ idle = <<>>)
              \/ idle # <<>> /\ evicted = {idle[1]} /\ kept = Tail(idle)
           /\ idle' = Append(kept, held[t])
           /\ idle_len' = idle_len - Cardinality(evicted) + 1
           /\ doomed' = [doomed EXCEPT ![t] = evicted]
           /\ Proceed(t, evicted # {})
<1> DEFINE evicted == IF PoolFull /\ idle # <<>> THEN {Head(idle)} ELSE {}
           kept == IF evicted = {} THEN idle ELSE Tail(idle)
<1>1. /\ idle' = Append(kept, held[t])
      /\ idle_len' = idle_len - Cardinality(evicted) + 1
      /\ doomed' = [doomed EXCEPT ![t] = evicted]
      /\ Proceed(t, evicted # {})
  BY Zenon DEF ReleasePooled
<1>2. idle \in Seq(Conns) /\ idle_len \in Int /\ MaxIdle \in Nat
  BY PoolAssumption DEF TypeOK
<1>3. CASE PoolFull /\ idle # <<>>
  <2>1. evicted = {idle[1]} /\ kept = Tail(idle) /\ idle[1] \in Conns
        /\ Tail(idle) \in Seq(Conns)
    BY <1>2, <1>3
  <2> HIDE DEF evicted, kept
  <2> QED
    BY <1>1, <1>3, <2>1, Zenon
<1>4. CASE ~(PoolFull /\ idle # <<>>)
  <2>1. evicted = {} /\ kept = idle
    BY <1>4, Zenon
  <2>2. idle_len < MaxIdle \/ idle = <<>>
    BY <1>2, <1>4 DEF PoolFull
  <2> HIDE DEF evicted, kept
  <2> QED
    BY <1>1, <1>2, <2>1, <2>2, Zenon
<1> QED
  BY <1>3, <1>4

LEMMA EvictedSize ==
  ASSUME NEW S, S = {} \/ \E x : S = {x}
  PROVE  Cardinality(S) \in {0, 1} /\ (Cardinality(S) = 0 <=> S = {})
  BY FS_EmptySet, FS_Singleton

LEMMA ReleasePooledType ==
  ASSUME TypeOK, ControlInv, NEW t \in Tasks, ReleasePooled(t)
  PROVE  TypeOK' /\ ControlInv'
<1>1. PICK evicted \in SUBSET Conns, kept \in Seq(Conns) :
           /\ \/ evicted = {} /\ kept = idle /\ (idle_len < MaxIdle \/ idle = <<>>)
              \/ idle # <<>> /\ evicted = {idle[1]} /\ kept = Tail(idle)
           /\ idle' = Append(kept, held[t])
           /\ idle_len' = idle_len - Cardinality(evicted) + 1
           /\ doomed' = [doomed EXCEPT ![t] = evicted]
           /\ Proceed(t, evicted # {})
  BY ReleasePooledIs, Zenon
<1>2. /\ pc[t] = "release" /\ held' = [held EXCEPT ![t] = NoConn]
      /\ conn' = [conn EXCEPT ![held[t]].dirty = @ \/ conn[held[t]].unread,
                              ![held[t]].unread = FALSE]
      /\ mode' = mode /\ key' = key /\ hops' = hops /\ resp' = resp /\ got' = got
      /\ open' = open /\ ca_bundle' = ca_bundle
      /\ ca_bundle_loaded' = ca_bundle_loaded /\ now' = now
  BY Zenon DEF ReleasePooled, caVars
<1>3. held[t] \in Conns /\ conn[held[t]] \in ConnFields
  BY <1>2, HeldType DEF HoldPc
<1>4. idle' \in Seq(Conns) /\ idle_len' \in Int
  <2>1. Cardinality(evicted) \in {0, 1}
    BY <1>1, EvictedSize, Zenon
  <2> QED
    BY <1>1, <1>3, <2>1 DEF TypeOK
<1>5. conn' \in [Conns -> ConnFields]
  <2> DEFINE c == conn[held[t]]
             d == [c EXCEPT !.dirty = c.dirty \/ c.unread, !.unread = FALSE]
  <2>1. d \in ConnFields
    <3>1. (c.dirty \/ c.unread) \in BOOLEAN /\ FALSE \in BOOLEAN
      OBVIOUS
    <3> QED
      BY <1>3, <3>1, FlagsType
  <2>2. conn' = [conn EXCEPT ![held[t]] = d]
    BY <1>2, <1>3 DEF TypeOK
  <2> HIDE DEF d
  <2> QED
    BY <1>3, <2>1, <2>2 DEF TypeOK
<1>6. /\ held' \in [Tasks -> Conns \cup {NoConn}] /\ held'[t] \notin Conns
      /\ \A u \in Tasks \ {t} : held'[u] = held[u] /\ doomed'[u] = doomed[u]
      /\ doomed' \in [Tasks -> SUBSET Conns] /\ doomed'[t] = evicted
  BY <1>1, <1>2, PoolAssumption DEF TypeOK
<1>7. ControlInv' /\ pc' \in [Tasks -> Pc] /\ after' \in [Tasks -> Pc]
  <2>1. after[t] # "send"
    BY <1>2 DEF ControlInv, TaskInv
  <2>2. /\ pc[t] \in {"release", "sweep"} /\ (evicted # {}) \in BOOLEAN
        /\ held'[t] \in Conns <=> after[t] = "send"
        /\ doomed'[t] # {} <=> evicted # {}
    BY <1>2, <1>6, <2>1
  <2> QED
    BY <1>1, <1>6, <2>2, ProceedStep, Zenon
<1> QED
  BY <1>2, <1>4, <1>5, <1>6, <1>7 DEF TypeOK

LEMMA ReceiveHeadType ==
  ASSUME TypeOK, ControlInv, NEW t \in Tasks, NEW r \in Responses, ReceiveHead(t, r)
  PROVE  TypeOK' /\ ControlInv'
<1> DEFINE c == conn[held[t]]
           d == [c EXCEPT !.unread = (r.body # "none"), !.dirty = c.dirty \/ r.interim,
                          !.ending = ~r.ka]
<1>1. /\ pc[t] = "receive" /\ pc' = [pc EXCEPT ![t] = "head"]
      /\ resp' = [resp EXCEPT ![t] = r]
      /\ got' = [got EXCEPT ![t] = IF conn[held[t]].dirty THEN "stale" ELSE "own"]
      /\ conn' = [conn EXCEPT ![held[t]].unread = r.body # "none",
                              ![held[t]].dirty = @ \/ r.interim,
                              ![held[t]].ending = ~r.ka]
      /\ after' = after /\ mode' = mode /\ key' = key /\ hops' = hops /\ held' = held
      /\ doomed' = doomed /\ open' = open /\ idle' = idle /\ idle_len' = idle_len
      /\ ca_bundle' = ca_bundle /\ ca_bundle_loaded' = ca_bundle_loaded /\ now' = now
  BY Zenon DEF ReceiveHead, Holding, Goto, poolVars, caVars
<1>2. held[t] \in Conns /\ c \in ConnFields
  BY <1>1, HeldType DEF HoldPc
<1>3. d \in ConnFields
  <2>1. (r.body # "none") \in BOOLEAN /\ (c.dirty \/ r.interim) \in BOOLEAN
        /\ (~r.ka) \in BOOLEAN
    OBVIOUS
  <2> QED
    BY <1>2, <2>1, FlagsType
<1>4. conn' = [conn EXCEPT ![held[t]] = d]
  BY <1>1, <1>2 DEF TypeOK
<1>5. conn' \in [Conns -> ConnFields]
  <2> HIDE DEF d
  <2> QED
    BY <1>2, <1>3, <1>4 DEF TypeOK
<1>6. resp' \in [Tasks -> Responses] /\ got' \in [Tasks -> {"own", "stale"}]
  BY <1>1 DEF TypeOK
<1>7. ControlInv' /\ pc' \in [Tasks -> Pc] /\ after' \in [Tasks -> Pc]
  <2>1. /\ after' = [after EXCEPT ![t] = after[t]] /\ after[t] \in Pc
        /\ "head" \in Pc /\ pc[t] # "sweep" /\ (pc[t] \in HoldPc <=> "head" \in HoldPc)
        /\ "head" # "sweep" /\ "head" # "release" /\ UNCHANGED <<held, doomed>>
        /\ pc' = [pc EXCEPT ![t] = "head"]
    BY <1>1 DEF TypeOK, Pc, HoldPc
  <2>2. "head" = "release" => after[t] \in {"idle", "ca", "acquire"}
    OBVIOUS
  <2> QED
    BY <2>1, <2>2, MoveStep, Zenon
<1> QED
  BY <1>1, <1>5, <1>6, <1>7 DEF TypeOK

LEMMA ReadBodyType ==
  ASSUME TypeOK, ControlInv, NEW t \in Tasks, ReadBody(t)
  PROVE  TypeOK' /\ ControlInv'
<1> DEFINE d == [conn[held[t]] EXCEPT !.unread = FALSE]
<1>1. /\ pc[t] = "body" /\ conn' = [conn EXCEPT ![held[t]].unread = FALSE]
      /\ pc' = pc /\ after' = after /\ mode' = mode /\ key' = key /\ hops' = hops
      /\ held' = held /\ doomed' = doomed /\ resp' = resp /\ got' = got
      /\ open' = open /\ idle' = idle /\ idle_len' = idle_len
      /\ ca_bundle' = ca_bundle /\ ca_bundle_loaded' = ca_bundle_loaded /\ now' = now
  BY Zenon DEF ReadBody, taskVars, poolVars, caVars
<1>2. held[t] \in Conns /\ conn[held[t]] \in ConnFields
  BY <1>1, HeldType DEF HoldPc
<1>3. d \in ConnFields
  BY <1>2, FlagsType
<1>4. conn' = [conn EXCEPT ![held[t]] = d]
  BY <1>1, <1>2 DEF TypeOK
<1>5. conn' \in [Conns -> ConnFields]
  <2> HIDE DEF d
  <2> QED
    BY <1>2, <1>3, <1>4 DEF TypeOK
<1>6. ControlInv'
  BY <1>1, Zenon DEF ControlInv, TaskInv, Owns
<1> QED
  BY <1>1, <1>5, <1>6 DEF TypeOK

LEMMA TickType ==
  ASSUME TypeOK, ControlInv, Tick \/ UNCHANGED vars
  PROVE  TypeOK' /\ ControlInv'
<1>1. /\ now' = now \/ (now < MaxTime /\ now' = now + 1)
      /\ pc' = pc /\ after' = after /\ mode' = mode /\ key' = key /\ hops' = hops
      /\ held' = held /\ doomed' = doomed /\ resp' = resp /\ got' = got
      /\ open' = open /\ conn' = conn /\ idle' = idle /\ idle_len' = idle_len
      /\ ca_bundle' = ca_bundle /\ ca_bundle_loaded' = ca_bundle_loaded
  BY Zenon DEF Tick, vars, taskVars, poolVars, caVars
<1>2. now' \in 0..MaxTime
  BY <1>1, PoolAssumption DEF TypeOK
<1>3. ControlInv'
  BY <1>1, Zenon DEF ControlInv, TaskInv, Owns
<1> QED
  BY <1>1, <1>2, <1>3 DEF TypeOK

\* The steps of the system, as the proofs group them.
LEMMA NextIs ==
  ASSUME [Next]_vars
  PROVE  \/ \E t \in Tasks :
              \/ Walks(t) \/ GivesBack(t) \/ Drops(t) \/ Acquire(t) \/ ReleasePooled(t)
              \/ (\E c \in Conns : Sweep(t, c) \/ Connect(t, c))
              \/ (\E r \in Responses : ReceiveHead(t, r))
              \/ ReadBody(t)
         \/ Tick \/ UNCHANGED vars
  BY Zenon DEF Next, Progress, Walks, GivesBack, Drops

LEMMA TypeNext == TypeOK /\ ControlInv /\ [Next]_vars => TypeOK' /\ ControlInv'
  BY NextIs, WalksType, GivesBackType, DropsType, AcquireType, ReleasePooledType, SweepType,
     ConnectType, ReceiveHeadType, ReadBodyType, TickType, Zenon

LEMMA TypeInvariant == Spec => [](TypeOK /\ ControlInv)
  BY TypeInit, TypeNext, PTL DEF Spec

\* Redirects never run below zero, no record loses a field, the clock and the
\* Keep-Alive counters stay within what the server announced.
THEOREM PoolTypes == Spec => []TypeOK
  BY TypeInvariant, PTL

-----------------------------------------------------------------------------
(* The CA bundle *)

\* A task past the bundle has seen the flag, or does not need the bundle; one
\* that returns to "acquire" after a redirect does not need it.
CaTask(t) ==
  /\ \/ pc[t] \in {"acquire", "connect"}
     \/ pc[t] = "sweep" /\ after[t] = "connect"
     => (key[t] \in SecureKeys => ca_bundle_loaded)
  /\ pc[t] \in {"release", "sweep"} /\ after[t] = "acquire" => key[t] \notin SecureKeys

\* One task scans at a time, and none once the flag is set.
CaInv ==
  /\ \A t, u \in Tasks : pc[t] = "cascan" /\ pc[u] = "cascan" => t = u
  /\ ca_bundle_loaded => ca_bundle = "whole"
  /\ ca_bundle_loaded => \A t \in Tasks : pc[t] # "cascan"
  /\ \A t \in Tasks : CaTask(t)

\* A step of one task that leaves the bundle alone.
LEMMA CaStep ==
  ASSUME TypeOK, CaInv, NEW t \in Tasks, ca_bundle' = ca_bundle,
         ca_bundle_loaded' <=> ca_bundle_loaded,
         \A u \in Tasks \ {t} : pc'[u] = pc[u] /\ after'[u] = after[u] /\ key'[u] = key[u],
         pc'[t] # "cascan", CaTask(t)'
  PROVE  CaInv'
<1>1. \A u \in Tasks \ {t} : CaTask(u)'
  BY DEF CaInv, CaTask
<1>2. \A u \in Tasks : pc'[u] = "cascan" => pc[u] = "cascan"
  OBVIOUS
<1> QED
  BY <1>1, <1>2 DEF CaInv

LEMMA CaProceed ==
  ASSUME TypeOK, ControlInv, CaInv, NEW t \in Tasks, NEW d, Proceed(t, d),
         pc[t] \in {"release", "sweep"}, key' = key,
         pc[t] = "release" => after[t] # "connect",
         ca_bundle' = ca_bundle, ca_bundle_loaded' <=> ca_bundle_loaded
  PROVE  CaInv'
<1>1. /\ after[t] \in {"idle", "ca", "acquire", "connect", "send"} /\ CaTask(t)
  BY DEF ControlInv, TaskInv, CaInv
<1>2. \/ pc' = [pc EXCEPT ![t] = "sweep"] /\ after' = after
      \/ pc' = [pc EXCEPT ![t] = after[t]] /\ after' = [after EXCEPT ![t] = "idle"]
  BY Zenon DEF Proceed, Goto
<1>3. /\ \A u \in Tasks \ {t} : pc'[u] = pc[u] /\ after'[u] = after[u] /\ key'[u] = key[u]
      /\ \/ pc'[t] = "sweep" /\ after'[t] = after[t]
         \/ pc'[t] = after[t] /\ after'[t] = "idle"
  BY <1>2 DEF TypeOK
<1>4. pc'[t] # "cascan" /\ CaTask(t)'
  BY <1>1, <1>3 DEF CaTask
<1> QED
  BY <1>3, <1>4, CaStep

LEMMA CaWalks ==
  ASSUME TypeOK, ControlInv, CaInv, NEW t \in Tasks, Walks(t)
  PROVE  CaInv'
<1>1. \A u \in Tasks \ {t} : pc'[u] = pc[u] /\ after'[u] = after[u] /\ key'[u] = key[u]
  BY DEF TypeOK, Walks, CaCheck, CaLock, CaScanned, CaFails, ConnectFails, SendRequest,
         ReturnResponse, Upgraded, StartFetch, Goto, Forget
<1>2. CASE CaScanned(t)
  <2>1. /\ pc[t] = "cascan" /\ pc'[t] = "acquire" /\ ca_bundle' = "whole" /\ ca_bundle_loaded'
        /\ after' = after /\ key' = key
    BY <1>2 DEF CaScanned, Goto, TypeOK
  <2>2. \A u \in Tasks : pc'[u] # "cascan"
    BY <1>1, <2>1 DEF CaInv
  <2>3. \A u \in Tasks : CaTask(u)'
    <3>1. \A u \in Tasks \ {t} : CaTask(u)'
      BY <1>1, <2>1 DEF CaInv, CaTask
    <3>2. CaTask(t)'
      BY <2>1 DEF CaTask
    <3> QED
      BY <3>1, <3>2
  <2> QED
    BY <2>1, <2>2, <2>3 DEF CaInv
<1>3. CASE CaLock(t) /\ ~ca_bundle_loaded
  <2>1. /\ pc'[t] = "cascan" /\ (ca_bundle_loaded' <=> ca_bundle_loaded) /\ after' = after
        /\ key' = key /\ \A u \in Tasks : pc[u] # "cascan"
    BY <1>3 DEF CaLock, Goto, TypeOK
  <2>2. \A u, v \in Tasks : pc'[u] = "cascan" /\ pc'[v] = "cascan" => u = v
    BY <1>1, <2>1
  <2>3. \A u \in Tasks : CaTask(u)'
    <3>1. \A u \in Tasks \ {t} : CaTask(u)'
      BY <1>1, <2>1 DEF CaInv, CaTask
    <3>2. CaTask(t)'
      BY <2>1 DEF CaTask
    <3> QED
      BY <3>1, <3>2
  <2> QED
    BY <1>3, <2>1, <2>2, <2>3 DEF CaInv
<1>4. CASE (CaLock(t) \/ CaCheck(t)) /\ (CaLock(t) => ca_bundle_loaded)
  <2>1. /\ pc'[t] = "calock" \/ (pc'[t] = "acquire" /\ ca_bundle_loaded)
        /\ ca_bundle' = ca_bundle /\ (ca_bundle_loaded' <=> ca_bundle_loaded)
    BY <1>4 DEF CaLock, CaCheck, Goto, TypeOK, caVars
  <2>2. CaTask(t)' /\ pc'[t] # "cascan"
    BY <2>1 DEF CaTask
  <2> QED
    BY <1>1, <2>1, <2>2, CaStep
<1>5. CASE \E k \in Keys, m \in {"fetch", "ws"} : StartFetch(t, k, m)
  <2>1. PICK k \in Keys : /\ pc' = [pc EXCEPT ![t] = Entry(k)] /\ key' = [key EXCEPT ![t] = k]
                          /\ ca_bundle' = ca_bundle /\ ca_bundle_loaded' = ca_bundle_loaded
    BY <1>5, Zenon DEF StartFetch, Goto, caVars
  <2>2. pc'[t] = Entry(k) /\ key'[t] = k
    BY <2>1 DEF TypeOK
  <2>3. CaTask(t)' /\ pc'[t] # "cascan"
    BY <2>2 DEF CaTask, Entry
  <2> QED
    BY <1>1, <2>1, <2>3, CaStep
<1>6. CASE CaFails(t) \/ ConnectFails(t) \/ SendRequest(t) \/ ReturnResponse(t) \/ Upgraded(t)
  <2>1. /\ pc'[t] \in {"idle", "receive", "body", "ws"}
        /\ ca_bundle' = ca_bundle /\ (ca_bundle_loaded' <=> ca_bundle_loaded)
    BY <1>6 DEF CaFails, ConnectFails, SendRequest, ReturnResponse, Upgraded, Goto, TypeOK,
                caVars
  <2>2. CaTask(t)' /\ pc'[t] # "cascan"
    BY <2>1 DEF CaTask
  <2> QED
    BY <1>1, <2>1, <2>2, CaStep
<1> QED
  BY <1>2, <1>3, <1>4, <1>5, <1>6, Zenon DEF Walks

LEMMA CaGivesBack ==
  ASSUME TypeOK, ControlInv, CaInv, NEW t \in Tasks, GivesBack(t)
  PROVE  CaInv'
<1>1. ca_bundle' = ca_bundle /\ (ca_bundle_loaded' <=> ca_bundle_loaded)
  <2>1. ca_bundle' = ca_bundle /\ ca_bundle_loaded' = ca_bundle_loaded
    BY GivesBackIs, Zenon DEF caVars
  <2> QED
    BY <2>1
<1>2. /\ pc' = [pc EXCEPT ![t] = "release"]
      /\ \/ /\ \E k \in Keys : key' = [key EXCEPT ![t] = k]
            /\ after' = [after EXCEPT ![t] = "idle"]
         \/ \E k \in Keys : /\ key' = [key EXCEPT ![t] = k]
                            /\ after' = [after EXCEPT ![t] = Entry(k)]
  BY AnyTypes, Zenon
     DEF GivesBack, ExchangeFails, RejectEncoding, RejectLocation, RedirectHostInvalid,
         FollowRedirect, RedirectDrainFails, Deinit, GiveBack, Goto, Forget
<1>3. /\ pc'[t] = "release"
      /\ \A u \in Tasks \ {t} : pc'[u] = pc[u] /\ after'[u] = after[u] /\ key'[u] = key[u]
      /\ after'[t] = "idle" \/ \E k \in Keys : key'[t] = k /\ after'[t] = Entry(k)
  BY <1>2 DEF TypeOK
<1>4. pc'[t] # "cascan" /\ CaTask(t)'
  BY <1>3 DEF CaTask, Entry
<1> QED
  BY <1>1, <1>3, <1>4, CaStep

LEMMA CaDrops ==
  ASSUME TypeOK, ControlInv, CaInv, NEW t \in Tasks,
         Drops(t) \/ ReleasePooled(t) \/ (\E c \in Conns : Sweep(t, c))
  PROVE  CaInv'
<1>1. CASE CloseWebSocket(t)
  <2>1. /\ pc'[t] = "idle" /\ ca_bundle' = ca_bundle /\ (ca_bundle_loaded' <=> ca_bundle_loaded)
        /\ \A u \in Tasks \ {t} : pc'[u] = pc[u] /\ after'[u] = after[u] /\ key'[u] = key[u]
    BY <1>1 DEF TypeOK, CloseWebSocket, Goto, Forget, caVars
  <2>2. pc'[t] # "cascan" /\ CaTask(t)'
    BY <2>1 DEF CaTask
  <2> QED
    BY <2>1, <2>2, CaStep
<1>2. CASE ReleaseClosing(t) \/ ResetFails(t) \/ ReleasePooled(t) \/ \E c \in Conns : Sweep(t, c)
  <2>1. /\ pc[t] \in {"release", "sweep"} /\ (\E d : Proceed(t, d)) /\ key' = key
        /\ ca_bundle' = ca_bundle /\ ca_bundle_loaded' = ca_bundle_loaded
    BY <1>2, Zenon DEF ReleaseClosing, ResetFails, ReleasePooled, Sweep, caVars
  <2>2. pc[t] = "release" => after[t] # "connect"
    BY DEF ControlInv, TaskInv
  <2>3. ca_bundle_loaded' <=> ca_bundle_loaded
    BY <2>1
  <2> QED
    BY <2>1, <2>2, <2>3, CaProceed, Zenon
<1> QED
  BY <1>1, <1>2, Zenon DEF Drops

LEMMA CaAcquire ==
  ASSUME TypeOK, ControlInv, CaInv, NEW t \in Tasks, Acquire(t)
  PROVE  CaInv'
<1>1. /\ pc[t] = "acquire" /\ key' = key /\ ca_bundle' = ca_bundle
      /\ (ca_bundle_loaded' <=> ca_bundle_loaded)
  BY DEF Acquire, caVars
<1>2. \E w, n \in {"connect", "send", "sweep", "idle"} :
        /\ pc' = [pc EXCEPT ![t] = w] /\ after' = [after EXCEPT ![t] = n]
  BY AcquireIs, Zenon DEF Takes
<1>3. /\ pc'[t] # "cascan" /\ pc'[t] # "acquire" /\ after'[t] # "acquire"
      /\ \A u \in Tasks \ {t} : pc'[u] = pc[u] /\ after'[u] = after[u] /\ key'[u] = key[u]
  BY <1>1, <1>2 DEF TypeOK
<1>4. CaTask(t)'
  BY <1>1, <1>3 DEF CaInv, CaTask
<1> QED
  BY <1>1, <1>3, <1>4, CaStep

LEMMA CaOthers ==
  ASSUME TypeOK, ControlInv, CaInv, NEW t \in Tasks,
         \/ \E c \in Conns : Connect(t, c)
         \/ \E r \in Responses : ReceiveHead(t, r)
         \/ ReadBody(t)
  PROVE  CaInv'
<1>1. /\ key' = key /\ after' = after /\ ca_bundle' = ca_bundle
      /\ ca_bundle_loaded' = ca_bundle_loaded
      /\ \/ \E w \in {"send", "head"} : pc' = [pc EXCEPT ![t] = w]
         \/ pc' = pc /\ pc[t] = "body"
  BY Zenon DEF Connect, ReceiveHead, ReadBody, Goto, taskVars, caVars
<1>2. /\ pc'[t] \in {"send", "head", "body"} /\ (ca_bundle_loaded' <=> ca_bundle_loaded)
      /\ \A u \in Tasks \ {t} : pc'[u] = pc[u] /\ after'[u] = after[u] /\ key'[u] = key[u]
  BY <1>1 DEF TypeOK
<1>3. pc'[t] # "cascan" /\ CaTask(t)'
  BY <1>2 DEF CaTask
<1> QED
  BY <1>1, <1>2, <1>3, CaStep

LEMMA CaNext == TypeOK /\ ControlInv /\ CaInv /\ [Next]_vars => CaInv'
<1> SUFFICES ASSUME TypeOK, ControlInv, CaInv, [Next]_vars
             PROVE  CaInv'
  OBVIOUS
<1>1. CASE Tick \/ UNCHANGED vars
  <2>1. /\ pc' = pc /\ after' = after /\ key' = key /\ ca_bundle' = ca_bundle
        /\ ca_bundle_loaded' = ca_bundle_loaded
    BY <1>1, Zenon DEF Tick, vars, taskVars, caVars
  <2> QED
    BY <2>1 DEF CaInv, CaTask
<1> QED
  BY <1>1, NextIs, CaWalks, CaGivesBack, CaDrops, CaAcquire, CaOthers, Zenon

\* The bundle is whole whenever a task goes on to verify a server with it, and no
\* other task is scanning into it: for any number of tasks, with failed and
\* canceled loads.
THEOREM BundleReadWhole == Spec => []BundleWhole
<1>1. Init => CaInv
  BY DEF Init, CaInv, CaTask
<1>2. CaInv => BundleWhole
  BY DEF CaInv, CaTask, BundleWhole
<1> QED
  BY <1>1, <1>2, TypeInvariant, CaNext, PTL DEF Spec

-----------------------------------------------------------------------------
(* Owners *)

\* What tasks and pool have is open, and what is open somebody has.
OwnedInv ==
  /\ \A t \in Tasks : held[t] \in Conns => held[t] \in open
  /\ \A t \in Tasks : \A c \in doomed[t] : c \in open
  /\ \A i \in DOMAIN idle : idle[i] \in open
  /\ \A c \in open : \/ \E t \in Tasks : held[t] = c
                     \/ \E t \in Tasks : c \in doomed[t]
                     \/ \E i \in DOMAIN idle : idle[i] = c

\* Nothing is in two places.
ApartInv ==
  /\ \A t, u \in Tasks : held[t] \in Conns /\ held[t] = held[u] => t = u
  /\ \A t, u \in Tasks : \A c \in doomed[t] : c \in doomed[u] => t = u
  /\ \A i, j \in DOMAIN idle : idle[i] = idle[j] => i = j
  /\ \A t, u \in Tasks : held[t] \notin doomed[u]
  /\ \A t \in Tasks, i \in DOMAIN idle : held[t] # idle[i]
  /\ \A t \in Tasks, i \in DOMAIN idle : idle[i] \notin doomed[t]

CountInv == idle_len = Len(idle) /\ Len(idle) <= MaxIdle

OwnerInv == OwnedInv /\ ApartInv /\ CountInv

LEMMA OwnerSame ==
  ASSUME OwnerInv, held' = held, doomed' = doomed, open' = open, idle' = idle,
         idle_len' = idle_len
  PROVE  OwnerInv'
  BY DEF OwnerInv, OwnedInv, ApartInv, CountInv

\* A task closes the connection it holds.
LEMMA OwnerDrops ==
  ASSUME TypeOK, ControlInv, OwnerInv, NEW t \in Tasks, Drops(t)
  PROVE  OwnerInv'
<1>1. /\ pc[t] \in HoldPc /\ open' = open \ {held[t]} /\ held' = [held EXCEPT ![t] = NoConn]
      /\ doomed' = doomed /\ idle' = idle /\ idle_len' = idle_len
  BY DEF Drops, ReleaseClosing, ResetFails, CloseWebSocket, CloseConn, poolVars, HoldPc
<1>2. held[t] \in Conns /\ NoConn \notin Conns
  BY <1>1, HeldType, PoolAssumption
<1>3. /\ held'[t] = NoConn /\ \A u \in Tasks \ {t} : held'[u] = held[u]
      /\ \A u \in Tasks : doomed[u] \subseteq Conns
      /\ \A i \in DOMAIN idle : idle[i] \in Conns
  BY <1>1 DEF TypeOK
<1>4. OwnedInv'
  BY <1>1, <1>2, <1>3 DEF OwnerInv, OwnedInv, ApartInv
<1>5. ApartInv'
  BY <1>1, <1>2, <1>3 DEF OwnerInv, ApartInv
<1> QED
  BY <1>1, <1>4, <1>5 DEF OwnerInv, CountInv

\* A task closes one of those it took out of the pool.
LEMMA OwnerSweep ==
  ASSUME TypeOK, ControlInv, OwnerInv, NEW t \in Tasks, NEW c \in Conns, Sweep(t, c)
  PROVE  OwnerInv'
<1>1. /\ c \in doomed[t] /\ open' = open \ {c} /\ doomed' = [doomed EXCEPT ![t] = @ \ {c}]
      /\ held' = held /\ idle' = idle /\ idle_len' = idle_len
  BY Zenon DEF Sweep, CloseConn, poolVars
<1>2. doomed'[t] = doomed[t] \ {c} /\ \A u \in Tasks \ {t} : doomed'[u] = doomed[u]
  BY <1>1 DEF TypeOK
<1>3. OwnedInv'
  BY <1>1, <1>2 DEF OwnerInv, OwnedInv, ApartInv
<1>4. ApartInv'
  BY <1>1, <1>2 DEF OwnerInv, ApartInv
<1> QED
  BY <1>1, <1>3, <1>4 DEF OwnerInv, CountInv

LEMMA OwnerConnect ==
  ASSUME TypeOK, ControlInv, OwnerInv, NEW t \in Tasks, NEW c \in Conns, Connect(t, c)
  PROVE  OwnerInv'
<1>1. /\ pc[t] = "connect" /\ c \notin open /\ open' = open \cup {c}
      /\ held' = [held EXCEPT ![t] = c]
      /\ doomed' = doomed /\ idle' = idle /\ idle_len' = idle_len
  BY Zenon DEF Connect, poolVars
<1>2. /\ held'[t] = c /\ \A u \in Tasks \ {t} : held'[u] = held[u]
      /\ held[t] \notin Conns
  BY <1>1 DEF TypeOK, ControlInv, TaskInv, Owns, HoldPc
<1>3. /\ \A u \in Tasks : doomed[u] \subseteq Conns
      /\ \A i \in DOMAIN idle : idle[i] \in Conns
      /\ open \subseteq Conns
  BY DEF TypeOK
<1>4. OwnedInv'
  BY <1>1, <1>2, <1>3 DEF OwnerInv, OwnedInv
<1>5. ApartInv'
  BY <1>1, <1>2, <1>3 DEF OwnerInv, OwnedInv, ApartInv
<1> QED
  BY <1>1, <1>4, <1>5 DEF OwnerInv, CountInv

LEMMA UpToN ==
  ASSUME NEW n \in Nat
  PROVE  IsFiniteSet(1..n) /\ Cardinality(1..n) = n
<1>1. IsFiniteSet(1..n) /\ Cardinality(1..n) = IF 1 > n THEN 0 ELSE n - 1 + 1
  <2>1. 1 \in Int /\ n \in Int
    OBVIOUS
  <2> QED
    BY <2>1, FS_Interval, Zenon
<1> QED
  BY <1>1

\* A task takes one of the pool, and puts aside others.
LEMMA OwnerAcquire ==
  ASSUME TypeOK, ControlInv, OwnerInv, NEW t \in Tasks, Acquire(t)
  PROVE  OwnerInv'
<1>1. PICK taken \in SUBSET DOMAIN idle, dead \in SUBSET DOMAIN idle,
            found \in Conns \cup {NoConn} : Takes(t, taken, dead, found)
  BY AcquireIs, Zenon
<1>2. /\ pc[t] = "acquire" /\ open' = open
  BY Zenon DEF Acquire
<1> DEFINE I == DOMAIN idle \ (taken \cup dead)
<1>3. /\ idle \in Seq(Conns) /\ DOMAIN idle = 1..Len(idle) /\ Len(idle) \in Nat
      /\ \A i \in DOMAIN idle : idle[i] \in Conns
      /\ I \in SUBSET (1..Len(idle))
  BY DEF TypeOK
<1>4. /\ idle' \in Seq(Conns) /\ Len(idle') = Cardinality(I)
      /\ \A j \in 1..Cardinality(I) : \E i \in I : idle'[j] = idle[i]
  <2>1. idle' = EntriesAt(idle, I)
    BY <1>1, Zenon DEF Takes
  <2> HIDE DEF I
  <2> QED
    BY <1>3, <2>1, EntriesType, Zenon
<1>5. /\ \A i \in I : \E j \in DOMAIN idle' : idle'[j] = idle[i]
      /\ \A j, k \in DOMAIN idle' : idle'[j] = idle'[k] => j = k
  <2>1. \A i, j \in DOMAIN idle : idle[i] = idle[j] => i = j
    BY DEF OwnerInv, ApartInv
  <2> QED
    <3>1. idle' = EntriesAt(idle, I)
      BY <1>1, Zenon DEF Takes
    <3> HIDE DEF I
    <3>2. /\ \A i \in I : \E j \in DOMAIN EntriesAt(idle, I) : EntriesAt(idle, I)[j] = idle[i]
          /\ (\A i, k \in DOMAIN idle : idle[i] = idle[k] => i = k) =>
               \A j, k \in DOMAIN EntriesAt(idle, I) :
                 EntriesAt(idle, I)[j] = EntriesAt(idle, I)[k] => j = k
      BY <1>3, EntriesOnce, Zenon
    <3> QED
      BY <2>1, <3>1, <3>2
<1>6. DOMAIN idle' = 1..Cardinality(I)
  BY <1>4
<1>7. \A j \in DOMAIN idle' : \E i \in I : idle'[j] = idle[i]
  BY <1>4, <1>6, Zenon
<1>8. CountInv'
  <2> DEFINE R == taken \cup dead
  <2>1. R \in SUBSET (1..Len(idle)) /\ I = (1..Len(idle)) \ R
    BY <1>3
  <2>2. IsFiniteSet(1..Len(idle)) /\ Cardinality(1..Len(idle)) = Len(idle)
    <3>1. Len(idle) \in Nat
      BY <1>3
    <3> HIDE DEF R, I
    <3> QED
      BY <3>1, UpToN, Zenon
  <2> HIDE DEF R, I
  <2>3. Cardinality(R) \in Nat
    BY <1>3, <2>1, PositionsFinite, Zenon
  <2>4. (1..Len(idle)) \cap R = R
    BY <2>1
  <2>5. Cardinality(I) = Len(idle) - Cardinality(R)
    <3>1. Cardinality((1..Len(idle)) \ R) =
            Cardinality(1..Len(idle)) - Cardinality((1..Len(idle)) \cap R)
      BY <2>2, FS_Difference, Zenon
    <3> QED
      BY <2>1, <2>2, <2>4, <3>1, Zenon
  <2>7. idle_len' = idle_len - Cardinality(R)
    BY <1>1, Zenon DEF Takes, R
  <2>6. MaxIdle \in Nat
    BY PoolAssumption
  <2> QED
    BY <1>3, <1>4, <2>3, <2>5, <2>6, <2>7 DEF OwnerInv, CountInv
<1>9. /\ held'[t] = found /\ \A u \in Tasks \ {t} : held'[u] = held[u]
      /\ held[t] \notin Conns
      /\ doomed'[t] = {idle[i] : i \in dead} /\ \A u \in Tasks \ {t} : doomed'[u] = doomed[u]
      /\ doomed[t] = {}
  BY <1>1, <1>2, <1>3 DEF TypeOK, ControlInv, TaskInv, Owns, HoldPc, Takes
<1>10. /\ \A u \in Tasks : doomed[u] \subseteq Conns
       /\ NoConn \notin Conns
  BY PoolAssumption DEF TypeOK
<1>11. \A i \in DOMAIN idle : \/ i \in I /\ i \notin dead /\ i \notin taken
                              \/ i \in dead /\ i \notin I /\ i \notin taken
                              \/ i \in taken /\ i \notin I /\ i \notin dead /\ found = idle[i]
  BY <1>1 DEF Takes
<1>12. I \subseteq DOMAIN idle
  OBVIOUS
<1> HIDE DEF I
<1>13. OwnedInv'
  <2>1. \A c \in open : \/ \E u \in Tasks : held'[u] = c
                        \/ \E u \in Tasks : c \in doomed'[u]
                        \/ \E i \in DOMAIN idle' : idle'[i] = c
    <3> SUFFICES ASSUME NEW c \in open
                 PROVE  \/ \E u \in Tasks : held'[u] = c
                        \/ \E u \in Tasks : c \in doomed'[u]
                        \/ \E i \in DOMAIN idle' : idle'[i] = c
      OBVIOUS
    <3>1. CASE \E u \in Tasks : held[u] = c
      BY <1>9, <3>1 DEF TypeOK
    <3>2. CASE \E u \in Tasks : c \in doomed[u]
      BY <1>9, <3>2
    <3>3. CASE \E i \in DOMAIN idle : idle[i] = c
      BY <1>5, <1>9, <1>11, <3>3
    <3> QED
      BY <3>1, <3>2, <3>3 DEF OwnerInv, OwnedInv
  <2>2. \A i \in DOMAIN idle' : idle'[i] \in open
    BY <1>7, <1>12 DEF OwnerInv, OwnedInv
  <2>3. \A u \in Tasks : held'[u] \in Conns => held'[u] \in open
    BY <1>1, <1>9, <1>10 DEF OwnerInv, OwnedInv, Takes
  <2>4. \A u \in Tasks : \A c \in doomed'[u] : c \in open
    BY <1>1, <1>9 DEF OwnerInv, OwnedInv, Takes
  <2> QED
    BY <1>2, <2>1, <2>2, <2>3, <2>4 DEF OwnedInv
<1>14. ApartInv'
  <2>1. \A u, v \in Tasks : held'[u] \in Conns /\ held'[u] = held'[v] => u = v
    BY <1>1, <1>9, <1>10 DEF OwnerInv, ApartInv, Takes
  <2>2. \A u, v \in Tasks : \A c \in doomed'[u] : c \in doomed'[v] => u = v
    BY <1>1, <1>9 DEF OwnerInv, ApartInv, Takes
  <2>3. \A u, v \in Tasks : held'[u] \notin doomed'[v]
    <3>1. \A i \in dead : found # idle[i]
      BY <1>1, <1>3, <1>10 DEF OwnerInv, ApartInv, Takes
    <3> QED
      BY <1>1, <1>9, <1>10, <3>1 DEF OwnerInv, ApartInv, Takes
  <2>4. \A u \in Tasks, j \in DOMAIN idle' : held'[u] # idle'[j] /\ idle'[j] \notin doomed'[u]
    <3> SUFFICES ASSUME NEW u \in Tasks, NEW i \in I
                 PROVE  held'[u] # idle[i] /\ idle[i] \notin doomed'[u]
      BY <1>7
    <3>1. i \in DOMAIN idle /\ idle[i] \in Conns /\ i \notin taken /\ i \notin dead
      BY <1>3, <1>11, <1>12
    <3>2. found # idle[i] /\ \A k \in dead : idle[k] # idle[i]
      BY <1>1, <1>10, <3>1 DEF OwnerInv, ApartInv, Takes
    <3> QED
      BY <1>9, <3>1, <3>2 DEF OwnerInv, ApartInv
  <2> QED
    BY <1>5, <2>1, <2>2, <2>3, <2>4 DEF ApartInv
<1> QED
  BY <1>8, <1>13, <1>14 DEF OwnerInv

\* A task's connection goes to the pool, and the oldest may leave it.
LEMMA OwnerReleasePooled ==
  ASSUME TypeOK, ControlInv, OwnerInv, NEW t \in Tasks, ReleasePooled(t)
  PROVE  OwnerInv'
<1>1. PICK evicted \in SUBSET Conns, kept \in Seq(Conns) :
           /\ \/ evicted = {} /\ kept = idle /\ (idle_len < MaxIdle \/ idle = <<>>)
              \/ idle # <<>> /\ evicted = {idle[1]} /\ kept = Tail(idle)
           /\ idle' = Append(kept, held[t])
           /\ idle_len' = idle_len - Cardinality(evicted) + 1
           /\ doomed' = [doomed EXCEPT ![t] = evicted]
  BY ReleasePooledIs, Zenon
<1>2. /\ pc[t] = "release" /\ held' = [held EXCEPT ![t] = NoConn] /\ open' = open
      /\ MaxIdle # 0
  BY Zenon DEF ReleasePooled
<1>3. held[t] \in Conns /\ NoConn \notin Conns /\ MaxIdle \in Nat
  BY <1>2, HeldType, PoolAssumption DEF HoldPc
<1>4. /\ idle \in Seq(Conns) /\ DOMAIN idle = 1..Len(idle) /\ Len(idle) \in Nat
      /\ idle = <<>> <=> Len(idle) = 0
      /\ \A i \in DOMAIN idle : idle[i] \in Conns
      /\ \A u \in Tasks : doomed[u] \subseteq Conns
  BY DEF TypeOK
<1>5. /\ held'[t] = NoConn /\ \A u \in Tasks \ {t} : held'[u] = held[u]
      /\ doomed'[t] = evicted /\ \A u \in Tasks \ {t} : doomed'[u] = doomed[u]
      /\ doomed[t] = {}
  BY <1>1, <1>2 DEF TypeOK, ControlInv, TaskInv
<1>6. /\ DOMAIN idle' = 1..(Len(kept) + 1) /\ DOMAIN kept = 1..Len(kept) /\ Len(kept) \in Nat
      /\ idle'[Len(kept) + 1] = held[t] /\ \A i \in DOMAIN kept : idle'[i] = kept[i]
      /\ Len(idle') = Len(kept) + 1
  BY <1>1, <1>3
\* How the kept part lies in the old pool: k is 1 when the oldest has left.
<1> DEFINE k == IF evicted = {} THEN 0 ELSE 1
<1>7. /\ k \in {0, 1} /\ Cardinality(evicted) = k /\ Len(kept) = Len(idle) - k
      /\ \A i \in DOMAIN kept : i + k \in DOMAIN idle /\ kept[i] = idle[i + k]
      /\ k = 0 => evicted = {} /\ Len(idle) < MaxIdle
      /\ k = 1 => 1 \in DOMAIN idle /\ evicted = {idle[1]}
  <2>1. CASE evicted = {} /\ kept = idle /\ (idle_len < MaxIdle \/ idle = <<>>)
    <3>1. Cardinality(evicted) = 0
      BY <2>1, FS_EmptySet
    <3>2. Len(idle) < MaxIdle
      BY <1>2, <1>3, <1>4, <2>1 DEF OwnerInv, CountInv
    <3> QED
      BY <1>4, <2>1, <3>1, <3>2
  <2>2. CASE idle # <<>> /\ evicted = {idle[1]} /\ kept = Tail(idle)
    <3>1. Cardinality(evicted) = 1
      BY <2>2, FS_Singleton
    <3>2. /\ Len(kept) = Len(idle) - 1 /\ 1 \in DOMAIN idle
          /\ \A i \in DOMAIN kept : i + 1 \in DOMAIN idle /\ kept[i] = idle[i + 1]
      BY <1>4, <2>2
    <3>3. k = 1
      BY <2>2
    <3> HIDE DEF k
    <3> QED
      BY <2>2, <3>1, <3>2, <3>3
  <2> QED
    BY <1>1, <2>1, <2>2
<1> HIDE DEF k
<1>9. CountInv'
  BY <1>1, <1>3, <1>4, <1>6, <1>7 DEF OwnerInv, CountInv
\* Old positions and new ones.
<1>10. \A j \in DOMAIN idle' : \/ j = Len(kept) + 1 /\ idle'[j] = held[t]
                               \/ j + k \in DOMAIN idle /\ idle'[j] = idle[j + k]
  BY <1>6, <1>7
<1>11. \A i \in DOMAIN idle : \/ idle[i] \in evicted
                              \/ i - k \in DOMAIN idle' /\ idle'[i - k] = idle[i]
  <2> SUFFICES ASSUME NEW i \in DOMAIN idle, idle[i] \notin evicted
               PROVE  i - k \in DOMAIN idle' /\ idle'[i - k] = idle[i]
    OBVIOUS
  <2>1. i - k \in DOMAIN kept
    BY <1>4, <1>6, <1>7
  <2>2. kept[i - k] = idle[i]
    BY <1>4, <1>7, <2>1
  <2> QED
    BY <1>6, <2>1, <2>2
<1>12. \A c \in evicted : \E i \in DOMAIN idle : c = idle[i]
  BY <1>7
<1>13. \A j \in DOMAIN idle' : idle'[j] \notin evicted
  BY <1>4, <1>6, <1>7, <1>10 DEF OwnerInv, ApartInv
<1>14. OwnedInv'
  <2>1. \A c \in open : \/ \E u \in Tasks : held'[u] = c
                        \/ \E u \in Tasks : c \in doomed'[u]
                        \/ \E i \in DOMAIN idle' : idle'[i] = c
    <3> SUFFICES ASSUME NEW c \in open
                 PROVE  \/ \E u \in Tasks : held'[u] = c
                        \/ \E u \in Tasks : c \in doomed'[u]
                        \/ \E i \in DOMAIN idle' : idle'[i] = c
      OBVIOUS
    <3>1. CASE \E u \in Tasks : held[u] = c
      <4>1. Len(kept) + 1 \in DOMAIN idle'
        BY <1>6
      <4> QED
        BY <1>5, <1>6, <3>1, <4>1
    <3>2. CASE \E u \in Tasks : c \in doomed[u]
      BY <1>5, <3>2
    <3>3. CASE \E i \in DOMAIN idle : idle[i] = c
      BY <1>5, <1>11, <3>3
    <3> QED
      BY <3>1, <3>2, <3>3 DEF OwnerInv, OwnedInv
  <2>2. \A i \in DOMAIN idle' : idle'[i] \in open
    BY <1>3, <1>10 DEF OwnerInv, OwnedInv
  <2>3. \A u \in Tasks : held'[u] \in Conns => held'[u] \in open
    BY <1>3, <1>5 DEF OwnerInv, OwnedInv
  <2>4. \A u \in Tasks : \A c \in doomed'[u] : c \in open
    BY <1>5, <1>12 DEF OwnerInv, OwnedInv
  <2> QED
    BY <1>2, <2>1, <2>2, <2>3, <2>4 DEF OwnedInv
<1>15. ApartInv'
  <2>1. \A u, v \in Tasks : held'[u] \in Conns /\ held'[u] = held'[v] => u = v
    BY <1>3, <1>5 DEF OwnerInv, ApartInv
  <2>2. \A u, v \in Tasks : \A c \in doomed'[u] : c \in doomed'[v] => u = v
    BY <1>5, <1>12 DEF OwnerInv, ApartInv
  <2>3. \A u, v \in Tasks : held'[u] \notin doomed'[v]
    BY <1>3, <1>4, <1>5, <1>12 DEF OwnerInv, ApartInv
  <2>4. \A u \in Tasks, j \in DOMAIN idle' : held'[u] # idle'[j]
    BY <1>3, <1>4, <1>5, <1>10 DEF OwnerInv, ApartInv
  <2>5. \A u \in Tasks, j \in DOMAIN idle' : idle'[j] \notin doomed'[u]
    BY <1>5, <1>10, <1>13 DEF OwnerInv, ApartInv
  <2>6. \A i, j \in DOMAIN idle' : idle'[i] = idle'[j] => i = j
    <3> SUFFICES ASSUME NEW i \in DOMAIN idle', NEW j \in DOMAIN idle', idle'[i] = idle'[j]
                 PROVE  i = j
      OBVIOUS
    <3>1. i \in Int /\ j \in Int /\ k \in Int
      BY <1>6, <1>7
    <3>2. \A l \in DOMAIN idle : held[t] # idle[l]
      BY DEF OwnerInv, ApartInv
    <3>3. \A l, m \in DOMAIN idle : idle[l] = idle[m] => l = m
      BY DEF OwnerInv, ApartInv
    <3> QED
      BY <1>10, <3>1, <3>2, <3>3
  <2> QED
    BY <2>1, <2>2, <2>3, <2>4, <2>5, <2>6 DEF ApartInv
<1> QED
  BY <1>9, <1>14, <1>15 DEF OwnerInv

LEMMA OwnerNext == TypeOK /\ ControlInv /\ OwnerInv /\ [Next]_vars => OwnerInv'
<1> SUFFICES ASSUME TypeOK, ControlInv, OwnerInv, [Next]_vars
             PROVE  OwnerInv'
  OBVIOUS
<1>1. CASE Tick \/ UNCHANGED vars
  <2>1. held' = held /\ doomed' = doomed /\ open' = open /\ idle' = idle /\ idle_len' = idle_len
    BY <1>1, Zenon DEF Tick, vars, taskVars, poolVars
  <2> QED
    BY <2>1, OwnerSame
<1>2. CASE \E t \in Tasks : \/ Walks(t) \/ GivesBack(t) \/ ReadBody(t)
                            \/ \E r \in Responses : ReceiveHead(t, r)
  <2>1. held' = held /\ doomed' = doomed /\ open' = open /\ idle' = idle /\ idle_len' = idle_len
    BY <1>2, Zenon
       DEF Walks, GivesBack, ReadBody, ReceiveHead, CaCheck, CaLock, CaScanned, CaFails,
           ConnectFails, SendRequest, ReturnResponse, Upgraded, StartFetch, ExchangeFails,
           RejectEncoding, RejectLocation, RedirectHostInvalid, FollowRedirect,
           RedirectDrainFails, Deinit, taskVars, poolVars
  <2> QED
    BY <2>1, OwnerSame
<1> QED
  BY <1>1, <1>2, NextIs, OwnerDrops, OwnerAcquire, OwnerReleasePooled, OwnerSweep,
     OwnerConnect, Zenon

\* Counting the places a connection is in.
LEMMA OwnerCounts == TypeOK /\ OwnerInv => OneOwner
<1> SUFFICES ASSUME TypeOK, OwnerInv, NEW c \in Conns
             PROVE  Cardinality(Places(c)) = IF c \in open THEN 1 ELSE 0
  BY DEF OneOwner, OwnerInv, CountInv
<1> DEFINE H == {u \in Tasks : held[u] = c}
           D == {u \in Tasks : c \in doomed[u]}
           I == {j \in DOMAIN idle : idle[j] = c}
<1>1. Places(c) = {<<"held", t>> : t \in H} \cup {<<"doomed", t>> : t \in D}
                    \cup {<<"idle", i>> : i \in I}
  BY Zenon DEF Places
<1>2. /\ \A t, u \in H : t = u
      /\ \A t, u \in D : t = u
      /\ \A i, j \in I : i = j
      /\ H = {} \/ D = {}
      /\ H = {} \/ I = {}
      /\ D = {} \/ I = {}
  BY DEF OwnerInv, ApartInv
<1>3. c \in open <=> H # {} \/ D # {} \/ I # {}
  BY DEF OwnerInv, OwnedInv
<1> HIDE DEF H, D, I
<1>4. CASE c \notin open
  <2>1. H = {} /\ D = {} /\ I = {}
    BY <1>3, <1>4
  <2>2. Places(c) = {}
    BY <1>1, <2>1
  <2> QED
    BY <1>4, <2>2, FS_EmptySet
<1>5. CASE c \in open
  <2>1. \E x : Places(c) = {x}
    <3>1. CASE H # {}
      <4>1. PICK t : H = {t} /\ D = {} /\ I = {}
        BY <1>2, <3>1
      <4>2. Places(c) = {<<"held", t>>}
        BY <1>1, <4>1
      <4> QED
        BY <4>2, Zenon
    <3>2. CASE D # {}
      <4>1. PICK t : D = {t} /\ H = {} /\ I = {}
        BY <1>2, <3>2
      <4>2. Places(c) = {<<"doomed", t>>}
        BY <1>1, <4>1
      <4> QED
        BY <4>2, Zenon
    <3>3. CASE I # {}
      <4>1. PICK i : I = {i} /\ H = {} /\ D = {}
        BY <1>2, <3>3
      <4>2. Places(c) = {<<"idle", i>>}
        BY <1>1, <4>1
      <4> QED
        BY <4>2, Zenon
    <3> QED
      BY <1>3, <1>5, <3>1, <3>2, <3>3, Zenon
  <2>2. Cardinality(Places(c)) = 1
    BY <2>1, FS_Singleton, Zenon
  <2> QED
    BY <1>5, <2>2
<1> QED
  BY <1>4, <1>5

LEMMA OwnerInvariant == Spec => []OwnerInv
<1>1. Init => OwnerInv
  <2> SUFFICES ASSUME Init PROVE OwnerInv
    OBVIOUS
  <2>1. /\ held = [t \in Tasks |-> NoConn] /\ doomed = [t \in Tasks |-> {}] /\ open = {}
        /\ idle = <<>> /\ idle_len = 0 /\ NoConn \notin Conns /\ MaxIdle \in Nat
    BY PoolAssumption DEF Init
  <2> QED
    BY <2>1 DEF OwnerInv, OwnedInv, ApartInv, CountInv
<1> QED
  BY <1>1, TypeInvariant, OwnerNext, PTL DEF Spec

\* Every connection that exists is in exactly one place, one that was closed is in
\* none, the pool's counter is its length and its limit holds: for any number of
\* tasks that acquire, expire, evict, release and fail in any order.
THEOREM EachConnOneOwner == Spec => []OneOwner
  BY TypeInvariant, OwnerInvariant, OwnerCounts, PTL

-----------------------------------------------------------------------------
(* What a pooled connection may be used for *)

\* No answer leaves anything behind: no 1xx, and no body with a Location that
\* fetch rejects (such a connection is pooled with its body unread).
NothingLeft ==
  \A r \in Responses :
    ~r.interim /\ (r.decodable /\ r.redirect = "bad" => r.body = "none")

\* No last answer is one after which fetch fails without closing: a Location it
\* rejects, an encoding it does not know and no body.
LastRefused ==
  \A r \in Responses :
    ~r.ka => (r.decodable => r.redirect # "bad") /\ (~r.decodable => r.body # "none")

Unspoiled(c) == (NothingLeft => ~c.dirty) /\ (LastRefused => ~c.ending)

Pooled(c) == Unspoiled(c) /\ ~c.closing

\* A connection may go back to the pool.
Reusable(c) == c.closing \/ (Unspoiled(c) /\ (NothingLeft => ~c.unread))

WithinMax(c) == c.closing \/ c.max = 0 \/ c.count < c.max

\* The connection of a task that owns one, at each point.
UseOK(where, c, r) ==
  /\ where \in {"send", "receive", "sweep"} => Unspoiled(c)
  /\ where \in {"head", "body"} => (NothingLeft => ~c.dirty) /\ (r.ka => ~c.ending)
  /\ where = "head" => (c.unread <=> r.body # "none")
  /\ where = "release" => Reusable(c)

TaskOK(t) == Owns(t) => UseOK(pc[t], conn[held[t]], resp[t])

CleanInv ==
  /\ \A i \in DOMAIN idle : Pooled(conn[idle[i]])
  /\ \A t \in Tasks : TaskOK(t)
  /\ \A c \in Conns : WithinMax(conn[c])
  /\ NothingLeft => OwnResponse

\* A step of one task, with one connection.
LEMMA CleanStep ==
  ASSUME TypeOK, ControlInv, CleanInv, NEW t \in Tasks, NEW c,
         \A d \in Conns \ {c} : conn'[d] = conn[d],
         \A u \in Tasks \ {t} : /\ pc'[u] = pc[u] /\ after'[u] = after[u]
                                /\ held'[u] = held[u] /\ resp'[u] = resp[u]
                                /\ (c \in Conns => held[u] # c),
         \A i \in DOMAIN idle' : Pooled(conn'[idle'[i]]),
         TaskOK(t)', c \in Conns => WithinMax(conn'[c]), NothingLeft => OwnResponse'
  PROVE  CleanInv'
<1>1. \A u \in Tasks \ {t} : TaskOK(u)'
  <2> SUFFICES ASSUME NEW u \in Tasks \ {t}, Owns(u)'
               PROVE  UseOK(pc'[u], conn'[held'[u]], resp'[u])
    BY DEF TaskOK
  <2>1. Owns(u)
    BY DEF Owns
  <2>2. held[u] \in Conns
    BY <2>1 DEF ControlInv, TaskInv
  <2>3. UseOK(pc[u], conn[held[u]], resp[u])
    BY <2>1, Zenon DEF CleanInv, TaskOK
  <2>4. /\ pc'[u] = pc[u] /\ resp'[u] = resp[u] /\ held'[u] = held[u]
        /\ conn'[held[u]] = conn[held[u]]
    BY <2>2
  <2> QED
    BY <2>3, <2>4, Zenon
<1>2. \A d \in Conns : WithinMax(conn'[d])
  <2>1. \A d \in Conns : WithinMax(conn[d])
    BY Zenon DEF CleanInv
  <2> QED
    BY <2>1, Zenon
<1> QED
  BY <1>1, <1>2, Zenon DEF CleanInv

\* A step that moves a task and changes no connection.
LEMMA CleanWalks ==
  ASSUME TypeOK, ControlInv, CleanInv, NEW t \in Tasks, Walks(t)
  PROVE  CleanInv'
<1>1. /\ after' = after /\ held' = held /\ resp' = resp /\ got' = got /\ conn' = conn
      /\ idle' = idle
  BY Zenon DEF Walks, CaCheck, CaLock, CaScanned, CaFails, ConnectFails, SendRequest,
               ReturnResponse, Upgraded, StartFetch, poolVars
<1>2. /\ \A u \in Tasks \ {t} : pc'[u] = pc[u]
      /\ \/ pc[t] = "send" /\ pc'[t] = "receive"
         \/ pc[t] = "head" /\ pc'[t] = "body"
         \/ pc'[t] = "ws"
         \/ pc'[t] \in {"idle", "ca", "calock", "cascan", "acquire"}
  BY DEF Walks, CaCheck, CaLock, CaScanned, CaFails, ConnectFails, SendRequest,
         ReturnResponse, Upgraded, StartFetch, Goto, Entry, TypeOK
<1>3. TaskOK(t)'
  <2> SUFFICES ASSUME Owns(t)'
               PROVE  UseOK(pc'[t], conn[held[t]], resp[t])
    BY <1>1 DEF TaskOK
  <2>1. CASE pc'[t] \notin {"receive", "body"}
    BY <1>2, <2>1 DEF UseOK, Owns, HoldPc
  <2>2. CASE pc'[t] \in {"receive", "body"}
    <3>1. Owns(t) /\ UseOK(pc[t], conn[held[t]], resp[t])
      BY <1>2, <2>2 DEF Owns, HoldPc, CleanInv, TaskOK
    <3> QED
      BY <1>2, <2>2, <3>1 DEF UseOK
  <2> QED
    BY <2>1, <2>2
<1>4. NothingLeft => OwnResponse'
  BY <1>1, Zenon DEF CleanInv, OwnResponse
<1>5. \A i \in DOMAIN idle' : Pooled(conn'[idle'[i]])
  BY <1>1, Zenon DEF CleanInv
<1>6. NoConn \notin Conns
  BY PoolAssumption
<1> QED
  BY <1>1, <1>2, <1>3, <1>4, <1>5, <1>6, CleanStep, Zenon

LEMMA FreshClean ==
  ASSUME NEW k
  PROVE  Pooled(Fresh(k)) /\ WithinMax(Fresh(k))
<1>1. /\ ~Fresh(k).closing /\ ~Fresh(k).dirty /\ ~Fresh(k).ending /\ Fresh(k).max = 0
  BY DEF Fresh
<1> QED
  BY <1>1, Zenon DEF Pooled, Unspoiled, WithinMax

\* fetch fails and marks the connection.
LEMMA MarkedClean ==
  ASSUME NEW c \in ConnFields, WithinMax(c)
  PROVE  Reusable([c EXCEPT !.closing = TRUE]) /\ WithinMax([c EXCEPT !.closing = TRUE])
<1> DEFINE d == [c EXCEPT !.closing = TRUE]
<1>1. d.closing
  BY DEF ConnFields
<1> QED
  BY <1>1, Zenon DEF Reusable, WithinMax

\* fetch refuses the encoding: closed if there is a body, or that was no last answer.
LEMMA RefusedClean ==
  ASSUME NEW c \in ConnFields, NEW r \in Responses, WithinMax(c), UseOK("head", c, r),
         ~r.decodable
  PROVE  LET d == [c EXCEPT !.closing = c.closing \/ c.unread]
         IN  Reusable(d) /\ WithinMax(d)
<1> DEFINE d == [c EXCEPT !.closing = c.closing \/ c.unread]
<1>1. /\ d.closing <=> (c.closing \/ c.unread)
      /\ d.dirty = c.dirty /\ d.ending = c.ending /\ d.unread = c.unread
      /\ d.max = c.max /\ d.count = c.count
  BY DEF ConnFields
<1>2. /\ NothingLeft => ~c.dirty
      /\ r.ka => ~c.ending
      /\ (c.unread <=> r.body # "none")
  BY DEF UseOK
<1>3. LastRefused => (~r.ka => r.body # "none")
  BY Zenon DEF LastRefused
<1> HIDE DEF d
<1>4. Reusable(d)
  BY <1>1, <1>2, <1>3, Zenon DEF Reusable, Unspoiled
<1>5. WithinMax(d)
  BY <1>1, Zenon DEF WithinMax
<1> QED
  BY <1>4, <1>5, Zenon DEF d

\* fetch refuses the Location: the connection is pooled as it is.
LEMMA LocationClean ==
  ASSUME NEW c, NEW r \in Responses, UseOK("head", c, r), r.decodable, r.redirect = "bad"
  PROVE  Reusable(c)
<1>2. /\ NothingLeft => ~c.dirty
      /\ r.ka => ~c.ending
      /\ (c.unread <=> r.body # "none")
  BY DEF UseOK
<1>3. (LastRefused => r.ka) /\ (NothingLeft => r.body = "none")
  BY Zenon DEF LastRefused, NothingLeft
<1> QED
  BY <1>2, <1>3, Zenon DEF Reusable, Unspoiled

\* A redirect is followed: up to 2 KB of its body are drained.
LEMMA DrainedClean ==
  ASSUME NEW c \in ConnFields, NEW r \in Responses, WithinMax(c), UseOK("head", c, r)
  PROVE  Reusable(AfterDrain(c, r)) /\ WithinMax(AfterDrain(c, r))
<1> DEFINE d == AfterDrain(c, r)
<1>1. /\ d.closing <=> (c.closing \/ r.body = "large" \/ ~r.ka)
      /\ d.unread <=> r.body = "large"
      /\ d.dirty = c.dirty /\ d.ending = c.ending
      /\ d.max = c.max /\ d.count = c.count
  BY DEF ConnFields, AfterDrain
<1>2. /\ NothingLeft => ~c.dirty
      /\ r.ka => ~c.ending
  BY DEF UseOK
<1> HIDE DEF d
<1>3. Reusable(d)
  BY <1>1, <1>2, Zenon DEF Reusable, Unspoiled
<1>4. WithinMax(d)
  BY <1>1, Zenon DEF WithinMax
<1> QED
  BY <1>3, <1>4, Zenon DEF d

\* The caller is done with the response.
LEMMA ReleasedClean ==
  ASSUME NEW c \in ConnFields, NEW r \in Responses, UseOK("body", c, r)
  PROVE  Reusable(Released(c, r)) /\ WithinMax(Released(c, r))
<1> DEFINE d == Released(c, r)
           count == c.count + 1
           max == IF r.ka THEN KeepAlive(c, "max", ServerMax) ELSE c.max
<1>1. /\ d.closing <=> (c.closing \/ c.unread \/ ~r.ka \/ (max # 0 /\ count >= max))
      /\ d.unread = c.unread /\ d.dirty = c.dirty /\ d.ending = c.ending
      /\ d.max = max /\ d.count = Min2(count, ServerMax + 1)
  BY DEF ConnFields, Released
<1>2. /\ NothingLeft => ~c.dirty
      /\ r.ka => ~c.ending
  BY DEF UseOK
<1>3. max \in Nat /\ count \in Nat /\ ServerMax \in Nat
  BY PoolAssumption DEF ConnFields, KeepAlive
<1> HIDE DEF d, count, max
<1>4. Reusable(d)
  BY <1>1, <1>2, Zenon DEF Reusable, Unspoiled
<1>5. max = 0 \/ count >= max \/ Min2(count, ServerMax + 1) < max
  BY <1>3 DEF Min2
<1>6. WithinMax(d)
  BY <1>1, <1>5, Zenon DEF WithinMax
<1> QED
  BY <1>4, <1>6, Zenon DEF d

\* The pool keeps its connections, and they stay as they are.
LEMMA PoolSame ==
  ASSUME CleanInv, idle' = idle, \A i \in DOMAIN idle : conn'[idle[i]] = conn[idle[i]]
  PROVE  \A i \in DOMAIN idle' : Pooled(conn'[idle'[i]])
<1>1. \A i \in DOMAIN idle : Pooled(conn[idle[i]])
  BY Zenon DEF CleanInv
<1>2. \A i \in DOMAIN idle : Pooled(conn'[idle[i]])
  BY <1>1, Zenon
<1> QED
  BY <1>2

\* A step of one task that changes the one connection it holds.
LEMMA CleanOwn ==
  ASSUME TypeOK, ControlInv, OwnerInv, CleanInv, NEW t \in Tasks, held[t] \in Conns,
         NEW f, conn' = [conn EXCEPT ![held[t]] = f], WithinMax(f),
         idle' = idle, held' = held,
         \A u \in Tasks \ {t} : /\ pc'[u] = pc[u] /\ after'[u] = after[u]
                                /\ resp'[u] = resp[u],
         UseOK(pc'[t], f, resp'[t]), NothingLeft => OwnResponse'
  PROVE  CleanInv'
<1>1. /\ \A d \in Conns \ {held[t]} : conn'[d] = conn[d]
      /\ conn'[held[t]] = f
  BY DEF TypeOK
<1>2. /\ \A u \in Tasks \ {t} : held[u] # held[t]
      /\ \A i \in DOMAIN idle : idle[i] \in Conns /\ idle[i] # held[t]
  BY DEF OwnerInv, ApartInv, TypeOK
<1>3. \A i \in DOMAIN idle' : Pooled(conn'[idle'[i]])
  <2>1. \A i \in DOMAIN idle : conn'[idle[i]] = conn[idle[i]]
    BY <1>1, <1>2, Zenon
  <2> QED
    BY <2>1, PoolSame, Zenon
<1>4. TaskOK(t)'
  BY <1>1, Zenon DEF TaskOK
<1> QED
  BY <1>1, <1>2, <1>3, <1>4, CleanStep, Zenon

\* What a task that owns a connection knows of it.
LEMMA OwnClean ==
  ASSUME TypeOK, ControlInv, CleanInv, NEW t \in Tasks, pc[t] \in HoldPc
  PROVE  /\ held[t] \in Conns /\ conn[held[t]] \in ConnFields
         /\ WithinMax(conn[held[t]]) /\ UseOK(pc[t], conn[held[t]], resp[t])
         /\ resp[t] \in Responses
<1>1. held[t] \in Conns /\ conn[held[t]] \in ConnFields
  BY HeldType
<1>2. resp[t] \in Responses
  BY DEF TypeOK
<1> QED
  BY <1>1, <1>2, Zenon DEF CleanInv, TaskOK, Owns

LEMMA CleanGivesBack ==
  ASSUME TypeOK, ControlInv, OwnerInv, CleanInv, NEW t \in Tasks, GivesBack(t)
  PROVE  CleanInv'
<1> DEFINE c == conn[held[t]]
           Gives(f) == \E next : GiveBack(t, held[t], f, next)
<1>1. /\ pc[t] \in {"send", "receive", "head", "body"} /\ held' = held /\ got' = got
      /\ idle' = idle
  BY DEF GivesBack, ExchangeFails, RejectEncoding, RejectLocation, RedirectHostInvalid,
         FollowRedirect, RedirectDrainFails, Deinit, poolVars
<1>2. /\ held[t] \in Conns /\ c \in ConnFields /\ WithinMax(c)
      /\ UseOK(pc[t], c, resp[t]) /\ resp[t] \in Responses
  <2>1. pc[t] \in HoldPc
    BY <1>1 DEF HoldPc
  <2> QED
    BY <2>1, OwnClean, Zenon
<1>3. \E f : Gives(f) /\ Reusable(f) /\ WithinMax(f)
  <2>1. CASE ExchangeFails(t) \/ RedirectDrainFails(t)
    <3>1. Gives([c EXCEPT !.closing = TRUE])
      BY <2>1, Zenon DEF ExchangeFails, RedirectDrainFails
    <3> QED
      BY <1>2, <3>1, MarkedClean, Zenon
  <2>2. CASE RejectEncoding(t)
    <3>1. /\ Gives([c EXCEPT !.closing = c.closing \/ c.unread])
          /\ pc[t] = "head" /\ ~resp[t].decodable
      BY <2>2, Zenon DEF RejectEncoding
    <3>2. UseOK("head", c, resp[t])
      BY <1>2, <3>1, Zenon
    <3> QED
      BY <1>2, <3>1, <3>2, RefusedClean, Zenon
  <2>3. CASE RejectLocation(t)
    <3>1. /\ Gives(c) /\ pc[t] = "head" /\ resp[t].decodable /\ resp[t].redirect = "bad"
      BY <2>3, Zenon DEF RejectLocation
    <3>2. UseOK("head", c, resp[t])
      BY <1>2, <3>1, Zenon
    <3> QED
      BY <1>2, <3>1, <3>2, LocationClean, Zenon
  <2>4. CASE RedirectHostInvalid(t) \/ \E k \in Keys : FollowRedirect(t, k)
    <3>1. Gives(AfterDrain(c, resp[t])) /\ pc[t] = "head"
      BY <2>4, Zenon DEF RedirectHostInvalid, FollowRedirect
    <3>2. UseOK("head", c, resp[t])
      BY <1>2, <3>1, Zenon
    <3> QED
      BY <1>2, <3>1, <3>2, DrainedClean, Zenon
  <2>5. CASE Deinit(t)
    <3>1. Gives(Released(c, resp[t])) /\ pc[t] = "body"
      BY <2>5, Zenon DEF Deinit
    <3>2. UseOK("body", c, resp[t])
      BY <1>2, <3>1, Zenon
    <3> QED
      BY <1>2, <3>1, <3>2, ReleasedClean, Zenon
  <2> QED
    BY <2>1, <2>2, <2>3, <2>4, <2>5, Zenon DEF GivesBack
<1>4. PICK f : Gives(f) /\ Reusable(f) /\ WithinMax(f)
  BY <1>3, Zenon
<1>5. PICK next : GiveBack(t, held[t], f, next)
  BY <1>4, Zenon
<1>6. /\ conn' = [conn EXCEPT ![held[t]] = f] /\ pc'[t] = "release"
      /\ \A u \in Tasks \ {t} : /\ pc'[u] = pc[u] /\ after'[u] = after[u]
                                /\ resp'[u] = resp[u]
  BY <1>5 DEF GiveBack, Goto, TypeOK
<1>7. UseOK("release", f, resp'[t])
  BY <1>4, Zenon DEF UseOK
<1>8. NothingLeft => OwnResponse'
  BY <1>1, Zenon DEF CleanInv, OwnResponse
<1> QED
  BY <1>1, <1>2, <1>4, <1>6, <1>7, <1>8, CleanOwn, Zenon

LEMMA CleanReadBody ==
  ASSUME TypeOK, ControlInv, OwnerInv, CleanInv, NEW t \in Tasks, ReadBody(t)
  PROVE  CleanInv'
<1> DEFINE c == conn[held[t]]
           d == [c EXCEPT !.unread = FALSE]
<1>1. /\ pc[t] = "body" /\ conn' = [conn EXCEPT ![held[t]].unread = FALSE]
      /\ pc' = pc /\ after' = after /\ held' = held /\ resp' = resp /\ got' = got
      /\ idle' = idle
  BY Zenon DEF ReadBody, taskVars, poolVars
<1>2. /\ held[t] \in Conns /\ c \in ConnFields /\ WithinMax(c)
      /\ UseOK("body", c, resp[t])
  <2>1. pc[t] \in HoldPc
    BY <1>1 DEF HoldPc
  <2> QED
    BY <1>1, <2>1, OwnClean, Zenon
<1>3. conn' = [conn EXCEPT ![held[t]] = d]
  BY <1>1, <1>2 DEF TypeOK
<1>4. /\ d.closing = c.closing /\ d.dirty = c.dirty /\ d.ending = c.ending
      /\ d.max = c.max /\ d.count = c.count
  BY <1>2 DEF ConnFields
<1> HIDE DEF d
<1>5. WithinMax(d)
  BY <1>2, <1>4 DEF WithinMax
<1>6. UseOK("body", d, resp[t])
  BY <1>2, <1>4 DEF UseOK
<1>7. NothingLeft => OwnResponse'
  BY <1>1, Zenon DEF CleanInv, OwnResponse
<1> QED
  BY <1>1, <1>2, <1>3, <1>5, <1>6, <1>7, CleanOwn, Zenon

\* The next message on the connection is the answer to what was sent on it.
LEMMA CleanReceiveHead ==
  ASSUME TypeOK, ControlInv, OwnerInv, CleanInv, NEW t \in Tasks, NEW r \in Responses,
         ReceiveHead(t, r)
  PROVE  CleanInv'
<1> DEFINE c == conn[held[t]]
           d == [c EXCEPT !.unread = (r.body # "none"), !.dirty = c.dirty \/ r.interim,
                          !.ending = ~r.ka]
<1>1. /\ pc[t] = "receive" /\ pc' = [pc EXCEPT ![t] = "head"]
      /\ resp' = [resp EXCEPT ![t] = r]
      /\ got' = [got EXCEPT ![t] = IF c.dirty THEN "stale" ELSE "own"]
      /\ conn' = [conn EXCEPT ![held[t]].unread = r.body # "none",
                              ![held[t]].dirty = @ \/ r.interim,
                              ![held[t]].ending = ~r.ka]
      /\ after' = after /\ held' = held /\ idle' = idle
  BY Zenon DEF ReceiveHead, Holding, Goto, poolVars
<1>2. /\ held[t] \in Conns /\ c \in ConnFields /\ WithinMax(c)
      /\ UseOK("receive", c, resp[t])
  <2>1. pc[t] \in HoldPc
    BY <1>1 DEF HoldPc
  <2> QED
    BY <1>1, <2>1, OwnClean, Zenon
<1>3. conn' = [conn EXCEPT ![held[t]] = d]
  BY <1>1, <1>2 DEF TypeOK
<1>4. /\ d.closing = c.closing /\ d.max = c.max /\ d.count = c.count
      /\ (d.unread <=> r.body # "none")
      /\ (d.dirty <=> c.dirty \/ r.interim)
      /\ (d.ending <=> ~r.ka)
  BY <1>2 DEF ConnFields
<1>5. NothingLeft => ~c.dirty /\ ~r.interim
  BY <1>2 DEF UseOK, Unspoiled, NothingLeft
<1> HIDE DEF d
<1>6. WithinMax(d)
  BY <1>2, <1>4 DEF WithinMax
<1>7. UseOK("head", d, r)
  BY <1>4, <1>5, Zenon DEF UseOK
<1>8. /\ pc'[t] = "head" /\ resp'[t] = r
      /\ \A u \in Tasks \ {t} : /\ pc'[u] = pc[u] /\ after'[u] = after[u]
                                /\ resp'[u] = resp[u]
  BY <1>1 DEF TypeOK
<1>9. NothingLeft => OwnResponse'
  <2> SUFFICES ASSUME NothingLeft PROVE OwnResponse'
    OBVIOUS
  <2>1. got' = [got EXCEPT ![t] = "own"]
    BY <1>1, <1>5, Zenon
  <2>2. OwnResponse
    BY Zenon DEF CleanInv
  <2> QED
    BY <2>1, <2>2 DEF OwnResponse, TypeOK
<1> QED
  BY <1>1, <1>2, <1>3, <1>6, <1>7, <1>8, <1>9, CleanOwn, Zenon

\* A task closes the connection it holds.
LEMMA CleanDrops ==
  ASSUME TypeOK, ControlInv, OwnerInv, CleanInv, NEW t \in Tasks, Drops(t)
  PROVE  CleanInv'
<1>1. /\ pc[t] \in HoldPc /\ conn' = [conn EXCEPT ![held[t]] = Fresh(AnyKey)]
      /\ held' = [held EXCEPT ![t] = NoConn] /\ resp' = resp /\ got' = got /\ idle' = idle
  BY DEF Drops, ReleaseClosing, ResetFails, CloseWebSocket, CloseConn, poolVars, HoldPc
<1>2. held[t] \in Conns /\ NoConn \notin Conns
  BY <1>1, HeldType, PoolAssumption
<1>3. /\ conn'[held[t]] = Fresh(AnyKey)
      /\ \A d \in Conns \ {held[t]} : conn'[d] = conn[d]
      /\ held'[t] = NoConn
      /\ \A u \in Tasks \ {t} : held'[u] = held[u] /\ held[u] # held[t]
      /\ \A i \in DOMAIN idle : idle[i] \in Conns /\ idle[i] # held[t]
  BY <1>1, <1>2 DEF TypeOK, OwnerInv, ApartInv
<1>4. \A u \in Tasks \ {t} : pc'[u] = pc[u] /\ after'[u] = after[u]
  BY DEF Drops, ReleaseClosing, ResetFails, CloseWebSocket, Proceed, Goto, TypeOK
<1>5. \A i \in DOMAIN idle' : Pooled(conn'[idle'[i]])
  <2>1. \A i \in DOMAIN idle : conn'[idle[i]] = conn[idle[i]]
    BY <1>3, Zenon
  <2> QED
    BY <1>1, <2>1, PoolSame, Zenon
<1>6. TaskOK(t)'
  <2>1. ControlInv'
    BY DropsType, Zenon
  <2>2. ~Owns(t)'
    BY <1>2, <1>3, <2>1 DEF ControlInv, TaskInv
  <2> QED
    BY <2>2, Zenon DEF TaskOK
<1>7. NothingLeft => OwnResponse'
  BY <1>1, Zenon DEF CleanInv, OwnResponse
<1>8. WithinMax(conn'[held[t]])
  BY <1>3, FreshClean, Zenon
<1>9. \A u \in Tasks \ {t} : resp'[u] = resp[u]
  BY <1>1
<1> QED
  BY <1>2, <1>3, <1>4, <1>5, <1>6, <1>7, <1>8, <1>9, CleanStep, Zenon

LEMMA CleanSweep ==
  ASSUME TypeOK, ControlInv, OwnerInv, CleanInv, NEW t \in Tasks, NEW c \in Conns,
         Sweep(t, c)
  PROVE  CleanInv'
<1>1. /\ pc[t] = "sweep" /\ c \in doomed[t] /\ conn' = [conn EXCEPT ![c] = Fresh(AnyKey)]
      /\ held' = held /\ resp' = resp /\ got' = got /\ idle' = idle
      /\ Proceed(t, doomed[t] # {c})
  BY Zenon DEF Sweep, CloseConn, poolVars
<1>2. /\ conn'[c] = Fresh(AnyKey) /\ \A d \in Conns \ {c} : conn'[d] = conn[d]
      /\ \A u \in Tasks : held[u] # c
      /\ \A i \in DOMAIN idle : idle[i] \in Conns /\ idle[i] # c
  BY <1>1 DEF TypeOK, OwnerInv, ApartInv
<1>3. \A u \in Tasks \ {t} : pc'[u] = pc[u] /\ after'[u] = after[u]
  BY <1>1 DEF Proceed, Goto, TypeOK
<1>4. \A i \in DOMAIN idle' : Pooled(conn'[idle'[i]])
  <2>1. \A i \in DOMAIN idle : conn'[idle[i]] = conn[idle[i]]
    BY <1>2, Zenon
  <2> QED
    BY <1>1, <2>1, PoolSame, Zenon
<1>5. TaskOK(t)'
  <2> SUFFICES ASSUME Owns(t)'
               PROVE  UseOK(pc'[t], conn'[held[t]], resp[t])
    BY <1>1 DEF TaskOK
  <2>1. /\ after[t] \in {"idle", "ca", "acquire", "connect", "send"}
        /\ \/ pc'[t] = "sweep" /\ after'[t] = after[t]
           \/ pc'[t] = after[t]
    BY <1>1 DEF ControlInv, TaskInv, Proceed, Goto, TypeOK
  <2>2. after[t] = "send" /\ pc'[t] \in {"send", "sweep"}
    BY <2>1 DEF Owns, HoldPc
  <2>3. Owns(t) /\ held[t] \in Conns
    BY <1>1, <2>2 DEF Owns, ControlInv, TaskInv
  <2>4. UseOK("sweep", conn[held[t]], resp[t])
    BY <1>1, <2>3, Zenon DEF CleanInv, TaskOK
  <2>5. conn'[held[t]] = conn[held[t]]
    BY <1>2, <2>3, Zenon
  <2>6. Unspoiled(conn'[held[t]])
    BY <2>4, <2>5 DEF UseOK
  <2> QED
    BY <2>2, <2>6 DEF UseOK
<1>6. NothingLeft => OwnResponse'
  BY <1>1, Zenon DEF CleanInv, OwnResponse
<1>7. WithinMax(conn'[c])
  BY <1>2, FreshClean, Zenon
<1>8. \A u \in Tasks \ {t} : resp'[u] = resp[u] /\ held'[u] = held[u]
  BY <1>1
<1> QED
  BY <1>2, <1>3, <1>4, <1>5, <1>6, <1>7, <1>8, CleanStep, Zenon

LEMMA CleanConnect ==
  ASSUME TypeOK, ControlInv, OwnerInv, CleanInv, NEW t \in Tasks, NEW c \in Conns,
         Connect(t, c)
  PROVE  CleanInv'
<1>1. /\ c \notin open /\ conn' = [conn EXCEPT ![c] = Fresh(key[t])]
      /\ held' = [held EXCEPT ![t] = c] /\ pc' = [pc EXCEPT ![t] = "send"]
      /\ after' = after /\ resp' = resp /\ got' = got /\ idle' = idle
  BY Zenon DEF Connect, Goto, poolVars
<1>2. /\ conn'[c] = Fresh(key[t]) /\ \A d \in Conns \ {c} : conn'[d] = conn[d]
      /\ held'[t] = c /\ pc'[t] = "send"
      /\ \A u \in Tasks \ {t} : /\ pc'[u] = pc[u] /\ after'[u] = after[u]
                                /\ held'[u] = held[u] /\ resp'[u] = resp[u]
      /\ \A i \in DOMAIN idle : idle[i] \in Conns
  BY <1>1 DEF TypeOK
<1>3. /\ \A u \in Tasks : held[u] # c
      /\ \A i \in DOMAIN idle : idle[i] # c
  BY <1>1, Zenon DEF OwnerInv, OwnedInv
<1>4. \A i \in DOMAIN idle' : Pooled(conn'[idle'[i]])
  <2>1. \A i \in DOMAIN idle : conn'[idle[i]] = conn[idle[i]]
    BY <1>2, <1>3, Zenon
  <2> QED
    BY <1>1, <2>1, PoolSame, Zenon
<1>5. Pooled(conn'[c]) /\ WithinMax(conn'[c])
  BY <1>2, FreshClean, Zenon
<1>6. TaskOK(t)'
  <2>1. UseOK("send", conn'[c], resp'[t])
    BY <1>5 DEF UseOK, Pooled
  <2> QED
    BY <1>2, <2>1, Zenon DEF TaskOK
<1>7. NothingLeft => OwnResponse'
  BY <1>1, Zenon DEF CleanInv, OwnResponse
<1> QED
  BY <1>2, <1>3, <1>4, <1>5, <1>6, <1>7, CleanStep, Zenon

\* What a task takes out of the pool, it can use.
LEMMA CleanAcquire ==
  ASSUME TypeOK, ControlInv, OwnerInv, CleanInv, NEW t \in Tasks, Acquire(t)
  PROVE  CleanInv'
<1>1. PICK taken \in SUBSET DOMAIN idle, dead \in SUBSET DOMAIN idle,
            found \in Conns \cup {NoConn} : Takes(t, taken, dead, found)
  BY AcquireIs, Zenon
<1>2. resp' = resp /\ got' = got /\ conn' = conn /\ NoConn \notin Conns
  BY PoolAssumption DEF Acquire
<1>3. /\ held'[t] = found /\ pc'[t] \in {"connect", "send", "sweep"}
      /\ \A u \in Tasks \ {t} : /\ pc'[u] = pc[u] /\ after'[u] = after[u]
                                /\ held'[u] = held[u] /\ resp'[u] = resp[u]
  BY <1>1, <1>2 DEF TypeOK, Takes
<1>4. \A i \in DOMAIN idle' : \E j \in DOMAIN idle : idle'[i] = idle[j]
  <2> DEFINE I == DOMAIN idle \ (taken \cup dead)
  <2>1. idle' = EntriesAt(idle, I)
    BY <1>1, Zenon DEF Takes
  <2>2. idle \in Seq(Conns) /\ I \in SUBSET (1..Len(idle)) /\ I \subseteq DOMAIN idle
    BY DEF TypeOK
  <2> HIDE DEF I
  <2>3. /\ idle' \in Seq(Conns) /\ Len(idle') = Cardinality(I)
        /\ \A j \in 1..Cardinality(I) : \E i \in I : idle'[j] = idle[i]
    BY <2>1, <2>2, EntriesType, Zenon
  <2>4. DOMAIN idle' = 1..Cardinality(I)
    BY <2>3
  <2> QED
    BY <2>2, <2>3, <2>4, Zenon
<1>5. \A i \in DOMAIN idle' : Pooled(conn'[idle'[i]])
  <2>1. \A j \in DOMAIN idle : Pooled(conn[idle[j]])
    BY Zenon DEF CleanInv
  <2> QED
    BY <1>2, <1>4, <2>1, Zenon
<1>6. TaskOK(t)'
  <2> SUFFICES ASSUME Owns(t)' PROVE UseOK(pc'[t], conn'[found], resp'[t])
    BY <1>3, Zenon DEF TaskOK
  <2>1. found \in Conns
    <3>1. ControlInv'
      BY AcquireType, Zenon
    <3> QED
      BY <1>3, <3>1 DEF ControlInv, TaskInv
  <2>2. \E m \in DOMAIN idle : found = idle[m]
    BY <1>1, <1>2, <2>1 DEF Takes
  <2>3. Pooled(conn[found])
    BY <2>2, Zenon DEF CleanInv
  <2>4. Unspoiled(conn'[found])
    BY <1>2, <2>3, Zenon DEF Pooled
  <2> QED
    BY <1>3, <2>4 DEF UseOK
<1>7. NothingLeft => OwnResponse'
  BY <1>2, Zenon DEF CleanInv, OwnResponse
<1>8. \A d \in Conns \ {NoConn} : conn'[d] = conn[d]
  BY <1>2, Zenon
<1> QED
  BY <1>2, <1>3, <1>5, <1>6, <1>7, <1>8, CleanStep, Zenon

\* What a task puts into the pool, another can use.
LEMMA CleanReleasePooled ==
  ASSUME TypeOK, ControlInv, OwnerInv, CleanInv, NEW t \in Tasks, ReleasePooled(t)
  PROVE  CleanInv'
<1>1. PICK evicted \in SUBSET Conns, kept \in Seq(Conns) :
           /\ \/ evicted = {} /\ kept = idle /\ (idle_len < MaxIdle \/ idle = <<>>)
              \/ idle # <<>> /\ evicted = {idle[1]} /\ kept = Tail(idle)
           /\ idle' = Append(kept, held[t])
           /\ idle_len' = idle_len - Cardinality(evicted) + 1
           /\ doomed' = [doomed EXCEPT ![t] = evicted]
           /\ Proceed(t, evicted # {})
  BY ReleasePooledIs, Zenon
<1> DEFINE c == conn[held[t]]
           d == [c EXCEPT !.dirty = c.dirty \/ c.unread, !.unread = FALSE]
<1>2. /\ pc[t] = "release" /\ held' = [held EXCEPT ![t] = NoConn] /\ ~c.closing
      /\ conn' = [conn EXCEPT ![held[t]].dirty = @ \/ conn[held[t]].unread,
                              ![held[t]].unread = FALSE]
      /\ resp' = resp /\ got' = got
  BY Zenon DEF ReleasePooled
<1>3. /\ held[t] \in Conns /\ c \in ConnFields /\ WithinMax(c)
      /\ UseOK("release", c, resp[t])
  <2>1. pc[t] \in HoldPc
    BY <1>2 DEF HoldPc
  <2> QED
    BY <1>2, <2>1, OwnClean, Zenon
<1>4. conn' = [conn EXCEPT ![held[t]] = d]
  BY <1>2, <1>3 DEF TypeOK
<1>5. /\ d.closing = c.closing /\ d.ending = c.ending
      /\ d.max = c.max /\ d.count = c.count
      /\ (d.dirty <=> c.dirty \/ c.unread)
  BY <1>3 DEF ConnFields
<1> HIDE DEF d
<1>6. WithinMax(d)
  BY <1>3, <1>5 DEF WithinMax
<1>7. Pooled(d)
  <2>1. Reusable(c)
    BY <1>3 DEF UseOK
  <2>2. Unspoiled(c) /\ (NothingLeft => ~c.unread)
    BY <1>2, <2>1, Zenon DEF Reusable
  <2>3. ~d.closing /\ (d.ending <=> c.ending)
    BY <1>2, <1>5
  <2> QED
    BY <1>5, <2>2, <2>3, Zenon DEF Pooled, Unspoiled
<1>8. /\ conn'[held[t]] = d /\ \A e \in Conns \ {held[t]} : conn'[e] = conn[e]
      /\ held'[t] = NoConn /\ NoConn \notin Conns
      /\ \A u \in Tasks \ {t} : held'[u] = held[u] /\ held[u] # held[t]
      /\ \A i \in DOMAIN idle : idle[i] \in Conns /\ idle[i] # held[t]
  <2>1. held' = [held EXCEPT ![t] = NoConn] /\ held[t] \in Conns
    BY <1>2, <1>3, Zenon
  <2>2. /\ conn'[held[t]] = d /\ \A e \in Conns \ {held[t]} : conn'[e] = conn[e]
    BY <1>4, <2>1 DEF TypeOK
  <2>3. /\ \A u \in Tasks \ {t} : held[u] # held[t]
        /\ \A i \in DOMAIN idle : idle[i] \in Conns /\ idle[i] # held[t]
    BY <2>1 DEF TypeOK, OwnerInv, ApartInv
  <2>4. /\ held'[t] = NoConn /\ NoConn \notin Conns
        /\ \A u \in Tasks \ {t} : held'[u] = held[u]
    BY <2>1, PoolAssumption DEF TypeOK
  <2> QED
    BY <2>2, <2>3, <2>4, Zenon
<1>9. \A u \in Tasks \ {t} : /\ pc'[u] = pc[u] /\ after'[u] = after[u]
                             /\ resp'[u] = resp[u]
  BY <1>1, <1>2 DEF Proceed, Goto, TypeOK
<1>10. \A i \in DOMAIN idle' : \/ idle'[i] = held[t]
                               \/ \E j \in DOMAIN idle : idle'[i] = idle[j]
  <2>1. \A i \in DOMAIN kept : \E j \in DOMAIN idle : kept[i] = idle[j]
    <3>1. idle \in Seq(Conns)
      BY DEF TypeOK
    <3>2. CASE kept = idle
      BY <3>2
    <3>3. CASE idle # <<>> /\ kept = Tail(idle)
      <4>1. \A i \in DOMAIN kept : i + 1 \in DOMAIN idle /\ kept[i] = idle[i + 1]
        BY <3>1, <3>3
      <4> QED
        BY <4>1
    <3> QED
      BY <1>1, <3>2, <3>3, Zenon
  <2>2. \A i \in DOMAIN idle' : idle'[i] = held[t] \/ (i \in DOMAIN kept /\ idle'[i] = kept[i])
    BY <1>1
  <2> QED
    BY <2>1, <2>2, Zenon
<1>11. \A i \in DOMAIN idle' : Pooled(conn'[idle'[i]])
  <2>1. \A j \in DOMAIN idle : conn'[idle[j]] = conn[idle[j]]
    BY <1>8, Zenon
  <2>2. \A j \in DOMAIN idle : Pooled(conn[idle[j]])
    BY Zenon DEF CleanInv
  <2> SUFFICES ASSUME NEW i \in DOMAIN idle' PROVE Pooled(conn'[idle'[i]])
    BY Zenon
  <2>3. CASE idle'[i] = held[t]
    BY <1>7, <1>8, <2>3, Zenon
  <2>4. CASE \E j \in DOMAIN idle : idle'[i] = idle[j]
    BY <2>1, <2>2, <2>4, Zenon
  <2> QED
    BY <1>10, <2>3, <2>4, Zenon
<1>12. TaskOK(t)'
  <2>1. ControlInv'
    BY ReleasePooledType, Zenon
  <2>2. ~Owns(t)'
    BY <1>8, <2>1 DEF ControlInv, TaskInv
  <2> QED
    BY <2>2, Zenon DEF TaskOK
<1>13. NothingLeft => OwnResponse'
  BY <1>2, Zenon DEF CleanInv, OwnResponse
<1>14. WithinMax(conn'[held[t]])
  BY <1>6, <1>8, Zenon
<1> QED
  BY <1>3, <1>8, <1>9, <1>11, <1>12, <1>13, <1>14, CleanStep, Zenon

LEMMA CleanNext ==
  TypeOK /\ ControlInv /\ OwnerInv /\ CleanInv /\ [Next]_vars => CleanInv'
<1> SUFFICES ASSUME TypeOK, ControlInv, OwnerInv, CleanInv, [Next]_vars
             PROVE  CleanInv'
  OBVIOUS
<1>1. CASE Tick \/ UNCHANGED vars
  <2>1. /\ pc' = pc /\ after' = after /\ held' = held /\ resp' = resp /\ got' = got
        /\ conn' = conn /\ idle' = idle
    BY <1>1, Zenon DEF Tick, vars, taskVars, poolVars
  <2> QED
    BY <2>1, Zenon DEF CleanInv, TaskOK, Owns, OwnResponse
<1> QED
  BY <1>1, NextIs, CleanWalks, CleanGivesBack, CleanDrops, CleanAcquire, CleanReleasePooled,
     CleanSweep, CleanConnect, CleanReceiveHead, CleanReadBody, Zenon

LEMMA CleanInvariant == Spec => []CleanInv
<1>1. Init => CleanInv
  <2> SUFFICES ASSUME Init PROVE CleanInv
    OBVIOUS
  <2>1. /\ DOMAIN idle = {} /\ \A t \in Tasks : pc[t] = "idle" /\ got[t] = "own"
        /\ \A c \in Conns : conn[c] = Fresh(AnyKey)
    BY DEF Init
  <2>2. \A t \in Tasks : ~Owns(t)
    BY <2>1 DEF Owns, HoldPc
  <2>3. \A c \in Conns : WithinMax(conn[c])
    BY <2>1, FreshClean, Zenon
  <2> QED
    BY <2>1, <2>2, <2>3, Zenon DEF CleanInv, TaskOK, OwnResponse
<1> QED
  BY <1>1, TypeInvariant, OwnerInvariant, CleanNext, PTL DEF Spec

\* When no answer leaves anything behind it (no 1xx; no body with a Location that
\* fetch rejects), no task is ever given what an earlier request left on a
\* connection, whatever tasks read, give up or share through the pool.
THEOREM OwnResponses == ASSUME NothingLeft PROVE Spec => []OwnResponse
<1>1. CleanInv => OwnResponse
  BY Zenon DEF CleanInv
<1> QED
  BY <1>1, CleanInvariant, PTL

\* When fetch fails after no answer that says close without a body to read, every
\* connection in the pool is one its server keeps open and allows a request on.
THEOREM IdleStaysUsable == ASSUME LastRefused PROVE Spec => []IdleUsable
<1>1. TypeOK /\ CleanInv => IdleUsable
  <2> SUFFICES ASSUME TypeOK, CleanInv, NEW i \in DOMAIN idle
               PROVE  /\ ~conn[idle[i]].ending
                      /\ conn[idle[i]].max # 0 => conn[idle[i]].count < conn[idle[i]].max
    BY Zenon DEF IdleUsable
  <2>1. idle[i] \in Conns
    BY DEF TypeOK
  <2> QED
    BY <2>1, Zenon DEF CleanInv, Pooled, Unspoiled, WithinMax
<1> QED
  BY <1>1, TypeInvariant, CleanInvariant, PTL
=============================================================================
