------------------------------- MODULE Router -------------------------------
(***************************************************************************)
(* Router: one tree of path segments per method, filled by insertRoute and *)
(* searched by findHandler with backtracking.  A node is named by the keys *)
(* on the way to it; a node holds the name of its parameter and its route. *)
(*                                                                         *)
(* A path is the sequence of what stands between its slashes, empty parts  *)
(* included.  What the search should return is stated without a tree, over *)
(* the patterns that were registered.                                      *)
(***************************************************************************)
EXTENDS Integers, Sequences, FiniteSets, Entries

CONSTANTS
  Methods,     \* methods; "GET" and "HEAD" are among them
  Patterns,    \* patterns that may be registered: sequences of Part
  Paths,       \* paths that may be requested: sequences of strings
  Queries,     \* query strings, as the sequences of their keys
  MaxRoutes,   \* registrations (bounds the model)
  MaxParams,   \* config.request.max_param_count
  MaxQuery     \* config.request.max_query_count

\* A part of a pattern: a literal, ":name" or "*name".
Part == [kind : {"static", "param", "wildcard"}, text : STRING]

ASSUME RouterAssumption ==
  /\ {"GET", "HEAD"} \subseteq Methods
  /\ \A p \in Patterns : p \in Seq(Part)
  /\ \A p \in Paths : p \in Seq(STRING)
  /\ \A q \in Queries : q \in Seq(STRING)
  /\ MaxRoutes \in Nat /\ MaxParams \in Nat /\ MaxQuery \in Nat

VARIABLES
  trees,       \* Router.trees: a function from nodes, empty when null
  registered,  \* what was registered, in order
  answer       \* what findHandler returned, and the request it was for

vars == <<trees, registered, answer>>

NoRoute == 0

\* A tree without nodes: a method's entry of trees that is null.
NoTree == [n \in {} |-> <<>>]

\* Request.params, a map from names: a name that is not in it maps to <<>>,
\* which no captured value is.
Names == UNION {{p[i].text : i \in DOMAIN p} : p \in Patterns}
Params == [Names -> Seq(STRING)]
NoParams == [n \in Names |-> <<>>]
Put(params, name, value) == [params EXCEPT ![name] = value]
Without(params, name) == [params EXCEPT ![name] = <<>>]
Count(params) == Cardinality({n \in Names : params[n] # <<>>})

NoAnswer == [outcome |-> "none", route |-> NoRoute, params |-> NoParams,
             method |-> "", path |-> <<>>, query |-> <<>>]

-----------------------------------------------------------------------------
(* insertRoute *)

\* A child is found by its literal, or as the one param or wildcard child.
Key(part) == IF part.kind = "static" THEN part
             ELSE [kind |-> part.kind, text |-> ""]

\* The node a pattern leads to after its first n parts.
NodeAt(pattern, n) == [i \in 1..n |-> Key(pattern[i])]

\* param_name: what follows the ":" or "*", null for a literal.
NameOf(part) == IF part.kind = "static" THEN "" ELSE part.text

\* Mutant: a node that is there is made anew, and what it held is lost.
InsertRoute_Overwrites(tree, pattern, route) ==
  LET made == {NodeAt(pattern, n) : n \in 0..Len(pattern)} IN
  [node \in DOMAIN tree \cup made |->
     IF node \in made
     THEN [param_name |-> IF node = <<>> THEN "" ELSE NameOf(pattern[Len(node)]),
           route |-> IF Len(node) = Len(pattern) THEN route ELSE NoRoute]
     ELSE tree[node]]

\* The nodes on the way are made where they are missing and keep their name
\* where they are not; the last one gets the route.
InsertRoute(tree, pattern, route) ==
  LET last == NodeAt(pattern, Len(pattern)) IN
  [node \in DOMAIN tree \cup {NodeAt(pattern, n) : n \in 0..Len(pattern)} |->
     [param_name |-> IF node \in DOMAIN tree THEN tree[node].param_name
                     ELSE IF node = <<>> THEN "" ELSE NameOf(pattern[Len(node)]),
      route |-> IF node = last THEN route
                ELSE IF node \in DOMAIN tree THEN tree[node].route ELSE NoRoute]]

-----------------------------------------------------------------------------
(* findHandler *)

\* Where the segments of a path are: its parts that are not empty.
Offsets(path) ==
  EntriesAt([i \in DOMAIN path |-> i], {i \in DOMAIN path : path[i] # ""})

SegmentsOf(path) == [j \in DOMAIN Offsets(path) |-> path[Offsets(path)[j]]]

Hit(node, params) == [outcome |-> "hit", node |-> node, params |-> params]
Miss(params) == [outcome |-> "miss", node |-> <<>>, params |-> params]
TooManyParams(params) == [outcome |-> "error", node |-> <<>>, params |-> params]

Static(seg) == [kind |-> "static", text |-> seg]
Param == [kind |-> "param", text |-> ""]
Wildcard == [kind |-> "wildcard", text |-> ""]

\* No more parameters may be captured.
Full(params) == Count(params) >= MaxParams

\* Mutant: a parameter that led nowhere stays captured.
Backtrack_Keeps(params, name) == params

\* What the parameter branch captured is removed again.
Backtrack(params, name) == Without(params, name)

\* The wildcard child, tried last: it takes the rest of the path, and is
\* returned whether it has a route or not.
MatchWildcard(tree, path, i, node, params) ==
  LET child == Append(node, Wildcard) IN
  IF child \notin DOMAIN tree THEN Miss(params)
  ELSE IF Full(params) THEN TooManyParams(params)
  ELSE Hit(child, Put(params, tree[child].param_name,
                      SubSeq(path, Offsets(path)[i], Len(path))))

\* Mutant: a node is taken at the end of the path, with or without a route.
MatchEnd_AnyNode(tree, node, params) == Hit(node, params)

\* At the end of the path only a node with a route is a match.
MatchEnd(tree, node, params) ==
  IF tree[node].route = NoRoute THEN Miss(params) ELSE Hit(node, params)

\* The parameter child, tried second, then the wildcard.  `deeper` is the search
\* at the next segment, from a node and with the parameters so far.
MatchParam(tree, path, i, node, params, deeper) ==
  LET child == Append(node, Param)
      name == tree[child].param_name
      below == deeper[<<child, Put(params, name, <<SegmentsOf(path)[i]>>)>>]
  IN  IF child \notin DOMAIN tree THEN MatchWildcard(tree, path, i, node, params)
      ELSE IF Full(params) THEN TooManyParams(params)
      ELSE IF below.outcome # "miss" THEN below
      ELSE MatchWildcard(tree, path, i, node, Backtrack(below.params, name))

\* The child with the segment as its literal, tried first.
MatchStatic(tree, path, i, node, params, deeper) ==
  LET child == Append(node, Static(SegmentsOf(path)[i]))
      below == deeper[<<child, params>>]
  IN  IF child \notin DOMAIN tree THEN MatchParam(tree, path, i, node, params, deeper)
      ELSE IF below.outcome # "miss" THEN below
      ELSE MatchParam(tree, path, i, node, below.params, deeper)

\* The calls with so many segments left, from every node and with every set of
\* parameters.
MatchNode(tree, path, left, deeper) ==
  [at \in (DOMAIN tree) \X Params |->
     IF left = 0 THEN MatchEnd(tree, at[1], at[2])
     ELSE MatchStatic(tree, path, Len(SegmentsOf(path)) - left + 1, at[1], at[2], deeper)]

\* matchRecursive, as a function of how many segments are left.
MatchRecursive(tree, path) ==
  LET match[left \in Nat] == MatchNode(tree, path, left, match[left - 1])
  IN  match

\* matchIn: the route of the node that was found, if it has one.
MatchIn(tree, path, params) ==
  IF DOMAIN tree = {} THEN Miss(params)
  ELSE LET m == MatchRecursive(tree, path)[Len(SegmentsOf(path))][<< <<>>, params>>] IN
       IF m.outcome = "hit" /\ tree[m.node].route = NoRoute THEN Miss(m.params)
       ELSE m

\* findHandler after the query: the request's own tree, then GET's for a HEAD.
FindHandler(ts, method, path) ==
  LET own == MatchIn(ts[method], path, NoParams) IN
  IF own.outcome = "miss" /\ method = "HEAD"
  THEN LET get == MatchIn(ts["GET"], path, own.params)
       IN  [get EXCEPT !.node = <<"GET", @>>]
  ELSE [own EXCEPT !.node = <<method, @>>]

\* parseQueryString: pairs are counted before they are read, so one more pair
\* at the limit is refused whatever its key.
QueryFits(query) ==
  \A i \in DOMAIN query :
    Cardinality({query[j] : j \in 1..(i - 1)}) < MaxQuery

-----------------------------------------------------------------------------
Init ==
  /\ trees = [m \in Methods |-> NoTree]
  /\ registered = <<>>
  /\ answer = NoAnswer

\* Router.get and the like, or Group.register with the joined path.
Register(method, pattern) ==
  /\ answer = NoAnswer /\ Len(registered) < MaxRoutes
  /\ registered' = Append(registered, [methods |-> {method}, pattern |-> pattern])
  /\ trees' = [trees EXCEPT ![method] = InsertRoute(@, pattern, Len(registered'))]
  /\ UNCHANGED answer

\* Router.any.
RegisterAny(pattern) ==
  /\ answer = NoAnswer /\ Len(registered) < MaxRoutes
  /\ registered' = Append(registered, [methods |-> Methods, pattern |-> pattern])
  /\ trees' = [m \in Methods |-> InsertRoute(trees[m], pattern, Len(registered'))]
  /\ UNCHANGED answer

\* findHandler for one request.
Find(method, path, query) ==
  /\ answer = NoAnswer
  /\ answer' =
       LET f == FindHandler(trees, method, path) IN
       [outcome |-> IF QueryFits(query) THEN f.outcome ELSE "error",
        route |-> IF f.outcome = "hit" /\ QueryFits(query)
                  THEN trees[f.node[1]][f.node[2]].route ELSE NoRoute,
        params |-> IF QueryFits(query) THEN f.params ELSE NoParams,
        method |-> method, path |-> path, query |-> query]
  /\ UNCHANGED <<trees, registered>>

\* request.reset: the next request starts from nothing.
NextRequest ==
  /\ answer # NoAnswer
  /\ answer' = NoAnswer
  /\ UNCHANGED <<trees, registered>>

Next ==
  \/ \E m \in Methods, p \in Patterns : Register(m, p)
  \/ \E p \in Patterns : RegisterAny(p)
  \/ \E m \in Methods, p \in Paths, q \in Queries : Find(m, p, q)
  \/ NextRequest

Spec == Init /\ [][Next]_vars

-----------------------------------------------------------------------------
(* What the search should find, over the registered patterns *)

\* The pattern describes the path: segment by segment, a wildcard at the end
\* standing for one or more.
Describes(pattern, path) ==
  LET segs == SegmentsOf(path)
      open == pattern # <<>> /\ pattern[Len(pattern)].kind = "wildcard"
  IN  /\ IF open THEN Len(segs) >= Len(pattern) ELSE Len(segs) = Len(pattern)
      /\ \A i \in DOMAIN pattern :
           pattern[i].kind = "static" => pattern[i].text = segs[i]

Precedence(part) == CASE part.kind = "static" -> 1
                [] part.kind = "param" -> 2
                [] part.kind = "wildcard" -> 3

\* p is more specific than q: at the first part where they differ in kind.
MoreSpecific(p, q) ==
  \E i \in DOMAIN p \cap DOMAIN q :
    /\ Precedence(p[i]) < Precedence(q[i])
    /\ \A j \in 1..(i - 1) : Precedence(p[j]) = Precedence(q[j])

\* The routes of a method that describe a path, and the best of them: the most
\* specific, and of equally specific ones the last registered.
Candidates(method, path) ==
  {r \in DOMAIN registered :
     method \in registered[r].methods /\ Describes(registered[r].pattern, path)}

BestOf(method, path) ==
  LET c == Candidates(method, path) IN
  IF c = {} THEN NoRoute
  ELSE CHOOSE r \in c :
         \A s \in c \ {r} :
           \/ MoreSpecific(registered[r].pattern, registered[s].pattern)
           \/ /\ ~MoreSpecific(registered[s].pattern, registered[r].pattern)
              /\ s < r

\* A HEAD without a route of its own gets GET's.
Expected(method, path) ==
  IF method = "HEAD" /\ BestOf("HEAD", path) = NoRoute THEN BestOf("GET", path)
  ELSE BestOf(method, path)

Captures(pattern) == {i \in DOMAIN pattern : pattern[i].kind # "static"}

\* What the theorems ask of the patterns, and insertRoute does not check: a wildcard,
\* which takes the rest of the path, is the last part, and no pattern uses a name
\* twice.
WildcardsLast ==
  \A p \in Patterns : \A i \in DOMAIN p : p[i].kind = "wildcard" => i = Len(p)

NamesOnce ==
  \A p \in Patterns : \A i, j \in Captures(p) : p[i].text = p[j].text => i = j

\* No pattern captures more than the limit allows.
WithinLimit(r) == Cardinality(Captures(registered[r].pattern)) <= MaxParams

\* Patterns with the same parameter node call the parameter the same.
NamesAgree ==
  \A r, s \in DOMAIN registered :
    \A i \in Captures(registered[r].pattern) \cap Captures(registered[s].pattern) :
      NodeAt(registered[r].pattern, i) = NodeAt(registered[s].pattern, i)
        => registered[r].pattern[i].text = registered[s].pattern[i].text

\* What a pattern captures from a path it describes, under its own names.
Captured(pattern, path) ==
  [n \in Names |->
     IF \A i \in Captures(pattern) : pattern[i].text # n THEN <<>>
     ELSE LET i == CHOOSE j \in Captures(pattern) : pattern[j].text = n IN
          IF pattern[i].kind = "param" THEN <<SegmentsOf(path)[i]>>
          ELSE SubSeq(path, Offsets(path)[i], Len(path))]

-----------------------------------------------------------------------------
(* Properties *)

\* Backtracking finds the most specific registered route that describes the
\* path, literals before parameters before the wildcard, in whatever order the
\* routes were registered; a HEAD falls back to GET path by path.
FindsBest ==
  answer.outcome \in {"hit", "miss"} =>
    answer.route = Expected(answer.method, answer.path)

\* The handler gets exactly what its route captures: nothing that a branch the
\* search gave up had captured, and the rest of the path as it was written.  It
\* is refused for its parameters only where a registered route has more than the
\* limit, and for its query only where that is longer; no table outgrows its limit.
ParamsExact ==
  /\ NamesAgree /\ answer.outcome \in {"hit", "miss"} =>
       answer.params =
         IF answer.outcome = "miss" THEN NoParams
         ELSE Captured(registered[answer.route].pattern, answer.path)
  /\ answer.outcome = "hit" =>
       /\ Count(answer.params) <= MaxParams
       /\ Cardinality({answer.query[i] : i \in DOMAIN answer.query}) <= MaxQuery
  /\ answer.outcome = "error" =>
       \/ \E r \in DOMAIN registered : ~WithinLimit(r)
       \/ Len(answer.query) > MaxQuery

\* A step that registers a route changes nothing for the paths it does not describe.
AddsLocally ==
  registered' # registered /\ (\A r \in DOMAIN registered' :
      Cardinality(Captures(registered'[r].pattern)) <= MaxParams) =>
    \A m \in Methods, p \in Paths :
      ~Describes(registered'[Len(registered')].pattern, p) =>
        LET old == FindHandler(trees, m, p)
            new == FindHandler(trees', m, p)
        IN  /\ old.outcome = new.outcome /\ old.node = new.node
            /\ NamesAgree' => old.params = new.params

\* Registering a route neither hides another route nor captures parameters on a
\* way it closes off, for the paths it does not describe itself.
AddingIsLocal == [][AddsLocally]_vars
=============================================================================
