-------------------------------- MODULE Router --------------------------------
(***************************************************************************)
(* Routing (src/core/router.cpp): the program registers routes, mounted    *)
(* routers and middlewares, then listens; from there on a worker takes     *)
(* each request from router to router until a middleware refuses it, a     *)
(* handler takes it or nobody wants it; in the end the routers are deleted *)
(* with the Server.                                                        *)
(*                                                                         *)
(* A text is the sequence of what stands between its slashes, so "a/b" is  *)
(* <<"a", "b">>, "/" is <<"", "">> and "" is <<"">>.  Nothing that the     *)
(* router does to a path takes such a piece apart.                         *)
(*                                                                         *)
(* One request is in flight at a time: after listen() no router changes,   *)
(* so requests on several threads do not meet here.  Of the handlers only  *)
(* the place where they were registered counts.                            *)
(***************************************************************************)
EXTENDS Integers, Sequences, SequencesExt, FiniteSets

CONSTANTS
  MaxRouter,        \* number of Router objects besides the Server
  Methods,          \* the methods that addRoute knows
  Names,            \* what may stand between two slashes
  RoutePaths,       \* paths given to get(), post(), ...
  MountPaths,       \* paths given to use()
  Targets,          \* paths of requests, without their query
  MaxRegistrations  \* bound on the calls before listen()

(* The Server is a router itself.  Routers are numbered in such a way that *)
(* a router has a larger number than those it is mounted in.               *)
Routers == 0..MaxRouter
App == 0

(* std::string as far as the router looks at it.                           *)
IsText(s) == s \in Seq(Names) /\ Len(s) > 0
Nothing == ""
Empty == <<Nothing>>
StartsWithSlash(s) == Len(s) > 1 /\ Head(s) = Nothing
EndsWithSlash(s) == Len(s) > 1 /\ Last(s) = Nothing

(* Paths that do not start with a slash make addRoute and use throw; `use' *)
(* throws for "/" as well, since nothing is left for substr(1).            *)
ASSUME RouterAssumption ==
  /\ MaxRouter \in Nat
  /\ "HEAD" \notin Methods
  /\ Nothing \in Names
  /\ \A s \in RoutePaths \cup MountPaths \cup Targets :
       IsText(s) /\ StartsWithSlash(s)
  /\ <<Nothing, Nothing>> \notin MountPaths
  /\ MaxRegistrations \in Nat

VARIABLES
  routes,        \* router -> registered pairs of method and path
  mounts,        \* router -> routerMap, a function on some texts
  middlewares,   \* router -> how many it has
  life,          \* the Server: setup, serving, stopping, deleting
  doomed,        \* router -> how many pointers still have to be deleted
  deleted,       \* routers whose destructor has run
  step,          \* of the request: see Steps
  request,       \* its method, its path, and the target it was sent with
                 \* (the target is history)
  tempPath,      \* what is left of the path
  trail,         \* where handleRequest was called, the innermost last, and
                 \* what of the path was used to get there (history)
  passed         \* middlewares that let the request through (history)

registered == <<routes, mounts, middlewares>>
requestVars == <<step, request, tempPath, trail, passed>>
endVars == <<doomed, deleted>>
vars == <<registered, life, endVars, requestVars>>

Ends == {"refused", "handled", "notFound", "failed"}
Steps == {"idle", "guards"} \cup Ends

TypeOK ==
  /\ routes \in [Routers -> SUBSET (Methods \X {Tail(s) : s \in RoutePaths})]
  /\ \A r \in Routers : \A x \in DOMAIN mounts[r] :
       IsText(x) /\ mounts[r][x] \in Routers
  /\ middlewares \in [Routers -> Nat]
  /\ life \in {"setup", "serving", "stopping", "deleting"}
  /\ doomed \in [Routers -> Nat]
  /\ deleted \subseteq Routers
  /\ step \in Steps
  /\ IsText(tempPath) /\ IsText(request.path) /\ IsText(request.target)
  /\ request.method \in Methods \cup {"HEAD", "none"}
  /\ trail \in Seq([router : Routers, used : Seq(Names), index : Nat])
  /\ step # "idle" => trail # <<>>
  /\ passed \in Seq(Routers \X Nat)

NoRequest == [method |-> "none", target |-> Empty, path |-> Empty]

Init ==
  /\ routes = [r \in Routers |-> {}]
  /\ mounts = [r \in Routers |-> <<>>]
  /\ middlewares = [r \in Routers |-> 0]
  /\ life = "setup"
  /\ doomed = [r \in Routers |-> 0]
  /\ deleted = {}
  /\ step = "idle"
  /\ request = NoRequest
  /\ tempPath = Empty
  /\ trail = <<>>
  /\ passed = <<>>

-----------------------------------------------------------------------------
(* Registration, before listen().                                          *)

Registrations ==
  LET Count(r) == Cardinality(routes[r]) + Cardinality(DOMAIN mounts[r])
                  + middlewares[r]
  IN  FoldFunction(+, 0, [r \in Routers |-> Count(r)])

Registering ==
  /\ life = "setup"
  /\ Registrations < MaxRegistrations
  /\ UNCHANGED <<life, endVars, requestVars>>

(* get, post, put, patch, del and options                                  *)
AddRoute(r, method, path) ==
  /\ Registering
  /\ routes' = [routes EXCEPT ![r] = @ \cup {<<method, Tail(path)>>}]
  /\ UNCHANGED <<mounts, middlewares>>

(* use(path, router): one trailing slash goes, and then the first one.     *)
MountKey(path) == Tail(IF EndsWithSlash(path) THEN Front(path) ELSE path)

(* A later mount under the same key replaces the earlier.  Routers are not *)
(* mounted in a circle, nor is the Server mounted.                         *)
Mount(r, path, child) ==
  /\ Registering
  /\ child > r
  /\ mounts' = [mounts EXCEPT ![r] =
                  [x \in DOMAIN @ \cup {MountKey(path)} |->
                     IF x = MountKey(path) THEN child ELSE @[x]]]
  /\ UNCHANGED <<routes, middlewares>>

(* use(middleware)                                                         *)
AddMiddleware(r) ==
  /\ Registering
  /\ middlewares' = [middlewares EXCEPT ![r] = @ + 1]
  /\ UNCHANGED <<routes, mounts>>

Listen ==
  /\ life = "setup"
  /\ life' = "serving"
  /\ UNCHANGED <<registered, endVars, requestVars>>

-----------------------------------------------------------------------------
(* A worker and its request.                                               *)

at == Last(trail).router
Call(r, used) == [router |-> r, used |-> used, index |-> 0]

(* makeRequest: the path without its first slash and a trailing one.       *)
PathOf(target) ==
  LET path == Tail(target)
  IN  IF EndsWithSlash(path) THEN Front(path) ELSE path

(* The pool may still run what was queued when the Server stops.           *)
Receive(method, target) ==
  /\ life \in {"serving", "stopping"}
  /\ step = "idle"
  /\ step' = "guards"
  /\ request' = [method |-> method, target |-> target,
                 path |-> PathOf(target)]
  /\ tempPath' = PathOf(target)
  /\ trail' = <<Call(App, <<>>)>>
  /\ passed' = <<>>
  /\ UNCHANGED <<registered, life, endVars>>

(* handleMiddlewares: the next middleware, if there is one, lets the       *)
(* request through, refuses it or throws.                                  *)
NextGuard == Last(trail).index + 1
HasGuard == step = "guards" /\ NextGuard <= middlewares[at]

LetThrough ==
  /\ HasGuard
  /\ trail' = [trail EXCEPT ![Len(trail)].index = NextGuard]
  /\ passed' = Append(passed, <<at, NextGuard>>)
  /\ UNCHANGED <<registered, life, endVars, step, request, tempPath>>

End(outcome) ==
  /\ step' = outcome
  /\ UNCHANGED <<registered, life, endVars, request, trail, passed>>

(* Bug: handleRequest ignores what handleMiddlewares returns.              *)
Refuse_GoOn ==
  /\ HasGuard
  /\ trail' = [trail EXCEPT ![Len(trail)].index = middlewares[at]]
  /\ UNCHANGED <<registered, life, endVars, step, request, tempPath, passed>>

Refuse ==
  /\ HasGuard
  /\ End("refused")
  /\ UNCHANGED tempPath

GuardThrows ==
  /\ HasGuard
  /\ End("failed")
  /\ UNCHANGED tempPath

(* The rest of handleRequest, on the path without a leading slash.         *)
Guarded == step = "guards" /\ NextGuard > middlewares[at]
Stripped == IF StartsWithSlash(tempPath) THEN Tail(tempPath) ELSE tempPath

(* fetchMapFromMethod throws for a method without a map.                   *)
HasMap == request.method \in Methods

(* x + "/" is how path + "/" begins.                                       *)
Matching(path) == {x \in DOMAIN mounts[at] : IsPrefix(x, path)}

(* Bug: mounted routers are asked before the router's own routes.          *)
HasRoute_MountsFirst ==
  /\ HasMap
  /\ <<request.method, Stripped>> \in routes[at]
  /\ Matching(Stripped) = {}

HasRoute == HasMap /\ <<request.method, Stripped>> \in routes[at]

(* The map is in the order of its keys, so the shortest comes first.       *)
FirstMatch(path) ==
  CHOOSE x \in Matching(path) : \A y \in Matching(path) : Len(x) <= Len(y)

(* Bug: substr() although nothing is left.                                 *)
Rest_NoEmpty(x, path) == SubSeq(path, Len(x) + 1, Len(path))

(* Bug: the text after the key's last slash is kept.                       *)
Rest_OneMore(x, path) == SubSeq(path, Len(x), Len(path))

(* What is left for the mounted router.                                    *)
Rest(x, path) ==
  IF path = x THEN Empty ELSE SubSeq(path, Len(x) + 1, Len(path))

Used(x) ==
  IF Stripped = x THEN request.path
  ELSE Last(trail).used \o (IF Stripped = tempPath THEN x ELSE Empty \o x)

NoMap ==
  /\ Guarded
  /\ ~HasMap
  /\ End("failed")
  /\ tempPath' = Stripped

(* The handler runs, and may throw.                                        *)
Handle ==
  /\ Guarded
  /\ HasRoute
  /\ End("handled") \/ End("failed")
  /\ tempPath' = Stripped

Descend ==
  /\ Guarded
  /\ HasMap
  /\ ~HasRoute
  /\ Matching(Stripped) # {}
  /\ LET x == FirstMatch(Stripped)
     IN  /\ tempPath' = Rest(x, Stripped)
         /\ trail' = Append(trail, Call(mounts[at][x], Used(x)))
  /\ UNCHANGED <<registered, life, endVars, step, request, passed>>

NotFound ==
  /\ Guarded
  /\ HasMap
  /\ ~HasRoute
  /\ Matching(Stripped) = {}
  /\ End("notFound")
  /\ tempPath' = Stripped

(* processRequest sends whatever came of it.                               *)
Answer ==
  /\ step \in Ends
  /\ step' = "idle"
  /\ request' = NoRequest
  /\ tempPath' = Empty
  /\ trail' = <<>>
  /\ passed' = <<>>
  /\ UNCHANGED <<registered, life, endVars>>

-----------------------------------------------------------------------------
(* The end of the Server.  Its threadPool is a member of class Server and  *)
(* the mounted routers belong to its base class Router, so the workers are *)
(* joined first and the routers deleted after.                             *)

Stop ==
  /\ life = "serving"
  /\ life' = "stopping"
  /\ UNCHANGED <<registered, endVars, requestVars>>

(* Bug: the pool is a member of the base class too.                        *)
Joined_Late == TRUE
Joined == step = "idle"

Join ==
  /\ life = "stopping"
  /\ Joined
  /\ life' = "deleting"
  /\ doomed' = [doomed EXCEPT ![App] = 1]
  /\ UNCHANGED <<registered, deleted, requestVars>>

(* Bug: the destructor clears routerMap without deleting.                  *)
MountsOf_None(r, child) == 0

MountsOf(r, child) ==
  Cardinality({x \in DOMAIN mounts[r] : mounts[r][x] = child})

(* ~Router deletes what is mounted.  Deleting a router twice is undefined  *)
(* behaviour, and the model stops there.                                   *)
Destroy(r) ==
  /\ life = "deleting"
  /\ doomed[r] > 0
  /\ r \notin deleted
  /\ deleted' = deleted \cup {r}
  /\ doomed' = [c \in Routers |->
                  doomed[c] + MountsOf(r, c) - (IF c = r THEN 1 ELSE 0)]
  /\ UNCHANGED <<registered, life, requestVars>>

Register ==
  \E r \in Routers :
    \/ \E method \in Methods, path \in RoutePaths : AddRoute(r, method, path)
    \/ \E path \in MountPaths, child \in Routers : Mount(r, path, child)
    \/ AddMiddleware(r)

HandleRequest ==
  \/ \E method \in Methods \cup {"HEAD"}, target \in Targets :
       Receive(method, target)
  \/ LetThrough \/ Refuse \/ GuardThrows
  \/ NoMap \/ Handle \/ Descend \/ NotFound
  \/ Answer

Next ==
  \/ Register \/ Listen
  \/ HandleRequest
  \/ Stop \/ Join
  \/ \E r \in Routers : Destroy(r)

Spec == Init /\ [][Next]_vars

-----------------------------------------------------------------------------
(* Properties                                                              *)

GuardsOf(r) == {r} \X (1..middlewares[r])

(* Guards of an outer router come before those of an inner one, which has  *)
(* the larger number.                                                      *)
Before(g, h) == g[1] < h[1] \/ (g[1] = h[1] /\ g[2] < h[2])

(* No handler runs, and no router gives up, before every middleware of     *)
(* every router on the way has let the request through, the outer routers' *)
(* first and each router's in the order of their registration              *)
(* (router.cpp:92-94, 119, 143-155).                                       *)
GuardsComeFirst ==
  step \in {"handled", "notFound"} =>
    /\ ToSet(passed) = UNION {GuardsOf(trail[i].router) : i \in 1..Len(trail)}
    /\ \A i, j \in 1..Len(passed) : i < j => Before(passed[i], passed[j])

(* `path' is `used' and then `rest', with perhaps one slash more between   *)
(* them; the empty text may stand for what is left when nothing is left.   *)
Spells(path, used, rest) ==
  \/ path \in {used \o rest, used \o Empty \o rest}
  \/ rest = Empty /\ path = used

(* A handler gets no request but those for its own address: from the       *)
(* Server to its router each mount was taken under its key, and the keys   *)
(* and the route together spell the path of the request, but for one slash *)
(* that each of them may have before it (router.cpp:96-122).               *)
RightHandler ==
  step = "handled" =>
    /\ trail[1].router = App /\ trail[1].used = <<>>
    /\ \A i \in 2..Len(trail) :
         \E key \in DOMAIN mounts[trail[i - 1].router] :
           /\ mounts[trail[i - 1].router][key] = trail[i].router
           /\ Spells(trail[i].used, trail[i - 1].used, key)
    /\ <<request.method, tempPath>> \in routes[at]
    /\ Spells(request.path, Last(trail).used, tempPath)

(* Where routers can be reached, and the address of a route there.         *)
Places[n \in Nat] ==
  IF n = 0
  THEN {[router |-> App, prefix |-> <<>>]}
  ELSE Places[n - 1] \cup
       UNION {{[router |-> mounts[p.router][x], prefix |-> p.prefix \o x] :
                 x \in DOMAIN mounts[p.router]} : p \in Places[n - 1]}
Address(prefix, key) ==
  IF key = Empty /\ prefix # <<>> THEN prefix ELSE prefix \o key

(* A client that means an address may send it with a slash at its end.     *)
HasAddress(method, target) ==
  \E p \in Places[MaxRouter] : \E route \in routes[p.router] :
    LET address == Address(p.prefix, route[2])
    IN  /\ route[1] = method
        /\ address \in {Tail(target), PathOf(target)}
        /\ ~EndsWithSlash(address)

NoNestedMounts ==
  \A r \in Routers : \A x, y \in DOMAIN mounts[r] : IsPrefix(x, y) => x = y

(* 404 is said only when no route anywhere has the address that the        *)
(* request was sent to.  Three things the code does are exempt: a route    *)
(* registered as "/b/" keeps its last slash and every request loses it, so *)
(* that GET /b/ finds nobody (router.cpp:202, server.cpp:391-395); of two  *)
(* mounts of which one begins with the other only the shorter is looked at *)
(* (router.cpp:107-121); of slashes in a row one is dropped at each router *)
(* (router.cpp:96-98).                                                     *)
NotFoundIsHonest ==
  /\ step = "notFound"
  /\ NoNestedMounts
  /\ Nothing \notin ToSet(request.path) \/ request.path = Empty
  => ~HasAddress(request.method, request.target)

MountedOnce ==
  \A r, s \in Routers : \A x \in DOMAIN mounts[r], y \in DOMAIN mounts[s] :
    mounts[r][x] = mounts[s][y] => r = s /\ x = y

(* The routers that every set with App and with all that is mounted in its *)
(* members has.                                                            *)
Closed(S) == \A r \in S : \A x \in DOMAIN mounts[r] : mounts[r][x] \in S
Reachable ==
  {r \in Routers : \A S \in SUBSET Routers : App \in S /\ Closed(S) => r \in S}

(* Deleting a Server deletes every router that it reaches, and no worker   *)
(* is inside a router by then (router.cpp:10-12, server.h:55-57).  Only    *)
(* when no router is mounted in two places is none deleted twice: one that *)
(* is would be, and the model ends before (main.cpp:104-113 shows another  *)
(* way to that: a router on the stack, which `use' wants to own).          *)
EachDeletedOnce ==
  /\ MountedOnce => \A r \in deleted : doomed[r] = 0
  /\ life = "deleting" /\ (\A r \in Routers : doomed[r] = 0) =>
       Reachable \subseteq deleted
  /\ deleted # {} => step = "idle"

=============================================================================
