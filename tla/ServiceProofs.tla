---------------------------- MODULE ServiceProofs ----------------------------
(***************************************************************************)
(* Theorems about Service, for every program that Built describes and      *)
(* every request.  The way through the routers is proved about in          *)
(* RouterProofs; here it is shown that Service takes no other, and what    *)
(* the middlewares make of it.                                             *)
(***************************************************************************)
EXTENDS Service, SequenceTheorems, FiniteSetTheorems, TLAPS

WayProofs == INSTANCE RouterProofs WITH
  routes <- app.routes,
  mounts <- app.mounts,
  middlewares <- [r \in Routers |-> Len(GuardsOf(r))],
  life <- "serving",
  doomed <- [r \in Routers |-> 0],
  deleted <- {},
  Names <- STRING, RoutePaths <- Slashed,
  MountPaths <- Slashed \ {<<Nothing, Nothing>>}, Targets <- Slashed,
  MaxRegistrations <- 0

-----------------------------------------------------------------------------
(* What module Router assumes of its constants holds here, and what its    *)
(* proofs define is what Service's instance of it defines.                 *)

LEMMA SameTexts ==
  /\ Nothing = WayProofs!Nothing
  /\ Texts = WayProofs!Text
  /\ \A s \in Slashed : WayProofs!IsText(s) /\ WayProofs!StartsWithSlash(s)
  <1>1. Nothing = WayProofs!Nothing
    BY DEF Nothing, WayProofs!Nothing
  <1>2. QED
    BY <1>1 DEF Texts, Slashed, WayProofs!Text, WayProofs!IsText,
       WayProofs!StartsWithSlash

LEMMA RouterHolds == WayProofs!RouterAssumption
  <1>1. \A s \in Slashed : WayProofs!IsText(s) /\ WayProofs!StartsWithSlash(s)
    BY SameTexts
  <1>2. Slashed \cup (Slashed \ {<<Nothing, Nothing>>}) \cup Slashed = Slashed
    OBVIOUS
  <1>3. Nothing = WayProofs!Nothing
    BY SameTexts
  <1>4. QED
    BY <1>1, <1>2, <1>3, ServiceAssumption DEF WayProofs!RouterAssumption

(* The steps that Service takes with a request                             *)
LEMMA SameSteps ==
  /\ \A method, target : Paths!Receive(method, target) <=> WayProofs!Receive(method, target)
  /\ Paths!LetThrough <=> WayProofs!LetThrough
  /\ Paths!Refuse <=> WayProofs!Refuse
  /\ Paths!GuardThrows <=> WayProofs!GuardThrows
  /\ Paths!NoMap <=> WayProofs!NoMap
  /\ Paths!Handle <=> WayProofs!Handle
  /\ Paths!Descend <=> WayProofs!Descend
  /\ Paths!NotFound <=> WayProofs!NotFound
  <1>1. \A method, target : Paths!Receive(method, target) <=> WayProofs!Receive(method, target)
    BY Zenon
    DEF Paths!Receive, WayProofs!Receive, Paths!PathOf, WayProofs!PathOf,
        Paths!EndsWithSlash, WayProofs!EndsWithSlash, Paths!Nothing,
        WayProofs!Nothing, Paths!App, WayProofs!App, Paths!Call,
        WayProofs!Call, Paths!Last, WayProofs!Last, Paths!Front,
        WayProofs!Front, Paths!registered, WayProofs!registered,
        Paths!endVars, WayProofs!endVars
  <1>2. Paths!LetThrough <=> WayProofs!LetThrough
    BY Zenon
    DEF Paths!LetThrough, WayProofs!LetThrough, Paths!HasGuard,
        WayProofs!HasGuard, Paths!NextGuard, WayProofs!NextGuard, Paths!at,
        WayProofs!at, Paths!Last, WayProofs!Last, Paths!registered,
        WayProofs!registered, Paths!endVars, WayProofs!endVars
  <1>3. Paths!Refuse <=> WayProofs!Refuse
    BY Zenon
    DEF Paths!Refuse, WayProofs!Refuse, Paths!HasGuard, WayProofs!HasGuard,
        Paths!NextGuard, WayProofs!NextGuard, Paths!at, WayProofs!at,
        Paths!Last, WayProofs!Last, Paths!End, WayProofs!End,
        Paths!registered, WayProofs!registered, Paths!endVars,
        WayProofs!endVars
  <1>4. Paths!GuardThrows <=> WayProofs!GuardThrows
    BY Zenon
    DEF Paths!GuardThrows, WayProofs!GuardThrows, Paths!HasGuard,
        WayProofs!HasGuard, Paths!NextGuard, WayProofs!NextGuard, Paths!at,
        WayProofs!at, Paths!Last, WayProofs!Last, Paths!End, WayProofs!End,
        Paths!registered, WayProofs!registered, Paths!endVars,
        WayProofs!endVars
  <1>5. Paths!NoMap <=> WayProofs!NoMap
    BY Zenon
    DEF Paths!NoMap, WayProofs!NoMap, Paths!HasMap, WayProofs!HasMap,
        Paths!Guarded, WayProofs!Guarded, Paths!NextGuard,
        WayProofs!NextGuard, Paths!at, WayProofs!at, Paths!Last,
        WayProofs!Last, Paths!Stripped, WayProofs!Stripped,
        Paths!StartsWithSlash, WayProofs!StartsWithSlash, Paths!Nothing,
        WayProofs!Nothing, Paths!End, WayProofs!End, Paths!registered,
        WayProofs!registered, Paths!endVars, WayProofs!endVars
  <1>6. Paths!Handle <=> WayProofs!Handle
    BY Zenon
    DEF Paths!Handle, WayProofs!Handle, Paths!HasMap, WayProofs!HasMap,
        Paths!HasRoute, WayProofs!HasRoute, Paths!Guarded, WayProofs!Guarded,
        Paths!NextGuard, WayProofs!NextGuard, Paths!at, WayProofs!at,
        Paths!Last, WayProofs!Last, Paths!Stripped, WayProofs!Stripped,
        Paths!StartsWithSlash, WayProofs!StartsWithSlash, Paths!Nothing,
        WayProofs!Nothing, Paths!End, WayProofs!End, Paths!registered,
        WayProofs!registered, Paths!endVars, WayProofs!endVars
  <1>7. Paths!Descend <=> WayProofs!Descend
    BY Zenon
    DEF Paths!Descend, WayProofs!Descend, Paths!HasMap, WayProofs!HasMap,
        Paths!HasRoute, WayProofs!HasRoute, Paths!Matching,
        WayProofs!Matching, Paths!IsPrefix, WayProofs!IsPrefix,
        Paths!FirstMatch, WayProofs!FirstMatch, Paths!Rest, WayProofs!Rest,
        Paths!Used, WayProofs!Used, Paths!Call, WayProofs!Call, Paths!Empty,
        WayProofs!Empty, Paths!Guarded, WayProofs!Guarded, Paths!NextGuard,
        WayProofs!NextGuard, Paths!at, WayProofs!at, Paths!Last,
        WayProofs!Last, Paths!Stripped, WayProofs!Stripped,
        Paths!StartsWithSlash, WayProofs!StartsWithSlash, Paths!Nothing,
        WayProofs!Nothing, Paths!registered, WayProofs!registered,
        Paths!endVars, WayProofs!endVars
  <1>8. Paths!NotFound <=> WayProofs!NotFound
    BY Zenon
    DEF Paths!NotFound, WayProofs!NotFound, Paths!HasMap, WayProofs!HasMap,
        Paths!HasRoute, WayProofs!HasRoute, Paths!Matching,
        WayProofs!Matching, Paths!IsPrefix, WayProofs!IsPrefix, Paths!Guarded,
        WayProofs!Guarded, Paths!NextGuard, WayProofs!NextGuard, Paths!at,
        WayProofs!at, Paths!Last, WayProofs!Last, Paths!Stripped,
        WayProofs!Stripped, Paths!StartsWithSlash, WayProofs!StartsWithSlash,
        Paths!Nothing, WayProofs!Nothing, Paths!End, WayProofs!End,
        Paths!registered, WayProofs!registered, Paths!endVars,
        WayProofs!endVars
  <1>9. QED
    BY <1>1, <1>2, <1>3, <1>4, <1>5, <1>6, <1>7, <1>8

-----------------------------------------------------------------------------
(* Every step is one of Router's, or leaves the way alone.                 *)

Goes ==
  \/ Paths!LetThrough \/ Paths!Refuse \/ Paths!GuardThrows
  \/ Paths!NoMap \/ Paths!Handle \/ Paths!Descend \/ Paths!NotFound
Stands == UNCHANGED pathVars

LEMMA WorkersStep ==
  ASSUME Work
  PROVE  app' = app /\ (Goes \/ Stands)
  <1>1. SUFFICES Goes \/ Stands
    BY DEF Work
  <1>2. CASE UseHeaders
    BY <1>2 DEF UseHeaders, Pass, Goes
  <1>3. CASE UseCors
    BY <1>3 DEF UseCors, Pass, Refuse, Goes
  <1>4. CASE UseCookieParser
    BY <1>4 DEF UseCookieParser, Pass, Goes
  <1>5. CASE UseStaticServe
    BY <1>5 DEF UseStaticServe, ServeFile, ServeListing, Pass, Refuse, Goes
  <1>6. CASE UseThrows
    BY <1>6 DEF UseThrows, Goes
  <1>7. CASE Crash
    BY <1>7 DEF Crash, Stands
  <1>8. CASE Descends
    BY <1>8 DEF Descends, Goes
  <1>9. CASE NotFound
    BY <1>9 DEF NotFound, Goes
  <1>10. CASE Handle
    BY <1>10 DEF Handle, Goes
  <1>11. CASE HandlerCall
    BY <1>11 DEF HandlerCall, Stands
  <1>12. CASE Finish
    BY <1>12 DEF Finish, Stands
  <1>13. QED
    BY <1>1, <1>2, <1>3, <1>4, <1>5, <1>6, <1>7, <1>8, <1>9, <1>10, <1>11, <1>12
    DEF Work, UseMiddleware

LEMMA WayStands ==
  ASSUME app' = app, Stands
  PROVE  UNCHANGED WayProofs!vars
  <1>1. WayProofs!registered' = WayProofs!registered
    BY DEF WayProofs!registered, GuardsOf
  <1>2. WayProofs!requestVars' = WayProofs!requestVars
    BY DEF Stands, pathVars, WayProofs!requestVars
  <1>3. QED
    BY <1>1, <1>2 DEF WayProofs!vars, WayProofs!endVars

LEMMA IsAWayStep ==
  ASSUME [Next]_vars
  PROVE  [WayProofs!Next]_(WayProofs!vars)
  <1>1. CASE app' = app /\ Receive
    <2>1. PICK r \in Requests : Paths!Receive(r.method, r.target)
      BY <1>1 DEF Receive
    <2>2. r.method \in Methods \cup {"HEAD"} /\ r.target \in Slashed
      BY ServiceAssumption
    <2>3. WayProofs!Receive(r.method, r.target)
      BY <2>1, SameSteps
    <2>4. QED
      BY <2>2, <2>3 DEF WayProofs!Next, WayProofs!HandleRequest
  <1>2. CASE Work
    <2>1. CASE Goes
      BY <2>1, SameSteps DEF Goes, WayProofs!Next, WayProofs!HandleRequest
    <2>2. CASE Stands
      <3>1. app' = app
        BY <1>2, WorkersStep
      <3>2. QED
        BY <2>2, <3>1, WayStands
    <2>3. QED
      BY <1>2, <2>1, <2>2, WorkersStep
  <1>3. CASE UNCHANGED vars
    <2>1. app' = app /\ Stands
      BY <1>3 DEF vars, Stands
    <2>2. QED
      BY <2>1, WayStands
  <1>4. CASE app' = app /\ Reject
    <2>1. app' = app /\ Stands
      BY <1>4 DEF Reject, Stands
    <2>2. QED
      BY <2>1, WayStands
  <1>5. QED
    BY <1>1, <1>2, <1>3, <1>4 DEF Next

LEMMA Single == ASSUME NEW S, NEW x \in S PROVE <<x>> \in Seq(S)
  OBVIOUS

(* The Server's own middlewares come first.                                *)
LEMMA GuardsTyped ==
  ASSUME Built(app)
  PROVE  /\ \A r \in Routers : GuardsOf(r) \in Seq(Guards)
         /\ Len(GuardsOf(App)) \in Nat /\ Len(GuardsOf(App)) >= 2
         /\ GuardsOf(App)[1] = Version /\ GuardsOf(App)[2] = Date
  <1>1. App \in Routers
    BY ServiceAssumption DEF App, Routers
  <1>2. \A r \in Routers : app.guards[r] \in Seq(Guards)
    BY DEF Built
  <1>3. PICK g : g = app.guards[App]
    OBVIOUS
  <1>4. PICK v, d : v = Version /\ d = Date
    OBVIOUS
  <1>5. g \in Seq(Guards) /\ v \in Guards /\ d \in Guards
    BY <1>1, <1>2, <1>3, <1>4 DEF Guards
  <1>6. <<v, d>> \in Seq(Guards) /\ Len(<<v, d>>) = 2
    BY <1>5
  <1>7. GuardsOf(App) = <<v, d>> \o g
    BY <1>3, <1>4 DEF GuardsOf, SetupMiddlewares
  <1>8. PICK all : all = <<v, d>> \o g
    OBVIOUS
  <1>9. /\ all \in Seq(Guards) /\ Len(all) = 2 + Len(g)
        /\ all[1] = v /\ all[2] = d
    <2>1. PICK two : two = <<v, d>>
      OBVIOUS
    <2>2. two \in Seq(Guards) /\ Len(two) = 2 /\ two[1] = v /\ two[2] = d
      BY <1>5, <2>1
    <2>3. /\ two \o g \in Seq(Guards) /\ Len(two \o g) = Len(two) + Len(g)
          /\ \A i \in 1..Len(two) + Len(g) :
               (two \o g)[i] = IF i <= Len(two) THEN two[i] ELSE g[i - Len(two)]
      BY <1>5, <2>2, ConcatProperties
    <2>4. Len(g) \in Nat
      BY <1>5, LenProperties
    <2>5. (two \o g)[1] = v /\ (two \o g)[2] = d
      BY <2>2, <2>3, <2>4
    <2>6. QED
      BY <1>8, <2>1, <2>2, <2>3, <2>5
  <1>10. Len(g) \in Nat
    BY <1>5, LenProperties
  <1>11. \A r \in Routers : r # App => GuardsOf(r) = app.guards[r]
    BY DEF GuardsOf
  <1>12. ASSUME NEW r \in Routers PROVE GuardsOf(r) \in Seq(Guards)
    <2>1. CASE r = App
      BY <1>7, <1>8, <1>9, <2>1
    <2>2. CASE r # App
      BY <1>2, <1>11, <2>2
    <2>3. QED
      BY <2>1, <2>2
  <1>13. PICK n : n = Len(all)
    OBVIOUS
  <1>14. n \in Nat /\ n >= 2
    BY <1>9, <1>10, <1>13
  <1>15. QED
    BY <1>4, <1>7, <1>8, <1>9, <1>12, <1>13, <1>14

LEMMA WayInit == ASSUME Init PROVE WayProofs!IInv
  <1>1. Built(app)
    BY ServiceAssumption DEF Init
  <1>2. \A r \in Routers : Len(GuardsOf(r)) \in Nat
    BY <1>1, GuardsTyped, LenProperties
  <1>3. WayProofs!Routers = Routers
    BY DEF WayProofs!Routers, Routers
  <1>4. WayProofs!Tree
    <2>1. {Tail(s) : s \in Slashed} = Texts
      <3>1. ASSUME NEW s \in Slashed PROVE Tail(s) \in Texts
        BY RouterHolds, SameTexts, WayProofs!TailText DEF Slashed, Texts
      <3>2. ASSUME NEW t \in Texts PROVE \E s \in Slashed : Tail(s) = t
        <4>1. t \in Seq(STRING) /\ Len(t) \in Nat /\ Len(t) > 0 /\ Nothing \in STRING
          BY ServiceAssumption, LenProperties DEF Texts
        <4>2. PICK e : e = <<Nothing>>
          OBVIOUS
        <4>3. e \in Seq(STRING) /\ Len(e) = 1 /\ e[1] = Nothing
          <5>1. PICK x \in STRING : x = Nothing
            BY <4>1
          <5>2. <<x>> \in Seq(STRING)
            BY Single
          <5>3. QED
            BY <4>2, <5>1, <5>2
        <4>4. PICK s : s = e \o t
          OBVIOUS
        <4>5. /\ s \in Seq(STRING) /\ Len(s) = Len(e) + Len(t)
              /\ \A i \in 1..Len(e) + Len(t) :
                   s[i] = IF i <= Len(e) THEN e[i] ELSE t[i - Len(e)]
          BY <4>1, <4>3, <4>4, ConcatProperties
        <4>6. Len(s) = 1 + Len(t) /\ s[1] = Nothing /\ s # <<>>
          <5>1. PICK n : n = Len(t)
            OBVIOUS
          <5>2. n \in Nat /\ Len(s) = 1 + n /\ 1 \in 1..Len(e) + n
            BY <4>1, <4>3, <4>5, <5>1
          <5>3. s[1] = e[1]
            BY <4>3, <4>5, <5>1, <5>2
          <5>4. QED
            BY <4>3, <4>5, <5>1, <5>2, <5>3, EmptySeq
        <4>7. PICK u : u = Tail(s)
          OBVIOUS
        <4>8. /\ u \in Seq(STRING) /\ Len(u) = Len(s) - 1
              /\ \A i \in 1..Len(u) : u[i] = s[i + 1]
          BY <4>5, <4>6, <4>7, HeadTailProperties
        <4>9. ASSUME NEW i \in 1..Len(u) PROVE u[i] = t[i]
          <5>1. i + 1 \in 1..Len(e) + Len(t) /\ ~(i + 1 <= Len(e)) /\ (i + 1) - Len(e) = i
            BY <4>1, <4>3, <4>6, <4>8
          <5>2. QED
            BY <4>5, <4>8, <5>1
        <4>10. Len(u) = Len(t)
          BY <4>1, <4>6, <4>8
        <4>11. u = t
          BY <4>1, <4>8, <4>9, <4>10, SeqEqual
        <4>12. s \in Slashed
          <5>1. Len(s) > 1 /\ Len(s) > 0
            BY <4>1, <4>6
          <5>2. Head(s) = Nothing
            BY <4>5, <4>6
          <5>3. QED
            BY <4>5, <5>1, <5>2 DEF Slashed, Texts
        <4>13. QED
          BY <4>7, <4>11, <4>12
      <3>3. QED
        BY <3>1, <3>2
    <2>2. app.routes \in [Routers -> SUBSET (Methods \X {Tail(s) : s \in Slashed})]
      BY <1>1, <2>1 DEF Built
    <2>3. [r \in Routers |-> Len(GuardsOf(r))] \in [Routers -> Nat]
      BY <1>2
    <2>4. /\ DOMAIN app.mounts = Routers
          /\ \A r \in Routers :
               /\ IsFiniteSet(DOMAIN app.mounts[r])
               /\ \A x \in DOMAIN app.mounts[r] :
                    x \in WayProofs!Text /\ app.mounts[r][x] \in Routers /\ app.mounts[r][x] > r
      BY <1>1, SameTexts DEF Built
    <2>5. QED
      BY <2>2, <2>3, <2>4, Zenon
      DEF WayProofs!Tree, WayProofs!Routers, Routers, WayProofs!IsFiniteSet, IsFiniteSet
  <1>5. WayProofs!Phases
    BY DEF Init, WayProofs!Phases, WayProofs!Steps
  <1>6. WayProofs!Ending
    BY <1>3 DEF WayProofs!Ending, WayProofs!Doomed
  <1>7. WayProofs!Asked
    <2>1. Paths!Empty = WayProofs!Empty
      BY DEF Paths!Empty, WayProofs!Empty, Paths!Nothing, WayProofs!Nothing
    <2>2. /\ tempPath \in WayProofs!Text /\ request.path \in WayProofs!Text
          /\ request.target \in WayProofs!Text
      BY <2>1, RouterHolds, WayProofs!EmptyText DEF Init, Paths!NoRequest
    <2>3. request.method = "none"
      BY DEF Init, Paths!NoRequest
    <2>4. step = "idle" /\ trail = <<>> /\ passed = <<>>
      BY DEF Init
    <2>5. QED
      BY <2>2, <2>3, <2>4 DEF WayProofs!Asked
  <1>8. WayProofs!Guards /\ WayProofs!Way
    BY DEF Init, WayProofs!Guards, WayProofs!Inward, WayProofs!NoMore, WayProofs!NoLess,
       WayProofs!OnTrail, WayProofs!NoneLeftOut, WayProofs!InOrder, WayProofs!Way
  <1>9. QED
    BY <1>4, <1>5, <1>6, <1>7, <1>8 DEF WayProofs!IInv

LEMMA WayKept == ASSUME WayProofs!IInv, [Next]_vars PROVE WayProofs!IInv'
  BY IsAWayStep, RouterHolds, WayProofs!StepIInv

-----------------------------------------------------------------------------
(* What the worker makes: a header that comes first and stays there.       *)

(* u is s and more behind it, h if s is empty.                             *)
Grown(s, u, h) ==
  /\ u \in Seq(ToSet(u)) /\ u # <<>>
  /\ u[1] = IF s = <<>> THEN h ELSE s[1]

LEMMA Typed == ASSUME NEW S, NEW s \in Seq(S) PROVE s \in Seq(ToSet(s))
  <1>1. s \in [1..Len(s) -> S] /\ Len(s) \in Nat /\ DOMAIN s = 1..Len(s)
    BY LenProperties
  <1>2. \A i \in 1..Len(s) : s[i] \in ToSet(s)
    BY <1>1 DEF ToSet
  <1>3. s \in [1..Len(s) -> ToSet(s)]
    BY <1>1, <1>2
  <1>4. QED
    BY <1>1, <1>3, SeqDef

LEMMA Joined ==
  ASSUME NEW S, NEW s \in Seq(S), NEW T, NEW t \in Seq(T), NEW u, u = s \o t
  PROVE  /\ u \in Seq(ToSet(u))
         /\ s # <<>> => u # <<>> /\ u[1] = s[1]
         /\ s = <<>> /\ t # <<>> => u # <<>> /\ u[1] = t[1]
  <1>1. s \in Seq(S \cup T) /\ t \in Seq(S \cup T)
    <2>1. /\ s \in [1..Len(s) -> S] /\ Len(s) \in Nat
          /\ t \in [1..Len(t) -> T] /\ Len(t) \in Nat
      BY LenProperties
    <2>2. s \in [1..Len(s) -> S \cup T] /\ t \in [1..Len(t) -> S \cup T]
      BY <2>1
    <2>3. QED
      BY <2>1, <2>2, SeqDef
  <1>2. /\ u \in Seq(S \cup T) /\ Len(u) = Len(s) + Len(t)
        /\ \A i \in 1..Len(s) + Len(t) :
             u[i] = IF i <= Len(s) THEN s[i] ELSE t[i - Len(s)]
    BY <1>1, ConcatProperties
  <1>3. Len(s) \in Nat /\ Len(t) \in Nat
    BY LenProperties
  <1>4. u \in Seq(ToSet(u))
    BY <1>2, Typed
  <1>5. ASSUME s # <<>> PROVE u # <<>> /\ u[1] = s[1]
    <2>1. Len(s) > 0
      BY <1>3, <1>5, EmptySeq
    <2>2. Len(u) > 0 /\ 1 \in 1..Len(s) + Len(t) /\ 1 <= Len(s)
      BY <1>2, <1>3, <2>1
    <2>3. QED
      BY <1>2, <2>2, EmptySeq
  <1>6. ASSUME s = <<>>, t # <<>> PROVE u # <<>> /\ u[1] = t[1]
    <2>1. Len(t) > 0 /\ Len(s) = 0
      BY <1>3, <1>6, EmptySeq
    <2>2. Len(u) > 0 /\ 1 \in 1..Len(s) + Len(t) /\ ~(1 <= Len(s)) /\ 1 - Len(s) = 1
      BY <1>2, <1>3, <2>1
    <2>3. QED
      BY <1>2, <2>2, EmptySeq
  <1>7. QED
    BY <1>4, <1>5, <1>6

LEMMA OneMore ==
  ASSUME NEW s, s \in Seq(ToSet(s)), NEW h
  PROVE  Grown(s, s \o <<h>>, h) /\ Append(s, h) = s \o <<h>>
  <1>1. PICK t : t = <<h>>
    OBVIOUS
  <1>2. t \in Seq({h}) /\ t # <<>> /\ t[1] = h
    <2>1. h \in {h}
      OBVIOUS
    <2>2. <<h>> \in Seq({h})
      BY <2>1, Single
    <2>3. QED
      BY <1>1, <2>2
  <1>3. PICK u : u = s \o t
    OBVIOUS
  <1>4. /\ u \in Seq(ToSet(u))
        /\ s # <<>> => u # <<>> /\ u[1] = s[1]
        /\ s = <<>> => u # <<>> /\ u[1] = h
    <2>1. PICK S, T : S = ToSet(s) /\ T = {h}
      OBVIOUS
    <2>2. s \in Seq(S) /\ t \in Seq(T)
      BY <1>2, <2>1
    <2>3. /\ u \in Seq(ToSet(u))
          /\ s # <<>> => u # <<>> /\ u[1] = s[1]
          /\ s = <<>> /\ t # <<>> => u # <<>> /\ u[1] = t[1]
      BY <1>3, <2>2, Joined
    <2>4. QED
      BY <1>2, <2>3
  <1>5. Grown(s, u, h)
    BY <1>4 DEF Grown
  <1>6. Append(s, h) = s \o <<h>>
    OBVIOUS
  <1>7. QED
    BY <1>1, <1>3, <1>5, <1>6

LEMMA SomeMore ==
  ASSUME NEW s, NEW h, NEW u, Grown(s, u, h), NEW T, NEW t \in Seq(T)
  PROVE  Grown(s, u \o t, h)
  <1>1. PICK v : v = u \o t
    OBVIOUS
  <1>2. u \in Seq(ToSet(u)) /\ u # <<>>
    BY DEF Grown
  <1>3. v \in Seq(ToSet(v)) /\ v # <<>> /\ v[1] = u[1]
    BY <1>1, <1>2, Joined
  <1>4. QED
    BY <1>1, <1>3 DEF Grown

Flowing ==
  /\ data \in Seq(ToSet(data)) /\ message \in Nat /\ calls \in Nat
  /\ hasEnded \/ stage = "taken" => data # <<>>
  /\ data = <<>> => status = Worker!OK

Adds(codes) ==
  \E h : Grown(data, data', h) /\ (data = <<>> => h.status \in codes)
Keeps == data' = data

(* The codes of which no Cors speaks                                       *)
Politely ==
  {Worker!OK, Worker!PARTIAL_CONTENT, Worker!BAD_REQUEST, Worker!NOT_FOUND,
   Worker!RANGE_NOT_SATISFIABLE}

(* The codes of every call but sendFile                                    *)
Plainly == {Worker!OK, Worker!BAD_REQUEST, Worker!NOT_FOUND}

LEMMA Codes == Worker!OK \in Politely /\ Worker!FORBIDDEN \notin Politely
  BY DEF Politely, Worker!OK, Worker!PARTIAL_CONTENT, Worker!BAD_REQUEST,
     Worker!NOT_FOUND, Worker!RANGE_NOT_SATISFIABLE, Worker!FORBIDDEN

LEMMA PlainCodes ==
  /\ Plainly \subseteq Politely /\ Worker!OK \in Plainly
  /\ Worker!RANGE_NOT_SATISFIABLE \notin Plainly \cup {Worker!FORBIDDEN}
  BY DEF Plainly, Politely, Worker!OK, Worker!BAD_REQUEST, Worker!NOT_FOUND,
     Worker!RANGE_NOT_SATISFIABLE, Worker!FORBIDDEN

LEMMA AddsTyped == ASSUME NEW codes, Adds(codes) PROVE data' \in Seq(ToSet(data')) /\ data' # <<>>
  BY DEF Adds, Grown

LEMMA EndsWith ==
  ASSUME Flowing, NEW code, NEW length \in Nat, Worker!EndWith(code, length)
  PROVE  Adds({code}) /\ message' \in Nat /\ hasEnded' /\ status' = code
  <1>1. PICK h : h = Worker!Header(code, {length}, chunked)
    OBVIOUS
  <1>2. PICK body : body = Worker!Body(length)
    OBVIOUS
  <1>3. h.status = code
    BY <1>1 DEF Worker!Header
  <1>4. body \in Seq({[kind |-> "message"]})
    BY <1>2 DEF Worker!Body
  <1>5. PICK u : u = data \o <<h>>
    OBVIOUS
  <1>6. Grown(data, u, h)
    BY <1>5, OneMore DEF Flowing
  <1>7. Grown(data, u \o body, h)
    BY <1>4, <1>6, SomeMore
  <1>8. data' = u \o body /\ message' = length /\ hasEnded' = TRUE /\ status' = code
    BY <1>1, <1>2, <1>5 DEF Worker!EndWith
  <1>9. QED
    BY <1>3, <1>7, <1>8 DEF Adds

LEMMA RefusedAdds ==
  ASSUME Flowing, NEW code, Worker!Refused(code)
  PROVE  /\ IF hasEnded THEN Keeps ELSE Adds({code})
         /\ message' \in Nat /\ data' # <<>> /\ hasEnded'
  <1>1. MaxMessage \in Nat
    BY ServiceAssumption
  <1>2. CASE hasEnded
    BY <1>1, <1>2 DEF Worker!Refused, Keeps, Flowing
  <1>3. CASE ~hasEnded
    <2>1. Worker!EndWith(code, MaxMessage)
      BY <1>3 DEF Worker!Refused
    <2>2. QED
      BY <1>1, <1>3, <2>1, EndsWith, AddsTyped
  <1>4. QED
    BY <1>2, <1>3

LEMMA EndedAdds ==
  ASSUME Flowing, Worker!Ended
  PROVE  /\ Keeps \/ Adds({status})
         /\ message' \in Nat /\ data' # <<>>
  <1>1. CASE hasEnded
    BY <1>1 DEF Worker!Ended, Worker!Ignored, Keeps, Flowing
  <1>2. CASE ~hasEnded
    <2>1. Worker!EndWith(status, message)
      BY <1>2 DEF Worker!Ended
    <2>2. QED
      BY <2>1, EndsWith, AddsTyped DEF Flowing
  <1>3. QED
    BY <1>1, <1>2

LEMMA Wider == ASSUME NEW codes, NEW more, codes \subseteq more, Adds(codes) PROVE Adds(more)
  BY DEF Adds

(* An untouched response says OK.                                          *)
LEMMA StatusFine == ASSUME Flowing, Adds({status}) PROVE Adds(Plainly)
  <1>1. PICK h : Grown(data, data', h) /\ (data = <<>> => h.status = status)
    BY DEF Adds
  <1>2. data = <<>> => h.status \in Plainly
    BY <1>1, PlainCodes DEF Flowing
  <1>3. QED
    BY <1>1, <1>2 DEF Adds

LEMMA Flown ==
  ASSUME Flowing, Keeps \/ \E codes : Adds(codes), message' \in Nat, calls' \in Nat,
         hasEnded' \/ stage' = "taken" => data' # <<>>,
         data' = <<>> => status' = Worker!OK
  PROVE  Flowing'
  <1>1. data' \in Seq(ToSet(data'))
    BY AddsTyped DEF Flowing, Keeps
  <1>2. QED
    BY <1>1 DEF Flowing

LEMMA RepliesFlow ==
  ASSUME Flowing, NEW code, Worker!Reply(code)
  PROVE  /\ Flowing' /\ data' # <<>>
         /\ IF hasEnded THEN Keeps ELSE Adds({code})
  <1>1. Worker!Call /\ Worker!Refused(code)
    BY DEF Worker!Reply
  <1>2. calls' \in Nat
    BY <1>1 DEF Worker!Call, Flowing
  <1>3. /\ IF hasEnded THEN Keeps ELSE Adds({code})
        /\ message' \in Nat /\ data' # <<>>
    BY <1>1, RefusedAdds
  <1>4. QED
    BY <1>2, <1>3, Flown

(* The calls of handlers                                                   *)
LEMMA CallsFlow ==
  ASSUME Flowing, NEW call \in Calls, Called(call)
  PROVE  Flowing' /\ (Keeps \/ Adds(Plainly))
  <1>1. MaxMessage \in Nat
    BY ServiceAssumption
  <1>2. ASSUME Worker!SetStatus(Worker!OK) PROVE Flowing' /\ Keeps
    <2>1. Worker!Call /\ Keeps /\ UNCHANGED <<hasEnded, message>> /\ status' = Worker!OK
      BY <1>2 DEF Worker!SetStatus, Keeps
    <2>2. calls' \in Nat /\ stage' = stage
      BY <2>1 DEF Worker!Call, Flowing
    <2>3. QED
      BY <2>1, <2>2 DEF Flowing, Keeps
  <1>3. ASSUME Worker!Send(MaxMessage) PROVE Flowing' /\ Keeps
    <2>1. Worker!Call /\ Keeps /\ UNCHANGED <<hasEnded, status>> /\ message' = MaxMessage
      BY <1>3 DEF Worker!Send, Keeps
    <2>2. calls' \in Nat /\ stage' = stage
      BY <2>1 DEF Worker!Call, Flowing
    <2>3. QED
      BY <1>1, <2>1, <2>2 DEF Flowing, Keeps
  <1>4. ASSUME Worker!End PROVE Flowing' /\ (Keeps \/ Adds(Plainly))
    <2>1. Worker!Call /\ Worker!Ended
      BY <1>4 DEF Worker!End
    <2>2. calls' \in Nat
      BY <2>1 DEF Worker!Call, Flowing
    <2>3. (Keeps \/ Adds({status})) /\ message' \in Nat /\ data' # <<>>
      BY <2>1, EndedAdds
    <2>4. Flowing'
      BY <2>2, <2>3, Flown
    <2>5. QED
      BY <2>3, <2>4, StatusFine
  <1>5. ASSUME Worker!SendFiles PROVE Flowing' /\ (Keeps \/ Adds(Plainly))
    <2>1. calls' \in Nat /\ stage' = stage
      BY <1>5 DEF Worker!SendFiles, Worker!Call, Flowing
    <2>2. CASE hasEnded
      <3>1. Keeps /\ UNCHANGED <<hasEnded, status, message>>
        BY <1>5, <2>2 DEF Worker!SendFiles, Worker!Ignored, Keeps
      <3>2. QED
        BY <2>1, <3>1 DEF Flowing, Keeps
    <2>3. CASE ~hasEnded
      <3>1. PICK h : h = Worker!Header(status, Worker!Unset, TRUE)
        OBVIOUS
      <3>2. h.status = status
        BY <3>1 DEF Worker!Header
      <3>3. PICK u : u = Worker!ChunkedHeader
        OBVIOUS
      <3>4. u = data \o <<h>> /\ Grown(data, u, h)
        BY <3>1, <3>3, OneMore DEF Worker!ChunkedHeader, Flowing
      <3>5. PICK chunk, end : chunk = [kind |-> "chunk"] /\ end = [kind |-> "end"]
        OBVIOUS
      <3>6. PICK one, last : one = <<chunk>> /\ last = <<end>>
        OBVIOUS
      <3>7. one \in Seq({chunk, end}) /\ last \in Seq({chunk, end}) /\ <<>> \in Seq({chunk, end})
        <4>1. chunk \in {chunk, end} /\ end \in {chunk, end}
          OBVIOUS
        <4>2. <<chunk>> \in Seq({chunk, end}) /\ <<end>> \in Seq({chunk, end})
          BY <4>1, Single
        <4>3. QED
          BY <3>6, <4>2
      <3>8. /\ Grown(data, u \o one, h)
            /\ Grown(data, u \o <<>>, h)
            /\ Grown(data, (u \o one) \o last, h)
        BY <3>4, <3>7, SomeMore
      <3>9. Worker!Chunks = one /\ Worker!LastChunk = last
        BY <3>5, <3>6 DEF Worker!Chunks, Worker!LastChunk
      <3>10. Grown(data, data', h) /\ UNCHANGED <<status, message>>
        <4>1. UNCHANGED <<status, message>>
          BY <1>5, <2>3 DEF Worker!SendFiles
        <4>2. \/ data' = Worker!ChunkedHeader \o Worker!Chunks \o Worker!LastChunk
              \/ \E part \in {<<>>, Worker!Chunks} : data' = Worker!ChunkedHeader \o part
          BY <1>5, <2>3 DEF Worker!SendFiles
        <4>3. data' \in {(u \o one) \o last, u \o one, u \o <<>>}
          BY <3>3, <3>9, <4>2
        <4>4. QED
          BY <3>8, <4>1, <4>3
      <3>11. Adds({status})
        BY <3>2, <3>10 DEF Adds
      <3>12. data' # <<>>
        BY <3>11, AddsTyped
      <3>13. Flowing'
        BY <2>1, <3>10, <3>11, <3>12, Flown DEF Flowing
      <3>14. QED
        BY <3>11, <3>13, StatusFine
    <2>4. QED
      BY <2>2, <2>3
  <1>6. \/ Worker!SetStatus(Worker!OK) \/ Worker!Send(MaxMessage)
        \/ Worker!End \/ Worker!SendFiles
    BY DEF Called, Calls
  <1>7. QED
    BY <1>2, <1>3, <1>4, <1>5, <1>6

LEMMA FileFlows ==
  ASSUME Flowing, NEW length, NEW start, NEW end, Worker!SendFile(length, start, end)
  PROVE  Flowing' /\ (Keeps \/ Adds(Politely))
  <1>1. Worker!Call
    BY DEF Worker!SendFile
  <1>2. calls' \in Nat /\ stage' = stage
    BY <1>1 DEF Worker!Call, Flowing
  <1>3. CASE hasEnded /\ Worker!Ignored
    <2>1. Keeps /\ UNCHANGED <<hasEnded, status, message>>
      BY <1>3 DEF Worker!Ignored, Keeps
    <2>2. QED
      BY <1>2, <2>1 DEF Flowing, Keeps
  <1>4. ASSUME NEW code \in Politely, Worker!Refused(code)
        PROVE  Flowing' /\ (Keeps \/ Adds(Politely))
    <2>1. /\ Keeps \/ Adds({code})
          /\ message' \in Nat /\ data' # <<>>
      BY <1>4, RefusedAdds
    <2>2. Flowing'
      BY <1>2, <2>1, Flown
    <2>3. {code} \subseteq Politely
      BY <1>4
    <2>4. QED
      BY <2>1, <2>2, <2>3, Wider
  <1>5. CASE Worker!SendSlice(start, end, length)
    <2>1. PICK code : code = IF Worker!IsPartial(start, end) THEN Worker!PARTIAL_CONTENT ELSE status
      OBVIOUS
    <2>2. PICK h : h = Worker!Header(code, {Worker!PromisedLength(start, end, length)}, chunked)
      OBVIOUS
    <2>3. data' = Append(data, h) /\ UNCHANGED message
      BY <1>5, <2>1, <2>2 DEF Worker!SendSlice
    <2>4. Grown(data, data', h)
      BY <2>3, OneMore DEF Flowing
    <2>5. h.status = code
      BY <2>2 DEF Worker!Header
    <2>6. Worker!PARTIAL_CONTENT \in Politely
      BY DEF Politely
    <2>7. data = <<>> => code \in Politely
      BY <2>1, <2>6, Codes DEF Flowing
    <2>8. Adds(Politely)
      BY <2>4, <2>5, <2>7 DEF Adds
    <2>9. data' # <<>>
      BY <2>8, AddsTyped
    <2>10. QED
      BY <1>2, <2>3, <2>8, <2>9, Flown DEF Flowing
  <1>6. Worker!NOT_FOUND \in Politely /\ Worker!RANGE_NOT_SATISFIABLE \in Politely
    BY DEF Politely
  <1>7. QED
    BY <1>3, <1>4, <1>5, <1>6 DEF Worker!SendFile

LEMMA FinishFlows ==
  ASSUME Flowing, Worker!Return \/ Worker!Throw
  PROVE  Flowing' /\ (Keeps \/ Adds(Plainly))
  <1>1. UNCHANGED calls
    BY DEF Worker!Return, Worker!Throw
  <1>2. calls' \in Nat
    BY <1>1 DEF Flowing
  <1>3. CASE Worker!Return
    <2>1. (Keeps \/ Adds({status})) /\ message' \in Nat /\ data' # <<>>
      BY <1>3, EndedAdds DEF Worker!Return
    <2>2. Flowing'
      BY <1>2, <2>1, Flown
    <2>3. QED
      BY <2>1, <2>2, StatusFine
  <1>4. CASE Worker!Throw
    <2>1. /\ Keeps \/ Adds({Worker!BAD_REQUEST})
          /\ message' \in Nat /\ data' # <<>>
      BY <1>4, RefusedAdds DEF Worker!Throw
    <2>2. Flowing'
      BY <1>2, <2>1, Flown
    <2>3. {Worker!BAD_REQUEST} \subseteq Plainly
      BY DEF Plainly
    <2>4. QED
      BY <2>1, <2>2, <2>3, Wider
  <1>5. QED
    BY <1>3, <1>4


-----------------------------------------------------------------------------
(* Where the request is: what Router's invariant says of Service's state.  *)

LEMMA TrailView ==
  ASSUME WayProofs!IInv
  PROVE  /\ Len(trail) \in Nat /\ DOMAIN trail = 1..Len(trail)
         /\ \A i \in 1..Len(trail) : trail[i].router \in Routers /\ trail[i].index \in Nat
         /\ step # "idle" => Len(trail) >= 1 /\ trail[1].router = App
  <1>1. trail \in Seq(WayProofs!Calls) /\ (step = "idle" <=> trail = <<>>)
    BY DEF WayProofs!IInv, WayProofs!Asked
  <1>2. Len(trail) \in Nat /\ DOMAIN trail = 1..Len(trail)
    BY <1>1, LenProperties
  <1>3. ASSUME NEW i \in 1..Len(trail) PROVE trail[i].router \in Routers /\ trail[i].index \in Nat
    <2>1. trail[i] \in WayProofs!Calls
      BY <1>1, <1>3, ElementOfSeq
    <2>2. QED
      BY <2>1 DEF WayProofs!Calls, WayProofs!Routers, Routers
  <1>4. ASSUME step # "idle" PROVE Len(trail) >= 1 /\ trail[1].router = App
    <2>1. trail # <<>>
      BY <1>1, <1>4
    <2>2. trail[1].router = App
      BY <2>1 DEF WayProofs!IInv, WayProofs!Way, WayProofs!App, App
    <2>3. QED
      BY <1>1, <1>2, <2>1, <2>2, EmptySeq
  <1>5. QED
    BY <1>2, <1>3, <1>4

LEMMA PassedView ==
  ASSUME WayProofs!IInv
  PROVE  /\ Len(passed) \in Nat /\ DOMAIN passed = 1..Len(passed)
         /\ passed \in Seq(Routers \X Nat)
         /\ step = "idle" => passed = <<>>
  <1>1. passed \in Seq(Routers \X Nat) /\ (step = "idle" => passed = <<>>)
    BY DEF WayProofs!IInv, WayProofs!Asked, WayProofs!Routers, Routers
  <1>2. QED
    BY <1>1, LenProperties

(* Middlewares that a call on the trail has come to have been passed.      *)
LEMMA WhoPassed ==
  ASSUME WayProofs!IInv, NEW i \in 1..Len(trail), NEW n \in 1..trail[i].index
  PROVE  GuardsOf(trail[i].router)[n] \in ToSet(GuardsPassed)
  <1>1. PICK k \in 1..Len(passed) : passed[k] = <<trail[i].router, n>>
    BY DEF WayProofs!IInv, WayProofs!Guards, WayProofs!NoneLeftOut
  <1>2. k \in DOMAIN passed
    BY <1>1, PassedView
  <1>3. GuardsPassed[k] = GuardsOf(trail[i].router)[n] /\ k \in DOMAIN GuardsPassed
    BY <1>1, <1>2 DEF GuardsPassed
  <1>4. QED
    BY <1>3 DEF ToSet

LEMMA InnerDone ==
  ASSUME WayProofs!IInv, NEW i \in 1..Len(trail),
         i < Len(trail) \/ step \in {"handled", "notFound"}
  PROVE  trail[i].index = Len(GuardsOf(trail[i].router))
  <1>1. trail[i].router \in Routers
    BY TrailView
  <1>2. QED
    BY <1>1 DEF WayProofs!IInv, WayProofs!Guards, WayProofs!NoLess

LEMMA AllPassed ==
  ASSUME WayProofs!IInv, Built(app),
         \A i \in 1..Len(trail) : trail[i].index >= Len(GuardsOf(trail[i].router))
  PROVE  OnTheWay \subseteq ToSet(GuardsPassed)
  <1>1. SUFFICES ASSUME NEW i \in 1..Len(trail), NEW guard \in ToSet(GuardsOf(trail[i].router))
                 PROVE  guard \in ToSet(GuardsPassed)
    BY TrailView DEF OnTheWay
  <1>2. trail[i].router \in Routers /\ trail[i].index \in Nat
    BY TrailView
  <1>3. PICK guards : guards = GuardsOf(trail[i].router)
    OBVIOUS
  <1>4. guards \in Seq(Guards)
    BY <1>2, <1>3, GuardsTyped
  <1>5. Len(guards) \in Nat /\ DOMAIN guards = 1..Len(guards)
    BY <1>4, LenProperties
  <1>6. PICK n \in 1..Len(guards) : guard = guards[n]
    BY <1>3, <1>5 DEF ToSet
  <1>7. n \in 1..trail[i].index
    BY <1>2, <1>3, <1>5, <1>6
  <1>8. QED
    BY <1>3, <1>6, <1>7, WhoPassed

LEMMA GuardedView ==
  ASSUME WayProofs!IInv, Built(app), Paths!Guarded
  PROVE  \A i \in 1..Len(trail) : trail[i].index >= Len(GuardsOf(trail[i].router))
  <1>1. SUFFICES ASSUME NEW i \in 1..Len(trail)
                 PROVE  trail[i].index >= Len(GuardsOf(trail[i].router))
    OBVIOUS
  <1>2. trail[i].router \in Routers /\ trail[i].index \in Nat /\ Len(trail) \in Nat
    BY TrailView
  <1>3. PICK m : m = Len(GuardsOf(trail[i].router))
    OBVIOUS
  <1>4. m \in Nat
    BY <1>2, <1>3, GuardsTyped, LenProperties
  <1>5. CASE i < Len(trail)
    <2>1. trail[i].index = m
      BY <1>3, <1>5, InnerDone
    <2>2. QED
      BY <1>2, <1>3, <1>4, <2>1
  <1>6. CASE i = Len(trail)
    <2>1. Paths!Last(trail) = trail[i]
      BY <1>6 DEF Paths!Last
    <2>2. trail[i].index + 1 > [r \in Routers |-> Len(GuardsOf(r))][trail[i].router]
      BY <2>1 DEF Paths!Guarded, Paths!NextGuard, Paths!at
    <2>3. trail[i].index + 1 > m
      BY <1>2, <1>3, <2>2
    <2>4. QED
      BY <1>2, <1>3, <1>4, <2>3
  <1>7. QED
    BY <1>2, <1>5, <1>6

(* The guard that is asked next stands on the way.                         *)
LEMMA GuardView ==
  ASSUME WayProofs!IInv, Built(app), Paths!HasGuard
  PROVE  /\ Guard \in OnTheWay /\ Guard \in Guards
         /\ Len(trail) >= 1
         /\ Paths!at = trail[Len(trail)].router
         /\ Paths!NextGuard = trail[Len(trail)].index + 1
         /\ Paths!NextGuard \in 1..Len(GuardsOf(Paths!at))
         /\ Paths!at \in Routers
         /\ Guard.kind = "cors" => \A p \in Guard.origins : Tail(p) # Null
  <1>1. step = "guards"
    BY DEF Paths!HasGuard
  <1>2. Len(trail) \in Nat /\ DOMAIN trail = 1..Len(trail) /\ Len(trail) >= 1
    BY <1>1, TrailView
  <1>3. PICK n : n = Len(trail)
    OBVIOUS
  <1>4. n \in DOMAIN trail /\ trail[n].router \in Routers /\ trail[n].index \in Nat
    BY <1>2, <1>3, TrailView
  <1>5. Paths!at = trail[n].router /\ Paths!NextGuard = trail[n].index + 1
    BY <1>3 DEF Paths!at, Paths!NextGuard, Paths!Last
  <1>6. PICK guards : guards = GuardsOf(trail[n].router)
    OBVIOUS
  <1>7. guards \in Seq(Guards)
    BY <1>4, <1>6, GuardsTyped
  <1>8. Len(guards) \in Nat /\ DOMAIN guards = 1..Len(guards)
    BY <1>7, LenProperties
  <1>9. Paths!NextGuard <= Len(guards)
    BY <1>4, <1>5, <1>6 DEF Paths!HasGuard
  <1>10. Paths!NextGuard \in DOMAIN guards
    BY <1>4, <1>5, <1>8, <1>9
  <1>11. Guard = guards[Paths!NextGuard]
    BY <1>5, <1>6 DEF Guard
  <1>12. Guard \in ToSet(guards)
    BY <1>10, <1>11 DEF ToSet
  <1>13. Guard \in OnTheWay
    BY <1>4, <1>6, <1>12 DEF OnTheWay
  <1>14. Guard \in Guards
    BY <1>7, <1>8, <1>10, <1>11, ElementOfSeq
  <1>15. ASSUME Guard.kind = "cors" PROVE \A p \in Guard.origins : Tail(p) # Null
    BY <1>14, <1>15 DEF Guards, Patterns, Version, Date, CookieParser
  <1>16. QED
    BY <1>2, <1>3, <1>4, <1>5, <1>6, <1>8, <1>10, <1>13, <1>14, <1>15


(* Whoever has a say on the request comes behind the Server's own two.     *)
LEMMA Greets ==
  ASSUME WayProofs!IInv, Built(app),
         Paths!Guarded \/ (Paths!HasGuard /\ Guard.kind \notin {"version", "date"})
  PROVE  {Version, Date} \subseteq ToSet(GuardsPassed)
  <1>1. step = "guards"
    BY DEF Paths!Guarded, Paths!HasGuard
  <1>2. /\ Len(trail) \in Nat /\ Len(trail) >= 1 /\ trail[1].router = App
        /\ trail[1].index \in Nat
    BY <1>1, TrailView
  <1>3. PICK own : own = GuardsOf(App)
    OBVIOUS
  <1>4. Len(own) \in Nat /\ Len(own) >= 2 /\ own[1] = Version /\ own[2] = Date
    BY <1>3, GuardsTyped
  <1>5. trail[1].index >= 2
    <2>1. CASE Paths!Guarded
      <3>1. trail[1].index >= Len(own)
        BY <1>2, <1>3, <2>1, GuardedView
      <3>2. QED
        BY <1>2, <1>4, <3>1
    <2>2. CASE Len(trail) > 1
      <3>1. trail[1].index = Len(own)
        BY <1>2, <1>3, <2>2, InnerDone
      <3>2. QED
        BY <1>4, <3>1
    <2>3. CASE Len(trail) = 1 /\ Paths!HasGuard /\ Guard.kind \notin {"version", "date"}
      <3>1. Guard = own[trail[1].index + 1]
        BY <1>2, <1>3, <2>3, GuardView DEF Guard
      <3>2. Version.kind = "version" /\ Date.kind = "date"
        BY DEF Version, Date
      <3>3. trail[1].index + 1 # 1 /\ trail[1].index + 1 # 2
        BY <1>4, <2>3, <3>1, <3>2
      <3>4. QED
        BY <1>2, <3>3
    <2>4. Len(trail) = 1 \/ Len(trail) > 1
      <3>1. PICK n : n = Len(trail)
        OBVIOUS
      <3>2. n \in Nat /\ n >= 1
        BY <1>2, <3>1
      <3>3. n = 1 \/ n > 1
        BY <3>2
      <3>4. QED
        BY <3>1, <3>3
    <2>5. QED
      BY <2>1, <2>2, <2>3, <2>4, Zenon
  <1>6. own[1] \in ToSet(GuardsPassed) /\ own[2] \in ToSet(GuardsPassed)
    <2>1. 1 \in 1..Len(trail) /\ 1 \in 1..trail[1].index /\ 2 \in 1..trail[1].index
      BY <1>2, <1>5
    <2>2. QED
      BY <1>2, <1>3, <2>1, WhoPassed
  <1>7. QED
    BY <1>4, <1>6

-----------------------------------------------------------------------------
(* What the middlewares set.                                               *)

Owner(name) ==
  CASE name = "expresso" -> "version" [] name = "date" -> "date"
    [] name = "cache-control" -> "cacher" [] OTHER -> "cors"

Turned(set) == "allow-origin" \in DOMAIN set /\ set["allow-origin"] = Null

LEMMA FieldIs ==
  \A name, value : DOMAIN Field(name, value) = {name} /\ Field(name, value)[name] = value
  BY DEF Field

LEMMA SetIs ==
  ASSUME NEW new, NEW old
  PROVE  /\ DOMAIN Set(new, old) = DOMAIN new \cup DOMAIN old
         /\ \A name \in DOMAIN new : Set(new, old)[name] = new[name]
         /\ \A name \in DOMAIN old \ DOMAIN new : Set(new, old)[name] = old[name]
  BY DEF Set

(* Each kind of middleware has fields of its own.                          *)
LEMMA OwnFields ==
  ASSUME NEW guard, NEW origin, NEW set \in FieldsSet(guard, origin),
         guard.kind = "cors" => \A p \in guard.origins : Tail(p) # Null
  PROVE  /\ \A name \in DOMAIN set : Owner(name) = guard.kind
         /\ guard.kind = "version" => "expresso" \in DOMAIN set
         /\ guard.kind = "date" => "date" \in DOMAIN set
         /\ ~Turned(set)
  <1>1. CASE guard.kind = "version"
    <2>1. set = Field("expresso", <<"v1">>)
      BY <1>1 DEF FieldsSet
    <2>2. DOMAIN set = {"expresso"}
      BY <2>1, FieldIs
    <2>3. QED
      BY <1>1, <2>2 DEF Owner, Turned
  <1>2. CASE guard.kind = "date"
    <2>1. set = Field("date", <<"now">>)
      BY <1>2 DEF FieldsSet
    <2>2. DOMAIN set = {"date"}
      BY <2>1, FieldIs
    <2>3. QED
      BY <1>2, <2>2 DEF Owner, Turned
  <1>3. CASE guard.kind = "cacher"
    <2>1. set = Field("cache-control", guard.serialized)
      BY <1>3 DEF FieldsSet
    <2>2. DOMAIN set = {"cache-control"}
      BY <2>1, FieldIs
    <2>3. QED
      BY <1>3, <2>2 DEF Owner, Turned
  <1>4. CASE guard.kind = "cors"
    <2>1. set \in CorsFields(guard, origin)
      BY <1>4 DEF FieldsSet
    <2>2. CASE set = NoFields
      <3>1. DOMAIN set = {}
        BY <2>2 DEF NoFields
      <3>2. QED
        BY <1>4, <3>1 DEF Turned
    <2>3. ASSUME NEW p \in Allowed(guard, origin),
                 set = Set(Field("allow-origin", Tail(p)),
                           Field("allow-credentials", <<guard.credentials>>))
          PROVE  /\ \A name \in DOMAIN set : Owner(name) = guard.kind
                 /\ ~Turned(set)
      <3>1. PICK one, two : /\ one = Field("allow-origin", Tail(p))
                            /\ two = Field("allow-credentials", <<guard.credentials>>)
        OBVIOUS
      <3>2. /\ DOMAIN one = {"allow-origin"} /\ DOMAIN two = {"allow-credentials"}
            /\ one["allow-origin"] = Tail(p)
        BY <3>1, FieldIs
      <3>3. DOMAIN set = {"allow-origin", "allow-credentials"} /\ set["allow-origin"] = Tail(p)
        <4>1. set = Set(one, two)
          BY <2>3, <3>1
        <4>2. /\ DOMAIN set = DOMAIN one \cup DOMAIN two
              /\ \A name \in DOMAIN one : set[name] = one[name]
          BY <4>1, SetIs
        <4>3. QED
          BY <3>2, <4>2
      <3>4. Tail(p) # Null
        BY <1>4, <2>3 DEF Allowed
      <3>5. QED
        BY <1>4, <3>3, <3>4 DEF Owner, Turned
    <2>4. QED
      BY <1>4, <2>1, <2>2, <2>3 DEF CorsFields
  <1>5. CASE guard.kind \notin {"version", "date", "cacher", "cors"}
    <2>1. set = NoFields
      BY <1>5 DEF FieldsSet
    <2>2. DOMAIN set = {}
      BY <2>1 DEF NoFields
    <2>3. QED
      BY <1>5, <2>2 DEF Turned
  <1>6. QED
    BY <1>1, <1>2, <1>3, <1>4, <1>5

(* One more middleware has been passed.                                    *)
Longer(old, new, guard) ==
  \E n \in Nat :
    /\ DOMAIN old = 1..n /\ DOMAIN new = 1..(n + 1)
    /\ \A i \in 1..n : new[i] = old[i]
    /\ new[n + 1] = guard

LEMMA PassedLonger ==
  ASSUME WayProofs!IInv, Built(app), app' = app, Paths!LetThrough
  PROVE  Longer(GuardsPassed, GuardsPassed', Guard)
  <1>1. PICK last : last = <<Paths!at, Paths!NextGuard>>
    OBVIOUS
  <1>2. passed' = Append(passed, last)
    BY <1>1 DEF Paths!LetThrough
  <1>3. Paths!at \in Routers /\ Paths!NextGuard \in Nat
    <2>1. Paths!HasGuard
      BY DEF Paths!LetThrough
    <2>2. QED
      BY <2>1, GuardView
  <1>4. last \in Routers \X Nat
    BY <1>1, <1>3
  <1>5. passed \in Seq(Routers \X Nat) /\ Len(passed) \in Nat /\ DOMAIN passed = 1..Len(passed)
    BY PassedView
  <1>6. /\ passed' \in Seq(Routers \X Nat) /\ Len(passed') = Len(passed) + 1
        /\ \A i \in 1..Len(passed) : passed'[i] = passed[i]
        /\ passed'[Len(passed) + 1] = last
    BY <1>2, <1>4, <1>5, AppendProperties
  <1>7. DOMAIN passed' = 1..(Len(passed) + 1)
    BY <1>6, LenProperties
  <1>8. \A r : GuardsOf(r)' = GuardsOf(r)
    BY DEF GuardsOf
  <1>9. ASSUME NEW i \in 1..Len(passed) PROVE GuardsPassed'[i] = GuardsPassed[i]
    <2>1. i \in DOMAIN passed' /\ i \in DOMAIN passed /\ passed'[i] = passed[i]
      BY <1>5, <1>6, <1>7
    <2>2. QED
      BY <1>8, <2>1 DEF GuardsPassed
  <1>10. GuardsPassed'[Len(passed) + 1] = Guard
    <2>1. Len(passed) + 1 \in DOMAIN passed'
      BY <1>5, <1>7
    <2>2. last[1] = Paths!at /\ last[2] = Paths!NextGuard
      BY <1>1
    <2>3. QED
      BY <1>6, <1>8, <2>1, <2>2 DEF GuardsPassed, Guard
  <1>11. DOMAIN GuardsPassed = DOMAIN passed /\ DOMAIN GuardsPassed' = DOMAIN passed'
    BY DEF GuardsPassed
  <1>12. PICK n : n = Len(passed)
    OBVIOUS
  <1>13. QED
    BY <1>5, <1>7, <1>9, <1>10, <1>11, <1>12 DEF Longer


-----------------------------------------------------------------------------
(* The invariant.                                                          *)

(* A Cors that was passed lets the origin in.                              *)
AllIn(guards, origin) ==
  \A guard \in ToSet(guards) : guard.kind = "cors" => LetsIn(guard, origin)

Named(set, guards) ==
  /\ Version \in ToSet(guards) => "expresso" \in DOMAIN set
  /\ Date \in ToSet(guards) => "date" \in DOMAIN set

(* The last of each kind, but of these, has its say.                       *)
Says(fieldsNow, guards, origin, kinds) ==
  \A i \in DOMAIN guards :
    \/ guards[i].kind \in kinds
    \/ \E j \in DOMAIN guards : j > i /\ guards[j].kind = guards[i].kind
    \/ \E set \in FieldsSet(guards[i], origin) : \A name \in DOMAIN set :
         name \in DOMAIN fieldsNow /\ fieldsNow[name] = set[name]

(* Nothing is said while middlewares are asked, and nobody has a say where *)
(* no request could be read.                                               *)
Open == step = "guards" \/ (step = "idle" /\ stage = "handling")
Quiet ==
  /\ Open => data = <<>>
  /\ step \in {"idle", "guards"} => script = <<>>
  /\ step = "idle" => fields = NoFields
Scripted == script \in Seq(Calls)
LetIn == AllIn(GuardsPassed, asked.origin)
Cleared == script # <<>> => OnTheWay \subseteq ToSet(GuardsPassed)
Greeted ==
  step \notin {"idle", "guards"} => {Version, Date} \subseteq ToSet(GuardsPassed)
NamedSoFar == Named(fields, GuardsPassed)
Ahead ==
  data = <<>> => Says(fields, GuardsPassed, asked.origin, {}) /\ ~Turned(fields)
Muted == IF Told THEN {"cors"} ELSE {}
Marked == {"expresso", "date"} \subseteq DOMAIN sent
Headed ==
  data # <<>> =>
    /\ IF step = "idle" THEN sent = NoFields ELSE Marked
    /\ Told <=> Turned(sent)
    /\ Told => Refusing(OnTheWay) # {}
    /\ Says(sent, GuardsPassed, asked.origin, Muted)

Own ==
  /\ Flowing /\ Quiet /\ Scripted /\ LetIn /\ Cleared /\ Greeted
  /\ NamedSoFar /\ Ahead /\ Headed

IInv == app \in Apps /\ WayProofs!IInv /\ Own

(* What fields are alike in                                                *)
Like(one, other) ==
  DOMAIN one = DOMAIN other /\ \A name \in DOMAIN one : one[name] = other[name]

LEMMA LikeSays ==
  ASSUME NEW one, NEW other, Like(one, other), NEW guards, NEW origin, NEW kinds
  PROVE  /\ Says(one, guards, origin, kinds) => Says(other, guards, origin, kinds)
         /\ Named(one, guards) => Named(other, guards)
         /\ Turned(one) <=> Turned(other)
  <1>1. Says(one, guards, origin, kinds) => Says(other, guards, origin, kinds)
    BY DEF Like, Says
  <1>2. Named(one, guards) => Named(other, guards)
    BY DEF Like, Named
  <1>3. Turned(one) <=> Turned(other)
    BY DEF Like, Turned
  <1>4. QED
    BY <1>1, <1>2, <1>3

LEMMA SaysLess ==
  ASSUME NEW set, NEW guards, NEW origin, NEW kinds, Says(set, guards, origin, {})
  PROVE  Says(set, guards, origin, kinds)
  BY DEF Says

(* Fields of one kind in front of the others.                              *)
LEMMA SaysBut ==
  ASSUME NEW old, NEW guards, NEW origin, NEW kind, NEW set,
         Says(old, guards, origin, {}),
         \A guard \in ToSet(guards) : guard.kind = "cors" => \A p \in guard.origins : Tail(p) # Null,
         \A name \in DOMAIN set : Owner(name) = kind
  PROVE  Says(Set(set, old), guards, origin, {kind})
  <1>1. PICK new : new = Set(set, old)
    OBVIOUS
  <1>2. /\ DOMAIN new = DOMAIN set \cup DOMAIN old
        /\ \A name \in DOMAIN old \ DOMAIN set : new[name] = old[name]
    BY <1>1 DEF Set
  <1>3. ASSUME NEW i \in DOMAIN guards, guards[i].kind # kind,
               ~\E j \in DOMAIN guards : j > i /\ guards[j].kind = guards[i].kind
        PROVE  \E mark \in FieldsSet(guards[i], origin) : \A name \in DOMAIN mark :
                 name \in DOMAIN new /\ new[name] = mark[name]
    <2>1. PICK mark \in FieldsSet(guards[i], origin) :
            \A name \in DOMAIN mark : name \in DOMAIN old /\ old[name] = mark[name]
      BY <1>3 DEF Says
    <2>2. guards[i] \in ToSet(guards)
      BY DEF ToSet
    <2>3. \A name \in DOMAIN mark : Owner(name) = guards[i].kind
      BY <2>1, <2>2, OwnFields
    <2>4. \A name \in DOMAIN mark : name \notin DOMAIN set
      BY <1>3, <2>3
    <2>5. QED
      BY <1>2, <2>1, <2>4
  <1>4. QED
    BY <1>1, <1>3 DEF Says

LEMMA SaysMore ==
  ASSUME NEW old, NEW guards, NEW more, NEW guard, NEW origin, NEW set,
         Says(old, guards, origin, {}), Longer(guards, more, guard),
         \A g \in ToSet(guards) : g.kind = "cors" => \A p \in g.origins : Tail(p) # Null,
         guard.kind = "cors" => \A p \in guard.origins : Tail(p) # Null,
         set \in FieldsSet(guard, origin)
  PROVE  Says(Set(set, old), more, origin, {})
  <1>1. PICK new : new = Set(set, old)
    OBVIOUS
  <1>2. /\ DOMAIN new = DOMAIN set \cup DOMAIN old
        /\ \A name \in DOMAIN set : new[name] = set[name]
    BY <1>1 DEF Set
  <1>3. PICK n \in Nat : /\ DOMAIN guards = 1..n /\ DOMAIN more = 1..(n + 1)
                         /\ \A i \in 1..n : more[i] = guards[i]
                         /\ more[n + 1] = guard
    BY DEF Longer
  <1>4. \A name \in DOMAIN set : Owner(name) = guard.kind
    BY OwnFields
  <1>5. Says(new, guards, origin, {guard.kind})
    BY <1>1, <1>4, SaysBut
  <1>6. ASSUME NEW i \in 1..n,
               ~\E j \in DOMAIN more : j > i /\ more[j].kind = more[i].kind
        PROVE  \E mark \in FieldsSet(more[i], origin) : \A name \in DOMAIN mark :
                 name \in DOMAIN new /\ new[name] = mark[name]
    <2>1. more[i] = guards[i] /\ i \in DOMAIN guards
      BY <1>3
    <2>2. n + 1 \in DOMAIN more /\ n + 1 > i
      BY <1>3
    <2>3. guards[i].kind # guard.kind
      BY <1>3, <1>6, <2>1, <2>2
    <2>4. ~\E j \in DOMAIN guards : j > i /\ guards[j].kind = guards[i].kind
      <3>1. ASSUME NEW j \in DOMAIN guards, j > i, guards[j].kind = guards[i].kind PROVE FALSE
        <4>1. j \in DOMAIN more /\ more[j] = guards[j]
          BY <1>3
        <4>2. QED
          BY <1>6, <2>1, <3>1, <4>1
      <3>2. QED
        BY <3>1
    <2>5. QED
      BY <1>5, <2>1, <2>3, <2>4 DEF Says
  <1>7. \A name \in DOMAIN set : name \in DOMAIN new /\ new[name] = set[name]
    BY <1>2
  <1>8. ASSUME NEW i \in DOMAIN more
        PROVE  \/ \E j \in DOMAIN more : j > i /\ more[j].kind = more[i].kind
               \/ \E mark \in FieldsSet(more[i], origin) : \A name \in DOMAIN mark :
                    name \in DOMAIN new /\ new[name] = mark[name]
    <2>1. i \in 1..n \/ i = n + 1
      BY <1>3
    <2>2. CASE i = n + 1
      BY <1>3, <1>7, <2>2
    <2>3. QED
      BY <1>6, <2>1, <2>2
  <1>9. QED
    BY <1>1, <1>8 DEF Says

LEMMA LongerSet ==
  ASSUME NEW guards, NEW more, NEW guard, Longer(guards, more, guard)
  PROVE  \A g \in ToSet(more) : g \in ToSet(guards) \/ g = guard
  <1>1. PICK n \in Nat : /\ DOMAIN guards = 1..n /\ DOMAIN more = 1..(n + 1)
                         /\ \A i \in 1..n : more[i] = guards[i]
                         /\ more[n + 1] = guard
    BY DEF Longer
  <1>2. ASSUME NEW i \in DOMAIN more PROVE more[i] \in ToSet(guards) \/ more[i] = guard
    <2>1. i \in 1..n \/ i = n + 1
      BY <1>1
    <2>2. QED
      BY <1>1, <2>1 DEF ToSet
  <1>3. QED
    BY <1>2 DEF ToSet

LEMMA NamedMore ==
  ASSUME NEW old, NEW guards, NEW more, NEW guard, NEW origin, NEW set,
         Named(old, guards), Longer(guards, more, guard),
         guard.kind = "cors" => \A p \in guard.origins : Tail(p) # Null,
         set \in FieldsSet(guard, origin)
  PROVE  Named(Set(set, old), more)
  <1>1. PICK new : new = Set(set, old)
    OBVIOUS
  <1>2. DOMAIN new = DOMAIN set \cup DOMAIN old
    BY <1>1, SetIs
  <1>3. \A g \in ToSet(more) : g \in ToSet(guards) \/ g = guard
    BY LongerSet
  <1>4. /\ guard.kind = "version" => "expresso" \in DOMAIN set
        /\ guard.kind = "date" => "date" \in DOMAIN set
    BY OwnFields
  <1>5. Version.kind = "version" /\ Date.kind = "date"
    BY DEF Version, Date
  <1>6. Version \in ToSet(more) => "expresso" \in DOMAIN new
    BY <1>2, <1>3, <1>4, <1>5 DEF Named
  <1>7. Date \in ToSet(more) => "date" \in DOMAIN new
    BY <1>2, <1>3, <1>4, <1>5 DEF Named
  <1>8. QED
    BY <1>1, <1>6, <1>7 DEF Named


LEMMA PassedGuards ==
  ASSUME WayProofs!IInv, Built(app)
  PROVE  \A guard \in ToSet(GuardsPassed) :
           guard.kind = "cors" => \A p \in guard.origins : Tail(p) # Null
  <1>1. SUFFICES ASSUME NEW guard \in ToSet(GuardsPassed) PROVE guard \in Guards
    BY DEF Guards, Patterns, Version, Date, CookieParser
  <1>2. PICK k \in 1..Len(passed) : guard = GuardsOf(passed[k][1])[passed[k][2]]
    BY PassedView DEF GuardsPassed, ToSet
  <1>3. PICK i \in 1..Len(trail) :
          passed[k][1] = trail[i].router /\ passed[k][2] \in 1..trail[i].index
    BY DEF WayProofs!IInv, WayProofs!Guards, WayProofs!OnTrail
  <1>4. trail[i].router \in Routers /\ trail[i].index \in Nat
    BY TrailView
  <1>5. PICK guards : guards = GuardsOf(trail[i].router)
    OBVIOUS
  <1>6. guards \in Seq(Guards)
    BY <1>4, <1>5, GuardsTyped
  <1>7. trail[i].index <= [r \in Routers |-> Len(GuardsOf(r))][trail[i].router]
    BY DEF WayProofs!IInv, WayProofs!Guards, WayProofs!NoMore
  <1>8. trail[i].index <= Len(guards)
    BY <1>4, <1>5, <1>7
  <1>9. Len(guards) \in Nat
    BY <1>6, LenProperties
  <1>10. passed[k][2] \in 1..Len(guards)
    BY <1>3, <1>4, <1>8, <1>9
  <1>11. QED
    BY <1>2, <1>3, <1>5, <1>6, <1>10, ElementOfSeq

-----------------------------------------------------------------------------
(* The steps, as far as the invariant looks at them.                       *)

Stays == UNCHANGED <<app, trail, passed, asked>>
Spurns ==
  /\ step = "idle" /\ step' = "idle" /\ stage = "handling" /\ stage' # "handling"
  /\ Stays /\ UNCHANGED <<script, fields>>
  /\ Flowing' /\ (Keeps \/ Adds(Plainly))
  /\ Serializes
Closes == step = "guards" /\ step' \notin {"idle", "guards"}
Behind ==
  Paths!Guarded \/ (Paths!HasGuard /\ Guard.kind \notin {"version", "date"})

Begins ==
  /\ step = "idle" /\ stage = "handling" /\ step' = "guards" /\ passed' = <<>>
  /\ UNCHANGED <<app, workerVars, fields, script, sent>>
Passes ==
  /\ Paths!LetThrough
  /\ \E set \in FieldsSet(Guard, asked.origin) : fields' = Set(set, fields)
  /\ Guard.kind = "cors" => LetsIn(Guard, asked.origin)
  /\ UNCHANGED <<app, workerVars, asked, script, sent>>
Sinks ==
  /\ step = "guards" /\ step' = "guards"
  /\ UNCHANGED <<app, passed, workerVars, asked, fields, script, sent>>
Stops ==
  /\ Closes /\ Behind /\ Stays
  /\ UNCHANGED <<workerVars, fields, sent>>
  /\ script' = script \/ (Paths!Guarded /\ script' \in Seq(Calls))
Speaks ==
  /\ (step' = step /\ step \notin {"idle", "guards"}) \/ (Closes /\ Behind)
  /\ Stays /\ UNCHANGED script
  /\ Flowing' /\ (Keeps \/ Adds(Politely))
  /\ Like(fields, fields') /\ Serializes
Forbids ==
  /\ Closes /\ Paths!HasGuard /\ Stays /\ UNCHANGED script
  /\ Guard.kind = "cors" /\ ~LetsIn(Guard, asked.origin)
  /\ Flowing' /\ Adds({Worker!FORBIDDEN})
  /\ fields' = Set(Field("allow-origin", Null), fields) /\ Serializes
Idles == UNCHANGED <<app, step, trail, passed, workerVars, asked, fields, script, sent>>

LEMMA ReceiveIs == ASSUME app' = app, Receive PROVE Begins
  BY DEF Receive, Begins, Paths!Receive

LEMMA RejectIs == ASSUME app' = app, Own, Reject PROVE Spurns
  <1>1. /\ Worker!Throw /\ Serializes /\ step = "idle"
        /\ UNCHANGED <<pathVars, asked, script, fields>>
    BY DEF Reject
  <1>2. step' = step /\ UNCHANGED <<trail, passed>>
    BY <1>1 DEF pathVars
  <1>3. stage = "handling" /\ stage' # "handling"
    BY <1>1 DEF Worker!Throw, Worker!Take
  <1>4. Flowing' /\ (Keeps \/ Adds(Plainly))
    BY <1>1, FinishFlows DEF Own
  <1>5. QED
    BY <1>1, <1>2, <1>3, <1>4 DEF Spurns, Stays

LEMMA PassIs ==
  ASSUME app' = app, Pass, Guard.kind = "cors" => LetsIn(Guard, asked.origin)
  PROVE  Passes
  BY DEF Pass, Passes

LEMMA LikeSelf == ASSUME fields' = fields PROVE Like(fields, fields')
  BY DEF Like

LEMMA LikeNone == ASSUME fields' = Set(NoFields, fields) PROVE Like(fields, fields')
  <1>1. PICK new : new = fields'
    OBVIOUS
  <1>2. DOMAIN NoFields = {}
    BY DEF NoFields
  <1>3. DOMAIN new = DOMAIN fields /\ \A name \in DOMAIN fields : new[name] = fields[name]
    BY <1>1, <1>2 DEF Set
  <1>4. QED
    BY <1>1, <1>3 DEF Like

LEMMA RefuseIs ==
  ASSUME Paths!Refuse
  PROVE  Closes /\ Paths!HasGuard /\ UNCHANGED <<trail, passed>>
  <1>1. step = "guards" /\ step' = "refused" /\ UNCHANGED <<trail, passed>> /\ Paths!HasGuard
    BY DEF Paths!Refuse, Paths!HasGuard, Paths!End
  <1>2. QED
    BY <1>1 DEF Closes

LEMMA CorsIs ==
  ASSUME app' = app, Own, UseCors
  PROVE  Passes \/ Forbids
  <1>1. Paths!HasGuard /\ Guard.kind = "cors"
    BY DEF UseCors, Uses
  <1>2. CASE LetsIn(Guard, asked.origin) /\ Pass
    BY <1>2, PassIs
  <1>3. CASE /\ ~LetsIn(Guard, asked.origin)
             /\ Worker!Reply(Worker!FORBIDDEN)
             /\ Refuse(Field("allow-origin", Null))
    <2>1. Closes /\ UNCHANGED <<trail, passed>>
      BY <1>3, RefuseIs DEF Refuse
    <2>2. /\ UNCHANGED <<asked, script>> /\ Serializes
          /\ fields' = Set(Field("allow-origin", Null), fields)
      BY <1>3 DEF Refuse
    <2>3. ~hasEnded
      <3>1. data = <<>>
        BY <2>1 DEF Closes, Own, Quiet, Open
      <3>2. QED
        BY <3>1 DEF Own, Flowing
    <2>4. Flowing' /\ Adds({Worker!FORBIDDEN})
      BY <1>3, <2>3, RepliesFlow DEF Own
    <2>5. Forbids
      BY <1>1, <1>3, <2>1, <2>2, <2>4 DEF Forbids, Stays
    <2>6. QED
      BY <2>5
  <1>4. QED
    BY <1>2, <1>3 DEF UseCors

LEMMA StaticIs ==
  ASSUME app' = app, Own, UseStaticServe
  PROVE  Passes \/ Speaks
  <1>1. Paths!HasGuard /\ Guard.kind = "static"
    BY DEF UseStaticServe, Uses
  <1>2. Behind
    BY <1>1 DEF Behind
  <1>3. CASE Pass
    BY <1>1, <1>3, PassIs
  <1>4. ASSUME Refuse(NoFields), Flowing', Keeps \/ Adds(Politely) PROVE Speaks
    <2>1. Closes /\ UNCHANGED <<trail, passed>>
      BY <1>4, RefuseIs DEF Refuse
    <2>2. UNCHANGED <<asked, script>> /\ Serializes /\ Like(fields, fields')
      BY <1>4, LikeNone DEF Refuse
    <2>3. QED
      BY <1>2, <1>4, <2>1, <2>2 DEF Speaks, Stays
  <1>5. CASE ServeFile
    BY <1>4, <1>5, FileFlows DEF ServeFile, Own
  <1>6. CASE ServeListing
    <2>1. Worker!Reply(Worker!OK) /\ Refuse(NoFields)
      BY <1>6 DEF ServeListing
    <2>2. Flowing' /\ (Keeps \/ Adds({Worker!OK}))
      BY <2>1, RepliesFlow DEF Own
    <2>3. {Worker!OK} \subseteq Politely
      BY Codes
    <2>4. QED
      BY <1>4, <2>1, <2>2, <2>3, Wider
  <1>7. QED
    BY <1>3, <1>5, <1>6 DEF UseStaticServe


LEMMA DescendsIs == ASSUME app' = app, Own, Descends PROVE Sinks \/ Stops
  <1>1. UNCHANGED <<workerVars, ownVars>>
    BY DEF Descends
  <1>2. UNCHANGED <<asked, fields, script, sent>>
    BY <1>1 DEF ownVars
  <1>3. CASE Paths!Descend
    <2>1. step = "guards" /\ step' = "guards" /\ passed' = passed
      BY <1>3 DEF Paths!Descend, Paths!Guarded
    <2>2. QED
      BY <1>1, <1>2, <2>1 DEF Sinks
  <1>4. CASE Paths!NoMap
    <2>1. /\ step = "guards" /\ step' = "failed" /\ UNCHANGED <<trail, passed>>
          /\ Paths!Guarded
      BY <1>4 DEF Paths!NoMap, Paths!Guarded, Paths!End
    <2>2. QED
      BY <1>1, <1>2, <2>1 DEF Stops, Closes, Behind, Stays
  <1>5. QED
    BY <1>3, <1>4 DEF Descends

LEMMA ThrowsIs == ASSUME app' = app, UseThrows PROVE Stops
  <1>1. UNCHANGED <<workerVars, ownVars>> /\ Paths!GuardThrows
    BY DEF UseThrows
  <1>2. UNCHANGED <<asked, fields, script, sent>>
    BY <1>1 DEF ownVars
  <1>3. Paths!HasGuard /\ Guard.kind \in {"cookies", "static"}
    BY DEF UseThrows, Uses
  <1>4. step = "guards" /\ step' = "failed" /\ UNCHANGED <<trail, passed>>
    BY <1>1 DEF Paths!GuardThrows, Paths!HasGuard, Paths!End
  <1>5. Guard.kind \notin {"version", "date"}
    BY <1>3
  <1>6. Closes
    BY <1>4 DEF Closes
  <1>7. QED
    BY <1>1, <1>2, <1>3, <1>4, <1>5, <1>6 DEF Stops, Behind, Stays

LEMMA HandleIs ==
  ASSUME app' = app, WayProofs!IInv, Built(app), Handle
  PROVE  Stops
  <1>1. Paths!Handle /\ UNCHANGED <<workerVars, asked, fields, sent>>
    BY DEF Handle
  <1>2. Paths!Guarded /\ Paths!HasRoute /\ UNCHANGED <<trail, passed>>
    BY <1>1 DEF Paths!Handle, Paths!End
  <1>3. step = "guards" /\ step' \in {"handled", "failed"}
    BY <1>1 DEF Paths!Handle, Paths!Guarded, Paths!End
  <1>4. script' \in Seq(Calls)
    <2>1. Paths!at \in Routers
      <3>1. Len(trail) \in Nat /\ Len(trail) >= 1
        BY <1>3, TrailView
      <3>2. PICK n : n = Len(trail)
        OBVIOUS
      <3>3. n \in 1..Len(trail)
        BY <3>1, <3>2
      <3>4. Paths!at = trail[n].router
        BY <3>2 DEF Paths!at, Paths!Last
      <3>5. QED
        BY <3>3, <3>4, TrailView
    <2>2. <<request.method, Paths!Stripped>> \in app.routes[Paths!at]
      BY <1>2 DEF Paths!HasRoute
    <2>3. PICK route : route = <<request.method, Paths!Stripped>>
      OBVIOUS
    <2>4. app.calls[<<Paths!at, route[1], route[2]>>] \in Seq(Calls)
      BY <2>1, <2>2, <2>3 DEF Built
    <2>5. route[1] = request.method /\ route[2] = Paths!Stripped
      BY <2>3
    <2>6. QED
      BY <2>4, <2>5 DEF Handle
  <1>5. Closes
    BY <1>3 DEF Closes
  <1>6. QED
    BY <1>1, <1>2, <1>4, <1>5 DEF Stops, Behind, Stays

LEMMA NotFoundIs == ASSUME app' = app, Own, NotFound PROVE Speaks
  <1>1. Worker!Reply(Worker!NOT_FOUND)
    BY DEF NotFound, Worker!SendNotFound
  <1>2. Flowing' /\ (Keeps \/ Adds({Worker!NOT_FOUND}))
    BY <1>1, RepliesFlow DEF Own
  <1>3. {Worker!NOT_FOUND} \subseteq Politely
    BY DEF Politely
  <1>4. Keeps \/ Adds(Politely)
    BY <1>2, <1>3, Wider
  <1>5. Paths!Guarded /\ step = "guards" /\ step' = "notFound" /\ UNCHANGED <<trail, passed>>
    BY DEF NotFound, Paths!NotFound, Paths!Guarded, Paths!End
  <1>6. Closes
    BY <1>5 DEF Closes
  <1>7. fields' = fields /\ Serializes /\ UNCHANGED <<asked, script>>
    BY DEF NotFound
  <1>8. Like(fields, fields')
    BY <1>7, LikeSelf
  <1>9. QED
    BY <1>2, <1>4, <1>5, <1>6, <1>7, <1>8 DEF Speaks, Behind, Stays

LEMMA CallIs == ASSUME app' = app, Own, HandlerCall PROVE Speaks
  <1>1. PICK n : n = calls + 1
    OBVIOUS
  <1>2. Called(script[n]) /\ calls < Len(script) /\ step \in {"handled", "failed"}
    BY <1>1 DEF HandlerCall
  <1>3. script \in Seq(Calls) /\ calls \in Nat /\ Len(script) \in Nat
    BY LenProperties DEF Own, Scripted, Flowing
  <1>4. n \in 1..Len(script)
    BY <1>1, <1>2, <1>3
  <1>5. script[n] \in Calls
    BY <1>3, <1>4, ElementOfSeq
  <1>6. Flowing' /\ (Keeps \/ Adds(Politely))
    BY <1>2, <1>5, CallsFlow, PlainCodes, Wider DEF Own
  <1>7. fields' = fields /\ Serializes /\ UNCHANGED <<asked, script>> /\ UNCHANGED pathVars
    BY DEF HandlerCall
  <1>8. step' = step /\ UNCHANGED <<trail, passed>>
    BY <1>7 DEF pathVars
  <1>9. Like(fields, fields')
    BY <1>7, LikeSelf
  <1>10. QED
    BY <1>2, <1>6, <1>7, <1>8, <1>9 DEF Speaks, Stays

LEMMA FinishIs == ASSUME app' = app, Own, Finish PROVE Speaks
  <1>1. (Worker!Return \/ Worker!Throw) /\ step \in {"failed", "handled", "refused", "notFound"}
    BY DEF Finish
  <1>2. Flowing' /\ (Keeps \/ Adds(Politely))
    BY <1>1, FinishFlows, PlainCodes, Wider DEF Own
  <1>3. fields' = fields /\ Serializes /\ UNCHANGED <<asked, script>> /\ UNCHANGED pathVars
    BY DEF Finish
  <1>4. step' = step /\ UNCHANGED <<trail, passed>>
    BY <1>3 DEF pathVars
  <1>5. Like(fields, fields')
    BY <1>3, LikeSelf
  <1>6. QED
    BY <1>1, <1>2, <1>3, <1>4, <1>5 DEF Speaks, Stays

LEMMA Shapes ==
  ASSUME IInv, [Next]_vars
  PROVE  \/ Begins \/ Spurns \/ Passes \/ Sinks
         \/ Stops \/ Speaks \/ Forbids \/ Idles
  <1>1. Built(app) /\ WayProofs!IInv /\ Own
    BY ServiceAssumption DEF IInv
  <1>2. CASE app' = app /\ Receive
    BY <1>2, ReceiveIs
  <1>3. CASE UNCHANGED vars
    BY <1>3 DEF vars, pathVars, ownVars, Idles
  <1>4. ASSUME Work
        PROVE  Passes \/ Sinks \/ Stops \/ Speaks \/ Forbids \/ Idles
    <2>1. app' = app
      BY <1>4 DEF Work
    <2>2. CASE UseHeaders
      <3>1. Pass /\ Guard.kind \in {"version", "date", "cacher"}
        BY <2>2 DEF UseHeaders, Uses
      <3>2. Guard.kind # "cors"
        BY <3>1
      <3>3. QED
        BY <2>1, <3>1, <3>2, PassIs
    <2>3. CASE UseCors
      BY <1>1, <2>1, <2>3, CorsIs
    <2>4. CASE UseCookieParser
      <3>1. Pass /\ Guard.kind = "cookies"
        BY <2>4 DEF UseCookieParser, Uses
      <3>2. Guard.kind # "cors"
        BY <3>1
      <3>3. QED
        BY <2>1, <3>1, <3>2, PassIs
    <2>5. CASE UseStaticServe
      BY <1>1, <2>1, <2>5, StaticIs
    <2>6. CASE UseThrows
      BY <2>1, <2>6, ThrowsIs
    <2>7. CASE Crash
      BY <2>1, <2>7 DEF Crash, pathVars, Idles
    <2>8. CASE Descends
      BY <1>1, <2>1, <2>8, DescendsIs
    <2>9. CASE NotFound
      BY <1>1, <2>1, <2>9, NotFoundIs
    <2>10. CASE Handle
      BY <1>1, <2>1, <2>10, HandleIs
    <2>11. CASE HandlerCall
      BY <1>1, <2>1, <2>11, CallIs
    <2>12. CASE Finish
      BY <1>1, <2>1, <2>12, FinishIs
    <2>13. QED
      BY <1>4, <2>2, <2>3, <2>4, <2>5, <2>6, <2>7, <2>8, <2>9, <2>10, <2>11, <2>12
      DEF Work, UseMiddleware
  <1>5. CASE app' = app /\ Reject
    BY <1>1, <1>5, RejectIs
  <1>6. QED
    BY <1>2, <1>3, <1>4, <1>5 DEF Next


-----------------------------------------------------------------------------
(* The invariant is kept.                                                  *)

LEMMA StaysSame ==
  ASSUME Stays
  PROVE  /\ GuardsPassed' = GuardsPassed /\ OnTheWay' = OnTheWay
         /\ asked' = asked
         /\ Refusing(OnTheWay)' = Refusing(OnTheWay)
  <1>1. \A r : GuardsOf(r)' = GuardsOf(r)
    BY DEF Stays, GuardsOf
  <1>2. GuardsPassed' = GuardsPassed
    BY <1>1 DEF Stays, GuardsPassed
  <1>3. OnTheWay' = OnTheWay
    BY <1>1 DEF Stays, OnTheWay
  <1>4. Refusing(OnTheWay)' = Refusing(OnTheWay)
    BY <1>3 DEF Stays, Refusing
  <1>5. QED
    BY <1>2, <1>3, <1>4 DEF Stays

LEMMA FlowingSame == ASSUME Flowing, UNCHANGED workerVars PROVE Flowing'
  BY DEF Flowing, workerVars

LEMMA OpenQuiet ==
  ASSUME Own, Open
  PROVE  data = <<>> /\ script = <<>>
  BY DEF Own, Quiet, Open

(* While middlewares are asked this is what there is to show.              *)
LEMMA StillOpen ==
  ASSUME Own, Open, step' = "guards",
         UNCHANGED <<workerVars, script>>,
         LetIn', NamedSoFar', Ahead'
  PROVE  Own'
  <1>1. data = <<>> /\ script = <<>>
    BY OpenQuiet
  <1>2. data' = <<>> /\ script' = <<>>
    BY <1>1 DEF workerVars
  <1>3. Flowing'
    BY FlowingSame DEF Own
  <1>4. Scripted'
    BY DEF Own, Scripted
  <1>5. Quiet' /\ Cleared' /\ Greeted' /\ Headed'
    BY <1>2 DEF Quiet, Cleared, Greeted, Headed
  <1>6. QED
    BY <1>3, <1>4, <1>5 DEF Own

LEMMA BeginsKept == ASSUME IInv, Begins PROVE Own'
  <1>1. Own /\ Open
    BY DEF IInv, Begins, Open
  <1>2. data = <<>>
    BY <1>1, OpenQuiet
  <1>3. DOMAIN GuardsPassed' = {}
    BY DEF Begins, GuardsPassed
  <1>4. ToSet(GuardsPassed') = {}
    BY <1>3 DEF ToSet
  <1>5. LetIn'
    BY <1>4 DEF LetIn, AllIn
  <1>6. NamedSoFar'
    BY <1>4 DEF NamedSoFar, Named
  <1>7. Ahead'
    <2>1. ~Turned(fields)
      BY <1>1, <1>2 DEF Own, Ahead
    <2>2. ~Turned(fields')
      BY <2>1 DEF Begins
    <2>3. Says(fields', GuardsPassed', asked'.origin, {})
      BY <1>3 DEF Says
    <2>4. QED
      BY <2>2, <2>3 DEF Ahead
  <1>8. QED
    BY <1>1, <1>5, <1>6, <1>7, StillOpen DEF Begins

LEMMA NotTurned ==
  ASSUME NEW set, NEW old, ~Turned(set), ~Turned(old)
  PROVE  ~Turned(Set(set, old))
  <1>1. PICK new : new = Set(set, old)
    OBVIOUS
  <1>2. /\ DOMAIN new = DOMAIN set \cup DOMAIN old
        /\ \A name \in DOMAIN set : new[name] = set[name]
        /\ \A name \in DOMAIN old \ DOMAIN set : new[name] = old[name]
    BY <1>1 DEF Set
  <1>3. ~Turned(new)
    BY <1>2 DEF Turned
  <1>4. QED
    BY <1>1, <1>3

LEMMA PassesKept == ASSUME IInv, Passes PROVE Own'
  <1>1. Own /\ WayProofs!IInv /\ Built(app)
    BY ServiceAssumption DEF IInv
  <1>2. Paths!LetThrough /\ Paths!HasGuard /\ step = "guards" /\ step' = "guards"
    BY DEF Passes, Paths!LetThrough, Paths!HasGuard
  <1>3. Open /\ data = <<>>
    BY <1>1, <1>2, OpenQuiet DEF Open
  <1>4. app' = app /\ asked' = asked
    BY DEF Passes
  <1>5. Longer(GuardsPassed, GuardsPassed', Guard)
    BY <1>1, <1>2, <1>4, PassedLonger
  <1>6. Guard.kind = "cors" => \A p \in Guard.origins : Tail(p) # Null
    BY <1>1, <1>2, GuardView
  <1>7. \A guard \in ToSet(GuardsPassed) :
          guard.kind = "cors" => \A p \in guard.origins : Tail(p) # Null
    BY <1>1, PassedGuards
  <1>8. PICK set \in FieldsSet(Guard, asked.origin) : fields' = Set(set, fields)
    BY DEF Passes
  <1>9. LetIn'
    <2>1. AllIn(GuardsPassed, asked.origin)
      BY <1>1 DEF Own, LetIn
    <2>2. \A guard \in ToSet(GuardsPassed') : guard \in ToSet(GuardsPassed) \/ guard = Guard
      BY <1>5, LongerSet
    <2>3. Guard.kind = "cors" => LetsIn(Guard, asked.origin)
      BY DEF Passes
    <2>4. AllIn(GuardsPassed', asked.origin)
      BY <2>1, <2>2, <2>3 DEF AllIn
    <2>5. QED
      BY <1>4, <2>4 DEF LetIn
  <1>10. NamedSoFar'
    <2>1. Named(fields, GuardsPassed)
      BY <1>1 DEF Own, NamedSoFar
    <2>2. Named(fields', GuardsPassed')
      BY <1>5, <1>6, <1>8, <2>1, NamedMore
    <2>3. QED
      BY <2>2 DEF NamedSoFar
  <1>11. Ahead'
    <2>1. Says(fields, GuardsPassed, asked.origin, {}) /\ ~Turned(fields)
      BY <1>1, <1>3 DEF Own, Ahead
    <2>2. Says(fields', GuardsPassed', asked.origin, {})
      BY <1>5, <1>6, <1>7, <1>8, <2>1, SaysMore
    <2>3. ~Turned(set)
      BY <1>6, <1>8, OwnFields
    <2>4. ~Turned(fields')
      BY <1>8, <2>1, <2>3, NotTurned
    <2>5. QED
      BY <1>4, <2>2, <2>4 DEF Ahead
  <1>12. UNCHANGED <<workerVars, script>>
    BY DEF Passes
  <1>13. QED
    BY <1>1, <1>2, <1>3, <1>9, <1>10, <1>11, <1>12, StillOpen

LEMMA SinksKept == ASSUME IInv, Sinks PROVE Own'
  <1>1. Own
    BY DEF IInv
  <1>2. \A r : GuardsOf(r)' = GuardsOf(r)
    BY DEF Sinks, GuardsOf
  <1>3. GuardsPassed' = GuardsPassed
    BY <1>2 DEF Sinks, GuardsPassed
  <1>4. UNCHANGED <<asked, fields, data>>
    BY DEF Sinks, workerVars
  <1>5. LetIn' /\ NamedSoFar' /\ Ahead'
    BY <1>1, <1>3, <1>4 DEF Own, LetIn, NamedSoFar, Ahead
  <1>6. QED
    BY <1>1, <1>5, StillOpen DEF Sinks, Open

LEMMA StopsKept == ASSUME IInv, Stops PROVE Own'
  <1>1. Own /\ WayProofs!IInv /\ Built(app)
    BY ServiceAssumption DEF IInv
  <1>2. /\ GuardsPassed' = GuardsPassed /\ OnTheWay' = OnTheWay /\ asked' = asked
        /\ UNCHANGED <<workerVars, fields, sent>>
    BY StaysSame DEF Stops
  <1>3. step = "guards" /\ step' \notin {"idle", "guards"}
    BY DEF Stops, Closes
  <1>4. data = <<>> /\ script = <<>>
    BY <1>1, <1>3, OpenQuiet DEF Open
  <1>5. data' = <<>>
    BY <1>2, <1>4 DEF workerVars
  <1>6. Flowing'
    BY <1>1, <1>2, FlowingSame DEF Own
  <1>7. Quiet' /\ Headed'
    BY <1>3, <1>5 DEF Quiet, Open, Headed
  <1>8. LetIn' /\ NamedSoFar' /\ Ahead'
    BY <1>1, <1>2, <1>4 DEF Own, LetIn, NamedSoFar, Ahead
  <1>9. Greeted'
    <2>1. {Version, Date} \subseteq ToSet(GuardsPassed)
      BY <1>1, Greets DEF Stops, Behind
    <2>2. QED
      BY <1>2, <2>1 DEF Greeted
  <1>10. CASE script' = script
    <2>1. Scripted' /\ Cleared'
      BY <1>1, <1>4, <1>10 DEF Own, Scripted, Cleared
    <2>2. QED
      BY <1>6, <1>7, <1>8, <1>9, <2>1 DEF Own
  <1>11. CASE Paths!Guarded /\ script' \in Seq(Calls)
    <2>1. OnTheWay \subseteq ToSet(GuardsPassed)
      BY <1>1, <1>11, GuardedView, AllPassed
    <2>2. Scripted' /\ Cleared'
      BY <1>2, <1>11, <2>1 DEF Scripted, Cleared
    <2>3. QED
      BY <1>6, <1>7, <1>8, <1>9, <2>2 DEF Own
  <1>12. QED
    BY <1>10, <1>11 DEF Stops

(* Where the header is already written, nothing changes it.                *)
LEMMA AnswerStands ==
  ASSUME data # <<>>, step # "idle" /\ step' # "idle", Keeps \/ \E codes : Adds(codes), Headed, Stays, Serializes
  PROVE  Headed'
  <1>1. data'[1] = data[1] /\ data' # <<>>
    BY DEF Keeps, Adds, Grown
  <1>2. sent' = sent
    BY DEF Serializes
  <1>3. GuardsPassed' = GuardsPassed /\ asked' = asked /\ Refusing(OnTheWay)' = Refusing(OnTheWay)
    BY StaysSame
  <1>4. Told' <=> Told
    BY <1>1 DEF Told
  <1>5. Muted' = Muted
    BY <1>4 DEF Muted
  <1>6. /\ Marked'
        /\ Told' <=> Turned(sent')
        /\ Told' => Refusing(OnTheWay)' # {}
        /\ Says(sent', GuardsPassed', asked'.origin, Muted')
    BY <1>2, <1>3, <1>4, <1>5 DEF Headed, Marked
  <1>7. QED
    BY <1>6 DEF Headed

LEMMA SpurnsKept == ASSUME IInv, Spurns PROVE Own'
  <1>1. Own /\ WayProofs!IInv
    BY DEF IInv
  <1>2. /\ GuardsPassed' = GuardsPassed /\ OnTheWay' = OnTheWay /\ asked' = asked
        /\ UNCHANGED <<script, fields>> /\ step = "idle" /\ step' = "idle"
    BY StaysSame DEF Spurns
  <1>3. data = <<>> /\ script = <<>> /\ fields = NoFields
    BY <1>1, <1>2, OpenQuiet DEF Spurns, Own, Quiet, Open
  <1>4. Flowing' /\ Quiet' /\ Scripted' /\ LetIn' /\ Cleared' /\ Greeted' /\ NamedSoFar'
    BY <1>1, <1>2, <1>3
    DEF Spurns, Own, Quiet, Open, Scripted, LetIn, Cleared, Greeted, NamedSoFar
  <1>5. Says(fields, GuardsPassed, asked.origin, {}) /\ ~Turned(fields)
    BY <1>1, <1>3 DEF Own, Ahead
  <1>6. Ahead'
    BY <1>2, <1>5 DEF Ahead
  <1>7. ASSUME data' # <<>> PROVE Headed'
    <2>1. Adds(Plainly)
      BY <1>3, <1>7 DEF Spurns, Keeps
    <2>2. PICK h : Grown(data, data', h) /\ h.status \in Plainly
      BY <1>3, <2>1 DEF Adds
    <2>3. data'[1] = h
      BY <1>3, <2>2 DEF Grown
    <2>4. ~Told'
      BY <2>2, <2>3, Codes, PlainCodes DEF Told
    <2>5. sent' = fields
      BY <1>2, <1>3, <1>7 DEF Spurns, Serializes
    <2>6. Muted' = {}
      BY <2>4 DEF Muted
    <2>7. /\ sent' = NoFields
          /\ Told' <=> Turned(sent')
          /\ Told' => Refusing(OnTheWay)' # {}
          /\ Says(sent', GuardsPassed', asked'.origin, Muted')
      BY <1>2, <1>3, <1>5, <2>4, <2>5, <2>6
    <2>8. QED
      BY <1>2, <2>7 DEF Headed
  <1>8. Headed'
    BY <1>7 DEF Headed
  <1>9. QED
    BY <1>4, <1>6, <1>8 DEF Own

LEMMA SpeaksKept == ASSUME IInv, Speaks PROVE Own'
  <1>1. Own /\ WayProofs!IInv /\ Built(app)
    BY ServiceAssumption DEF IInv
  <1>2. /\ GuardsPassed' = GuardsPassed /\ OnTheWay' = OnTheWay /\ asked' = asked
        /\ script' = script
    BY StaysSame DEF Speaks
  <1>3. step' \notin {"idle", "guards"}
    BY DEF Speaks, Closes
  <1>4. Flowing' /\ Quiet' /\ Scripted' /\ LetIn' /\ Cleared'
    BY <1>1, <1>2, <1>3 DEF Speaks, Own, Quiet, Open, Scripted, LetIn, Cleared
  <1>5. {Version, Date} \subseteq ToSet(GuardsPassed)
    <2>1. CASE step' = step /\ step \notin {"idle", "guards"}
      BY <1>1, <2>1 DEF Own, Greeted
    <2>2. CASE Behind
      BY <1>1, <2>2, Greets DEF Behind
    <2>3. QED
      BY <2>1, <2>2 DEF Speaks
  <1>6. Greeted'
    BY <1>2, <1>5 DEF Greeted
  <1>7. Like(fields, fields')
    BY DEF Speaks
  <1>8. Named(fields', GuardsPassed)
    BY <1>1, <1>7, LikeSays DEF Own, NamedSoFar
  <1>9. NamedSoFar'
    BY <1>2, <1>8 DEF NamedSoFar
  <1>10. CASE data = <<>>
    <2>1. Says(fields, GuardsPassed, asked.origin, {}) /\ ~Turned(fields)
      BY <1>1, <1>10 DEF Own, Ahead
    <2>2. Says(fields', GuardsPassed, asked.origin, {}) /\ ~Turned(fields')
      BY <1>7, <2>1, LikeSays
    <2>3. Ahead'
      BY <1>2, <2>2 DEF Ahead
    <2>4. ASSUME data' # <<>> PROVE Headed'
      <3>1. Adds(Politely)
        BY <1>10, <2>4 DEF Speaks, Keeps
      <3>2. PICK h : Grown(data, data', h) /\ h.status \in Politely
        BY <1>10, <3>1 DEF Adds
      <3>3. data'[1] = h
        BY <1>10, <3>2 DEF Grown
      <3>4. ~Told'
        BY <3>2, <3>3, Codes DEF Told
      <3>5. sent' = fields'
        BY <1>10, <2>4 DEF Speaks, Serializes
      <3>6. {"expresso", "date"} \subseteq DOMAIN fields'
        BY <1>5, <1>8 DEF Named
      <3>7. Muted' = {}
        BY <3>4 DEF Muted
      <3>8. /\ Marked'
            /\ Told' <=> Turned(sent')
            /\ Told' => Refusing(OnTheWay)' # {}
            /\ Says(sent', GuardsPassed', asked'.origin, Muted')
        BY <1>2, <2>2, <3>4, <3>5, <3>6, <3>7 DEF Marked
      <3>9. QED
        BY <1>3, <3>8 DEF Headed
    <2>5. Headed'
      BY <2>4 DEF Headed
    <2>6. QED
      BY <1>4, <1>6, <1>9, <2>3, <2>5 DEF Own
  <1>11. CASE data # <<>>
    <2>1. Keeps \/ \E codes : Adds(codes)
      BY DEF Speaks
    <2>2. step # "idle" /\ step' # "idle"
      BY <1>3 DEF Speaks, Closes
    <2>6. Headed'
      BY <1>1, <1>11, <2>1, <2>2, AnswerStands DEF Speaks, Own
    <2>3. data' # <<>>
      BY <1>11, <2>1, AddsTyped DEF Keeps
    <2>4. Ahead'
      BY <2>3 DEF Ahead
    <2>5. QED
      BY <1>4, <1>6, <1>9, <2>4, <2>6 DEF Own
  <1>12. QED
    BY <1>10, <1>11

LEMMA ForbidsKept == ASSUME IInv, Forbids PROVE Own'
  <1>1. Own /\ WayProofs!IInv /\ Built(app)
    BY ServiceAssumption DEF IInv
  <1>2. /\ GuardsPassed' = GuardsPassed /\ OnTheWay' = OnTheWay /\ asked' = asked
        /\ Refusing(OnTheWay)' = Refusing(OnTheWay)
        /\ script' = script
    BY StaysSame DEF Forbids
  <1>3. step = "guards" /\ step' \notin {"idle", "guards"} /\ Paths!HasGuard
    BY DEF Forbids, Closes
  <1>4. data = <<>>
    BY <1>1, <1>3, OpenQuiet DEF Open
  <1>5. Flowing' /\ Quiet' /\ Scripted' /\ LetIn' /\ Cleared'
    BY <1>1, <1>2, <1>3 DEF Forbids, Own, Quiet, Open, Scripted, LetIn, Cleared
  <1>6. Guard.kind = "cors" /\ ~LetsIn(Guard, asked.origin)
    BY DEF Forbids
  <1>7. {Version, Date} \subseteq ToSet(GuardsPassed)
    <2>1. Guard.kind \notin {"version", "date"}
      BY <1>6
    <2>2. QED
      BY <1>1, <1>3, <2>1, Greets
  <1>8. Greeted'
    BY <1>2, <1>7 DEF Greeted
  <1>9. PICK set : set = Field("allow-origin", Null)
    OBVIOUS
  <1>10. DOMAIN set = {"allow-origin"} /\ set["allow-origin"] = Null
    BY <1>9, FieldIs
  <1>11. PICK new : new = Set(set, fields)
    OBVIOUS
  <1>12. /\ DOMAIN new = DOMAIN set \cup DOMAIN fields
         /\ \A name \in DOMAIN set : new[name] = set[name]
    BY <1>11 DEF Set
  <1>13. fields' = new /\ Serializes
    BY <1>9, <1>11 DEF Forbids
  <1>14. Named(new, GuardsPassed)
    BY <1>1, <1>12 DEF Own, NamedSoFar, Named
  <1>15. NamedSoFar'
    BY <1>2, <1>13, <1>14 DEF NamedSoFar
  <1>16. Says(new, GuardsPassed, asked.origin, {"cors"})
    <2>1. Says(fields, GuardsPassed, asked.origin, {})
      BY <1>1, <1>4 DEF Own, Ahead
    <2>2. \A name \in DOMAIN set : Owner(name) = "cors"
      BY <1>10 DEF Owner
    <2>3. \A guard \in ToSet(GuardsPassed) :
            guard.kind = "cors" => \A p \in guard.origins : Tail(p) # Null
      BY <1>1, PassedGuards
    <2>4. QED
      BY <1>11, <2>1, <2>2, <2>3, SaysBut
  <1>17. PICK h : Grown(data, data', h) /\ h.status = Worker!FORBIDDEN
    BY <1>4 DEF Forbids, Adds
  <1>18. data' # <<>> /\ data'[1] = h
    BY <1>4, <1>17 DEF Grown
  <1>19. Told'
    BY <1>17, <1>18 DEF Told
  <1>20. sent' = new
    BY <1>4, <1>13, <1>18 DEF Serializes
  <1>21. Guard \in Refusing(OnTheWay)
    BY <1>1, <1>3, <1>6, GuardView DEF Refusing
  <1>22. Headed'
    <2>1. {"expresso", "date"} \subseteq DOMAIN new
      BY <1>7, <1>14 DEF Named
    <2>2. Turned(new)
      BY <1>10, <1>12 DEF Turned
    <2>3. Muted' = {"cors"}
      BY <1>19 DEF Muted
    <2>4. /\ Marked'
          /\ Told' <=> Turned(sent')
          /\ Told' => Refusing(OnTheWay)' # {}
          /\ Says(sent', GuardsPassed', asked'.origin, Muted')
      BY <1>2, <1>16, <1>19, <1>20, <1>21, <2>1, <2>2, <2>3 DEF Marked
    <2>5. QED
      BY <1>3, <2>4 DEF Headed
  <1>23. Ahead'
    BY <1>18 DEF Ahead
  <1>24. QED
    BY <1>5, <1>8, <1>15, <1>22, <1>23 DEF Own

LEMMA IdlesKept == ASSUME IInv, Idles PROVE Own'
  <1>1. Own
    BY DEF IInv
  <1>2. /\ GuardsPassed' = GuardsPassed /\ OnTheWay' = OnTheWay /\ asked' = asked
        /\ Refusing(OnTheWay)' = Refusing(OnTheWay)
    BY StaysSame DEF Idles, Stays
  <1>3. UNCHANGED <<step, stage, fields, script, sent, data>>
    BY DEF Idles, workerVars
  <1>4. Flowing'
    BY <1>1, FlowingSame DEF Own, Idles
  <1>5. Quiet' /\ Scripted' /\ LetIn' /\ Cleared' /\ Greeted' /\ NamedSoFar' /\ Ahead'
    BY <1>1, <1>2, <1>3
    DEF Own, Quiet, Open, Scripted, LetIn, Cleared, Greeted, NamedSoFar, Ahead
  <1>6. Told' <=> Told
    BY <1>3 DEF Told
  <1>7. Muted' = Muted
    BY <1>6 DEF Muted
  <1>8. Headed'
    BY <1>1, <1>2, <1>3, <1>6, <1>7 DEF Own, Headed, Marked
  <1>9. QED
    BY <1>4, <1>5, <1>8 DEF Own


-----------------------------------------------------------------------------
(* The theorems.                                                           *)

LEMMA InitOwn == ASSUME Init PROVE Own
  <1>1. /\ data = <<>> /\ script = <<>> /\ passed = <<>> /\ step = "idle"
        /\ fields = NoFields
        /\ hasEnded = FALSE /\ stage = "handling" /\ status = Worker!OK
        /\ message = 0 /\ calls = 0
    BY DEF Init, Worker!Init
  <1>2. PICK none : none = <<>>
    OBVIOUS
  <1>3. none \in Seq(Calls) /\ none \in Seq(ToSet(none))
    <2>1. \A S : <<>> \in Seq(S)
      OBVIOUS
    <2>2. QED
      BY <1>2, <2>1
  <1>4. Flowing /\ Scripted
    BY <1>1, <1>2, <1>3 DEF Flowing, Scripted
  <1>5. DOMAIN GuardsPassed = {} /\ DOMAIN fields = {}
    BY <1>1 DEF GuardsPassed, NoFields
  <1>6. ToSet(GuardsPassed) = {}
    BY <1>5 DEF ToSet
  <1>7. Quiet /\ Cleared /\ Greeted /\ Headed
    BY <1>1 DEF Quiet, Cleared, Greeted, Headed
  <1>8. LetIn /\ NamedSoFar
    BY <1>6 DEF LetIn, AllIn, NamedSoFar, Named
  <1>9. Ahead
    BY <1>5 DEF Ahead, Says, Turned
  <1>10. QED
    BY <1>4, <1>7, <1>8, <1>9 DEF Own

LEMMA OwnKept == ASSUME IInv, [Next]_vars PROVE Own'
  BY Shapes, BeginsKept, SpurnsKept, PassesKept, SinksKept, StopsKept, SpeaksKept,
     ForbidsKept, IdlesKept

LEMMA Invariance == Spec => []IInv
  <1>1. Init => IInv
    BY WayInit, InitOwn DEF Init, IInv
  <1>2. IInv /\ [Next]_vars => IInv'
    <2>1. SUFFICES ASSUME IInv, [Next]_vars PROVE IInv'
      OBVIOUS
    <2>2. app' = app
      BY <2>1, WorkersStep DEF Next, vars
    <2>3. QED
      BY <2>1, <2>2, WayKept, OwnKept DEF IInv
  <1>3. QED
    BY <1>1, <1>2, PTL DEF Spec

(* Every guard on the way has been passed where a handler is chosen or     *)
(* nobody wants the request.                                               *)
LEMMA DoneView ==
  ASSUME WayProofs!IInv, Built(app), step \in {"handled", "notFound"}
  PROVE  OnTheWay \subseteq ToSet(GuardsPassed)
  <1>1. SUFFICES ASSUME NEW i \in 1..Len(trail)
                 PROVE  trail[i].index >= Len(GuardsOf(trail[i].router))
    BY AllPassed
  <1>2. trail[i].index = Len(GuardsOf(trail[i].router)) /\ trail[i].index \in Nat
    BY InnerDone, TrailView
  <1>3. QED
    BY <1>2

(* So has every guard that stands in front of the one that has refused.    *)
LEMMA AheadPassed ==
  ASSUME WayProofs!IInv, Built(app)
  PROVE  GuardsAhead \subseteq ToSet(GuardsPassed)
  <1>1. SUFFICES ASSUME NEW i \in 1..Len(trail),
                        NEW n \in DOMAIN GuardsOf(trail[i].router), StandsAhead(i, n)
                 PROVE  GuardsOf(trail[i].router)[n] \in ToSet(GuardsPassed)
    BY TrailView DEF GuardsAhead
  <1>2. trail[i].router \in Routers /\ trail[i].index \in Nat
    BY TrailView
  <1>3. PICK guards : guards = GuardsOf(trail[i].router)
    OBVIOUS
  <1>4. guards \in Seq(Guards)
    BY <1>2, <1>3, GuardsTyped
  <1>5. Len(guards) \in Nat /\ DOMAIN guards = 1..Len(guards)
    BY <1>4, LenProperties
  <1>6. n \in 1..trail[i].index
    <2>1. i < Len(trail) => trail[i].index = Len(guards)
      BY <1>3, InnerDone
    <2>2. QED
      BY <1>1, <1>2, <1>3, <1>5, <2>1 DEF StandsAhead
  <1>7. QED
    BY <1>6, WhoPassed

-----------------------------------------------------------------------------
(* What getRange reads in a Range header: of texts and their numerals as   *)
(* RequestProofs has it.                                                   *)

Reading == INSTANCE RequestProofs WITH
  Messages <- {}, IntMax <- 0, SizeMax <- 1, sent <- 0, message <- <<>>,
  finished <- FALSE, silent <- FALSE, readBuffer <- <<>>, step <- 0, contentLength <- 0, fields <- <<>>,
  queries <- <<>>, start <- 1, body <- <<>>

(* These lemmas hold of Strings alone; here they have no requests to speak *)
(* of, and what their texts are cut by is what ours are cut by.            *)
LEMMA ReadingHolds == Reading!RequestAssumption
  BY DEF Reading!RequestAssumption

LEMMA SameReading ==
  /\ \A s, c : Cuts(s, c) = Reading!Cuts(s, c)
  /\ \A s, c : Split(s, c) = Reading!Split(s, c)
  /\ \A chars, s : LeadingIn(chars, s) = Reading!LeadingIn(chars, s)
  /\ \A digits : Binary(digits) = Reading!Binary(digits)
  /\ \A s : ReadNumeral(s) = Reading!ReadNumeral(s)
  <1>1. \A s, c : Cuts(s, c) = Reading!Cuts(s, c)
    BY DEF Cuts, Reading!Cuts
  <1>2. \A s, c : Split(s, c) = Reading!Split(s, c)
    <2>1. \A T : Cardinality(T) = Reading!Cardinality(T)
      BY Zenon DEF Cardinality, Reading!Cardinality
    <2>2. \A T, i : Below(T, i) = Reading!Below(T, i)
      BY <2>1, Zenon DEF Below, Reading!Below
    <2>3. \A T, n : Nth(T, n) = Reading!Nth(T, n)
      BY <2>2, Zenon DEF Nth, Reading!Nth
    <2>4. QED
      BY <1>1, <2>1, <2>3, Zenon DEF Split, Reading!Split
  <1>3. \A chars, s : LeadingIn(chars, s) = Reading!LeadingIn(chars, s)
    BY Zenon DEF LeadingIn, Reading!LeadingIn
  <1>4. \A digits : Binary(digits) = Reading!Binary(digits)
    BY Zenon DEF Binary, Reading!Binary
  <1>5. \A s : ReadNumeral(s) = Reading!ReadNumeral(s)
    BY <1>3, <1>4, Zenon DEF ReadNumeral, Reading!ReadNumeral, Unblanked, Reading!Unblanked, Blank, Reading!Blank, IsPrefix, Reading!IsPrefix
  <1>6. QED
    BY <1>1, <1>2, <1>3, <1>4, <1>5

(* A text of digits is read to its end.                                    *)
LEMMA DigitsRead ==
  ASSUME NEW d \in Seq({"0", "1"})
  PROVE  /\ ReadNumeral(d).found <=> d # <<>>
         /\ ReadNumeral(d).value = ReadNumeral(d).size
         /\ ReadNumeral(d).size \in Nat
  <1>1. Len(d) \in Nat /\ \A i \in 1..Len(d) : d[i] \in {"0", "1"}
    BY LenProperties, ElementOfSeq
  <1>2. SubSeq(d, 1, Len(d)) = d
    BY <1>1, SubSeqFull
  <1>3. LeadingIn({Blank}, d) = 0
    <2>1. Len(d) = 0 \/ d[0 + 1] \notin {Blank}
      <3>1. Blank # "0" /\ Blank # "1"
        BY DEF Blank
      <3>2. Len(d) # 0 => d[1] \in {"0", "1"}
        BY <1>1
      <3>3. QED
        BY <3>1, <3>2
    <2>2. Reading!Skipped(0, {Blank}, d)
      BY <1>1, <2>1 DEF Reading!Skipped
    <2>3. QED
      BY <1>1, <2>2, SameReading, ReadingHolds, Reading!LeadingSkipped, Reading!SkippedOnce
  <1>4. Unblanked(d) = d
    <2>1. LeadingIn({Blank}, d) + 1 = 1
      BY <1>3
    <2>2. QED
      BY <1>2, <2>1, Zenon DEF Unblanked
  <1>5. ~IsPrefix(<<"-">>, d)
    <2>1. SUFFICES ASSUME Len(<<"-">>) <= Len(d), SubSeq(<<"-">>, 1, 1) = SubSeq(d, 1, 1)
                   PROVE  FALSE
      BY DEF IsPrefix
    <2>2. SubSeq(<<"-">>, 1, 1)[1] = "-"
      OBVIOUS
    <2>3. SubSeq(d, 1, 1)[1] = d[1] /\ 1 \in 1..Len(d)
      BY <1>1, <2>1
    <2>4. QED
      BY <1>1, <2>1, <2>2, <2>3
  <1>6. LeadingIn({"0", "1"}, d) = Len(d)
    <2>1. Reading!Skipped(Len(d), {"0", "1"}, d)
      BY <1>1 DEF Reading!Skipped
    <2>2. QED
      BY <1>1, <2>1, SameReading, ReadingHolds, Reading!LeadingSkipped, Reading!SkippedOnce
  <1>7. Binary(d) \in Nat
    BY <1>1, SameReading, ReadingHolds, Reading!BinaryRead
  <1>8. ReadNumeral(d) = [found |-> d # <<>>, size |-> Binary(d), value |-> Binary(d)]
    BY <1>2, <1>4, <1>5, <1>6 DEF ReadNumeral
  <1>9. PICK found, n : found = (d # <<>>) /\ n = Binary(d)
    OBVIOUS
  <1>10. ReadNumeral(d) = [found |-> found, size |-> n, value |-> n]
    BY <1>8, <1>9, Zenon
  <1>11. ReadNumeral(d).found = found /\ ReadNumeral(d).size = n /\ ReadNumeral(d).value = n
    BY <1>10
  <1>12. n \in Nat
    BY <1>7, <1>9, Zenon
  <1>13. QED
    BY <1>9, <1>11, <1>12, Zenon

(* What Reading says of the parts of a text                                *)
LEMMA PartsThere ==
  ASSUME NEW s \in Seq(STRING), NEW c
  PROVE  /\ Len(Split(s, c)) \in Nat /\ Len(Split(s, c)) > 0
         /\ DOMAIN Split(s, c) = 1..Len(Split(s, c))
         /\ Reading!CutAt(s, c, 1) = 0
         /\ Reading!CutAt(s, c, Len(Split(s, c)) + 1) = Len(s) + 1
         /\ \A n \in 1..Len(Split(s, c)) :
              Reading!Parted(s, c, n, Reading!CutAt(s, c, n), Reading!CutAt(s, c, n + 1))
  <1>1. s \in Reading!Text
    BY DEF Reading!Text
  <1>2. PICK m : m = Reading!Cardinality(Reading!Cuts(s, c))
    OBVIOUS
  <1>3. m \in Nat /\ Reading!CutAt(s, c, 1) = 0 /\ Reading!CutAt(s, c, m) = Len(s) + 1
    BY <1>1, <1>2, ReadingHolds, Reading!CutsRead
  <1>4. /\ Len(Reading!Split(s, c)) = m - 1
        /\ Len(Reading!Split(s, c)) \in Nat /\ Len(Reading!Split(s, c)) > 0
        /\ DOMAIN Reading!Split(s, c) = 1..Len(Reading!Split(s, c))
        /\ \A n \in 1..Len(Reading!Split(s, c)) :
              Reading!Parted(s, c, n, Reading!CutAt(s, c, n), Reading!CutAt(s, c, n + 1))
    BY <1>1, <1>2, ReadingHolds, Reading!SplitRead
  <1>5. (m - 1) + 1 = m
    BY <1>3
  <1>6. QED
    BY <1>3, <1>4, <1>5, SameReading

(* A text that is cut in one place                                         *)
LEMMA OneCut ==
  ASSUME NEW s \in Seq(STRING), NEW c, NEW k \in 1..Len(s), s[k] = c,
         \A i \in 1..Len(s) : s[i] = c => i = k
  PROVE  /\ Len(Split(s, c)) = 2
         /\ Split(s, c)[1] = SubSeq(s, 1, k - 1)
         /\ Split(s, c)[2] = SubSeq(s, k + 1, Len(s))
  <1>1. Len(s) \in Nat
    BY LenProperties
  <1>2. PICK m : m = Len(Split(s, c))
    OBVIOUS
  <1>3. /\ m \in Nat /\ m > 0
        /\ Reading!CutAt(s, c, 1) = 0 /\ Reading!CutAt(s, c, m + 1) = Len(s) + 1
        /\ \A n \in 1..m :
             Reading!Parted(s, c, n, Reading!CutAt(s, c, n), Reading!CutAt(s, c, n + 1))
    BY <1>2, PartsThere
  <1>4. PICK b : b = Reading!CutAt(s, c, 2)
    OBVIOUS
  <1>5. Reading!Parted(s, c, 1, 0, b)
    BY <1>3, <1>4
  <1>6. b = k
    <2>1. /\ b \in 1..Len(s) + 1 /\ (b # Len(s) + 1 => s[b] = c)
          /\ \A i \in 1..b - 1 : s[i] # c
      BY <1>5 DEF Reading!Parted
    <2>2. ~(k < b)
      BY <1>1, <2>1
    <2>3. b \in 1..Len(s) /\ s[b] = c
      BY <1>1, <2>1, <2>2
    <2>4. QED
      BY <2>3
  <1>7. m # 1
    <2>1. b # Len(s) + 1
      BY <1>1, <1>6
    <2>2. QED
      BY <1>3, <1>4, <2>1
  <1>8. PICK e : e = Reading!CutAt(s, c, 3)
    OBVIOUS
  <1>9. Reading!Parted(s, c, 2, k, e)
    <2>1. 2 \in 1..m /\ 2 + 1 = 3
      BY <1>3, <1>7
    <2>2. QED
      BY <1>3, <1>4, <1>6, <1>8, <2>1
  <1>10. e = Len(s) + 1
    <2>1. e \in k + 1 .. Len(s) + 1 /\ (e # Len(s) + 1 => s[e] = c)
      BY <1>9 DEF Reading!Parted
    <2>2. e # Len(s) + 1 => e \in 1..Len(s) /\ s[e] = c /\ e # k
      BY <1>1, <2>1
    <2>3. QED
      BY <2>2
  <1>11. m = 2
    <2>1. SUFFICES ASSUME m # 2 PROVE FALSE
      OBVIOUS
    <2>2. 3 \in 1..m
      BY <1>3, <1>7, <2>1
    <2>3. Reading!Parted(s, c, 3, e, Reading!CutAt(s, c, 3 + 1))
      BY <1>3, <1>8, <2>2
    <2>4. e \in 0..Len(s)
      BY <2>3 DEF Reading!Parted
    <2>5. QED
      BY <1>1, <1>10, <2>4
  <1>12. /\ Reading!Split(s, c)[1] = SubSeq(s, 0 + 1, k - 1)
         /\ Reading!Split(s, c)[2] = SubSeq(s, k + 1, (Len(s) + 1) - 1)
    BY <1>5, <1>6, <1>9, <1>10 DEF Reading!Parted
  <1>13. 0 + 1 = 1 /\ (Len(s) + 1) - 1 = Len(s)
    BY <1>1
  <1>14. QED
    BY <1>2, <1>11, <1>12, <1>13, SameReading

(* A text that has two parts was cut in one place.                         *)
LEMMA TwoParts ==
  ASSUME NEW s \in Seq(STRING), NEW c, Len(Split(s, c)) = 2
  PROVE  \E k \in 1..Len(s) :
           /\ s[k] = c
           /\ Split(s, c)[1] = SubSeq(s, 1, k - 1)
           /\ Split(s, c)[2] = SubSeq(s, k + 1, Len(s))
  <1>1. Len(s) \in Nat
    BY LenProperties
  <1>2. PICK k : k = Reading!CutAt(s, c, 2)
    OBVIOUS
  <1>3. Reading!Parted(s, c, 1, 0, k) /\ Reading!Parted(s, c, 2, k, Len(s) + 1)
    <2>1. 1 \in 1..2 /\ 2 \in 1..2 /\ 1 + 1 = 2 /\ 2 + 1 = 3
      OBVIOUS
    <2>2. /\ Reading!CutAt(s, c, 1) = 0 /\ Reading!CutAt(s, c, 2 + 1) = Len(s) + 1
          /\ \A n \in 1..2 :
               Reading!Parted(s, c, n, Reading!CutAt(s, c, n), Reading!CutAt(s, c, n + 1))
      BY PartsThere
    <2>3. QED
      BY <1>2, <2>1, <2>2
  <1>4. k \in 0..Len(s) /\ k \in 0 + 1..Len(s) + 1 /\ (k # Len(s) + 1 => s[k] = c)
    BY <1>3 DEF Reading!Parted
  <1>5. k \in 1..Len(s) /\ s[k] = c
    BY <1>1, <1>4
  <1>6. /\ Reading!Split(s, c)[1] = SubSeq(s, 0 + 1, k - 1)
        /\ Reading!Split(s, c)[2] = SubSeq(s, k + 1, (Len(s) + 1) - 1)
    BY <1>3 DEF Reading!Parted
  <1>7. 0 + 1 = 1 /\ (Len(s) + 1) - 1 = Len(s)
    BY <1>1
  <1>8. QED
    BY <1>5, <1>6, <1>7, SameReading

(* A numeral's value as stoll reads it; no numeral is -1.                  *)
LEMMA StollRead ==
  ASSUME NEW d \in Seq({"0", "1"})
  PROVE  /\ ValueOf(d) \in Nat
         /\ Stoll(d) = IF d # <<>> /\ ValueOf(d) <= LongMax THEN ValueOf(d) ELSE -1
  <1>1. PICK n : n = ReadNumeral(d)
    OBVIOUS
  <1>2. (n.found <=> d # <<>>) /\ n.value = n.size /\ n.size \in Nat
    BY <1>1, DigitsRead
  <1>3. ValueOf(d) = n.value
    BY <1>1 DEF ValueOf
  <1>4. Stoll(d) = IF n.found /\ n.size <= LongMax THEN n.value ELSE -1
    BY <1>1 DEF Stoll
  <1>5. QED
    BY <1>2, <1>3, <1>4

(* What getRange makes of a header that RFC 9110 allows                    *)
Limited(range, first, last) ==
  /\ first \in Nat
  /\ range.start = IF first <= LongMax THEN first ELSE -1
  /\ \/ first > LongMax /\ range.end = -1
     \/ first <= LongMax /\ last = <<>> /\ range.end = -1
     \/ /\ first <= LongMax /\ last # <<>>
        /\ ValueOf(last) \in Nat /\ first <= ValueOf(last)
        /\ range.end = IF ValueOf(last) <= LongMax THEN ValueOf(last) ELSE -1

(* A header's limits, and that the unit is read as what comes before them  *)
LEMMA LimitsRead ==
  ASSUME NEW text, SingleRange(text), NEW limits, limits = Split(Tail(text), "-")
  PROVE  /\ Len(limits) = 2
         /\ limits[1] \in Seq({"0", "1"}) /\ limits[1] # <<>>
         /\ limits[2] \in Seq({"0", "1"})
         /\ limits[2] # <<>> => ValueOf(limits[1]) <= ValueOf(limits[2])
  <1>1. /\ Len(limits) = 2
        /\ limits[1] \in Numerals
        /\ \/ limits[2] = <<>>
           \/ /\ limits[2] \in Numerals
              /\ ValueOf(limits[1]) <= ValueOf(limits[2])
    BY Zenon DEF SingleRange
  <1>2. <<>> \in Seq({"0", "1"})
    OBVIOUS
  <1>3. QED
    BY <1>1, <1>2, Zenon DEF Numerals

LEMMA HeaderCut ==
  ASSUME NEW text \in Seq(STRING), SingleRange(text)
  PROVE  /\ Len(Split(text, "bytes=")) = 2
         /\ Split(text, "bytes=")[2] = Tail(text)
  <1>1. Len(text) \in Nat /\ Len(text) > 2 /\ text[1] = "bytes="
    BY LenProperties DEF SingleRange
  <1>2. PICK t : t = Tail(text)
    OBVIOUS
  <1>3. /\ t \in Seq(STRING) /\ Len(t) = Len(text) - 1
        /\ \A i \in 1..Len(t) : t[i] = text[i + 1]
    <2>1. text # <<>>
      BY <1>1
    <2>2. QED
      BY <1>2, <2>1, HeadTailProperties
  <1>4. t = SubSeq(text, 1 + 1, Len(text))
    BY <1>1, <1>2
  <1>5. PICK one, two : one = Split(t, "-")[1] /\ two = Split(t, "-")[2]
    OBVIOUS
  <1>6. /\ Len(Split(t, "-")) = 2
        /\ one \in Seq({"0", "1"}) /\ two \in Seq({"0", "1"})
    BY <1>2, <1>5, LimitsRead
  <1>7. PICK k \in 1..Len(t) :
          t[k] = "-" /\ one = SubSeq(t, 1, k - 1) /\ two = SubSeq(t, k + 1, Len(t))
    BY <1>3, <1>5, <1>6, TwoParts
  <1>8. ASSUME NEW i \in 1..Len(t) PROVE t[i] # "bytes="
    <2>1. i \in Nat /\ k \in Nat /\ Len(t) \in Nat /\ t \in Reading!Text
      BY <1>1, <1>3 DEF Reading!Text
    <2>2. CASE i < k
      <3>1. /\ Len(one) = (k - 1) - 1 + 1
            /\ \A j \in 1..(k - 1) - 1 + 1 : one[j] = t[1 + j - 1]
        BY <1>7, <2>1, <2>2, ReadingHolds, Reading!SubText
      <3>2. i \in 1..Len(one) /\ i \in 1..(k - 1) - 1 + 1 /\ 1 + i - 1 = i
        BY <2>1, <2>2, <3>1
      <3>3. one[i] \in {"0", "1"}
        BY <1>6, <3>2, ElementOfSeq
      <3>4. QED
        BY <3>1, <3>2, <3>3
    <2>3. CASE i > k
      <3>1. /\ Len(two) = Len(t) - (k + 1) + 1
            /\ \A j \in 1..Len(t) - (k + 1) + 1 : two[j] = t[(k + 1) + j - 1]
        BY <1>7, <2>1, <2>3, ReadingHolds, Reading!SubText
      <3>2. PICK j : j = i - k
        OBVIOUS
      <3>3. j \in 1..Len(two) /\ j \in 1..Len(t) - (k + 1) + 1 /\ (k + 1) + j - 1 = i
        BY <2>1, <2>3, <3>1, <3>2
      <3>4. two[j] \in {"0", "1"}
        BY <1>6, <3>3, ElementOfSeq
      <3>5. QED
        BY <3>1, <3>3, <3>4
    <2>4. QED
      BY <1>7, <2>1, <2>2, <2>3
  <1>9. ASSUME NEW i \in 1..Len(text), text[i] = "bytes=" PROVE i = 1
    <2>1. SUFFICES ASSUME i # 1 PROVE FALSE
      OBVIOUS
    <2>2. i - 1 \in 1..Len(t) /\ (i - 1) + 1 = i
      BY <1>1, <1>3, <2>1
    <2>3. text[i] # "bytes="
      BY <1>3, <1>8, <2>2
    <2>4. QED
      BY <1>9, <2>3
  <1>10. 1 \in 1..Len(text)
    BY <1>1
  <1>11. QED
    BY <1>1, <1>2, <1>4, <1>9, <1>10, OneCut

LEMMA RangeRead ==
  ASSUME NEW text \in Seq(STRING), SingleRange(text)
  PROVE  Limited(GetRange(text), FirstOf(text), Split(Tail(text), "-")[2])
  <1>1. PICK limits : limits = Split(Tail(text), "-")
    OBVIOUS
  <1>2. /\ Len(limits) = 2
        /\ limits[1] \in Seq({"0", "1"}) /\ limits[1] # <<>>
        /\ limits[2] \in Seq({"0", "1"})
        /\ limits[2] # <<>> => ValueOf(limits[1]) <= ValueOf(limits[2])
    BY <1>1, LimitsRead
  <1>3. PICK first, last : first = ValueOf(limits[1]) /\ last = ValueOf(limits[2])
    OBVIOUS
  <1>4. /\ first \in Nat /\ last \in Nat
        /\ Stoll(limits[1]) = IF first <= LongMax THEN first ELSE -1
        /\ Stoll(limits[2]) = IF limits[2] # <<>> /\ last <= LongMax THEN last ELSE -1
    BY <1>2, <1>3, StollRead
  <1>5. EndIn(limits) = Stoll(limits[2])
    BY <1>2 DEF EndIn
  <1>6. PICK start : start = Stoll(limits[1])
    OBVIOUS
  <1>7. GetRange(text) = IF start = -1 THEN [start |-> -1, end |-> -1]
                         ELSE [start |-> start, end |-> EndIn(limits)]
    BY <1>1, <1>6, HeaderCut DEF GetRange
  <1>8. LongMax \in Nat
    BY ServiceAssumption
  <1>9. FirstOf(text) = first
    BY <1>1, <1>3 DEF FirstOf
  <1>10. QED
    BY <1>1, <1>2, <1>3, <1>4, <1>5, <1>6, <1>7, <1>8, <1>9 DEF Limited

-----------------------------------------------------------------------------
(* The file                                                                *)

(* What sendFile was asked for is what it did, and once it has, nothing    *)
(* that follows is about the file.                                         *)
Sliced ==
  LET range == GetRange(asked.range)
  IN  /\ Worker!InRange(range.start, range.end, size)
      /\ region = Worker!Slice(range.start, range.end, size)
      /\ data[1].status = IF Worker!IsPartial(range.start, range.end)
                          THEN Worker!PARTIAL_CONTENT ELSE Worker!OK
Beyond ==
  LET range == GetRange(asked.range)
  IN  data[1].status = Worker!RANGE_NOT_SATISFIABLE =>
        ~Worker!InRange(range.start, range.end, size)
Fetched ==
  /\ asked.range \in Seq(STRING) /\ size \in 0..MaxFile
  /\ data = <<>> => ~region.valid
  /\ data # <<>> => IF region.valid THEN Sliced ELSE Beyond

(* Only sendFile gives the client anything of a file.                      *)
LEMMA RefusedKeepsRegion ==
  ASSUME NEW code, Worker!Refused(code)
  PROVE  region' = region
  BY DEF Worker!Refused, Worker!EndWith

LEMMA EndedKeepsRegion == ASSUME Worker!Ended PROVE region' = region
  BY DEF Worker!Ended, Worker!EndWith, Worker!Ignored

LEMMA CallKeepsRegion ==
  ASSUME NEW call \in Calls, Called(call)
  PROVE  region' = region
  <1>1. \/ Worker!SetStatus(Worker!OK) \/ Worker!Send(MaxMessage)
        \/ Worker!End \/ Worker!SendFiles
    BY DEF Called, Calls
  <1>2. QED
    BY <1>1, EndedKeepsRegion
    DEF Worker!SetStatus, Worker!Send, Worker!End, Worker!SendFiles, Worker!Ignored

LEMMA FileKept ==
  ASSUME Fetched, UNCHANGED <<asked, size, region>>,
         NEW codes, Worker!RANGE_NOT_SATISFIABLE \notin codes, Keeps \/ Adds(codes)
  PROVE  Fetched'
  <1>1. CASE data # <<>>
    <2>1. data' # <<>> /\ data'[1] = data[1]
      BY <1>1 DEF Keeps, Adds, Grown
    <2>2. (Sliced' <=> Sliced) /\ (Beyond' <=> Beyond)
      BY <2>1 DEF Sliced, Beyond
    <2>3. QED
      BY <1>1, <2>1, <2>2 DEF Fetched
  <1>2. CASE data = <<>>
    <2>1. ~region'.valid
      BY <1>2 DEF Fetched
    <2>2. ASSUME data' # <<>> PROVE Beyond'
      <3>1. Adds(codes)
        BY <1>2, <2>2 DEF Keeps
      <3>2. PICK h : Grown(data, data', h) /\ h.status \in codes
        BY <1>2, <3>1 DEF Adds
      <3>3. data'[1] = h
        BY <1>2, <3>2 DEF Grown
      <3>4. QED
        BY <3>2, <3>3 DEF Beyond
    <2>3. QED
      BY <2>1, <2>2 DEF Fetched
  <1>3. QED
    BY <1>1, <1>2

(* Whatever the size of the file is found to be, and whether it is there   *)
LEMMA FileServed == ASSUME Own, Fetched, ServeFile PROVE Fetched'
  <1>1. PICK range : range = GetRange(asked.range)
    OBVIOUS
  <1>2. /\ size' \in 0..MaxFile /\ Worker!SendFile(size', range.start, range.end)
        /\ Refuse(NoFields)
    BY <1>1 DEF ServeFile
  <1>3. asked' = asked /\ step = "guards"
    BY <1>2, RefuseIs DEF Refuse, Closes
  <1>4. data = <<>> /\ ~hasEnded /\ ~region.valid
    <2>1. data = <<>>
      BY <1>3, OpenQuiet DEF Open
    <2>2. QED
      BY <2>1 DEF Own, Flowing, Fetched
  <1>5. GetRange(asked.range)' = range
    BY <1>1, <1>3
  <1>6. ASSUME NEW code, Worker!Refused(code),
               code = Worker!RANGE_NOT_SATISFIABLE =>
                 ~Worker!InRange(range.start, range.end, size')
        PROVE  Fetched'
    <2>1. Adds({code}) /\ data' # <<>>
      BY <1>4, <1>6, RefusedAdds DEF Own
    <2>2. PICK h : Grown(data, data', h) /\ h.status = code
      BY <1>4, <2>1 DEF Adds
    <2>3. data'[1] = h
      BY <1>4, <2>2 DEF Grown
    <2>4. Beyond'
      BY <1>5, <1>6, <2>2, <2>3 DEF Beyond
    <2>5. region' = region
      BY <1>6, RefusedKeepsRegion
    <2>6. QED
      BY <1>2, <1>3, <1>4, <2>1, <2>4, <2>5 DEF Fetched
  <1>7. ASSUME Worker!InRange(range.start, range.end, size'),
               Worker!SendSlice(range.start, range.end, size')
        PROVE  Fetched'
    <2>1. PICK code : code = IF Worker!IsPartial(range.start, range.end)
                             THEN Worker!PARTIAL_CONTENT ELSE status
      OBVIOUS
    <2>2. PICK h : h = Worker!Header(code,
                         {Worker!PromisedLength(range.start, range.end, size')}, chunked)
      OBVIOUS
    <2>3. data' = Append(data, h) /\ region' = Worker!Slice(range.start, range.end, size')
      BY <1>7, <2>1, <2>2 DEF Worker!SendSlice
    <2>4. data' # <<>> /\ data'[1] = h
      BY <1>4, <2>3, OneMore DEF Own, Flowing, Grown
    <2>5. h.status = code
      BY <2>2 DEF Worker!Header
    <2>6. status = Worker!OK
      BY <1>4 DEF Own, Flowing
    <2>7. region'.valid
      BY <2>3 DEF Worker!Slice, Worker!Region
    <2>8. Sliced'
      BY <1>5, <1>7, <2>1, <2>3, <2>4, <2>5, <2>6 DEF Sliced
    <2>9. QED
      BY <1>2, <1>3, <2>4, <2>7, <2>8 DEF Fetched
  <1>8. Worker!NOT_FOUND # Worker!RANGE_NOT_SATISFIABLE
    BY DEF Worker!NOT_FOUND, Worker!RANGE_NOT_SATISFIABLE
  <1>9. QED
    BY <1>2, <1>4, <1>6, <1>7, <1>8 DEF Worker!SendFile

LEMMA RepliesKept ==
  ASSUME Own, Fetched, UNCHANGED <<asked, size>>,
         NEW code \in Plainly \cup {Worker!FORBIDDEN}, Worker!Reply(code)
  PROVE  Fetched'
  <1>1. Keeps \/ Adds({code})
    BY RepliesFlow DEF Own
  <1>2. region' = region
    BY RefusedKeepsRegion DEF Worker!Reply
  <1>3. Worker!RANGE_NOT_SATISFIABLE \notin {code}
    BY PlainCodes
  <1>4. QED
    BY <1>1, <1>2, <1>3, FileKept

(* Steps that leave the response and the request's headers alone           *)
LEMMA FileUntouched ==
  ASSUME Fetched, UNCHANGED <<workerVars, asked, size>>
  PROVE  Fetched'
  <1>1. UNCHANGED <<data, region>>
    BY DEF workerVars
  <1>2. Worker!RANGE_NOT_SATISFIABLE \notin {}
    OBVIOUS
  <1>3. QED
    BY <1>1, <1>2, FileKept DEF Keeps

LEMMA FetchedStep == ASSUME Own, Fetched, [Next]_vars PROVE Fetched'
  <1>1. CASE app' = app /\ Receive
    <2>1. PICK r \in Requests : asked'.range = r.range
      BY <1>1 DEF Receive
    <2>2. asked'.range \in Seq(STRING)
      BY <2>1, ServiceAssumption
    <2>3. step = "idle" /\ stage = "handling" /\ UNCHANGED <<workerVars, size>>
      BY <1>1 DEF Receive, Paths!Receive
    <2>4. data = <<>>
      BY <2>3, OpenQuiet DEF Open
    <2>5. UNCHANGED <<data, region>>
      BY <2>3 DEF workerVars
    <2>6. QED
      BY <2>2, <2>3, <2>4, <2>5 DEF Fetched
  <1>2. CASE UNCHANGED vars
    BY <1>2, FileUntouched DEF vars, ownVars
  <1>3. ASSUME Work PROVE Fetched'
    <2>1. CASE Pass \/ Crash \/ UseThrows \/ Descends \/ Handle
      BY <2>1, FileUntouched
      DEF Pass, Crash, UseThrows, Descends, Handle, ownVars
    <2>2. CASE UseCors
      <3>1. CASE Pass
        BY <2>1, <3>1
      <3>2. CASE Worker!Reply(Worker!FORBIDDEN) /\ Refuse(Field("allow-origin", Null))
                 /\ UNCHANGED size
        BY <3>2, RepliesKept DEF Refuse
      <3>3. QED
        BY <2>2, <3>1, <3>2 DEF UseCors
    <2>3. CASE UseStaticServe
      <3>1. CASE ServeListing
        BY <3>1, RepliesKept, PlainCodes DEF ServeListing, Refuse
      <3>2. QED
        BY <2>1, <2>3, <3>1, FileServed DEF UseStaticServe
    <2>4. CASE NotFound
      BY <2>4, RepliesKept DEF NotFound, Worker!SendNotFound, Plainly
    <2>5. CASE HandlerCall
      <3>1. PICK n : n = calls + 1
        OBVIOUS
      <3>2. Called(script[n]) /\ calls < Len(script) /\ UNCHANGED <<asked, size>>
        BY <2>5, <3>1 DEF HandlerCall
      <3>3. script \in Seq(Calls) /\ calls \in Nat /\ Len(script) \in Nat
        BY LenProperties DEF Own, Scripted, Flowing
      <3>4. n \in 1..Len(script)
        BY <3>1, <3>2, <3>3
      <3>5. script[n] \in Calls
        BY <3>3, <3>4, ElementOfSeq
      <3>6. (Keeps \/ Adds(Plainly)) /\ region' = region
        BY <3>2, <3>5, CallsFlow, CallKeepsRegion DEF Own
      <3>7. QED
        BY <3>2, <3>6, FileKept, PlainCodes
    <2>6. CASE Finish
      <3>1. (Worker!Return \/ Worker!Throw) /\ UNCHANGED <<asked, size>>
        BY <2>6 DEF Finish
      <3>2. Keeps \/ Adds(Plainly)
        BY <3>1, FinishFlows DEF Own
      <3>3. region' = region
        BY <3>1, RefusedKeepsRegion, EndedKeepsRegion DEF Worker!Return, Worker!Throw
      <3>4. QED
        BY <3>1, <3>2, <3>3, FileKept, PlainCodes
    <2>7. QED
      BY <1>3, <2>1, <2>2, <2>3, <2>4, <2>5, <2>6
      DEF Work, UseMiddleware, UseHeaders, UseCookieParser
  <1>4. CASE app' = app /\ Reject
    <2>1. Worker!Throw /\ UNCHANGED <<asked, size>>
      BY <1>4 DEF Reject
    <2>2. Keeps \/ Adds(Plainly)
      BY <2>1, FinishFlows DEF Own
    <2>3. region' = region
      BY <2>1, RefusedKeepsRegion DEF Worker!Throw
    <2>4. QED
      BY <2>1, <2>2, <2>3, FileKept, PlainCodes
  <1>5. QED
    BY <1>1, <1>2, <1>3, <1>4 DEF Next

LEMMA FileInvariance == Spec => []Fetched
  <1>1. Init => Fetched
    <2>1. SUFFICES ASSUME Init PROVE Fetched
      OBVIOUS
    <2>2. asked.range = <<>> /\ size = 0 /\ data = <<>> /\ region = Worker!NoRegion
      BY <2>1 DEF Init, Worker!Init
    <2>3. <<>> \in Seq(STRING) /\ MaxFile \in Nat
      BY ServiceAssumption
    <2>4. QED
      BY <2>2, <2>3 DEF Fetched, Worker!NoRegion
  <1>2. IInv /\ Fetched /\ [Next]_vars => Fetched'
    BY FetchedStep DEF IInv
  <1>3. QED
    BY <1>1, <1>2, Invariance, PTL DEF Spec

-----------------------------------------------------------------------------
(* The cookies                                                             *)

(* It has a name here because not every prover takes the text itself.      *)
Semi == ";"

LEMMA SemiIs == Semi # "="
  BY Zenon DEF Semi

LEMMA CutsAre ==
  ASSUME NEW s \in Seq(STRING)
  PROVE  \A i : i \in Cuts(s, Semi) <=>
           i = 0 \/ i = Len(s) + 1 \/ (i \in 1..Len(s) /\ s[i] = Semi)
  BY DEF Cuts

(* The n-th part of a header lies between two of its cuts.                 *)
Between(s, n, a, b) ==
  /\ a \in 0..Len(s) /\ b \in a + 1 .. Len(s) + 1
  /\ a \in Cuts(s, Semi) /\ b \in Cuts(s, Semi)
  /\ \A i \in a + 1 .. b - 1 : i \notin Cuts(s, Semi)
  /\ Split(s, Semi)[n] = SubSeq(s, a + 1, b - 1)

LEMMA PartBetween ==
  ASSUME NEW s \in Seq(STRING), NEW n \in 1..Len(Split(s, Semi))
  PROVE  Between(s, n, Reading!CutAt(s, Semi, n), Reading!CutAt(s, Semi, n + 1))
  <1>1. Len(s) \in Nat
    BY LenProperties
  <1>2. PICK a, b : a = Reading!CutAt(s, Semi, n) /\ b = Reading!CutAt(s, Semi, n + 1)
    OBVIOUS
  <1>3. Reading!Parted(s, Semi, n, a, b)
    BY <1>2, PartsThere
  <1>4. /\ a \in 0..Len(s) /\ b \in a + 1 .. Len(s) + 1
        /\ a \in Nat /\ b \in Nat
        /\ a # 0 => s[a] = Semi
        /\ b # Len(s) + 1 => s[b] = Semi
        /\ \A i \in a + 1 .. b - 1 : s[i] # Semi
        /\ Split(s, Semi)[n] = SubSeq(s, a + 1, b - 1)
    <2>1. a \in 0..Len(s) /\ b \in a + 1 .. Len(s) + 1
      BY <1>3 DEF Reading!Parted
    <2>2. a \in Nat /\ b \in Nat
      BY <1>1, <2>1
    <2>3. QED
      BY <1>3, <2>1, <2>2, SameReading DEF Reading!Parted
  <1>5. a \in Cuts(s, Semi)
    BY <1>1, <1>4, CutsAre
  <1>6. b \in Cuts(s, Semi)
    <2>1. b # Len(s) + 1 => b \in 1..Len(s)
      BY <1>1, <1>4
    <2>2. QED
      BY <1>4, <2>1, CutsAre
  <1>7. ASSUME NEW i \in a + 1 .. b - 1 PROVE i \notin Cuts(s, Semi)
    <2>1. i # 0 /\ i # Len(s) + 1 /\ s[i] # Semi
      <3>1. i # 0 /\ i # Len(s) + 1
        <4>1. a \in Nat /\ b \in Nat /\ b \in a + 1 .. Len(s) + 1
          BY <1>4
        <4>2. QED
          BY <1>1, <4>1
      <3>2. QED
        BY <1>4, <3>1
    <2>2. QED
      BY <2>1, CutsAre
  <1>8. QED
    BY <1>2, <1>4, <1>5, <1>6, <1>7 DEF Between

(* The cookie that is spelled there is what the CookieParser makes of this *)
(* part.                                                                   *)
LEMMA CookieOfPart ==
  ASSUME NEW s \in Seq(STRING), NEW n, NEW a \in Nat, NEW b \in Nat,
         Between(s, n, a, b), NEW e \in Nat, a < e, e < b, s[e] = "=",
         \A i \in a + 1 .. b - 1 : s[i] = "=" => i = e
  PROVE  CookiePair(Split(s, Semi)[n]) = CookieAt(s, e)
  <1>1. Len(s) \in Nat /\ s \in Reading!Text
    BY LenProperties DEF Reading!Text
  <1>2. b <= Len(s) + 1
    <2>1. b \in a + 1 .. Len(s) + 1
      BY DEF Between
    <2>2. QED
      BY <1>1, <2>1
  <1>3. PICK i \in Nat : i = e - a
    OBVIOUS
  <1> PICK part : part = Split(s, Semi)[n]
    OBVIOUS
  <1>4. part = SubSeq(s, a + 1, b - 1)
    BY DEF Between
  <1>5. /\ part \in Seq(STRING) /\ Len(part) = (b - 1) - (a + 1) + 1
        /\ \A k \in 1..(b - 1) - (a + 1) + 1 : part[k] = s[(a + 1) + k - 1]
    <2>1. a + 1 \in Nat /\ a + 1 > 0 /\ b - 1 \in Nat /\ a + 1 <= (b - 1) + 1 /\ b - 1 <= Len(s)
      BY <1>1, <1>2
    <2>2. QED
      BY <1>1, <1>4, <2>1, ReadingHolds, Reading!SubText DEF Reading!Text
  <1>6. Len(part) = b - a - 1
    BY <1>2, <1>5
  <1>7. i \in 1..Len(part) /\ i \in Nat /\ a + i = e
    BY <1>2, <1>3, <1>6
  <1>8. part[i] = "="
    <2>1. i \in 1..(b - 1) - (a + 1) + 1 /\ (a + 1) + i - 1 = e
      BY <1>2, <1>3
    <2>2. QED
      BY <1>5, <2>1
  <1>9. ASSUME NEW k \in 1..Len(part), part[k] = "=" PROVE k = i
    <2>1. k \in 1..(b - 1) - (a + 1) + 1 /\ (a + 1) + k - 1 \in a + 1 .. b - 1
      BY <1>2, <1>6
    <2>2. s[(a + 1) + k - 1] = "="
      BY <1>5, <1>9, <2>1
    <2>3. (a + 1) + k - 1 = e
      BY <2>1, <2>2
    <2>4. QED
      BY <1>2, <1>3, <2>1, <2>3
  <1>10. PICK pair : pair = Split(part, "=")
    OBVIOUS
  <1>11. /\ Len(pair) = 2
         /\ pair[1] = SubSeq(part, 1, i - 1) /\ pair[2] = SubSeq(part, i + 1, Len(part))
    BY <1>5, <1>7, <1>8, <1>9, <1>10, OneCut
  <1>12. SubSeq(part, 1, i - 1) = SubSeq(s, a + 1, e - 1)
    <2>1. PICK m, k, u, v : m = a + 1 /\ k = b - 1 /\ u = 1 /\ v = i - 1
      OBVIOUS
    <2>2. /\ m \in Nat /\ m > 0 /\ k \in Nat /\ m <= k + 1 /\ k <= Len(s)
          /\ u \in Nat /\ u > 0 /\ v \in Nat /\ u <= v + 1 /\ v <= k - m + 1
          /\ m + u - 1 = a + 1 /\ m + v - 1 = e - 1
      BY <1>1, <1>2, <1>3, <2>1
    <2>3. SubSeq(SubSeq(s, m, k), u, v) = SubSeq(s, m + u - 1, m + v - 1)
      BY <1>1, <2>2, ReadingHolds, Reading!SubOfSub
    <2>4. QED
      BY <1>4, <2>1, <2>2, <2>3
  <1>13. SubSeq(part, i + 1, Len(part)) = SubSeq(s, e + 1, b - 1)
    <2>1. PICK m, k, u, v : m = a + 1 /\ k = b - 1 /\ u = i + 1 /\ v = Len(part)
      OBVIOUS
    <2>2. /\ m \in Nat /\ m > 0 /\ k \in Nat /\ m <= k + 1 /\ k <= Len(s)
          /\ u \in Nat /\ u > 0 /\ v \in Nat /\ u <= v + 1 /\ v <= k - m + 1
          /\ m + u - 1 = e + 1 /\ m + v - 1 = b - 1
      BY <1>1, <1>2, <1>3, <1>6, <2>1
    <2>3. SubSeq(SubSeq(s, m, k), u, v) = SubSeq(s, m + u - 1, m + v - 1)
      BY <1>1, <2>2, ReadingHolds, Reading!SubOfSub
    <2>4. QED
      BY <1>4, <2>1, <2>2, <2>3
  <1>14. PICK ends : ends = Cuts(s, Semi)
    OBVIOUS
  <1>15. ASSUME NEW c \in ends PROVE c \in Int /\ (c < e => c <= a) /\ (c > e => c >= b)
    <2>1. c \in Int
      BY <1>1, <1>14, CutsAre
    <2>2. c \notin a + 1 .. b - 1
      BY <1>14 DEF Between
    <2>3. QED
      BY <1>2, <2>1, <2>2
  <1>16. a \in ends /\ b \in ends
    BY <1>14 DEF Between
  <1>17. (CHOOSE x \in ends : x < e /\ \A c \in ends : c < e => c <= x) = a
    <2>1. \A x \in ends : x < e /\ (\A c \in ends : c < e => c <= x) => x = a
      BY <1>2, <1>15, <1>16
    <2>2. a < e /\ \A c \in ends : c < e => c <= a
      BY <1>2, <1>15
    <2>3. QED
      BY <1>16, <2>1, <2>2
  <1>18. (CHOOSE x \in ends : x > e /\ \A c \in ends : c > e => c >= x) = b
    <2>1. \A x \in ends : x > e /\ (\A c \in ends : c > e => c >= x) => x = b
      BY <1>2, <1>15, <1>16
    <2>2. b > e /\ \A c \in ends : c > e => c >= b
      BY <1>2, <1>15
    <2>3. QED
      BY <1>16, <2>1, <2>2
  <1>19. CookieAt(s, e) = [name |-> Trim(SubSeq(s, a + 1, e - 1)),
                           value |-> Decode(Trim(SubSeq(s, e + 1, b - 1)))]
    BY <1>14, <1>17, <1>18, Zenon DEF CookieAt, Semi
  <1>20. CookiePair(part) = [name |-> Trim(pair[1]), value |-> Decode(Trim(pair[2]))]
    <2>1. ~(Len(pair) < 2)
      BY <1>11
    <2>2. QED
      BY <1>10, <2>1, Zenon DEF CookiePair
  <1>21. QED
    BY <1>11, <1>12, <1>13, <1>19, <1>20, Zenon

(* In a part with one "=" that is found where the part is cut from.        *)
LEMMA OneInPart ==
  ASSUME NEW s \in Seq(STRING), OneEquals(s), NEW n \in 1..Len(Split(s, Semi)),
         NEW a \in Nat, NEW b \in Nat, Between(s, n, a, b)
  PROVE  \E e \in Nat :
           /\ a < e /\ e < b /\ e \in 1..Len(s) /\ s[e] = "="
           /\ \A i \in a + 1 .. b - 1 : s[i] = "=" => i = e
  <1>1. Len(s) \in Nat /\ s \in Reading!Text
    BY LenProperties DEF Reading!Text
  <1>2. b <= Len(s) + 1 /\ a < b
    <2>1. b \in a + 1 .. Len(s) + 1
      BY DEF Between
    <2>2. QED
      BY <1>1, <2>1
  <1>3. PICK part : part = Split(s, Semi)[n]
    OBVIOUS
  <1>4. part = SubSeq(s, a + 1, b - 1)
    BY <1>3 DEF Between
  <1>5. /\ part \in Seq(STRING) /\ Len(part) = (b - 1) - (a + 1) + 1
        /\ \A k \in 1..(b - 1) - (a + 1) + 1 : part[k] = s[(a + 1) + k - 1]
    <2>1. a + 1 \in Nat /\ a + 1 > 0 /\ b - 1 \in Nat /\ a + 1 <= (b - 1) + 1 /\ b - 1 <= Len(s)
      BY <1>1, <1>2
    <2>2. QED
      BY <1>1, <1>4, <2>1, ReadingHolds, Reading!SubText DEF Reading!Text
  <1>6. Len(part) = b - a - 1 /\ DOMAIN part = 1..Len(part) /\ Len(part) \in Nat
    BY <1>2, <1>5, LenProperties
  <1>7. part \in ToSet(Split(s, Semi))
    BY <1>3, PartsThere DEF ToSet
  <1>8. Cardinality(EqualsIn(part)) = 1
    BY <1>7, Zenon DEF OneEquals, Semi
  <1>9. IsFiniteSet(EqualsIn(part))
    <2>1. IsFiniteSet(1..Len(part))
      BY <1>6, FS_Interval
    <2>2. EqualsIn(part) \subseteq 1..Len(part)
      BY <1>6 DEF EqualsIn
    <2>3. QED
      BY <2>1, <2>2, FS_Subset
  <1>10. PICK i : EqualsIn(part) = {i}
    BY <1>8, <1>9, FS_Singleton
  <1>11. i \in 1..Len(part) /\ part[i] = "=" /\ \A k \in 1..Len(part) : part[k] = "=" => k = i
    BY <1>6, <1>10 DEF EqualsIn
  <1>12. PICK e \in Nat : e = a + i
    BY <1>6, <1>11
  <1>13. a < e /\ e < b /\ e \in 1..Len(s)
    BY <1>1, <1>2, <1>6, <1>11, <1>12
  <1>14. s[e] = "="
    <2>1. i \in 1..(b - 1) - (a + 1) + 1 /\ (a + 1) + i - 1 = e
      BY <1>2, <1>6, <1>11, <1>12
    <2>2. QED
      BY <1>5, <1>11, <2>1
  <1>15. ASSUME NEW k \in a + 1 .. b - 1, s[k] = "=" PROVE k = e
    <2>1. PICK j \in Nat : j = k - a
      OBVIOUS
    <2>2. j \in 1..(b - 1) - (a + 1) + 1 /\ (a + 1) + j - 1 = k /\ j \in 1..Len(part)
      BY <1>2, <1>6, <2>1
    <2>3. part[j] = "="
      BY <1>5, <1>15, <2>2
    <2>4. j = i
      BY <1>11, <2>2, <2>3
    <2>5. QED
      BY <1>12, <2>1, <2>4
  <1>16. QED
    BY <1>13, <1>14, <1>15

(* Whatever is no cut is between two of them.                              *)
LEMMA PartAround ==
  ASSUME NEW s \in Seq(STRING), NEW e \in 1..Len(s), s[e] # Semi
  PROVE  \E n \in 1..Len(Split(s, Semi)), a \in Nat, b \in Nat :
           Between(s, n, a, b) /\ a < e /\ e < b
  <1>1. Len(s) \in Nat
    BY LenProperties
  <1>2. PICK m : m = Len(Split(s, Semi))
    OBVIOUS
  <1>3. /\ m \in Nat /\ m > 0
        /\ Reading!CutAt(s, Semi, 1) = 0 /\ Reading!CutAt(s, Semi, m + 1) = Len(s) + 1
    BY <1>2, PartsThere
  <1> DEFINE T == {n \in 1..m + 1 : ~(Reading!CutAt(s, Semi, n) < e)}
  <1>4. T \subseteq Nat /\ T # {}
    <2>1. m + 1 \in 1..m + 1 /\ ~(Len(s) + 1 < e)
      BY <1>1, <1>3
    <2>2. m + 1 \in T
      BY <1>3, <2>1
    <2>3. QED
      BY <1>3, <2>2
  <1>5. PICK k \in T : \A j \in T : k <= j
    <2> HIDE DEF T
    <2>1. QED
      BY <1>4, ReadingHolds, Reading!Smallest
  <1>6. k \in 1..m + 1 /\ ~(Reading!CutAt(s, Semi, k) < e)
    OBVIOUS
  <1>7. k # 1
    <2>1. 0 < e
      BY <1>1
    <2>2. QED
      BY <1>3, <1>6, <2>1
  <1>8. PICK n \in Nat : n = k - 1
    BY <1>3, <1>6, <1>7
  <1>9. n \in 1..m /\ n \in 1..m + 1 /\ n + 1 = k /\ ~(k <= n)
    BY <1>3, <1>6, <1>7, <1>8
  <1>10. n \notin T
    <2> HIDE DEF T
    <2>1. QED
      BY <1>5, <1>9
  <1>11. PICK a, b : a = Reading!CutAt(s, Semi, n) /\ b = Reading!CutAt(s, Semi, k)
    OBVIOUS
  <1>12. a < e /\ ~(b < e)
    BY <1>6, <1>9, <1>10, <1>11
  <1>13. Between(s, n, a, b)
    BY <1>2, <1>9, <1>11, PartBetween
  <1>14. a \in Nat /\ b \in Nat /\ b \in Cuts(s, Semi)
    <2>1. a \in 0..Len(s) /\ b \in a + 1 .. Len(s) + 1 /\ b \in Cuts(s, Semi)
      BY <1>13 DEF Between
    <2>2. QED
      BY <1>1, <2>1
  <1>15. b # e
    <2>1. e # 0 /\ e # Len(s) + 1
      BY <1>1
    <2>2. e \notin Cuts(s, Semi)
      BY <2>1, CutsAre
    <2>3. QED
      BY <1>14, <2>2
  <1>16. e < b
    BY <1>1, <1>12, <1>14, <1>15
  <1>17. QED
    BY <1>2, <1>9, <1>12, <1>13, <1>14, <1>16

(* Part by part and "=" by "=" the same cookies are found.                *)
LEMMA CookiesRead ==
  ASSUME NEW s \in Seq(STRING), OneEquals(s)
  PROVE  ToSet(ParsedCookies(s)) = {CookieAt(s, e) : e \in EqualsIn(s)}
  <1>1. Len(s) \in Nat /\ DOMAIN s = 1..Len(s)
    BY LenProperties
  <1>2. PICK parts : parts = Split(s, Semi)
    OBVIOUS
  <1>3. DOMAIN parts = 1..Len(parts) /\ Len(parts) \in Nat /\ Len(parts) > 0
    BY <1>2, PartsThere
  <1>4. ASSUME NEW n \in 1..Len(parts)
        PROVE  \E e \in EqualsIn(s) : CookiePair(parts[n]) = CookieAt(s, e)
    <2>1. PICK a \in Nat, b \in Nat : Between(s, n, a, b)
      <3>1. PICK a, b : a = Reading!CutAt(s, Semi, n) /\ b = Reading!CutAt(s, Semi, n + 1)
        OBVIOUS
      <3>2. Between(s, n, a, b)
        BY <1>2, <3>1, PartBetween
      <3>3. a \in 0..Len(s) /\ b \in a + 1 .. Len(s) + 1
        BY <3>2 DEF Between
      <3>4. a \in Nat /\ b \in Nat
        BY <1>1, <3>3
      <3>5. QED
        BY <3>2, <3>4
    <2>2. PICK e \in Nat :
            /\ a < e /\ e < b /\ e \in 1..Len(s) /\ s[e] = "="
            /\ \A i \in a + 1 .. b - 1 : s[i] = "=" => i = e
      BY <1>2, <2>1, OneInPart
    <2>3. CookiePair(parts[n]) = CookieAt(s, e)
      BY <1>2, <2>1, <2>2, CookieOfPart
    <2>4. e \in EqualsIn(s)
      BY <1>1, <2>2 DEF EqualsIn
    <2>5. QED
      BY <2>3, <2>4
  <1>5. ASSUME NEW e \in EqualsIn(s)
        PROVE  \E n \in 1..Len(parts) : CookiePair(parts[n]) = CookieAt(s, e)
    <2>1. e \in 1..Len(s) /\ s[e] = "="
      BY <1>1 DEF EqualsIn
    <2>2. e \in Nat /\ s[e] # Semi
      BY <1>1, <2>1, SemiIs
    <2>3. PICK n \in 1..Len(parts), a \in Nat, b \in Nat :
            Between(s, n, a, b) /\ a < e /\ e < b
      BY <1>2, <2>1, <2>2, PartAround
    <2>4. PICK i \in Nat :
            /\ a < i /\ i < b /\ i \in 1..Len(s) /\ s[i] = "="
            /\ \A j \in a + 1 .. b - 1 : s[j] = "=" => j = i
      BY <1>2, <2>3, OneInPart
    <2>5. e = i
      <3>1. e \in a + 1 .. b - 1
        BY <2>2, <2>3
      <3>2. QED
        BY <2>1, <2>4, <3>1
    <2>6. CookiePair(parts[n]) = CookieAt(s, e)
      BY <1>2, <2>3, <2>4, <2>5, CookieOfPart
    <2>7. QED
      BY <2>6
  <1>6. s # <<>>
    <2>1. 1 \in 1..Len(parts)
      BY <1>3
    <2>2. PICK e \in EqualsIn(s) : TRUE
      BY <1>4, <2>1
    <2>3. e \in 1..Len(s)
      BY <1>1 DEF EqualsIn
    <2>4. Len(s) # 0
      BY <1>1, <2>3
    <2>5. QED
      BY <2>4, EmptySeq
  <1>7. ParsedCookies(s) = [n \in DOMAIN parts |-> CookiePair(parts[n])]
    BY <1>2, <1>6, Zenon DEF ParsedCookies, Semi
  <1>8. ToSet(ParsedCookies(s)) = {CookiePair(parts[n]) : n \in 1..Len(parts)}
    BY <1>3, <1>7 DEF ToSet
  <1>9. QED
    BY <1>4, <1>5, <1>8

(* Only a cookie without "=" is read from behind the vector.               *)
LEMMA FarIs ==
  ASSUME NEW s \in Seq(STRING), ReadsTooFar(s)
  PROVE  s # <<>> /\ \E part \in ToSet(Split(s, Semi)) : EqualsIn(part) = {}
  <1>1. s # <<>>
    BY DEF ReadsTooFar
  <1>2. PICK part \in ToSet(Split(s, Semi)) : Len(Split(part, "=")) < 2
    BY Zenon DEF ReadsTooFar, Semi
  <1>3. part \in Seq(STRING)
    <2>1. Len(s) \in Nat /\ s \in Reading!Text
      BY LenProperties DEF Reading!Text
    <2>2. PICK n \in 1..Len(Split(s, Semi)) : part = Split(s, Semi)[n]
      BY <1>2, PartsThere DEF ToSet
    <2>3. PICK a, b : Between(s, n, a, b)
      BY PartBetween
    <2>4. /\ a \in 0..Len(s) /\ b \in a + 1 .. Len(s) + 1
          /\ part = SubSeq(s, a + 1, b - 1)
      BY <2>2, <2>3 DEF Between
    <2>5. PICK m, k : m = a + 1 /\ k = b - 1
      OBVIOUS
    <2>6. m \in Nat /\ m > 0 /\ k \in Nat /\ m <= k + 1 /\ k <= Len(s)
      BY <2>1, <2>4, <2>5
    <2>7. SubSeq(s, m, k) \in Reading!Text
      BY <2>1, <2>6, ReadingHolds, Reading!SubText
    <2>8. QED
      BY <2>4, <2>5, <2>7 DEF Reading!Text
  <1>4. PICK m : m = Len(Split(part, "="))
    OBVIOUS
  <1>5. m \in Nat /\ m > 0 /\ m < 2
    BY <1>2, <1>3, <1>4, PartsThere
  <1>6. m = 1
    BY <1>5
  <1>7. Reading!Parted(part, "=", 1, 0, Len(part) + 1)
    <2>1. 1 \in 1..1
      OBVIOUS
    <2>2. QED
      BY <1>3, <1>4, <1>6, <2>1, PartsThere
  <1>8. Len(part) \in Nat /\ DOMAIN part = 1..Len(part)
    BY <1>3, LenProperties
  <1>9. ASSUME NEW i \in 1..Len(part) PROVE part[i] # "="
    <2>1. i \in 0 + 1 .. (Len(part) + 1) - 1
      BY <1>8
    <2>2. QED
      BY <1>7, <2>1 DEF Reading!Parted
  <1>10. EqualsIn(part) = {}
    BY <1>8, <1>9 DEF EqualsIn
  <1>11. QED
    BY <1>1, <1>2, <1>10

(* The cookies are those of the header, once a CookieParser was passed.    *)
Baked ==
  /\ asked.cookie \in Seq(STRING) /\ cookies \in Seq(ToSet(cookies))
  /\ step = "idle" => cookies = <<>> /\ ~crashed
  /\ crashed => ReadsTooFar(asked.cookie)
  /\ IF CookieParser \in ToSet(GuardsPassed)
     THEN ToSet(cookies) = ToSet(ParsedCookies(asked.cookie)) ELSE cookies = <<>>

-----------------------------------------------------------------------------
(* What the steps do to the cookies.                                       *)

LEMMA PassedSame ==
  ASSUME UNCHANGED <<app, passed>>
  PROVE  GuardsPassed' = GuardsPassed
  <1>1. \A r : GuardsOf(r)' = GuardsOf(r)
    BY DEF GuardsOf
  <1>2. QED
    BY <1>1 DEF GuardsPassed

LEMMA CookieSteps ==
  ASSUME Work
  PROVE  /\ app' = app /\ asked' = asked
         /\ crashed' = crashed \/ (step = "guards" /\ ReadsTooFar(asked.cookie))
         /\ \/ UseCookieParser
            \/ Pass /\ UNCHANGED cookies /\ Guard.kind # "cookies"
            \/ UNCHANGED <<passed, cookies>>
  <1>1. app' = app
    BY DEF Work
  <1>2. ASSUME Pass PROVE asked' = asked /\ crashed' = crashed
    BY <1>2 DEF Pass
  <1>3. ASSUME NEW set, Refuse(set) PROVE UNCHANGED <<asked, crashed, passed, cookies>>
    BY <1>3, RefuseIs DEF Refuse
  <1>4. CASE UseHeaders
    <2>1. Pass /\ UNCHANGED cookies /\ Guard.kind \in {"version", "date", "cacher"}
      BY <1>4 DEF UseHeaders, Uses
    <2>2. Guard.kind # "cookies"
      BY <2>1
    <2>3. QED
      BY <1>1, <1>2, <2>1, <2>2
  <1>5. CASE UseCors
    <2>1. Guard.kind = "cors"
      BY <1>5 DEF UseCors, Uses
    <2>2. Guard.kind # "cookies"
      BY <2>1
    <2>3. (Pass /\ UNCHANGED cookies) \/ Refuse(Field("allow-origin", Null))
      BY <1>5 DEF UseCors
    <2>4. QED
      BY <1>1, <1>2, <1>3, <2>2, <2>3
  <1>6. CASE UseCookieParser
    <2>1. Pass
      BY <1>6 DEF UseCookieParser
    <2>2. QED
      BY <1>1, <1>2, <1>6, <2>1
  <1>7. CASE UseStaticServe
    <2>1. Guard.kind = "static"
      BY <1>7 DEF UseStaticServe, Uses
    <2>2. Guard.kind # "cookies"
      BY <2>1
    <2>3. (Pass /\ UNCHANGED cookies) \/ Refuse(NoFields)
      BY <1>7 DEF UseStaticServe, ServeFile, ServeListing
    <2>4. QED
      BY <1>1, <1>2, <1>3, <2>2, <2>3
  <1>8. CASE UseThrows \/ Descends
    <2>1. UNCHANGED ownVars
      BY <1>8 DEF UseThrows, Descends
    <2>2. UNCHANGED <<asked, crashed, cookies>>
      BY <2>1 DEF ownVars
    <2>3. Paths!GuardThrows \/ Paths!Descend \/ Paths!NoMap
      BY <1>8 DEF UseThrows, Descends
    <2>4. passed' = passed
      BY <2>3 DEF Paths!GuardThrows, Paths!Descend, Paths!NoMap, Paths!End
    <2>5. QED
      BY <1>1, <2>2, <2>4
  <1>9. CASE Crash
    <2>1. step = "guards" /\ ReadsTooFar(asked.cookie)
      BY <1>9 DEF Crash, Uses, Paths!HasGuard
    <2>2. UNCHANGED <<asked, cookies, passed>>
      BY <1>9 DEF Crash, pathVars
    <2>3. QED
      BY <1>1, <2>1, <2>2
  <1>10. CASE NotFound \/ Handle
    <2>1. UNCHANGED <<asked, cookies, crashed>> /\ (Paths!NotFound \/ Paths!Handle)
      BY <1>10 DEF NotFound, Handle
    <2>2. passed' = passed
      BY <2>1 DEF Paths!NotFound, Paths!Handle, Paths!End
    <2>3. QED
      BY <1>1, <2>1, <2>2
  <1>11. CASE HandlerCall \/ Finish
    <2>1. UNCHANGED <<asked, cookies, crashed>> /\ UNCHANGED pathVars
      BY <1>11 DEF HandlerCall, Finish
    <2>2. passed' = passed
      BY <2>1 DEF pathVars
    <2>3. QED
      BY <1>1, <2>1, <2>2
  <1>12. QED
    BY <1>4, <1>5, <1>6, <1>7, <1>8, <1>9, <1>10, <1>11 DEF Work, UseMiddleware

LEMMA ParsedTyped ==
  ASSUME NEW s \in Seq(STRING)
  PROVE  ParsedCookies(s) \in Seq(ToSet(ParsedCookies(s)))
  <1>1. PICK list : list = ParsedCookies(s)
    OBVIOUS
  <1>2. CASE s = <<>>
    <2>1. list = <<>>
      BY <1>1, <1>2, Zenon DEF ParsedCookies
    <2>2. QED
      BY <1>1, <2>1
  <1>3. CASE s # <<>>
    <2>1. PICK parts : parts = Split(s, Semi)
      OBVIOUS
    <2>2. DOMAIN parts = 1..Len(parts) /\ Len(parts) \in Nat
      BY <2>1, PartsThere
    <2>3. list = [n \in DOMAIN parts |-> CookiePair(parts[n])]
      BY <1>1, <1>3, <2>1, Zenon DEF ParsedCookies, Semi
    <2>4. list \in [1..Len(parts) -> ToSet(list)]
      BY <2>2, <2>3 DEF ToSet
    <2>5. QED
      BY <1>1, <2>2, <2>4, SeqDef
  <1>4. QED
    BY <1>2, <1>3

LEMMA JoinedSet ==
  ASSUME NEW S, NEW s \in Seq(S), NEW T, NEW t \in Seq(T)
  PROVE  ToSet(s \o t) = ToSet(s) \cup ToSet(t)
  <1>1. /\ Len(s) \in Nat /\ DOMAIN s = 1..Len(s) /\ s \in [1..Len(s) -> S]
        /\ Len(t) \in Nat /\ DOMAIN t = 1..Len(t) /\ t \in [1..Len(t) -> T]
    BY LenProperties
  <1>2. s \in Seq(S \cup T) /\ t \in Seq(S \cup T)
    <2>1. s \in [1..Len(s) -> S \cup T] /\ t \in [1..Len(t) -> S \cup T]
      BY <1>1
    <2>2. QED
      BY <1>1, <2>1, SeqDef
  <1>3. PICK u : u = s \o t
    OBVIOUS
  <1>4. /\ u \in Seq(S \cup T) /\ Len(u) = Len(s) + Len(t)
        /\ \A i \in 1..Len(s) + Len(t) :
             u[i] = IF i <= Len(s) THEN s[i] ELSE t[i - Len(s)]
    BY <1>2, <1>3, ConcatProperties
  <1>5. DOMAIN u = 1..Len(s) + Len(t)
    BY <1>4, LenProperties
  <1>6. ASSUME NEW x \in ToSet(u) PROVE x \in ToSet(s) \cup ToSet(t)
    <2>1. PICK i \in 1..Len(s) + Len(t) : x = u[i]
      BY <1>5 DEF ToSet
    <2>2. CASE i <= Len(s)
      <3>1. i \in DOMAIN s /\ x = s[i]
        BY <1>1, <1>4, <2>1, <2>2
      <3>2. QED
        BY <3>1 DEF ToSet
    <2>3. CASE ~(i <= Len(s))
      <3>1. i - Len(s) \in 1..Len(t)
        BY <1>1, <2>3
      <3>2. i - Len(s) \in DOMAIN t /\ x = t[i - Len(s)]
        BY <1>1, <1>4, <2>1, <2>3, <3>1
      <3>3. QED
        BY <3>2 DEF ToSet
    <2>4. QED
      BY <2>2, <2>3
  <1>7. ASSUME NEW x \in ToSet(s) PROVE x \in ToSet(u)
    <2>1. PICK i \in 1..Len(s) : x = s[i]
      BY <1>1 DEF ToSet
    <2>2. i \in 1..Len(s) + Len(t) /\ i <= Len(s)
      BY <1>1
    <2>3. i \in DOMAIN u /\ x = u[i]
      BY <1>4, <1>5, <2>1, <2>2
    <2>4. QED
      BY <2>3 DEF ToSet
  <1>8. ASSUME NEW x \in ToSet(t) PROVE x \in ToSet(u)
    <2>1. PICK i \in 1..Len(t) : x = t[i]
      BY <1>1 DEF ToSet
    <2>2. PICK j \in Nat : j = i + Len(s)
      BY <1>1
    <2>3. j \in 1..Len(s) + Len(t) /\ ~(j <= Len(s)) /\ j - Len(s) = i
      BY <1>1, <2>2
    <2>4. j \in DOMAIN u /\ x = u[j]
      BY <1>4, <1>5, <2>1, <2>3
    <2>5. QED
      BY <2>4 DEF ToSet
  <1>9. QED
    BY <1>3, <1>6, <1>7, <1>8

LEMMA StaysIdle ==
  ASSUME IInv, Work
  PROVE  step' = "idle" => step = "idle" /\ UNCHANGED <<cookies, crashed>>
  <1>1. SUFFICES ASSUME step' = "idle" PROVE step = "idle" /\ UNCHANGED <<cookies, crashed>>
    OBVIOUS
  <1>2. [Next]_vars
    BY DEF Next
  <1>3. step = "idle"
    <2>1. CASE Begins \/ Spurns \/ Sinks \/ Stops \/ Speaks \/ Forbids \/ Idles
      BY <1>1, <2>1 DEF Begins, Spurns, Sinks, Stops, Speaks, Forbids, Idles, Closes
    <2>2. CASE Passes
      BY <1>1, <2>2 DEF Passes, Paths!LetThrough
    <2>3. QED
      BY <1>2, <2>1, <2>2, Shapes
  <1>4. ~UseCookieParser /\ ~Pass
    BY <1>3 DEF UseCookieParser, Uses, Pass, Paths!LetThrough, Paths!HasGuard
  <1>5. QED
    BY <1>3, <1>4, CookieSteps

LEMMA LongerHas ==
  ASSUME NEW guards, NEW more, NEW guard, Longer(guards, more, guard)
  PROVE  guard \in ToSet(more) /\ ToSet(guards) \subseteq ToSet(more)
  <1>1. PICK n \in Nat : /\ DOMAIN guards = 1..n /\ DOMAIN more = 1..(n + 1)
                         /\ \A i \in 1..n : more[i] = guards[i]
                         /\ more[n + 1] = guard
    BY DEF Longer
  <1>2. n + 1 \in 1..(n + 1) /\ \A i \in 1..n : i \in 1..(n + 1)
    OBVIOUS
  <1>3. QED
    BY <1>1, <1>2 DEF ToSet

(* A CookieParser that was mounted twice finds the same cookies again.     *)
LEMMA WorkBaked == ASSUME IInv, Baked, Work PROVE Baked'
  <1>1. Built(app) /\ WayProofs!IInv
    BY ServiceAssumption DEF IInv
  <1>2. app' = app /\ asked' = asked
    BY CookieSteps
  <1>3. asked'.cookie = asked.cookie /\ asked'.cookie \in Seq(STRING)
    BY <1>2 DEF Baked
  <1>4. crashed' => ReadsTooFar(asked.cookie)
    BY CookieSteps DEF Baked
  <1>5. step' = "idle" => cookies' = <<>> /\ ~crashed'
    BY StaysIdle DEF Baked
  <1>6. PICK parsed : parsed = ParsedCookies(asked.cookie)
    OBVIOUS
  <1>7. PICK had, has : had = ToSet(GuardsPassed) /\ has = ToSet(GuardsPassed)'
    OBVIOUS
  <1>8. SUFFICES /\ cookies' \in Seq(ToSet(cookies'))
                 /\ IF CookieParser \in has THEN ToSet(cookies') = ToSet(parsed)
                    ELSE cookies' = <<>>
    BY <1>2, <1>3, <1>4, <1>5, <1>6, <1>7 DEF Baked
  <1>9. /\ cookies \in Seq(ToSet(cookies))
        /\ IF CookieParser \in had THEN ToSet(cookies) = ToSet(parsed) ELSE cookies = <<>>
    BY <1>6, <1>7 DEF Baked
  <1>10. ASSUME Pass
         PROVE  /\ Guard \in has /\ had \subseteq has
                /\ \A g \in has : g \in had \/ g = Guard
    <2>1. Paths!LetThrough
      BY <1>10 DEF Pass
    <2>2. Longer(GuardsPassed, GuardsPassed', Guard)
      BY <1>1, <1>2, <2>1, PassedLonger
    <2>3. QED
      BY <1>7, <2>2, LongerSet, LongerHas
  <1>11. CASE UseCookieParser
    <2>1. Pass /\ cookies' = cookies \o parsed /\ Guard.kind = "cookies" /\ Paths!HasGuard
      BY <1>6, <1>11 DEF UseCookieParser, Uses
    <2>2. Guard \in Guards
      BY <1>1, <2>1, GuardView
    <2>3. Guard = CookieParser
      BY <2>1, <2>2 DEF Guards, Version, Date, CookieParser
    <2>4. CookieParser \in has
      BY <1>10, <2>1, <2>3
    <2>5. parsed \in Seq(ToSet(parsed))
      BY <1>6, ParsedTyped DEF Baked
    <2>6. ToSet(cookies') = ToSet(cookies) \cup ToSet(parsed)
      BY <1>9, <2>1, <2>5, JoinedSet
    <2>7. ToSet(cookies) \subseteq ToSet(parsed)
      <3>1. CASE CookieParser \in had
        BY <1>9, <3>1
      <3>2. CASE cookies = <<>>
        <4>1. ToSet(<<>>) = {}
          BY DEF ToSet
        <4>2. QED
          BY <3>2, <4>1
      <3>3. QED
        BY <1>9, <3>1, <3>2
    <2>8. cookies' \in Seq(ToSet(cookies'))
      BY <1>9, <2>1, <2>5, Joined
    <2>9. QED
      BY <2>4, <2>6, <2>7, <2>8
  <1>12. CASE Pass /\ UNCHANGED cookies /\ Guard.kind # "cookies"
    <2>1. Guard # CookieParser
      BY <1>12 DEF CookieParser
    <2>2. CookieParser \in has <=> CookieParser \in had
      BY <1>10, <1>12, <2>1
    <2>3. QED
      BY <1>9, <1>12, <2>2
  <1>13. CASE UNCHANGED <<passed, cookies>>
    <2>1. has = had
      BY <1>2, <1>7, <1>13, PassedSame
    <2>2. QED
      BY <1>9, <1>13, <2>1
  <1>14. QED
    BY <1>11, <1>12, <1>13, CookieSteps

LEMMA BakedKept == ASSUME IInv, Baked, [Next]_vars PROVE Baked'
  <1>1. CASE app' = app /\ Receive
    <2>1. PICK r \in Requests : asked'.cookie = r.cookie
      BY <1>1 DEF Receive
    <2>2. asked'.cookie \in Seq(STRING)
      BY <2>1, ServiceAssumption
    <2>3. /\ step = "idle" /\ step' = "guards" /\ passed' = <<>>
          /\ UNCHANGED <<cookies, crashed>>
      BY <1>1 DEF Receive, Paths!Receive
    <2>4. cookies' = <<>> /\ ~crashed' /\ cookies' \in Seq(ToSet(cookies'))
      BY <2>3 DEF Baked
    <2>5. ToSet(GuardsPassed)' = {}
      <3>1. DOMAIN GuardsPassed' = {}
        BY <2>3 DEF GuardsPassed
      <3>2. QED
        BY <3>1 DEF ToSet
    <2>6. QED
      BY <2>2, <2>3, <2>4, <2>5 DEF Baked
  <1>2. CASE UNCHANGED vars
    <2>1. UNCHANGED <<app, passed, step, asked, cookies, crashed>>
      BY <1>2 DEF vars, pathVars, ownVars
    <2>2. GuardsPassed' = GuardsPassed
      BY <2>1, PassedSame
    <2>3. QED
      BY <2>1, <2>2 DEF Baked
  <1>3. CASE app' = app /\ Reject
    <2>1. UNCHANGED <<app, passed, step, asked, cookies, crashed>>
      BY <1>3 DEF Reject, pathVars
    <2>2. GuardsPassed' = GuardsPassed
      BY <2>1, PassedSame
    <2>3. QED
      BY <2>1, <2>2 DEF Baked
  <1>4. QED
    BY <1>1, <1>2, <1>3, WorkBaked DEF Next

LEMMA InitBaked == ASSUME Init PROVE Baked
  <1>1. /\ asked.cookie = <<>> /\ cookies = <<>> /\ crashed = FALSE /\ passed = <<>>
    BY DEF Init
  <1>2. DOMAIN GuardsPassed = {}
    BY <1>1 DEF GuardsPassed
  <1>3. ToSet(GuardsPassed) = {}
    BY <1>2 DEF ToSet
  <1>4. asked.cookie \in Seq(STRING) /\ cookies \in Seq(ToSet(cookies))
    BY <1>1
  <1>5. QED
    BY <1>1, <1>3, <1>4 DEF Baked

LEMMA CookieInvariance == Spec => []Baked
  <1>1. Init => Baked
    BY InitBaked
  <1>2. IInv /\ Baked /\ [Next]_vars => Baked'
    BY BakedKept
  <1>3. QED
    BY <1>1, <1>2, Invariance, PTL DEF Spec

-----------------------------------------------------------------------------
(* Every answer to a request that makeRequest could read names the version *)
(* and the date, and what the middlewares set that the request has passed  *)
(* is in its header, of one kind the last; the 400 for one that it could   *)
(* not read bears none of their marks (server.cpp:95-98,                   *)
(* router.cpp:146-152).                                                    *)
THEOREM MarksOnTheWay == Spec => []MarksArrive
  <1>1. ASSUME IInv PROVE MarksArrive
    <2>1. SUFFICES ASSUME Answered PROVE MarksArrive
      BY DEF MarksArrive
    <2>2. Own /\ WayProofs!IInv
      BY <1>1 DEF IInv
    <2>3. data # <<>>
      BY <2>1, <2>2 DEF Own, Flowing, Answered
    <2>4. /\ IF step = "idle" THEN sent = NoFields ELSE Marked
          /\ Says(sent, GuardsPassed, asked.origin, Muted)
      BY <2>2, <2>3 DEF Own, Headed
    <2>5. Len(passed) \in Nat /\ DOMAIN passed = 1..Len(passed)
      BY <2>2, PassedView
    <2>6. DOMAIN GuardsPassed = 1..Len(passed)
      BY <2>5 DEF GuardsPassed
    <2>7. ASSUME NEW i \in DOMAIN passed, LastOfItsKind(i),
                 Told => GuardsPassed[i].kind # "cors"
          PROVE  \E set \in FieldsSet(GuardsPassed[i], asked.origin) :
                   \A name \in DOMAIN set :
                     name \in DOMAIN sent /\ sent[name] = set[name]
      <3>1. GuardsPassed[i].kind \notin Muted
        BY <2>7 DEF Muted
      <3>2. ASSUME NEW j \in DOMAIN GuardsPassed, j > i,
                   GuardsPassed[j].kind = GuardsPassed[i].kind
            PROVE  FALSE
        <4>1. j \in i + 1 .. Len(passed)
          BY <2>5, <2>6, <3>2
        <4>2. QED
          BY <2>7, <3>2, <4>1 DEF LastOfItsKind
      <3>3. i \in DOMAIN GuardsPassed
        BY <2>5, <2>6
      <3>4. QED
        BY <2>4, <3>1, <3>2, <3>3 DEF Says
    <2>8. QED
      BY <2>4, <2>7 DEF MarksArrive, Marked
  <1>2. QED
    BY <1>1, Invariance, PTL

(* No handler calls and no router says 404 to an origin that a Cors on the *)
(* way does not know, and no StaticServe sends anything to one that a Cors *)
(* standing before it does not know; such an origin is told 403 and        *)
(* "null", and nobody else is (cors.cpp:57-92, static_serve.cpp:14-44).    *)
THEOREM CorsRules == Spec => []CorsDecides
  <1>1. ASSUME IInv PROVE CorsDecides
    <2>1. SUFFICES ASSUME Answered PROVE CorsDecides
      BY DEF CorsDecides
    <2>2. Own /\ WayProofs!IInv /\ Built(app)
      BY <1>1, ServiceAssumption DEF IInv
    <2>3. data # <<>>
      BY <2>1, <2>2 DEF Own, Flowing, Answered
    <2>4. Refusing(ToSet(GuardsPassed)) = {}
      BY <2>2 DEF Own, LetIn, AllIn, Refusing
    <2>5. ASSUME step \in {"handled", "notFound"} \/ script # <<>>
          PROVE  Refusing(OnTheWay) = {}
      <3>1. OnTheWay \subseteq ToSet(GuardsPassed)
        <4>1. CASE step \in {"handled", "notFound"}
          BY <2>2, <4>1, DoneView
        <4>2. CASE script # <<>>
          BY <2>2, <4>2 DEF Own, Cleared
        <4>3. QED
          BY <2>5, <4>1, <4>2
      <3>2. QED
        BY <2>4, <3>1 DEF Refusing
    <2>6. (Told <=> Turned(sent)) /\ (Told => Refusing(OnTheWay) # {})
      BY <2>2, <2>3 DEF Own, Headed
    <2>7. ASSUME step = "refused" PROVE Refusing(GuardsAhead) = {}
      <3>1. GuardsAhead \subseteq ToSet(GuardsPassed)
        BY <2>2, <2>7, AheadPassed
      <3>2. QED
        BY <2>4, <3>1 DEF Refusing
    <2>8. QED
      BY <2>5, <2>6, <2>7 DEF CorsDecides, Turned
  <1>2. QED
    BY <1>1, Invariance, PTL

(* A file goes out from the first position asked for to the last or to its *)
(* end, as 206, or whole where no position was given that a long long      *)
(* holds; 416 is said only of a position that the file does not have       *)
(* (static_serve.cpp:45-70 with response.cpp:91-130).                      *)
THEOREM RangesKept == Spec => []RangeKept
  <1>1. ASSUME Own, Fetched PROVE RangeKept
    <2>1. SUFFICES ASSUME Answered, SingleRange(asked.range) PROVE RangeKept
      BY DEF RangeKept
    <2>2. data # <<>>
      BY <1>1, <2>1 DEF Own, Flowing, Answered
    <2>3. PICK range, digits, first : /\ range = GetRange(asked.range)
                                      /\ digits = Split(Tail(asked.range), "-")[2]
                                      /\ first = FirstOf(asked.range)
      OBVIOUS
    <2>4. Limited(range, first, digits)
      BY <1>1, <2>1, <2>3, RangeRead DEF Fetched
    <2>5. PICK start, end, given : start = range.start /\ end = range.end /\ given = ValueOf(digits)
      OBVIOUS
    <2>6. /\ first \in Nat
          /\ start = IF first <= LongMax THEN first ELSE -1
          /\ \/ first > LongMax /\ end = -1
             \/ first <= LongMax /\ digits = <<>> /\ end = -1
             \/ /\ first <= LongMax /\ digits # <<>>
                /\ given \in Nat /\ first <= given
                /\ end = IF given <= LongMax THEN given ELSE -1
      BY <2>4, <2>5 DEF Limited
    <2>7. PICK last : last = LastOf(asked.range)
      OBVIOUS
    <2>8. last = IF digits = <<>> THEN size - 1 ELSE given
      BY <2>3, <2>5, <2>7 DEF LastOf
    <2>9. size \in Nat /\ size <= LongMax /\ LongMax \in Nat
      BY <1>1, ServiceAssumption DEF Fetched
    <2>10. PICK code : code = data[1].status
      OBVIOUS
    <2>11. IF region.valid
           THEN /\ start < size /\ end < size
                /\ region = Worker!Slice(start, end, size)
                /\ code = IF start >= 0 \/ end >= 0 THEN 206 ELSE 200
           ELSE code = 416 => ~(start < size /\ end < size)
      BY <1>1, <2>2, <2>3, <2>5, <2>10
      DEF Fetched, Sliced, Beyond, Worker!InRange, Worker!IsPartial, Worker!OK,
          Worker!PARTIAL_CONTENT, Worker!RANGE_NOT_SATISFIABLE
    <2>12. ASSUME region.valid, code = 206
           PROVE  /\ region.offset = first
                  /\ region.remaining = Smaller(last, size - 1) - first + 1
      <3>1. start = first
        BY <2>6, <2>9, <2>11, <2>12
      <3>2. region.offset = first /\ region.remaining = Worker!LastByte(end, size) - first + 1
        BY <2>6, <2>11, <2>12, <3>1 DEF Worker!Slice, Worker!Region, Worker!FirstByte
      <3>3. Worker!LastByte(end, size) = Smaller(last, size - 1)
        <4>1. end < size /\ first <= LongMax
          BY <2>6, <2>9, <2>11, <2>12, <3>1
        <4>2. \/ last = size - 1 /\ end = -1
              \/ last \in Nat /\ last = end
              \/ last \in Nat /\ last > LongMax /\ end = -1
          <5>1. CASE digits = <<>>
            <6>1. last = size - 1
              BY <2>8, <5>1
            <6>2. end = -1
              BY <2>6, <2>9, <4>1, <5>1
            <6>3. QED
              BY <6>1, <6>2
          <5>2. CASE digits # <<>>
            <6>1. last = given
              BY <2>8, <5>2
            <6>2. given \in Nat /\ end = IF given <= LongMax THEN given ELSE -1
              BY <2>6, <2>9, <4>1, <5>2
            <6>3. QED
              BY <2>9, <6>1, <6>2
          <5>3. QED
            BY <5>1, <5>2
        <4>3. QED
          BY <2>9, <4>1, <4>2 DEF Worker!LastByte, Smaller
      <3>4. QED
        BY <3>2, <3>3
    <2>13. ASSUME region.valid, code = 200
           PROVE  first > LongMax /\ region = Worker!Region(0, size)
      <3>1. start = -1 /\ end = -1 /\ first > LongMax
        BY <2>6, <2>9, <2>11, <2>13
      <3>2. Worker!LastByte(end, size) - Worker!FirstByte(start) + 1 = size
        BY <2>9, <3>1 DEF Worker!LastByte, Worker!FirstByte
      <3>3. Worker!FirstByte(start) = 0
        BY <3>1 DEF Worker!FirstByte
      <3>4. QED
        BY <2>11, <2>13, <3>1, <3>2, <3>3 DEF Worker!Slice
    <2>14. ASSUME code = 416 PROVE first >= size \/ last >= size
      <3>1. ~(start < size /\ end < size)
        BY <2>11, <2>14
      <3>2. QED
        BY <2>6, <2>8, <2>9, <3>1
    <2>15. QED
      BY <2>3, <2>7, <2>10, <2>12, <2>13, <2>14
      DEF RangeKept, Worker!OK, Worker!PARTIAL_CONTENT, Worker!RANGE_NOT_SATISFIABLE
  <1>2. QED
    BY <1>1, Invariance, FileInvariance, PTL DEF IInv

(* A handler behind a CookieParser finds the cookies that the header       *)
(* spells at each of its "=", and no others; and only a cookie without "=" *)
(* can hurt the program (cookie_parser.cpp:9-26).                          *)
THEOREM CookiesFound == Spec => []CookiesRight
  <1>1. ASSUME Baked PROVE CookiesRight
    <2>1. PICK s : s = asked.cookie
      OBVIOUS
    <2>2. s \in Seq(STRING)
      BY <1>1, <2>1 DEF Baked
    <2>3. ASSUME crashed
          PROVE  s # <<>> /\ \E part \in ToSet(Split(s, Semi)) : EqualsIn(part) = {}
      BY <1>1, <2>1, <2>2, <2>3, FarIs DEF Baked
    <2>4. ASSUME s = <<>> \/ OneEquals(s), CookieParser \in ToSet(GuardsPassed)
          PROVE  ToSet(cookies) = {CookieAt(s, i) : i \in EqualsIn(s)}
      <3>1. ToSet(cookies) = ToSet(ParsedCookies(s))
        BY <1>1, <2>1, <2>4 DEF Baked
      <3>2. CASE OneEquals(s)
        BY <2>2, <3>1, <3>2, CookiesRead
      <3>3. CASE s = <<>>
        <4>1. ParsedCookies(s) = <<>>
          BY <3>3, Zenon DEF ParsedCookies
        <4>2. ToSet(cookies) = {}
          BY <3>1, <4>1 DEF ToSet
        <4>3. EqualsIn(s) = {}
          BY <3>3 DEF EqualsIn
        <4>4. QED
          BY <4>2, <4>3
      <3>4. QED
        BY <2>4, <3>2, <3>3
    <2>5. QED
      BY <2>1, <2>3, <2>4, Zenon DEF CookiesRight, Semi
  <1>2. QED
    BY <1>1, CookieInvariance, PTL

(* Whatever the middlewares do, a request takes no step from router to     *)
(* router but those of module Router, and what is proved of them holds: a  *)
(* handler comes behind every guard on its way and gets no request but     *)
(* those for its own address (router.cpp:76-157).                          *)
THEOREM RoutersWay ==
  Spec => /\ [][Paths!HandleRequest]_pathVars
          /\ [](WayProofs!GuardsComeFirst /\ WayProofs!RightHandler)
  <1>1. [Next]_vars => [Paths!HandleRequest]_pathVars
    <2>1. SUFFICES ASSUME [Next]_vars PROVE [Paths!HandleRequest]_pathVars
      OBVIOUS
    <2>2. CASE app' = app /\ Receive
      <3>1. PICK r \in Requests : Paths!Receive(r.method, r.target)
        BY <2>2 DEF Receive
      <3>2. r.method \in Methods \cup {"HEAD"} /\ r.target \in Slashed
        BY ServiceAssumption
      <3>3. QED
        BY <3>1, <3>2 DEF Paths!HandleRequest
    <2>3. CASE Work
      BY <2>3, WorkersStep DEF Goes, Stands, Paths!HandleRequest
    <2>4. CASE UNCHANGED vars
      BY <2>4 DEF vars
    <2>5. CASE Reject
      BY <2>5 DEF Reject
    <2>6. QED
      BY <2>1, <2>2, <2>3, <2>4, <2>5 DEF Next
  <1>2. ASSUME IInv PROVE WayProofs!GuardsComeFirst /\ WayProofs!RightHandler
    BY <1>2, RouterHolds, WayProofs!GuardsStep, WayProofs!AddressStep DEF IInv
  <1>3. QED
    BY <1>1, <1>2, Invariance, PTL DEF Spec


=============================================================================
