---------------------------- MODULE RouterProofs ----------------------------
(***************************************************************************)
(* Theorems about Router, for any number of routers, methods and           *)
(* registrations and for paths of any length.                              *)
(***************************************************************************)
EXTENDS Router, SequenceTheorems, FiniteSetTheorems, WellFoundedInduction, TLAPS

Text == {s \in Seq(Names) : Len(s) > 0}

-----------------------------------------------------------------------------
(* What the operators on texts return                                      *)

LEMMA OneName ==
  ASSUME NEW n \in Names
  PROVE  <<n>> \in Seq(Names) /\ Len(<<n>>) = 1 /\ <<n>>[1] = n
  <1>1. <<n>> \in Seq(Names)
    OBVIOUS
  <1>2. Len(<<n>>) = 1 /\ <<n>>[1] = n
    OBVIOUS
  <1>3. QED
    BY <1>1, <1>2

LEMMA EmptyText == Empty \in Text /\ Len(Empty) = 1 /\ Empty[1] = Nothing
  <1>1. PICK n \in Names : n = Nothing
    BY RouterAssumption
  <1>2. Empty = <<n>>
    BY <1>1 DEF Empty
  <1>3. QED
    BY <1>1, <1>2, OneName DEF Text

(* `u' is `s' and then `t'.                                                *)
Concat(u, s, t) ==
  /\ u \in Seq(Names)
  /\ Len(u) = Len(s) + Len(t)
  /\ \A i \in 1..Len(s) : u[i] = s[i]
  /\ \A i \in 1..Len(t) : u[Len(s) + i] = t[i]

LEMMA Joining ==
  ASSUME NEW s \in Seq(Names), NEW t \in Seq(Names), NEW u, u = s \o t
  PROVE  Concat(u, s, t)
  <1>1. Len(s) \in Nat /\ Len(t) \in Nat
    BY LenProperties
  <1>2. u \in Seq(Names) /\ Len(u) = Len(s) + Len(t)
    BY <1>1, ConcatProperties
  <1>3. \A i \in 1..Len(s) : u[i] = s[i]
    BY <1>1, ConcatProperties
  <1>4. \A i \in 1..Len(t) : u[Len(s) + i] = t[i]
    BY <1>1, ConcatProperties
  <1>5. QED
    BY <1>2, <1>3, <1>4 DEF Concat

LEMMA TextLength == ASSUME NEW s \in Text PROVE s \in Seq(Names) /\ s # <<>> /\ Len(s) \in Nat /\ Len(s) > 0
  BY LenProperties, EmptySeq DEF Text

LEMMA TailText ==
  ASSUME NEW s \in Text, Len(s) > 1
  PROVE  /\ Tail(s) \in Text
         /\ Len(Tail(s)) = Len(s) - 1
         /\ Head(s) = Nothing => s = Empty \o Tail(s)
  <1>1. s \in Seq(Names) /\ s # <<>> /\ Len(s) \in Nat
    BY TextLength
  <1>2. /\ Tail(s) \in Seq(Names) /\ Len(Tail(s)) = Len(s) - 1
        /\ \A i \in 1..Len(Tail(s)) : Tail(s)[i] = s[i + 1]
    BY <1>1, HeadTailProperties
  <1>3. ASSUME Head(s) = Nothing PROVE s = Empty \o Tail(s)
    <2>1. PICK t : t = Tail(s)
      OBVIOUS
    <2>2. PICK u : u = Empty \o t
      OBVIOUS
    <2>3. t \in Seq(Names) /\ Empty \in Seq(Names) /\ Len(Empty) = 1 /\ Empty[1] = Nothing
      BY <1>2, <2>1, EmptyText DEF Text
    <2>4. /\ u \in Seq(Names) /\ Len(u) = 1 + Len(t)
          /\ u[1] = Nothing
          /\ \A i \in 1..Len(t) : u[1 + i] = t[i]
      <3>1. PICK e : e = Empty
        OBVIOUS
      <3>2. e \in Seq(Names) /\ t \in Seq(Names) /\ u = e \o t
        BY <2>2, <2>3, <3>1
      <3>3. Concat(u, e, t)
        BY <3>2, Joining
      <3>4. Len(e) = 1 /\ e[1] = Nothing
        BY <2>3, <3>1
      <3>5. QED
        BY <3>3, <3>4 DEF Concat
    <2>5. Len(u) = Len(s)
      BY <1>1, <1>2, <2>1, <2>4
    <2>6. s[1] = Nothing
      BY <1>1, <1>3
    <2>7. ASSUME NEW i \in 1..Len(s) PROVE s[i] = u[i]
      <3>1. CASE i = 1
        BY <2>4, <2>6, <3>1
      <3>2. CASE i # 1
        <4>1. PICK j \in 1..Len(t) : i = j + 1
          BY <1>1, <1>2, <2>1, <3>2
        <4>2. s[i] = t[j]
          BY <1>2, <2>1, <4>1
        <4>3. u[1 + j] = t[j]
          BY <2>4
        <4>4. QED
          BY <4>1, <4>2, <4>3
      <3>3. QED
        BY <3>1, <3>2
    <2>8. s = u
      BY <1>1, <2>4, <2>5, <2>7, SeqEqual
    <2>9. QED
      BY <2>1, <2>2, <2>8
  <1>4. QED
    BY <1>1, <1>2, <1>3 DEF Text

LEMMA FrontText ==
  ASSUME NEW s \in Text, Len(s) > 1
  PROVE  Front(s) \in Text /\ Len(Front(s)) = Len(s) - 1
  <1>1. s \in Seq(Names) /\ Len(s) \in Nat
    BY TextLength
  <1>2. \A i \in 1..(Len(s) - 1) : s[i] \in Names
    BY <1>1, ElementOfSeq
  <1>3. SubSeq(s, 1, Len(s) - 1) \in Seq(Names) /\ Len(SubSeq(s, 1, Len(s) - 1)) = Len(s) - 1
    BY <1>1, <1>2, SubSeqProperties
  <1>4. QED
    BY <1>3 DEF Text, Front

(* A leading slash is dropped if something comes after it.                 *)
LEMMA StrippedText ==
  ASSUME tempPath \in Text
  PROVE  /\ Stripped \in Text
         /\ Stripped = tempPath \/ tempPath = Empty \o Stripped
  BY TailText DEF Stripped, StartsWithSlash

LEMMA PathOfText ==
  ASSUME RouterAssumption, NEW target \in Targets
  PROVE  PathOf(target) \in Text
  <1>1. target \in Text /\ Len(target) > 1
    BY DEF RouterAssumption, IsText, StartsWithSlash, Text
  <1>2. PICK path : path = Tail(target)
    OBVIOUS
  <1>3. path \in Text
    BY <1>1, <1>2, TailText
  <1>4. QED
    BY <1>2, <1>3, FrontText DEF PathOf, EndsWithSlash

LEMMA MountKeyText ==
  ASSUME RouterAssumption, NEW path \in MountPaths
  PROVE  MountKey(path) \in Text
  <1>1. path \in Text /\ Len(path) > 1 /\ Head(path) = Nothing /\ path # <<Nothing, Nothing>>
    BY DEF RouterAssumption, IsText, StartsWithSlash, Text
  <1>2. CASE EndsWithSlash(path)
    <2>1. path[Len(path)] = Nothing /\ path[1] = Nothing
      BY <1>1, <1>2, TextLength DEF EndsWithSlash, Last
    <2>2. Len(path) # 2
      <3>1. SUFFICES ASSUME Len(path) = 2 PROVE path = <<Nothing, Nothing>>
        BY <1>1
      <3>2. <<Nothing, Nothing>> \in Seq(Names) /\ Len(<<Nothing, Nothing>>) = 2
        BY RouterAssumption
      <3>3. <<Nothing, Nothing>>[1] = Nothing /\ <<Nothing, Nothing>>[2] = Nothing
        OBVIOUS
      <3>4. path \in Seq(Names)
        BY <1>1, TextLength
      <3>5. \A i \in 1..Len(path) : path[i] = <<Nothing, Nothing>>[i]
        BY <2>1, <3>1, <3>3
      <3>6. QED
        BY <3>1, <3>2, <3>4, <3>5, SeqEqual
    <2>3. PICK f : f = Front(path)
      OBVIOUS
    <2>4. f \in Text /\ Len(f) > 1
      BY <1>1, <2>2, <2>3, FrontText, TextLength
    <2>5. QED
      BY <1>2, <2>3, <2>4, TailText DEF MountKey
  <1>3. CASE ~EndsWithSlash(path)
    BY <1>1, <1>3, TailText DEF MountKey
  <1>4. QED
    BY <1>2, <1>3

-----------------------------------------------------------------------------
(* How a path is cut up                                                    *)

(* What a key leaves of a path, if the path begins with it.                *)
LEMMA RestText ==
  ASSUME NEW x \in Text, NEW path \in Text, IsPrefix(x, path), path # x
  PROVE  /\ Rest(x, path) \in Text
         /\ path = x \o Rest(x, path)
         /\ Len(path) > 1
  <1>1. /\ x \in Seq(Names) /\ Len(x) \in Nat /\ Len(x) > 0
        /\ path \in Seq(Names) /\ Len(path) \in Nat /\ Len(path) > 0
    BY TextLength
  <1>2. Len(x) <= Len(path) /\ SubSeq(x, 1, Len(x)) = SubSeq(path, 1, Len(x))
    BY DEF IsPrefix
  <1>3. x = SubSeq(path, 1, Len(x))
    BY <1>1, <1>2, SubSeqFull
  <1>4. Len(x) < Len(path)
    BY <1>1, <1>2, <1>3, SubSeqFull
  <1>5. Rest(x, path) = SubSeq(path, Len(x) + 1, Len(path))
    BY DEF Rest
  <1>6. path = x \o Rest(x, path)
    <2>1. SubSeq(path, 1, Len(x)) \o SubSeq(path, Len(x) + 1, Len(path)) = SubSeq(path, 1, Len(path))
      <3>1. /\ 1 \in 1 .. Len(path) + 1 /\ Len(x) \in 1 - 1 .. Len(path)
            /\ Len(path) \in Len(x) .. Len(path)
        BY <1>1, <1>4
      <3>2. path \in Seq(Names)
        BY <1>1
      <3>3. QED
        BY <3>1, <3>2, ConcatAdjacentSubSeq
    <2>2. QED
      BY <1>1, <1>3, <1>5, <2>1, SubSeqFull
  <1>7. /\ SubSeq(path, Len(x) + 1, Len(path)) \in Seq(Names)
        /\ Len(SubSeq(path, Len(x) + 1, Len(path))) = Len(path) - Len(x)
    <2>1. \A i \in Len(x) + 1 .. Len(path) : path[i] \in Names
      BY <1>1, ElementOfSeq
    <2>2. QED
      BY <1>1, <1>4, <2>1, SubSeqProperties
  <1>8. QED
    BY <1>1, <1>4, <1>5, <1>6, <1>7 DEF Text

LEMMA Assoc ==
  ASSUME NEW s \in Seq(Names), NEW t \in Seq(Names), NEW u \in Seq(Names)
  PROVE  (s \o t) \o u = s \o (t \o u) /\ s \o t \in Seq(Names)
  <1>1. (s \o t) \o u = s \o (t \o u)
    BY ConcatAssociative
  <1>2. s \o t \in Seq(Names)
    BY ConcatProperties
  <1>3. QED
    BY <1>1, <1>2

(* What is left of the path is what follows the part that was used, or     *)
(* nothing was left, and tempPath is the empty text.                       *)
Left(path, used, rest) ==
  path = used \o rest \/ (rest = Empty /\ path = used)

(* A router gets the rest with a slash before it or without.               *)
LEMMA LeftSpells ==
  ASSUME NEW path, NEW used, NEW rest \in Text, NEW stripped,
         Left(path, used, rest), used \in Seq(Names), stripped \in Text,
         stripped = rest \/ rest = Empty \o stripped
  PROVE  Spells(path, used, stripped)
  <1>1. CASE stripped = rest
    BY <1>1 DEF Left, Spells
  <1>2. CASE rest = Empty \o stripped
    <2>1. stripped \in Seq(Names) /\ Empty \in Seq(Names) /\ Len(stripped) \in Nat
          /\ Len(stripped) > 0 /\ Len(Empty) = 1 /\ rest \in Seq(Names)
      BY TextLength, EmptyText
    <2>2. Len(rest) = 1 + Len(stripped)
      <3>1. Len(Empty \o stripped) = Len(Empty) + Len(stripped)
        BY <2>1, ConcatProperties
      <3>2. QED
        BY <1>2, <2>1, <3>1
    <2>3. path = used \o rest
      BY <2>1, <2>2 DEF Left
    <2>4. path = used \o Empty \o stripped
      BY <1>2, <2>1, <2>3, Assoc
    <2>5. QED
      BY <2>4 DEF Spells
  <1>3. QED
    BY <1>1, <1>2

(* And it takes a key off it.                                              *)
LEMMA KeyTaken ==
  ASSUME NEW path, NEW used \in Seq(Names), NEW rest \in Text, NEW stripped \in Text,
         NEW x \in Text, NEW u,
         Left(path, used, rest), path \in Text,
         stripped = rest \/ rest = Empty \o stripped,
         IsPrefix(x, stripped),
         u = IF stripped = x THEN path
             ELSE used \o (IF stripped = rest THEN x ELSE Empty \o x)
  PROVE  /\ u \in Seq(Names)
         /\ Spells(u, used, x)
         /\ Left(path, u, Rest(x, stripped))
         /\ Rest(x, stripped) \in Text
  <1>1. CASE stripped = x
    <2>1. u = path /\ Rest(x, stripped) = Empty
      BY <1>1 DEF Rest
    <2>2. Spells(path, used, x)
      BY <1>1, LeftSpells
    <2>3. QED
      BY <2>1, <2>2, EmptyText DEF Left, Text
  <1>2. CASE stripped # x
    <2>1. PICK r : r = Rest(x, stripped)
      OBVIOUS
    <2>2. r \in Text /\ stripped = x \o r /\ Len(stripped) > 1
      BY <1>2, <2>1, RestText
    <2>3. /\ stripped \in Seq(Names) /\ Empty \in Seq(Names) /\ Len(stripped) \in Nat
          /\ Len(Empty) = 1 /\ rest \in Seq(Names) /\ r \in Seq(Names) /\ x \in Seq(Names)
      BY <2>2, TextLength, EmptyText
    <2>4. rest # Empty
      <3>0. Len(stripped) > 1
        BY <2>2
      <3>1. CASE stripped = rest
        <4>1. PICK n : n = Len(rest)
          OBVIOUS
        <4>2. n > 1
          BY <3>0, <3>1, <4>1
        <4>3. n # 1
          BY <4>2
        <4>4. QED
          BY <2>3, <4>1, <4>3
      <3>2. CASE rest = Empty \o stripped
        <4>1. Len(rest) = 1 + Len(stripped)
          <5>1. Len(Empty \o stripped) = Len(Empty) + Len(stripped)
            BY <2>3, ConcatProperties
          <5>2. QED
            BY <2>3, <3>2, <5>1
        <4>2. QED
          BY <2>2, <2>3, <4>1
      <3>3. QED
        BY <3>1, <3>2
    <2>5. path = used \o rest
      BY <2>4 DEF Left
    <2>6. CASE stripped = rest
      <3>1. u = used \o x
        BY <1>2, <2>6
      <3>2. path = u \o r /\ u \in Seq(Names)
        <4>1. x \in Seq(Names) /\ r \in Seq(Names)
          BY <2>3
        <4>2. (used \o x) \o r = used \o (x \o r) /\ used \o x \in Seq(Names)
          BY <4>1, Assoc
        <4>3. path = used \o (x \o r)
          BY <2>2, <2>5, <2>6
        <4>4. QED
          BY <3>1, <4>2, <4>3
      <3>3. QED
        BY <2>1, <2>2, <3>1, <3>2 DEF Spells, Left
    <2>7. CASE stripped # rest
      <3>1. u = used \o (Empty \o x) /\ rest = Empty \o stripped
        BY <1>2, <2>7
      <3>2. u = used \o Empty \o x
        <4>1. x \in Seq(Names) /\ Empty \in Seq(Names) /\ used \in Seq(Names)
          BY <2>3
        <4>2. (used \o Empty) \o x = used \o (Empty \o x)
          BY <4>1, Assoc
        <4>3. QED
          BY <3>1, <4>2
      <3>3. rest = (Empty \o x) \o r /\ Empty \o x \in Seq(Names)
        <4>1. x \in Seq(Names) /\ r \in Seq(Names) /\ Empty \in Seq(Names)
          BY <2>3
        <4>2. (Empty \o x) \o r = Empty \o (x \o r) /\ Empty \o x \in Seq(Names)
          BY <4>1, Assoc
        <4>3. rest = Empty \o (x \o r)
          BY <2>2, <3>1
        <4>4. QED
          BY <4>2, <4>3
      <3>4. path = u \o r /\ u \in Seq(Names)
        <4>1. PICK k : k = Empty \o x
          OBVIOUS
        <4>2. k \in Seq(Names) /\ r \in Seq(Names)
          BY <2>3, <3>3, <4>1
        <4>3. (used \o k) \o r = used \o (k \o r) /\ used \o k \in Seq(Names)
          BY <4>2, Assoc
        <4>4. u = used \o k /\ path = used \o (k \o r)
          BY <2>5, <3>1, <3>3, <4>1
        <4>5. QED
          BY <4>3, <4>4
      <3>5. QED
        BY <2>1, <2>2, <3>2, <3>4 DEF Spells, Left
    <2>8. QED
      BY <2>6, <2>7
  <1>3. QED
    BY <1>1, <1>2

-----------------------------------------------------------------------------
(* The inductive invariant.                                                *)

(* What is registered is well formed, and no router is mounted in a circle. *)
Tree ==
  /\ routes \in [Routers -> SUBSET (Methods \X {Tail(s) : s \in RoutePaths})]
  /\ middlewares \in [Routers -> Nat]
  /\ DOMAIN mounts = Routers
  /\ \A r \in Routers :
       /\ IsFiniteSet(DOMAIN mounts[r])
       /\ \A x \in DOMAIN mounts[r] :
            x \in Text /\ mounts[r][x] \in Routers /\ mounts[r][x] > r

(* There is no request before the Server listens, and none after Join.     *)
Phases ==
  /\ life \in {"setup", "serving", "stopping", "deleting"}
  /\ step \in Steps
  /\ life \in {"setup", "deleting"} => step = "idle"

(* A router is deleted by one that has been deleted itself, and a pointer  *)
(* to it is not forgotten.                                                 *)
Doomed(c) == c \in deleted \/ doomed[c] > 0
MountedIn(r, c) == \E x \in DOMAIN mounts[r] : mounts[r][x] = c

Ending ==
  /\ doomed \in [Routers -> Nat]
  /\ deleted \subseteq Routers
  /\ life # "deleting" => \A c \in Routers : ~Doomed(c)
  /\ life = "deleting" => Doomed(App)
  /\ \A r \in deleted, c \in Routers : MountedIn(r, c) => Doomed(c)
  /\ MountedOnce => \A c \in Routers :
       /\ doomed[c] <= 1
       /\ c \in deleted => doomed[c] = 0
       /\ Doomed(c) => c = App \/ \E r \in deleted : MountedIn(r, c)

Calls == [router : Routers, used : Seq(Names), index : Nat]

Asked ==
  /\ tempPath \in Text
  /\ request.path \in Text /\ request.target \in Text
  /\ step # "idle" => request.path = PathOf(request.target)
  /\ request.method \in Methods \cup {"HEAD", "none"}
  /\ trail \in Seq(Calls)
  /\ passed \in Seq(Routers \X Nat)
  /\ step = "idle" <=> trail = <<>>
  /\ step = "idle" => passed = <<>>

(* The middlewares that let the request through are those that the calls   *)
(* on the trail have come to, in their order.                              *)
Inward == \A i, j \in 1..Len(trail) : i < j => trail[i].router < trail[j].router
NoMore == \A i \in 1..Len(trail) : trail[i].index <= middlewares[trail[i].router]
NoLess ==
  \A i \in 1..Len(trail) :
    i < Len(trail) \/ step \in {"handled", "notFound"} =>
      trail[i].index = middlewares[trail[i].router]
OnTrail ==
  \A k \in 1..Len(passed) : \E i \in 1..Len(trail) :
    passed[k][1] = trail[i].router /\ passed[k][2] \in 1..trail[i].index
NoneLeftOut ==
  \A i \in 1..Len(trail) : \A n \in 1..trail[i].index :
    \E k \in 1..Len(passed) : passed[k] = <<trail[i].router, n>>
InOrder == \A j, k \in 1..Len(passed) : j < k => Before(passed[j], passed[k])

Guards == Inward /\ NoMore /\ NoLess /\ OnTrail /\ NoneLeftOut /\ InOrder

(* The keys of the mounts taken and what is left spell the path.           *)
Way ==
  /\ trail # <<>> => trail[1].router = App /\ trail[1].used = <<>>
  /\ \A i \in 2..Len(trail) :
       \E key \in DOMAIN mounts[trail[i - 1].router] :
         /\ mounts[trail[i - 1].router][key] = trail[i].router
         /\ Spells(trail[i].used, trail[i - 1].used, key)
  /\ step = "guards" => Left(request.path, Last(trail).used, tempPath)
  /\ step = "handled" =>
       /\ <<request.method, tempPath>> \in routes[at]
       /\ Spells(request.path, Last(trail).used, tempPath)

IInv == Tree /\ Phases /\ Ending /\ Asked /\ Guards /\ Way


LEMMA InitIInv == ASSUME RouterAssumption, Init PROVE IInv
  <1>1. App \in Routers
    BY DEF RouterAssumption, App, Routers
  <1>2. Tree
    <2>1. \A r \in Routers : DOMAIN mounts[r] = {}
      BY DEF Init
    <2>2. IsFiniteSet({})
      BY FS_EmptySet
    <2>3. QED
      BY <2>1, <2>2 DEF Init, Tree
  <1>3. Phases
    BY DEF Init, Phases, Steps
  <1>4. Ending
    <2>1. \A c \in Routers : ~Doomed(c)
      BY DEF Init, Doomed
    <2>2. QED
      BY <2>1 DEF Init, Ending
  <1>5. Asked
    <2>1. tempPath \in Text /\ request.path \in Text /\ request.target \in Text
      BY EmptyText DEF Init, NoRequest
    <2>2. request.method = "none"
      BY DEF Init, NoRequest
    <2>3. QED
      BY <2>1, <2>2 DEF Init, Asked, Calls
  <1>6. Guards
    BY DEF Init, Guards, Inward, NoMore, NoLess, OnTrail, NoneLeftOut, InOrder
  <1>7. Way
    BY DEF Init, Way
  <1>8. QED
    BY <1>2, <1>3, <1>4, <1>5, <1>6, <1>7 DEF IInv

-----------------------------------------------------------------------------
(* Tree and Phases.                                                        *)

Registered ==
  \/ \E r \in Routers, method \in Methods, path \in RoutePaths : AddRoute(r, method, path)
  \/ \E r \in Routers, path \in MountPaths, child \in Routers : Mount(r, path, child)
  \/ \E r \in Routers : AddMiddleware(r)

LEMMA OnlyRegistered ==
  ASSUME [Next]_vars, ~Registered
  PROVE  routes' = routes /\ mounts' = mounts /\ middlewares' = middlewares
  <1>1. CASE Register
    BY <1>1 DEF Register, Registered
  <1>2. CASE Listen \/ Stop \/ Join \/ \E r \in Routers : Destroy(r)
    BY <1>2 DEF Listen, Stop, Join, Destroy, registered
  <1>3. CASE HandleRequest
    BY <1>3 DEF HandleRequest, Receive, LetThrough, Refuse, GuardThrows, NoMap,
                Handle, Descend, NotFound, Answer, End, registered
  <1>4. CASE UNCHANGED vars
    BY <1>4 DEF vars, registered
  <1>5. QED
    BY <1>1, <1>2, <1>3, <1>4 DEF Next

LEMMA TreeKept ==
  ASSUME RouterAssumption, Tree, [Next]_vars
  PROVE  Tree'
  <1>1. ASSUME NEW r \in Routers, NEW method \in Methods, NEW path \in RoutePaths,
               AddRoute(r, method, path)
        PROVE  Tree'
    BY <1>1 DEF Tree, AddRoute
  <1>2. ASSUME NEW r \in Routers, NEW path \in MountPaths, NEW child \in Routers,
               Mount(r, path, child)
        PROVE  Tree'
    <2>1. PICK key : key = MountKey(path)
      OBVIOUS
    <2>2. key \in Text
      BY <2>1, MountKeyText
    <2>3. /\ child > r /\ routes' = routes /\ middlewares' = middlewares
          /\ mounts' = [mounts EXCEPT ![r] =
               [x \in DOMAIN mounts[r] \cup {key} |->
                  IF x = key THEN child ELSE mounts[r][x]]]
      BY <1>2, <2>1 DEF Mount
    <2>4. /\ mounts'[r] = [x \in DOMAIN mounts[r] \cup {key} |->
                             IF x = key THEN child ELSE mounts[r][x]]
          /\ \A s \in Routers : s # r => mounts'[s] = mounts[s]
          /\ DOMAIN mounts' = Routers
      BY <2>3 DEF Tree
    <2>5. IsFiniteSet(DOMAIN mounts'[r])
      <3>1. IsFiniteSet(DOMAIN mounts[r])
        BY DEF Tree
      <3>2. IsFiniteSet(DOMAIN mounts[r] \cup {key})
        BY <3>1, FS_AddElement
      <3>3. DOMAIN mounts'[r] = DOMAIN mounts[r] \cup {key}
        BY <2>4
      <3>4. QED
        BY <3>2, <3>3
    <2>6. \A x \in DOMAIN mounts'[r] :
            x \in Text /\ mounts'[r][x] \in Routers /\ mounts'[r][x] > r
      BY <2>2, <2>3, <2>4 DEF Tree
    <2>7. ASSUME NEW s \in Routers
          PROVE  /\ IsFiniteSet(DOMAIN mounts'[s])
                 /\ \A x \in DOMAIN mounts'[s] :
                      x \in Text /\ mounts'[s][x] \in Routers /\ mounts'[s][x] > s
      <3>1. CASE s = r
        BY <2>5, <2>6, <3>1
      <3>2. CASE s # r
        <4>1. mounts'[s] = mounts[s]
          BY <2>4, <3>2
        <4>2. QED
          BY <4>1 DEF Tree
      <3>3. QED
        BY <3>1, <3>2
    <2>8. routes' = routes /\ middlewares' = middlewares
      BY <2>3
    <2>9. QED
      BY <2>4, <2>7, <2>8 DEF Tree
  <1>3. ASSUME NEW r \in Routers, AddMiddleware(r)
        PROVE  Tree'
    BY <1>3 DEF Tree, AddMiddleware
  <1>4. CASE ~Registered
    BY <1>4, OnlyRegistered DEF Tree
  <1>5. QED
    BY <1>1, <1>2, <1>3, <1>4 DEF Registered

LEMMA PhasesKept ==
  ASSUME Phases, [Next]_vars
  PROVE  Phases'
  <1>1. CASE Register
    BY <1>1 DEF Register, AddRoute, Mount, AddMiddleware, Registering, Phases, requestVars
  <1>2. CASE Listen \/ Stop \/ Join \/ \E r \in Routers : Destroy(r)
    BY <1>2 DEF Listen, Stop, Join, Joined, Destroy, Phases, requestVars
  <1>3. CASE Answer \/ \E method \in Methods \cup {"HEAD"}, target \in Targets :
                          Receive(method, target)
    BY <1>3 DEF Answer, Receive, Phases, Steps, Ends
  <1>4. CASE LetThrough \/ Refuse \/ GuardThrows
    BY <1>4 DEF LetThrough, Refuse, GuardThrows, HasGuard, End, Phases, Steps, Ends
  <1>5. CASE NoMap \/ Handle \/ Descend \/ NotFound
    BY <1>5 DEF NoMap, Handle, Descend, NotFound, Guarded, End, Phases, Steps, Ends
  <1>6. CASE UNCHANGED vars
    BY <1>6 DEF vars, requestVars, Phases
  <1>7. QED
    BY <1>1, <1>2, <1>3, <1>4, <1>5, <1>6 DEF Next, HandleRequest

-----------------------------------------------------------------------------
(* Ending.                                                                 *)

LEMMA MountsCount ==
  ASSUME Tree, NEW r \in Routers, NEW c
  PROVE  /\ MountsOf(r, c) \in Nat
         /\ MountsOf(r, c) > 0 <=> MountedIn(r, c)
         /\ MountedOnce => MountsOf(r, c) <= 1
  <1> DEFINE keys == {x \in DOMAIN mounts[r] : mounts[r][x] = c}
  <1>1. IsFiniteSet(DOMAIN mounts[r])
    BY DEF Tree
  <1>2. IsFiniteSet(keys)
    BY <1>1, FS_Subset
  <1>3. Cardinality(keys) \in Nat
    BY <1>2, FS_CardinalityType
  <1>4. Cardinality(keys) = 0 <=> keys = {}
    BY <1>2, FS_EmptySet
  <1>5. keys # {} <=> MountedIn(r, c)
    BY DEF MountedIn
  <1>6. ASSUME MountedOnce PROVE Cardinality(keys) <= 1
    <2>1. CASE keys = {}
      BY <1>4, <2>1
    <2>2. CASE keys # {}
      <3>1. PICK x : x \in keys
        BY <2>2
      <3>2. keys = {x}
        BY <1>6, <3>1 DEF MountedOnce
      <3>3. Cardinality({x}) = 1
        BY FS_Singleton
      <3>4. QED
        BY <3>2, <3>3
    <2>3. QED
      BY <2>1, <2>2
  <1>7. MountsOf(r, c) = Cardinality(keys)
    BY DEF MountsOf
  <1>8. QED
    BY <1>3, <1>4, <1>5, <1>6, <1>7

LEMMA EndingKept ==
  ASSUME RouterAssumption, Tree, Phases, Ending, [Next]_vars
  PROVE  Ending'
  <1>0. App \in Routers /\ \A c \in Routers : c \in Nat /\ c >= App
    BY DEF RouterAssumption, App, Routers
  <1>1. CASE Register
    <2>1. life = "setup" /\ life' = life /\ doomed' = doomed /\ deleted' = deleted
      BY <1>1 DEF Register, AddRoute, Mount, AddMiddleware, Registering, endVars
    <2>2. deleted = {} /\ \A c \in Routers : doomed[c] = 0 /\ c \notin deleted
      BY <2>1 DEF Ending, Doomed
    <2>3. QED
      BY <2>1, <2>2 DEF Ending, Doomed
  <1>2. ASSUME doomed' = doomed, deleted' = deleted, mounts' = mounts,
               life' = life \/ (life # "deleting" /\ life' # "deleting")
        PROVE  Ending'
    BY <1>2 DEF Ending, Doomed, MountedOnce, MountedIn
  <1>3. CASE Join
    <2>1. /\ life = "stopping" /\ life' = "deleting" /\ mounts' = mounts
          /\ deleted' = deleted /\ doomed' = [doomed EXCEPT ![App] = 1]
      BY <1>3 DEF Join, registered
    <2>2. deleted = {} /\ \A c \in Routers : doomed[c] = 0
      BY <2>1 DEF Ending, Doomed
    <2>3. doomed' \in [Routers -> Nat] /\ doomed'[App] = 1
          /\ \A c \in Routers : c # App => doomed'[c] = 0
      BY <1>0, <2>1, <2>2 DEF Ending
    <2>4. QED
      BY <2>1, <2>2, <2>3 DEF Ending, Doomed
  <1>4. ASSUME NEW r \in Routers, Destroy(r)
        PROVE  Ending'
    <2>1. /\ life = "deleting" /\ life' = life /\ mounts' = mounts
          /\ doomed[r] > 0 /\ r \notin deleted /\ deleted' = deleted \cup {r}
          /\ doomed' = [c \in Routers |->
               doomed[c] + MountsOf(r, c) - (IF c = r THEN 1 ELSE 0)]
      BY <1>4 DEF Destroy, registered
    <2>2. \A c \in Routers :
            /\ MountsOf(r, c) \in Nat
            /\ MountsOf(r, c) > 0 <=> MountedIn(r, c)
            /\ MountedOnce => MountsOf(r, c) <= 1
      BY MountsCount
    <2>3. \A c \in Routers : doomed[c] \in Nat /\ c \in Nat
      BY <1>0 DEF Ending
    <2>4. ~MountedIn(r, r) /\ MountsOf(r, r) = 0
      <3>1. ~MountedIn(r, r)
        BY <2>3 DEF MountedIn, Tree
      <3>2. QED
        BY <2>2, <3>1
    <2>5. doomed'[r] = doomed[r] - 1 /\ doomed'[r] \in Nat
      BY <2>1, <2>3, <2>4
    <2>6. \A c \in Routers : c # r =>
            doomed'[c] = doomed[c] + MountsOf(r, c) /\ doomed'[c] \in Nat
      BY <2>1, <2>2, <2>3
    <2>7. \A c \in Routers : Doomed(c) => Doomed(c)'
      BY <2>1, <2>2, <2>3, <2>6 DEF Doomed
    <2>8. \A c \in Routers : MountedIn(r, c) => Doomed(c)'
      BY <2>2, <2>3, <2>4, <2>6 DEF Doomed
    <2>9. \A s, c : MountedIn(s, c)' <=> MountedIn(s, c)
      BY <2>1 DEF MountedIn
    <2>10. ASSUME MountedOnce, NEW c \in Routers
           PROVE  /\ doomed'[c] <= 1
                  /\ c \in deleted' => doomed'[c] = 0
                  /\ Doomed(c)' => c = App \/ \E s \in deleted' : MountedIn(s, c)
      <3>1. /\ doomed[c] <= 1 /\ doomed[r] <= 1
            /\ c \in deleted => doomed[c] = 0
            /\ Doomed(c) => c = App \/ \E s \in deleted : MountedIn(s, c)
            /\ Doomed(r) => r = App \/ \E s \in deleted : MountedIn(s, r)
        BY <2>10 DEF Ending
      <3>2. CASE c = r
        BY <2>1, <2>3, <2>5, <3>1, <3>2 DEF Doomed
      <3>3. CASE c # r /\ MountedIn(r, c)
        <4>1. c # App
          BY <1>0, <2>3, <3>3 DEF MountedIn, Tree
        <4>2. \A s \in deleted : ~MountedIn(s, c)
          <5>1. \A s \in Routers : MountedIn(s, c) => s = r
            BY <2>10, <3>3 DEF MountedIn, MountedOnce
          <5>2. QED
            BY <2>1, <5>1 DEF Ending
        <4>3. ~Doomed(c)
          BY <3>1, <4>1, <4>2
        <4>4. doomed[c] = 0 /\ c \notin deleted
          BY <2>3, <4>3 DEF Doomed
        <4>5. QED
          BY <2>1, <2>2, <2>3, <2>6, <2>10, <3>3, <4>4
      <3>4. CASE c # r /\ ~MountedIn(r, c)
        <4>1. MountsOf(r, c) = 0
          BY <2>2, <3>4
        <4>2. doomed'[c] = doomed[c]
          BY <2>3, <2>6, <3>4, <4>1
        <4>3. Doomed(c)' => Doomed(c)
          BY <2>1, <3>4, <4>2 DEF Doomed
        <4>4. QED
          BY <2>1, <3>1, <3>4, <4>2, <4>3
      <3>5. QED
        BY <3>2, <3>3, <3>4
    <2>11. MountedOnce' <=> MountedOnce
      BY <2>1 DEF MountedOnce
    <2>12. doomed' \in [Routers -> Nat] /\ deleted' \subseteq Routers
      BY <2>1, <2>5, <2>6 DEF Ending
    <2>13. Doomed(App)'
      BY <1>0, <2>1, <2>7 DEF Ending
    <2>14. \A s \in deleted', c \in Routers : MountedIn(s, c)' => Doomed(c)'
      BY <2>1, <2>7, <2>8, <2>9 DEF Ending
    <2>15. MountedOnce' => \A c \in Routers :
             /\ doomed'[c] <= 1
             /\ c \in deleted' => doomed'[c] = 0
             /\ Doomed(c)' => c = App \/ \E s \in deleted' : MountedIn(s, c)'
      BY <2>9, <2>10, <2>11
    <2>16. QED
      BY <2>1, <2>12, <2>13, <2>14, <2>15 DEF Ending
  <1>5. CASE Listen \/ Stop
    BY <1>2, <1>5 DEF Listen, Stop, registered, endVars
  <1>6. CASE HandleRequest
    BY <1>2, <1>6 DEF HandleRequest, Receive, LetThrough, Refuse, GuardThrows, NoMap,
                Handle, Descend, NotFound, Answer, End, registered, endVars
  <1>7. CASE UNCHANGED vars
    BY <1>2, <1>7 DEF vars, registered, endVars
  <1>8. QED
    BY <1>1, <1>3, <1>4, <1>5, <1>6, <1>7 DEF Next

-----------------------------------------------------------------------------
(* What the steps of a worker do to the trail                              *)

(* There is a shortest key.                                                *)
LEMMA Shortest ==
  ASSUME NEW M \in SUBSET Text, M # {}
  PROVE  \E x \in M : \A y \in M : Len(x) <= Len(y)
  <1> DEFINE T == {n \in Nat : \E x \in M : n = Len(x)}
  <1>1. \A x \in M : Len(x) \in Nat
    BY TextLength
  <1>2. T \subseteq Nat /\ T # {}
    BY <1>1
  <1>3. PICK n \in T : \A m \in T : <<m, n>> \notin OpToRel(<, Nat)
    <2> HIDE DEF T
    <2>1. QED
      BY <1>2, NatLessThanWellFounded, WFMin
  <1>4. \A m \in T : ~(m < n)
    BY <1>3 DEF OpToRel
  <1>5. PICK x \in M : n = Len(x)
    OBVIOUS
  <1>6. \A y \in M : Len(x) <= Len(y)
    BY <1>1, <1>4, <1>5
  <1>7. QED
    BY <1>6

LEMMA FirstMatchMatches ==
  ASSUME Tree, at \in Routers, NEW path, Matching(path) # {}
  PROVE  FirstMatch(path) \in Matching(path)
  <1>1. PICK M : M = Matching(path)
    OBVIOUS
  <1>2. M \in SUBSET Text /\ M # {}
    BY <1>1 DEF Matching, Tree
  <1>3. \E x \in M : \A y \in M : Len(x) <= Len(y)
    BY <1>2, Shortest
  <1>4. QED
    BY <1>1, <1>3 DEF FirstMatch

(* While there is a request, the innermost call is on the trail.           *)
Open ==
  /\ Len(trail) \in Nat /\ Len(trail) > 0
  /\ Last(trail) = trail[Len(trail)]
  /\ trail[Len(trail)] \in Calls
  /\ at \in Routers

LEMMA TrailOpen == ASSUME Asked, step # "idle" PROVE Open
  <1>1. trail \in Seq(Calls) /\ trail # <<>>
    BY DEF Asked
  <1>2. Len(trail) \in Nat /\ Len(trail) > 0
    BY <1>1, LenProperties, EmptySeq
  <1>3. trail[Len(trail)] \in Calls
    BY <1>1, <1>2, ElementOfSeq
  <1>4. at \in Routers
    BY <1>3 DEF at, Last, Calls
  <1>5. QED
    BY <1>2, <1>3, <1>4 DEF Open, Last

(* LetThrough counts the middleware, and changes nothing else on the trail. *)
Marked ==
  /\ trail' \in Seq(Calls)
  /\ Len(trail') = Len(trail)
  /\ \A i \in 1..Len(trail) :
       /\ trail'[i].router = trail[i].router
       /\ trail'[i].used = trail[i].used
       /\ i # Len(trail) => trail'[i].index = trail[i].index
  /\ trail'[Len(trail)].index = NextGuard

LEMMA LetThroughMarks ==
  ASSUME Asked, LetThrough
  PROVE  Marked
  <1>1. Open
    BY TrailOpen DEF LetThrough, HasGuard
  <1>2. PICK n : n = Len(trail)
    OBVIOUS
  <1>3. PICK g : g = NextGuard
    OBVIOUS
  <1>4. n \in 1..Len(trail) /\ trail[n] \in Calls /\ g \in Nat
    BY <1>1, <1>2, <1>3 DEF Open, Calls, NextGuard
  <1>5. PICK e : e = [trail[n] EXCEPT !.index = g]
    OBVIOUS
  <1>6. /\ e \in Calls
        /\ e.router = trail[n].router /\ e.used = trail[n].used /\ e.index = g
    BY <1>4, <1>5 DEF Calls
  <1>7. trail' = [trail EXCEPT ![n] = e]
    BY <1>2, <1>3, <1>5 DEF LetThrough
  <1>8. trail \in Seq(Calls)
    BY DEF Asked
  <1>9. /\ trail' \in Seq(Calls) /\ Len(trail') = Len(trail)
        /\ \A j \in 1..Len(trail) : trail'[j] = IF j = n THEN e ELSE trail[j]
    BY <1>4, <1>6, <1>7, <1>8, ExceptSeq
  <1>10. QED
    BY <1>2, <1>3, <1>4, <1>6, <1>9 DEF Marked

(* Descend adds the call of a router mounted in the last one.              *)
Deeper(x) ==
  /\ trail' \in Seq(Calls)
  /\ Len(trail') = Len(trail) + 1
  /\ \A i \in 1..Len(trail) : trail'[i] = trail[i]
  /\ trail'[Len(trail) + 1] = Call(mounts[at][x], Used(x))

(* The key it takes, and what it leaves of the path.                       *)
Taken(x) ==
  /\ x \in DOMAIN mounts[at] /\ x \in Text /\ IsPrefix(x, Stripped)
  /\ mounts[at][x] \in Routers /\ mounts[at][x] > at
  /\ Used(x) \in Seq(Names)
  /\ Spells(Used(x), Last(trail).used, x)
  /\ Left(request.path, Used(x), Rest(x, Stripped))
  /\ Rest(x, Stripped) \in Text

LEMMA DescendTakes ==
  ASSUME Tree, Asked, Way, Descend
  PROVE  \E x : Taken(x) /\ Deeper(x) /\ tempPath' = Rest(x, Stripped)
  <1>1. Open
    BY TrailOpen DEF Descend, Guarded
  <1>2. PICK x : x = FirstMatch(Stripped)
    OBVIOUS
  <1>3. x \in Matching(Stripped)
    BY <1>1, <1>2, FirstMatchMatches DEF Descend, Open
  <1>4. /\ x \in DOMAIN mounts[at] /\ IsPrefix(x, Stripped) /\ x \in Text
        /\ mounts[at][x] \in Routers /\ mounts[at][x] > at
    BY <1>1, <1>3 DEF Matching, Tree, Open
  <1>5. /\ tempPath' = Rest(x, Stripped)
        /\ trail' = Append(trail, Call(mounts[at][x], Used(x)))
    BY <1>2 DEF Descend
  <1>6. Taken(x)
    <2>1. PICK used : used = Last(trail).used
      OBVIOUS
    <2>2. used \in Seq(Names)
      BY <1>1, <2>1 DEF Open, Calls
    <2>3. Left(request.path, used, tempPath)
      BY <2>1 DEF Way, Descend, Guarded
    <2>4. tempPath \in Text /\ request.path \in Text
      BY DEF Asked
    <2>5. Stripped \in Text /\ (Stripped = tempPath \/ tempPath = Empty \o Stripped)
      BY <2>4, StrippedText
    <2>6. Used(x) = IF Stripped = x THEN request.path
                    ELSE used \o (IF Stripped = tempPath THEN x ELSE Empty \o x)
      BY <2>1 DEF Used
    <2>7. PICK u : u = Used(x)
      OBVIOUS
    <2>8. PICK path, rest, stripped :
            path = request.path /\ rest = tempPath /\ stripped = Stripped
      OBVIOUS
    <2>9. /\ u \in Seq(Names)
          /\ Spells(u, used, x)
          /\ Left(path, u, Rest(x, stripped))
          /\ Rest(x, stripped) \in Text
      <3>1. /\ Left(path, used, rest) /\ path \in Text /\ rest \in Text
            /\ stripped \in Text /\ (stripped = rest \/ rest = Empty \o stripped)
            /\ IsPrefix(x, stripped)
            /\ u = IF stripped = x THEN path
                   ELSE used \o (IF stripped = rest THEN x ELSE Empty \o x)
        BY <1>4, <2>3, <2>4, <2>5, <2>6, <2>7, <2>8
      <3>2. QED
        BY <1>4, <2>2, <3>1, KeyTaken
    <2>10. QED
      BY <1>4, <2>1, <2>7, <2>8, <2>9 DEF Taken
  <1>7. Deeper(x)
    <2>1. PICK e : e = Call(mounts[at][x], Used(x))
      OBVIOUS
    <2>2. e \in Calls
      BY <1>6, <2>1 DEF Call, Calls, Taken
    <2>3. trail \in Seq(Calls) /\ trail' = Append(trail, e)
      BY <1>5, <2>1 DEF Asked
    <2>4. QED
      BY <2>1, <2>2, <2>3, AppendProperties DEF Deeper
  <1>8. QED
    BY <1>5, <1>6, <1>7

-----------------------------------------------------------------------------
(* Asked.                                                                  *)

(* Steps in which the request goes on or ends where it is.                 *)
Stays ==
  /\ request' = request /\ trail' = trail /\ passed' = passed
  /\ registered' = registered

LEMMA EndStays ==
  ASSUME NEW outcome, End(outcome)
  PROVE  Stays /\ step' = outcome
  BY DEF End, Stays

(* Steps in which nobody works on a request: there is none, or it is       *)
(* answered.                                                               *)
Apart ==
  \/ step = "idle" /\ requestVars' = requestVars
  \/ registered' = registered /\ requestVars' = requestVars
  \/ Answer

LEMMA ApartSteps ==
  ASSUME Phases, [Next]_vars, ~HandleRequest \/ Answer
  PROVE  Apart
  <1>1. CASE Register
    BY <1>1 DEF Register, AddRoute, Mount, AddMiddleware, Registering, Phases, Apart
  <1>2. CASE Listen \/ Stop \/ Join \/ \E r \in Routers : Destroy(r)
    BY <1>2 DEF Listen, Stop, Join, Destroy, Apart
  <1>3. CASE Answer \/ UNCHANGED vars
    BY <1>3 DEF vars, Apart
  <1>4. QED
    BY <1>1, <1>2, <1>3 DEF Next

LEMMA AskedKept ==
  ASSUME RouterAssumption, Tree, Phases, Asked, Way, [Next]_vars
  PROVE  Asked'
  <1>1. CASE ~HandleRequest
    <2>1. requestVars' = requestVars
      BY <1>1 DEF Next, Register, AddRoute, Mount, AddMiddleware, Registering,
                  Listen, Stop, Join, Destroy, vars
    <2>2. QED
      BY <2>1 DEF Asked, requestVars
  <1>2. CASE Answer
    <2>1. /\ tempPath' \in Text /\ request'.path \in Text
          /\ request'.target \in Text /\ request'.method = "none"
      BY <1>2, EmptyText DEF Answer, NoRequest
    <2>2. trail' = <<>> /\ passed' = <<>> /\ step' = "idle"
      BY <1>2 DEF Answer
    <2>3. QED
      BY <2>1, <2>2 DEF Asked
  <1>3. ASSUME NEW method \in Methods \cup {"HEAD"}, NEW target \in Targets,
               Receive(method, target)
        PROVE  Asked'
    <2>1. /\ request' = [method |-> method, target |-> target,
                          path |-> PathOf(target)]
          /\ tempPath' = PathOf(target) /\ trail' = <<Call(App, <<>>)>>
          /\ passed' = <<>> /\ step' = "guards"
      BY <1>3 DEF Receive
    <2>2. PathOf(target) \in Text
      BY PathOfText
    <2>3. Call(App, <<>>) \in Calls
      BY DEF Call, Calls, App, Routers, RouterAssumption
    <2>4. trail' \in Seq(Calls) /\ trail' # <<>>
      <3>1. PICK c \in Calls : c = Call(App, <<>>)
        BY <2>3
      <3>2. trail' = <<c>>
        BY <2>1, <3>1
      <3>3. QED
        BY <3>2
    <2>5. /\ request'.path \in Text /\ request'.method \in Methods \cup {"HEAD"}
          /\ request'.target \in Text
          /\ request'.path = PathOf(request'.target)
      BY <2>1, <2>2 DEF RouterAssumption, IsText, Text
    <2>6. QED
      BY <2>1, <2>2, <2>4, <2>5 DEF Asked
  <1>4. CASE LetThrough
    <2>1. Marked /\ Open
      BY <1>4, LetThroughMarks, TrailOpen DEF LetThrough, HasGuard
    <2>2. trail' \in Seq(Calls) /\ trail' # <<>>
      <3>1. trail' \in Seq(Calls) /\ Len(trail') > 0
        BY <2>1 DEF Marked, Open
      <3>2. QED
        BY <3>1, EmptySeq
    <2>3. /\ tempPath' = tempPath /\ request' = request /\ step' = step
          /\ step = "guards" /\ passed' = Append(passed, <<at, NextGuard>>)
      BY <1>4 DEF LetThrough, HasGuard
    <2>4. <<at, NextGuard>> \in Routers \X Nat
      BY <2>1 DEF Open, NextGuard, Calls
    <2>5. passed' \in Seq(Routers \X Nat)
      BY <2>3, <2>4, AppendProperties DEF Asked
    <2>6. QED
      BY <2>2, <2>3, <2>5 DEF Asked
  <1>5. CASE Refuse \/ GuardThrows
    <2>1. Stays /\ tempPath' = tempPath /\ step' \in Ends /\ step # "idle"
      BY <1>5, EndStays DEF Refuse, GuardThrows, HasGuard, Ends
    <2>2. QED
      BY <2>1 DEF Stays, Asked, Ends
  <1>6. CASE NoMap \/ Handle \/ NotFound
    <2>1. Stays /\ tempPath' = Stripped /\ step' \in Ends /\ step # "idle"
      BY <1>6, EndStays DEF NoMap, Handle, NotFound, Guarded, Ends
    <2>2. Stripped \in Text
      BY StrippedText DEF Asked
    <2>3. QED
      BY <2>1, <2>2 DEF Stays, Asked, Ends
  <1>7. CASE Descend
    <2>1. PICK x : Taken(x) /\ Deeper(x) /\ tempPath' = Rest(x, Stripped)
      BY <1>7, DescendTakes
    <2>2. Open
      BY <1>7, TrailOpen DEF Descend, Guarded
    <2>3. /\ request' = request /\ passed' = passed /\ step' = step
          /\ step = "guards"
      BY <1>7 DEF Descend, Guarded
    <2>4. tempPath' \in Text
      BY <2>1 DEF Taken
    <2>5. trail' \in Seq(Calls) /\ trail' # <<>>
      <3>1. trail' \in Seq(Calls) /\ Len(trail') > 0
        BY <2>1, <2>2 DEF Deeper, Open
      <3>2. QED
        BY <3>1, EmptySeq
    <2>6. QED
      BY <2>3, <2>4, <2>5 DEF Asked
  <1>8. QED
    BY <1>1, <1>2, <1>3, <1>4, <1>5, <1>6, <1>7 DEF HandleRequest

-----------------------------------------------------------------------------
(* Guards.                                                                 *)

LEMMA SameGuards ==
  ASSUME Guards, trail' = trail, passed' = passed, middlewares' = middlewares,
         step' \in {"handled", "notFound"} =>
           \A i \in 1..Len(trail) : trail[i].index = middlewares[trail[i].router]
  PROVE  Guards'
  <1>1. Inward'
    BY DEF Guards, Inward
  <1>2. NoMore'
    BY DEF Guards, NoMore
  <1>3. NoLess'
    BY DEF Guards, NoLess
  <1>4. OnTrail'
    BY DEF Guards, OnTrail
  <1>5. NoneLeftOut'
    BY DEF Guards, NoneLeftOut
  <1>6. InOrder'
    BY DEF Guards, InOrder, Before
  <1>7. QED
    BY <1>1, <1>2, <1>3, <1>4, <1>5, <1>6 DEF Guards

LEMMA NoGuards ==
  ASSUME trail' = <<>>, passed' = <<>>
  PROVE  Guards'
  BY DEF Guards, Inward, NoMore, NoLess, OnTrail, NoneLeftOut, InOrder

(* A guard that has let the request through is one on the trail.           *)
LEMMA GuardsKept ==
  ASSUME RouterAssumption, Tree, Phases, Asked, Guards, Way, [Next]_vars
  PROVE  Guards'
  <1>1. CASE Apart
    <2>1. CASE step = "idle" /\ requestVars' = requestVars
      <3>1. trail' = <<>> /\ passed' = <<>>
        BY <2>1 DEF requestVars, Asked
      <3>2. QED
        BY <3>1, NoGuards
    <2>2. CASE registered' = registered /\ requestVars' = requestVars
      <3>1. trail' = trail /\ passed' = passed /\ middlewares' = middlewares /\ step' = step
        BY <2>2 DEF registered, requestVars
      <3>2. step \in {"handled", "notFound"} =>
              \A i \in 1..Len(trail) : trail[i].index = middlewares[trail[i].router]
        BY DEF Guards, NoLess
      <3>3. QED
        BY <3>1, <3>2, SameGuards
    <2>3. CASE Answer
      <3>1. trail' = <<>> /\ passed' = <<>>
        BY <2>3 DEF Answer
      <3>2. QED
        BY <3>1, NoGuards
    <2>4. QED
      BY <1>1, <2>1, <2>2, <2>3 DEF Apart
  <1>2. ASSUME NEW method \in Methods \cup {"HEAD"}, NEW target \in Targets,
               Receive(method, target)
        PROVE  Guards'
    <2>1. /\ trail' = <<Call(App, <<>>)>> /\ passed' = <<>> /\ step' = "guards"
          /\ middlewares' = middlewares
      BY <1>2 DEF Receive, registered
    <2>2. Len(trail') = 1 /\ trail'[1].router = App /\ trail'[1].index = 0
      BY <2>1 DEF Call
    <2>3. middlewares[App] \in Nat
      BY DEF Tree, RouterAssumption, App, Routers
    <2>4. Len(passed') = 0
      BY <2>1
    <2>5. QED
      BY <2>1, <2>2, <2>3, <2>4 DEF Guards, Inward, NoMore, NoLess, OnTrail, NoneLeftOut, InOrder
  <1>3. CASE Refuse \/ GuardThrows \/ NoMap
    <2>1. Stays /\ step' \notin {"handled", "notFound"}
      BY <1>3, EndStays DEF Refuse, GuardThrows, NoMap
    <2>2. QED
      BY <2>1, SameGuards DEF Stays, registered
  <1>4. CASE Handle \/ NotFound
    <2>1. Stays /\ Guarded
      BY <1>4, EndStays DEF Handle, NotFound
    <2>2. Open
      BY <2>1, TrailOpen DEF Guarded
    <2>3. trail[Len(trail)].index = middlewares[trail[Len(trail)].router]
      <3>1. trail[Len(trail)].index + 1 > middlewares[trail[Len(trail)].router]
        BY <2>1, <2>2 DEF Guarded, NextGuard, at, Open
      <3>2. trail[Len(trail)].index <= middlewares[trail[Len(trail)].router]
        BY <2>2 DEF Guards, NoMore, Open
      <3>3. /\ trail[Len(trail)].index \in Nat
            /\ middlewares[trail[Len(trail)].router] \in Nat
        BY <2>2 DEF Open, Calls, Tree
      <3>4. QED
        BY <3>1, <3>2, <3>3
    <2>4. \A i \in 1..Len(trail) : i < Len(trail) \/ i = Len(trail)
      BY <2>2 DEF Open
    <2>5. \A i \in 1..Len(trail) : trail[i].index = middlewares[trail[i].router]
      BY <2>3, <2>4 DEF Guards, NoLess
    <2>6. QED
      BY <2>1, <2>5, SameGuards DEF Stays, registered
  <1>5. CASE LetThrough
    <2>1. Marked /\ Open /\ HasGuard
      BY <1>5, LetThroughMarks, TrailOpen DEF LetThrough, HasGuard
    <2>2. PICK last : last = Len(trail)
      OBVIOUS
    <2>3. PICK next : next = NextGuard
      OBVIOUS
    <2>4. PICK router : router = at
      OBVIOUS
    <2>5. /\ last \in Nat /\ last > 0 /\ trail[last].router = router
          /\ trail[last].index \in Nat /\ next = trail[last].index + 1
          /\ next <= middlewares[router] /\ router \in Routers
      BY <2>1, <2>2, <2>3, <2>4 DEF Open, at, NextGuard, HasGuard, Calls
    <2>6. /\ Len(trail') = last
          /\ \A i \in 1..last : /\ trail'[i].router = trail[i].router
                                /\ i # last => trail'[i].index = trail[i].index
          /\ trail'[last].index = next
      BY <2>1, <2>2, <2>3 DEF Marked
    <2>7. /\ middlewares' = middlewares /\ step' = step /\ step = "guards"
          /\ passed' = Append(passed, <<router, next>>)
      BY <1>5, <2>3, <2>4 DEF LetThrough, HasGuard, registered
    <2>8. PICK count : count = Len(passed)
      OBVIOUS
    <2>9. /\ count \in Nat /\ Len(passed') = count + 1
          /\ \A k \in 1..count : passed'[k] = passed[k]
          /\ passed'[count + 1] = <<router, next>>
      <3>1. passed \in Seq(Routers \X Nat) /\ <<router, next>> \in Routers \X Nat
        BY <2>5 DEF Asked
      <3>2. QED
        BY <2>7, <2>8, <3>1, AppendProperties, LenProperties
    <2>10. \A i \in 1..last : trail[i].index \in Nat /\ trail[i].router \in Nat
      <3>1. \A i \in 1..last : trail[i] \in Calls
        BY <2>2, ElementOfSeq DEF Asked
      <3>2. QED
        BY <3>1 DEF Calls, Routers
    <2>11. ASSUME NEW i \in 1..last
           PROVE  trail'[i].index <= middlewares'[trail'[i].router]
      <3>1. CASE i = last
        BY <2>5, <2>6, <2>7, <3>1
      <3>2. CASE i # last
        <4>1. trail[i].index <= middlewares[trail[i].router]
          BY <2>2 DEF Guards, NoMore
        <4>2. QED
          BY <2>6, <2>7, <3>2, <4>1
      <3>3. QED
        BY <3>1, <3>2
    <2>12. ASSUME NEW i \in 1..last, i < last
           PROVE  trail'[i].index = middlewares'[trail'[i].router]
      <3>1. trail[i].index = middlewares[trail[i].router]
        BY <2>2, <2>12 DEF Guards, NoLess
      <3>2. i # last
        BY <2>5, <2>12
      <3>3. QED
        BY <2>6, <2>7, <3>1, <3>2
    <2>13. \A i, j \in 1..last : i < j => trail'[i].router < trail'[j].router
      BY <2>2, <2>6 DEF Guards, Inward
    <2>14. ASSUME NEW k \in 1..(count + 1)
           PROVE  \E i \in 1..last : /\ passed'[k][1] = trail'[i].router
                                     /\ passed'[k][2] \in 1..trail'[i].index
      <3>1. CASE k = count + 1
        BY <2>5, <2>6, <2>9, <3>1
      <3>2. CASE k # count + 1
        <4>1. k \in 1..count
          BY <2>9, <3>2
        <4>2. PICK i \in 1..last : /\ passed[k][1] = trail[i].router
                                   /\ passed[k][2] \in 1..trail[i].index
          BY <2>2, <2>8, <4>1 DEF Guards, OnTrail
        <4>3. passed[k][2] \in 1..trail'[i].index
          BY <2>5, <2>6, <2>10, <4>2, SMTT(20)
        <4>4. QED
          BY <2>6, <2>9, <4>1, <4>2, <4>3
      <3>3. QED
        BY <3>1, <3>2
    <2>15. ASSUME NEW i \in 1..last, NEW n \in 1..trail'[i].index
           PROVE  \E k \in 1..(count + 1) : passed'[k] = <<trail'[i].router, n>>
      <3>1. CASE i = last /\ n = next
        BY <2>5, <2>6, <2>9, <3>1
      <3>2. CASE i # last \/ n # next
        <4>1. n \in 1..trail[i].index
          BY <2>5, <2>6, <3>2
        <4>2. PICK k \in 1..count : passed[k] = <<trail[i].router, n>>
          BY <2>2, <2>8, <4>1 DEF Guards, NoneLeftOut
        <4>3. QED
          BY <2>6, <2>9, <4>2
      <3>3. QED
        BY <3>1, <3>2
    <2>16. ASSUME NEW j \in 1..(count + 1), NEW k \in 1..(count + 1), j < k
           PROVE  Before(passed'[j], passed'[k])
      <3>1. j \in 1..count
        BY <2>9, <2>16
      <3>2. CASE k \in 1..count
        <4>1. Before(passed[j], passed[k])
          BY <2>8, <2>16, <3>1, <3>2 DEF Guards, InOrder
        <4>2. QED
          BY <2>9, <3>1, <3>2, <4>1
      <3>3. CASE k = count + 1
        <4>1. PICK i \in 1..last : /\ passed[j][1] = trail[i].router
                                   /\ passed[j][2] \in 1..trail[i].index
          BY <2>2, <2>8, <3>1 DEF Guards, OnTrail
        <4>2. passed'[j] = passed[j] /\ passed'[k] = <<router, next>>
          BY <2>9, <3>1, <3>3
        <4>3. CASE i = last
          <5>1. passed[j][1] = router /\ passed[j][2] < next
            BY <2>5, <4>1, <4>3
          <5>2. QED
            BY <4>2, <5>1 DEF Before
        <4>4. CASE i # last
          <5>1. trail[i].router < trail[last].router
            BY <2>2, <2>5, <4>4 DEF Guards, Inward
          <5>2. passed[j][1] < router
            BY <2>5, <4>1, <5>1
          <5>3. QED
            BY <4>2, <5>2 DEF Before
        <4>5. QED
          BY <4>3, <4>4
      <3>4. QED
        BY <2>9, <3>2, <3>3
    <2>17. step' \notin {"handled", "notFound"}
      BY <2>7
    <2>18. Inward'
      BY <2>6, <2>13 DEF Inward
    <2>19. NoMore'
      BY <2>6, <2>11 DEF NoMore
    <2>20. NoLess'
      BY <2>6, <2>12, <2>17 DEF NoLess
    <2>21. OnTrail'
      BY <2>6, <2>9, <2>14 DEF OnTrail
    <2>22. NoneLeftOut'
      <3>1. SUFFICES ASSUME NEW i \in 1..Len(trail'), NEW n \in 1..trail'[i].index
                     PROVE  \E k \in 1..Len(passed') : passed'[k] = <<trail'[i].router, n>>
        BY DEF NoneLeftOut
      <3>2. i \in 1..last
        BY <2>6
      <3>3. PICK k \in 1..(count + 1) : passed'[k] = <<trail'[i].router, n>>
        BY <2>15, <3>2
      <3>4. QED
        BY <2>9, <3>3
    <2>23. InOrder'
      BY <2>9, <2>16 DEF InOrder
    <2>24. QED
      BY <2>18, <2>19, <2>20, <2>21, <2>22, <2>23 DEF Guards
  <1>6. CASE Descend
    <2>1. PICK x : Taken(x) /\ Deeper(x)
      BY <1>6, DescendTakes
    <2>2. Open
      BY <1>6, TrailOpen DEF Descend, Guarded
    <2>3. PICK last : last = Len(trail)
      OBVIOUS
    <2>4. PICK child : child = mounts[at][x]
      OBVIOUS
    <2>5. /\ last \in Nat /\ last > 0 /\ trail[last].router = at
          /\ child > at /\ child \in Routers /\ at \in Routers
          /\ trail[last].index \in Nat /\ middlewares[at] \in Nat
          /\ middlewares[child] \in Nat
      BY <2>1, <2>2, <2>3, <2>4 DEF Open, at, Taken, Calls, Tree
    <2>6. /\ Len(trail') = last + 1
          /\ \A i \in 1..last : trail'[i] = trail[i]
          /\ trail'[last + 1].router = child /\ trail'[last + 1].index = 0
      BY <2>1, <2>3, <2>4 DEF Deeper, Call
    <2>7. /\ middlewares' = middlewares /\ step' = "guards" /\ passed' = passed
      BY <1>6 DEF Descend, Guarded, registered
    <2>8. trail[last].index = middlewares[at]
      <3>1. trail[last].index + 1 > middlewares[at]
        BY <1>6, <2>2, <2>3 DEF Descend, Guarded, NextGuard, Open
      <3>2. trail[last].index <= middlewares[at]
        BY <2>3, <2>5 DEF Guards, NoMore
      <3>3. QED
        BY <2>5, <3>1, <3>2
    <2>9. \A i \in 1..last : trail[i].index = middlewares[trail[i].router]
      <3>1. \A i \in 1..last : i < last \/ i = last
        BY <2>5
      <3>2. QED
        BY <2>3, <2>5, <2>8, <3>1 DEF Guards, NoLess
    <2>10. \A i \in 1..(last + 1) : i \in 1..last \/ i = last + 1
      BY <2>5
    <2>11. \A i \in 1..(last + 1) : trail'[i].index <= middlewares'[trail'[i].router]
      BY <2>3, <2>5, <2>6, <2>7, <2>10 DEF Guards, NoMore
    <2>12. \A i \in 1..(last + 1) : i < last + 1 =>
             trail'[i].index = middlewares'[trail'[i].router]
      BY <2>5, <2>6, <2>7, <2>9
    <2>13. ASSUME NEW i \in 1..(last + 1), NEW j \in 1..(last + 1), i < j
           PROVE  trail'[i].router < trail'[j].router
      <3>1. i \in 1..last
        BY <2>5, <2>13
      <3>2. CASE j \in 1..last
        BY <2>3, <2>6, <2>13, <3>1, <3>2 DEF Guards, Inward
      <3>3. CASE j = last + 1
        <4>1. trail[i].router \in Nat /\ at \in Nat /\ child \in Nat
          <5>1. trail[i] \in Calls
            BY <2>3, <3>1, ElementOfSeq DEF Asked
          <5>2. QED
            BY <2>5, <5>1 DEF Calls, Routers
        <4>2. i = last \/ trail[i].router < at
          <5>1. i # last => trail[i].router < trail[last].router
            BY <2>3, <2>5, <3>1 DEF Guards, Inward
          <5>2. QED
            BY <2>5, <5>1
        <4>3. trail[i].router < child
          BY <2>5, <4>1, <4>2
        <4>4. QED
          BY <2>6, <3>1, <3>3, <4>3
      <3>4. QED
        BY <2>10, <3>2, <3>3
    <2>14. ASSUME NEW k \in 1..Len(passed')
           PROVE  \E i \in 1..(last + 1) : /\ passed'[k][1] = trail'[i].router
                                           /\ passed'[k][2] \in 1..trail'[i].index
      <3>1. PICK i \in 1..last : /\ passed[k][1] = trail[i].router
                                 /\ passed[k][2] \in 1..trail[i].index
        BY <2>3, <2>7 DEF Guards, OnTrail
      <3>2. i \in 1..(last + 1)
        BY <2>5
      <3>3. QED
        BY <2>6, <2>7, <3>1, <3>2
    <2>15. ASSUME NEW i \in 1..(last + 1), NEW n \in 1..trail'[i].index
           PROVE  \E k \in 1..Len(passed') : passed'[k] = <<trail'[i].router, n>>
      <3>1. i # last + 1
        BY <2>6
      <3>2. i \in 1..last
        BY <2>10, <3>1
      <3>3. QED
        <4>1. trail'[i] = trail[i]
          BY <2>6, <3>2
        <4>2. n \in 1..trail[i].index
          BY <4>1
        <4>3. \E k \in 1..Len(passed) : passed[k] = <<trail[i].router, n>>
          BY <2>3, <3>2, <4>2 DEF Guards, NoneLeftOut
        <4>4. QED
          BY <2>7, <4>1, <4>3
    <2>16. \A j, k \in 1..Len(passed') : j < k => Before(passed'[j], passed'[k])
      BY <2>7 DEF Guards, InOrder
    <2>17. QED
      BY <2>6, <2>7, <2>11, <2>12, <2>13, <2>14, <2>15, <2>16
         DEF Guards, Inward, NoMore, NoLess, OnTrail, NoneLeftOut, InOrder
  <1>7. QED
    BY <1>1, <1>2, <1>3, <1>4, <1>5, <1>6, ApartSteps DEF HandleRequest

-----------------------------------------------------------------------------
(* Way.                                                                    *)

(* One call after another, by the keys of the mounts.                      *)
LEMMA SameWay ==
  ASSUME Way, trail' = trail, mounts' = mounts, step' \notin {"guards", "handled"}
  PROVE  Way'
  BY DEF Way, Spells

LEMMA WayKept ==
  ASSUME RouterAssumption, Tree, Phases, Asked, Way, [Next]_vars
  PROVE  Way'
  <1>1. CASE Apart
    <2>1. ASSUME trail' = <<>>, step' = "idle" PROVE Way'
      BY <2>1 DEF Way
    <2>2. CASE step = "idle" /\ requestVars' = requestVars
      BY <2>1, <2>2 DEF requestVars, Asked
    <2>3. CASE registered' = registered /\ requestVars' = requestVars
      BY <2>3 DEF registered, requestVars, Way, Spells, Left, at
    <2>4. CASE Answer
      BY <2>1, <2>4 DEF Answer
    <2>5. QED
      BY <1>1, <2>2, <2>3, <2>4 DEF Apart
  <1>2. ASSUME NEW method \in Methods \cup {"HEAD"}, NEW target \in Targets,
               Receive(method, target)
        PROVE  Way'
    <2>1. PICK path : path = PathOf(target)
      OBVIOUS
    <2>2. path \in Seq(Names)
      BY <2>1, PathOfText, TextLength
    <2>3. /\ request'.path = path /\ tempPath' = path
          /\ trail' = <<Call(App, <<>>)>> /\ step' = "guards"
      BY <1>2, <2>1 DEF Receive
    <2>4. /\ Len(trail') = 1 /\ trail'[1].router = App /\ trail'[1].used = <<>>
          /\ Last(trail') = trail'[1]
      BY <2>3 DEF Call, Last
    <2>5. Left(path, <<>>, path)
      BY <2>2, ConcatEmptySeq DEF Left
    <2>6. QED
      BY <2>3, <2>4, <2>5 DEF Way
  <1>3. CASE LetThrough
    <2>1. Marked /\ Open
      BY <1>3, LetThroughMarks, TrailOpen DEF LetThrough, HasGuard
    <2>2. /\ mounts' = mounts /\ request' = request /\ tempPath' = tempPath
          /\ step' = "guards" /\ step = "guards"
      BY <1>3 DEF LetThrough, HasGuard, registered
    <2>3. /\ Len(trail') = Len(trail) /\ Len(trail) \in Nat /\ Len(trail) > 0
          /\ \A i \in 1..Len(trail) :
               trail'[i].router = trail[i].router /\ trail'[i].used = trail[i].used
      BY <2>1 DEF Marked, Open
    <2>4. trail # <<>>
      BY <2>2 DEF Asked
    <2>5. Last(trail').used = Last(trail).used
      BY <2>3 DEF Last
    <2>6. ASSUME NEW i \in 2..Len(trail')
          PROVE  \E key \in DOMAIN mounts'[trail'[i - 1].router] :
                   /\ mounts'[trail'[i - 1].router][key] = trail'[i].router
                   /\ Spells(trail'[i].used, trail'[i - 1].used, key)
      <3>1. i \in 2..Len(trail) /\ i \in 1..Len(trail) /\ i - 1 \in 1..Len(trail)
        BY <2>3
      <3>2. PICK key \in DOMAIN mounts[trail[i - 1].router] :
              /\ mounts[trail[i - 1].router][key] = trail[i].router
              /\ Spells(trail[i].used, trail[i - 1].used, key)
        BY <3>1 DEF Way
      <3>3. QED
        BY <2>2, <2>3, <3>1, <3>2
    <2>7. trail'[1].router = App /\ trail'[1].used = <<>>
      BY <2>3, <2>4 DEF Way
    <2>8. Left(request'.path, Last(trail').used, tempPath')
      BY <2>2, <2>5 DEF Way
    <2>9. QED
      BY <2>2, <2>6, <2>7, <2>8 DEF Way
  <1>4. CASE Refuse \/ GuardThrows \/ NoMap \/ NotFound
    <2>1. Stays /\ step' \notin {"guards", "handled"}
      BY <1>4, EndStays DEF Refuse, GuardThrows, NoMap, NotFound
    <2>2. QED
      BY <2>1, SameWay DEF Stays, registered
  <1>5. CASE Handle
    <2>1. Stays /\ step' \in {"handled", "failed"} /\ tempPath' = Stripped /\ step = "guards"
      BY <1>5, EndStays DEF Handle, Guarded
    <2>2. CASE step' = "failed"
      BY <2>1, <2>2, SameWay DEF Stays, registered
    <2>3. CASE step' = "handled"
      <3>1. Open
        BY <2>1, TrailOpen
      <3>2. PICK used : used = Last(trail).used
        OBVIOUS
      <3>3. used \in Seq(Names)
        BY <3>1, <3>2 DEF Open, Calls
      <3>4. Left(request.path, used, tempPath)
        BY <2>1, <3>2 DEF Way
      <3>5. tempPath \in Text /\ Stripped \in Text
            /\ (Stripped = tempPath \/ tempPath = Empty \o Stripped)
        BY StrippedText DEF Asked
      <3>6. Spells(request.path, used, Stripped)
        BY <3>3, <3>4, <3>5, LeftSpells
      <3>7. <<request.method, Stripped>> \in routes[at]
        BY <1>5 DEF Handle, HasRoute
      <3>8. /\ trail' = trail /\ mounts' = mounts /\ routes' = routes
            /\ request' = request /\ at' = at
        BY <2>1 DEF Stays, registered, at
      <3>9. trail' # <<>> => trail'[1].router = App /\ trail'[1].used = <<>>
        BY <3>8 DEF Way
      <3>10. \A i \in 2..Len(trail') :
               \E key \in DOMAIN mounts'[trail'[i - 1].router] :
                 /\ mounts'[trail'[i - 1].router][key] = trail'[i].router
                 /\ Spells(trail'[i].used, trail'[i - 1].used, key)
        BY <3>8 DEF Way
      <3>11. <<request'.method, tempPath'>> \in routes'[at']
        BY <2>1, <3>7, <3>8
      <3>12. Spells(request'.path, Last(trail').used, tempPath')
        BY <2>1, <3>2, <3>6, <3>8
      <3>13. QED
        BY <2>3, <3>9, <3>10, <3>11, <3>12 DEF Way
    <2>4. QED
      BY <2>1, <2>2, <2>3
  <1>6. CASE Descend
    <2>1. PICK x : Taken(x) /\ Deeper(x) /\ tempPath' = Rest(x, Stripped)
      BY <1>6, DescendTakes
    <2>2. Open
      BY <1>6, TrailOpen DEF Descend, Guarded
    <2>3. PICK last : last = Len(trail)
      OBVIOUS
    <2>4. /\ last \in Nat /\ last > 0 /\ trail[last].router = at
          /\ Last(trail) = trail[last]
      BY <2>2, <2>3 DEF Open, at
    <2>5. /\ Len(trail') = last + 1
          /\ \A i \in 1..last : trail'[i] = trail[i]
          /\ trail'[last + 1].router = mounts[at][x]
          /\ trail'[last + 1].used = Used(x)
      BY <2>1, <2>3 DEF Deeper, Call
    <2>6. mounts' = mounts /\ request' = request /\ step' = "guards" /\ step = "guards"
      BY <1>6 DEF Descend, Guarded, registered
    <2>7. trail # <<>>
      BY <2>6 DEF Asked
    <2>8. trail'[1].router = App /\ trail'[1].used = <<>>
      <3>1. 1 \in 1..last
        BY <2>4
      <3>2. QED
        BY <2>5, <2>7, <3>1 DEF Way
    <2>9. ASSUME NEW i \in 2..(last + 1)
          PROVE  \E key \in DOMAIN mounts'[trail'[i - 1].router] :
                   /\ mounts'[trail'[i - 1].router][key] = trail'[i].router
                   /\ Spells(trail'[i].used, trail'[i - 1].used, key)
      <3>1. CASE i = last + 1
        <4>1. trail'[i - 1] = trail[last]
          BY <2>4, <2>5, <3>1
        <4>2. /\ x \in DOMAIN mounts[at]
              /\ Spells(Used(x), trail[last].used, x)
          BY <2>1, <2>4 DEF Taken
        <4>3. trail'[i].router = mounts[at][x] /\ trail'[i].used = Used(x)
          BY <2>5, <3>1
        <4>4. QED
          BY <2>4, <2>6, <4>1, <4>2, <4>3
      <3>2. CASE i # last + 1
        <4>1. i \in 2..Len(trail) /\ i \in 1..last /\ i - 1 \in 1..last
          BY <2>3, <2>4, <3>2
        <4>2. PICK key \in DOMAIN mounts[trail[i - 1].router] :
                /\ mounts[trail[i - 1].router][key] = trail[i].router
                /\ Spells(trail[i].used, trail[i - 1].used, key)
          BY <4>1 DEF Way
        <4>3. QED
          BY <2>5, <2>6, <4>1, <4>2
      <3>3. QED
        BY <3>1, <3>2
    <2>10. Left(request'.path, Last(trail').used, tempPath')
      BY <2>1, <2>5, <2>6 DEF Taken, Last
    <2>11. QED
      BY <2>5, <2>6, <2>8, <2>9, <2>10 DEF Way
  <1>7. QED
    BY <1>1, <1>2, <1>3, <1>4, <1>5, <1>6, ApartSteps DEF HandleRequest

-----------------------------------------------------------------------------
(* The invariant, and what follows from it.                                *)

LEMMA StepIInv == ASSUME RouterAssumption, IInv, [Next]_vars PROVE IInv'
  <1>1. Tree /\ Phases /\ Ending /\ Asked /\ Guards /\ Way
    BY DEF IInv
  <1>2. Tree'
    BY <1>1, TreeKept
  <1>3. Phases'
    BY <1>1, PhasesKept
  <1>4. Ending'
    BY <1>1, EndingKept
  <1>5. Asked'
    BY <1>1, AskedKept
  <1>6. Guards'
    BY <1>1, GuardsKept
  <1>7. Way'
    BY <1>1, WayKept
  <1>8. QED
    BY <1>2, <1>3, <1>4, <1>5, <1>6, <1>7 DEF IInv

LEMMA Invariance == Spec => []IInv
  <1>1. Init => IInv
    BY RouterAssumption, InitIInv
  <1>2. IInv /\ [Next]_vars => IInv'
    BY RouterAssumption, StepIInv
  <1>3. QED
    BY <1>1, <1>2, PTL DEF Spec

(* Every variable of the router has its type in every reachable state.     *)
THEOREM TypeCorrect == Spec => []TypeOK
  <1>1. ASSUME IInv PROVE TypeOK
    <2>1. Tree /\ Phases /\ Ending /\ Asked
      BY <1>1 DEF IInv
    <2>2. IsText(tempPath) /\ IsText(request.path) /\ IsText(request.target)
      BY <2>1 DEF Asked, IsText, Text
    <2>3. \A r \in Routers : \A x \in DOMAIN mounts[r] :
            IsText(x) /\ mounts[r][x] \in Routers
      BY <2>1 DEF Tree, IsText, Text
    <2>4. QED
      BY <2>1, <2>2, <2>3 DEF TypeOK, Tree, Phases, Ending, Asked, Calls
  <1>2. QED
    BY <1>1, Invariance, PTL

LEMMA GuardsStep == ASSUME IInv PROVE GuardsComeFirst
  <1>1. SUFFICES ASSUME step \in {"handled", "notFound"}
                 PROVE  /\ ToSet(passed) = UNION {GuardsOf(trail[i].router) : i \in 1..Len(trail)}
                        /\ \A j, k \in 1..Len(passed) : j < k => Before(passed[j], passed[k])
    BY DEF GuardsComeFirst
  <1>2. Guards /\ Asked
    BY DEF IInv
  <1>3. \A i \in 1..Len(trail) : trail[i].index = middlewares[trail[i].router]
    BY <1>1, <1>2 DEF Guards, NoLess
  <1>4. passed \in Seq(Routers \X Nat) /\ DOMAIN passed = 1..Len(passed)
    BY <1>2, LenProperties DEF Asked
  <1>5. ASSUME NEW k \in 1..Len(passed)
        PROVE  \E i \in 1..Len(trail) : passed[k] \in GuardsOf(trail[i].router)
    <2>1. PICK i \in 1..Len(trail) :
            passed[k][1] = trail[i].router /\ passed[k][2] \in 1..trail[i].index
      BY <1>2 DEF Guards, OnTrail
    <2>2. passed[k] \in Routers \X Nat
      BY <1>4, ElementOfSeq
    <2>3. passed[k] = <<passed[k][1], passed[k][2]>>
      BY <2>2
    <2>4. passed[k][2] \in 1..middlewares[trail[i].router]
      BY <1>3, <2>1
    <2>5. QED
      BY <2>1, <2>3, <2>4 DEF GuardsOf
  <1>6. ASSUME NEW i \in 1..Len(trail), NEW g \in GuardsOf(trail[i].router)
        PROVE  g \in ToSet(passed)
    <2>1. PICK n \in 1..trail[i].index : g = <<trail[i].router, n>>
      BY <1>3 DEF GuardsOf
    <2>2. PICK k \in 1..Len(passed) : passed[k] = <<trail[i].router, n>>
      BY <1>2 DEF Guards, NoneLeftOut
    <2>3. QED
      BY <1>4, <2>1, <2>2 DEF ToSet
  <1>7. ToSet(passed) = UNION {GuardsOf(trail[i].router) : i \in 1..Len(trail)}
    <2> DEFINE U == UNION {GuardsOf(trail[i].router) : i \in 1..Len(trail)}
    <2>1. ASSUME NEW g \in ToSet(passed) PROVE g \in U
      <3>1. PICK k \in 1..Len(passed) : g = passed[k]
        BY <1>4 DEF ToSet
      <3>2. QED
        BY <1>5, <3>1
    <2>2. ASSUME NEW g \in U PROVE g \in ToSet(passed)
      <3>1. PICK i \in 1..Len(trail) : g \in GuardsOf(trail[i].router)
        OBVIOUS
      <3>2. QED
        BY <1>6, <3>1
    <2>3. QED
      BY <2>1, <2>2
  <1>8. QED
    BY <1>2, <1>7 DEF Guards, InOrder

LEMMA AddressStep == ASSUME IInv PROVE RightHandler
  <1>1. Way /\ Asked
    BY DEF IInv
  <1>2. SUFFICES ASSUME step = "handled" PROVE RightHandler
    BY DEF RightHandler
  <1>3. trail # <<>>
    BY <1>1, <1>2 DEF Asked
  <1>4. QED
    BY <1>1, <1>2, <1>3 DEF Way, RightHandler

(* A handler, or the answer that there is none, comes after every          *)
(* middleware of every router on the way, in their order, and after no     *)
(* other (router.cpp:92-94, 119, 143-155).                                 *)
THEOREM GuardsFirst == Spec => []GuardsComeFirst
  BY GuardsStep, Invariance, PTL

(* A handler gets no request but those for its own address, which the keys *)
(* of the mounts on the way and its own route spell (router.cpp:96-122).   *)
THEOREM OwnAddress == Spec => []RightHandler
  BY AddressStep, Invariance, PTL

(* Deleting the Server deletes whatever it reaches, not under the feet of  *)
(* a worker; and nothing twice, but only if no router is mounted in two    *)
(* places, which nothing checks (router.cpp:10-12, server.h:55-57).        *)
THEOREM DeletedOnce == Spec => []EachDeletedOnce
  <1>1. ASSUME IInv PROVE EachDeletedOnce
    <2>1. Ending /\ Phases /\ Tree
      BY <1>1 DEF IInv
    <2>2. MountedOnce => \A r \in deleted : doomed[r] = 0
      BY <2>1 DEF Ending
    <2>3. ASSUME life = "deleting", \A r \in Routers : doomed[r] = 0
          PROVE  Reachable \subseteq deleted
      <3>1. App \in deleted
        <4>1. App \in Routers
          BY RouterAssumption DEF App, Routers
        <4>2. Doomed(App)
          BY <2>1, <2>3 DEF Ending
        <4>3. QED
          BY <2>3, <4>1, <4>2 DEF Doomed
      <3>2. deleted \in SUBSET Routers /\ Closed(deleted)
        <4>1. ASSUME NEW r \in deleted, NEW x \in DOMAIN mounts[r]
              PROVE  mounts[r][x] \in deleted
          <5>1. r \in Routers /\ mounts[r][x] \in Routers
            BY <2>1 DEF Ending, Tree
          <5>2. Doomed(mounts[r][x])
            BY <2>1, <5>1 DEF Ending, MountedIn
          <5>3. QED
            BY <2>3, <5>1, <5>2 DEF Doomed
        <4>2. QED
          BY <2>1, <4>1 DEF Ending, Closed
      <3>3. QED
        BY <3>1, <3>2 DEF Reachable
    <2>4. deleted # {} => step = "idle"
      <3>1. ASSUME life # "deleting" PROVE deleted = {}
        BY <2>1, <3>1 DEF Ending, Doomed
      <3>2. QED
        BY <2>1, <3>1 DEF Phases
    <2>5. QED
      BY <2>2, <2>3, <2>4 DEF EachDeletedOnce
  <1>2. QED
    BY <1>1, Invariance, PTL

-----------------------------------------------------------------------------
(* 404 is honest.                                                          *)

(* Minimal counterexamples: induction without a predicate as a parameter.  *)
LEMMA Smallest ==
  ASSUME NEW T, T \subseteq Nat, T # {}
  PROVE  \E n \in T : \A m \in T : n <= m
  <1>1. PICK n \in T : \A m \in T : <<m, n>> \notin OpToRel(<, Nat)
    BY NatLessThanWellFounded, WFMin
  <1>2. \A m \in T : ~(m < n)
    BY <1>1 DEF OpToRel
  <1>3. QED
    BY <1>2

(* The definition of Places is one: there is a function like that.         *)
Start == {[router |-> App, prefix |-> <<>>]}
Onward(P) ==
  P \cup UNION {{[router |-> mounts[p.router][x], prefix |-> p.prefix \o x] :
                   x \in DOMAIN mounts[p.router]} : p \in P}
Stages(n, g) ==
  /\ g = [i \in 0..n |-> g[i]]
  /\ g[0] = Start
  /\ \A i \in 1..n : g[i] = Onward(g[i - 1])

LEMMA StagesExist == \A n \in Nat : \E g : Stages(n, g)
  <1> DEFINE T == {n \in Nat : ~\E g : Stages(n, g)}
  <1>1. SUFFICES ASSUME T # {} PROVE FALSE
    OBVIOUS
  <1>2. PICK n \in T : \A m \in T : n <= m
    <2>1. T \subseteq Nat
      OBVIOUS
    <2> HIDE DEF T
    <2>2. QED
      BY <1>1, <2>1, Smallest
  <1>3. CASE n = 0
    <2>1. Stages(0, [i \in 0..0 |-> Start])
      BY DEF Stages
    <2>2. QED
      BY <1>3, <2>1
  <1>4. CASE n # 0
    <2>1. n - 1 \in Nat /\ n - 1 \notin T
      BY <1>2, <1>4
    <2>2. PICK g : Stages(n - 1, g)
      BY <2>1
    <2>3. PICK h : h = [i \in 0..n |-> IF i = n THEN Onward(g[n - 1]) ELSE g[i]]
      OBVIOUS
    <2>4. h = [i \in 0..n |-> h[i]]
      BY <2>3
    <2>5. h[0] = Start
      BY <1>4, <2>2, <2>3 DEF Stages
    <2>6. ASSUME NEW i \in 1..n PROVE h[i] = Onward(h[i - 1])
      <3>1. h[i - 1] = g[i - 1]
        BY <2>3
      <3>2. CASE i = n
        BY <2>3, <3>1, <3>2
      <3>3. CASE i # n
        <4>1. i \in 1..(n - 1) /\ h[i] = g[i]
          BY <2>3, <3>3
        <4>2. QED
          BY <2>2, <3>1, <4>1 DEF Stages
      <3>4. QED
        BY <3>2, <3>3
    <2>7. Stages(n, h)
      BY <2>4, <2>5, <2>6 DEF Stages
    <2>8. QED
      BY <2>7
  <1>5. QED
    BY <1>3, <1>4

LEMMA StagesAgree ==
  ASSUME NEW n \in Nat, NEW m \in Nat, NEW g, NEW h, Stages(n, g), Stages(m, h), n <= m
  PROVE  g[n] = h[n]
  <1> DEFINE T == {i \in 0..n : g[i] # h[i]}
  <1>1. SUFFICES ASSUME T # {} PROVE FALSE
    OBVIOUS
  <1>2. PICK i \in T : \A j \in T : i <= j
    <2>1. T \subseteq Nat
      OBVIOUS
    <2> HIDE DEF T
    <2>2. QED
      BY <1>1, <2>1, Smallest
  <1>3. i # 0
    BY <1>2 DEF Stages
  <1>4. i - 1 \in 0..n /\ i - 1 \notin T /\ i \in 1..n /\ i \in 1..m
    BY <1>2, <1>3
  <1>5. g[i - 1] = h[i - 1]
    BY <1>4
  <1>6. g[i] = Onward(g[i - 1]) /\ h[i] = Onward(h[i - 1])
    BY <1>4 DEF Stages
  <1>7. QED
    BY <1>2, <1>5, <1>6

LEMMA PlacesSteps ==
  /\ Places[0] = Start
  /\ \A n \in Nat : n # 0 => Places[n] = Onward(Places[n - 1])
  <1> DEFINE stages(n) == CHOOSE g : Stages(n, g)
             f == [n \in Nat |-> stages(n)[n]]
  <1>1. \A n \in Nat : Stages(n, stages(n))
    BY StagesExist
  <1> HIDE DEF stages
  <1>2. f[0] = Start
    BY <1>1 DEF Stages
  <1>3. ASSUME NEW n \in Nat, n # 0 PROVE f[n] = Onward(f[n - 1])
    <2>1. n - 1 \in Nat /\ n - 1 <= n /\ n \in 1..n
      BY <1>3
    <2>2. stages(n)[n] = Onward(stages(n)[n - 1])
      BY <1>1, <2>1 DEF Stages
    <2>3. Stages(n, stages(n)) /\ Stages(n - 1, stages(n - 1))
      BY <1>1, <2>1
    <2>4. stages(n - 1)[n - 1] = stages(n)[n - 1]
      BY <2>1, <2>3, StagesAgree
    <2>5. QED
      BY <2>1, <2>2, <2>4
  <1> DEFINE Def(h) == h = [n \in Nat |-> IF n = 0 THEN Start ELSE Onward(h[n - 1])]
  <1>4. Def(f)
    <2>1. \A n \in Nat : f[n] = IF n = 0 THEN Start ELSE Onward(f[n - 1])
      BY <1>2, <1>3
    <2>2. PICK k : k = f
      OBVIOUS
    <2>3. k = [n \in Nat |-> k[n]]
      BY <2>2
    <2> HIDE DEF f
    <2>4. Def(k)
      BY <2>1, <2>2, <2>3
    <2>5. QED
      BY <2>2, <2>4
  <1>5. Places = CHOOSE h : Def(h)
    BY DEF Places, Start, Onward
  <1> HIDE DEF f
  <1>6. Def(Places)
    <2> HIDE DEF Def
    <2>1. QED
      BY <1>4, <1>5
  <1>7. QED
    BY <1>6

(* Whatever has the Server and all that is mounted in it has every place.  *)
LEMMA PlacesWithin ==
  ASSUME NEW S, Start \subseteq S,
         \A q \in S : \A x \in DOMAIN mounts[q.router] :
           [router |-> mounts[q.router][x], prefix |-> q.prefix \o x] \in S
  PROVE  \A n \in Nat : Places[n] \subseteq S
  <1> DEFINE T == {n \in Nat : ~(Places[n] \subseteq S)}
  <1>1. SUFFICES ASSUME T # {} PROVE FALSE
    OBVIOUS
  <1>2. PICK n \in T : \A m \in T : n <= m
    <2>1. T \subseteq Nat
      OBVIOUS
    <2> HIDE DEF T
    <2>2. QED
      BY <1>1, <2>1, Smallest
  <1>3. n # 0
    BY <1>2, PlacesSteps
  <1>4. n - 1 \in Nat /\ n - 1 \notin T
    BY <1>2, <1>3
  <1>5. Places[n - 1] \subseteq S
    BY <1>4
  <1>6. Onward(Places[n - 1]) \subseteq S
    <2>1. PICK P : P = Places[n - 1]
      OBVIOUS
    <2>2. ASSUME NEW q \in Onward(P) PROVE q \in S
      <3>1. CASE q \in P
        BY <1>5, <2>1, <3>1
      <3>2. CASE q \notin P
        <4>1. PICK o \in P :
                q \in {[router |-> mounts[o.router][x], prefix |-> o.prefix \o x] :
                         x \in DOMAIN mounts[o.router]}
          BY <2>2, <3>2 DEF Onward
        <4>2. o \in S
          BY <1>5, <2>1
        <4>3. QED
          BY <4>1, <4>2
      <3>3. QED
        BY <3>1, <3>2
    <2>3. QED
      BY <2>1, <2>2
  <1>7. Places[n] = Onward(Places[n - 1])
    BY <1>2, <1>3, PlacesSteps
  <1>8. QED
    BY <1>2, <1>6, <1>7

(* In a path without an empty name nothing is dropped but the first slash. *)
Plain == Nothing \notin ToSet(request.path) \/ request.path = Empty

LEMMA PlainStripped ==
  ASSUME Plain, Asked, Way, step = "guards"
  PROVE  Stripped = tempPath /\ Left(request.path, Last(trail).used, tempPath)
  <1>1. Open
    BY TrailOpen
  <1>2. Left(request.path, Last(trail).used, tempPath)
    BY DEF Way
  <1>3. PICK path, used, rest :
          path = request.path /\ used = Last(trail).used /\ rest = tempPath
    OBVIOUS
  <1>4. /\ path \in Seq(Names) /\ used \in Seq(Names) /\ rest \in Seq(Names)
        /\ Len(used) \in Nat /\ Len(rest) \in Nat
    BY <1>1, <1>3, TextLength DEF Asked, Open, Calls
  <1>5. ASSUME Len(rest) > 1, rest[1] = Nothing PROVE FALSE
    <2>1. rest # Empty
      <3>1. PICK n : n = Len(rest)
        OBVIOUS
      <3>2. n # 1
        <4>1. n \in Nat /\ n > 1
          BY <1>4, <1>5, <3>1
        <4>2. QED
          BY <4>1
      <3>3. Len(rest) # 1
        BY <3>1, <3>2
      <3>4. QED
        BY <3>3, EmptyText
    <2>2. path = used \o rest
      BY <1>2, <1>3, <2>1 DEF Left
    <2>3. Concat(path, used, rest)
      BY <1>4, <2>2, Joining
    <2>4. Len(path) = Len(used) + Len(rest) /\ path[Len(used) + 1] = Nothing
      BY <1>4, <1>5, <2>3 DEF Concat
    <2>5. PICK n : n = Len(used) + 1
      OBVIOUS
    <2>6. n \in 1..Len(path) /\ path[n] = Nothing
      BY <1>4, <1>5, <2>4, <2>5
    <2>7. Nothing \in ToSet(path)
      BY <1>4, <2>6, LenProperties DEF ToSet
    <2>8. path # Empty
      <3>1. Len(path) # 1
        BY <1>4, <1>5, <2>4
      <3>2. QED
        BY <3>1, EmptyText
    <2>9. QED
      BY <1>3, <2>7, <2>8 DEF Plain
  <1>6. ~StartsWithSlash(tempPath)
    BY <1>3, <1>5 DEF StartsWithSlash
  <1>7. QED
    BY <1>2, <1>6 DEF Stripped

(* A router passed the request down because it has no route for what was   *)
(* left, and by a key that this begins with.                               *)
Declined(i, rest, key) ==
  /\ rest \in Text /\ key \in Text
  /\ Left(request.path, trail[i].used, rest)
  /\ <<request.method, rest>> \notin routes[trail[i].router]
  /\ key \in DOMAIN mounts[trail[i].router] /\ IsPrefix(key, rest)
  /\ mounts[trail[i].router][key] = trail[i + 1].router
  /\ trail[i + 1].used =
       IF rest = key THEN request.path ELSE trail[i].used \o key

Descended == \A i \in 1..(Len(trail) - 1) : \E rest, key : Declined(i, rest, key)
GaveUp ==
  step = "notFound" =>
    /\ Left(request.path, Last(trail).used, tempPath)
    /\ <<request.method, tempPath>> \notin routes[at]
    /\ Matching(tempPath) = {}
Searched == Plain => Descended /\ GaveUp

LEMMA SearchedKept ==
  ASSUME RouterAssumption, Tree, Phases, Asked, Way, Searched, [Next]_vars
  PROVE  Searched'
  <1>1. ASSUME Len(trail') <= 1, Len(trail') \in Nat, step' # "notFound"
        PROVE  Searched'
    BY <1>1 DEF Searched, Descended, GaveUp
  <1>2. ASSUME trail' = trail, request' = request, registered' = registered,
               step' # "notFound"
        PROVE  Searched'
    <2>1. routes' = routes /\ mounts' = mounts
      BY <1>2 DEF registered
    <2>2. \A i, rest, key : Declined(i, rest, key) => Declined(i, rest, key)'
      BY <1>2, <2>1 DEF Declined, Left
    <2>3. QED
      BY <1>2, <2>2 DEF Searched, Plain, Descended, GaveUp
  <1>3. CASE Apart
    <2>1. CASE step = "idle" /\ requestVars' = requestVars
      <3>1. trail' = <<>> /\ step' = "idle"
        BY <2>1 DEF requestVars, Asked
      <3>2. QED
        BY <1>1, <3>1
    <2>2. CASE registered' = registered /\ requestVars' = requestVars
      <3>1. /\ trail' = trail /\ request' = request /\ step' = step
            /\ tempPath' = tempPath /\ routes' = routes /\ mounts' = mounts
        BY <2>2 DEF requestVars, registered
      <3>2. \A i, rest, key : Declined(i, rest, key) => Declined(i, rest, key)'
        BY <3>1 DEF Declined, Left
      <3>3. Descended => Descended'
        BY <3>1, <3>2 DEF Descended
      <3>4. GaveUp => GaveUp'
        BY <3>1 DEF GaveUp, Left, Matching, at
      <3>5. QED
        BY <3>1, <3>3, <3>4 DEF Searched, Plain
    <2>3. CASE Answer
      <3>1. trail' = <<>> /\ step' = "idle"
        BY <2>3 DEF Answer
      <3>2. QED
        BY <1>1, <3>1
    <2>4. QED
      BY <1>3, <2>1, <2>2, <2>3 DEF Apart
  <1>4. ASSUME NEW method \in Methods \cup {"HEAD"}, NEW target \in Targets,
               Receive(method, target)
        PROVE  Searched'
    <2>1. Len(trail') = 1 /\ step' = "guards"
      BY <1>4 DEF Receive
    <2>2. QED
      BY <1>1, <2>1
  <1>5. CASE LetThrough
    <2>1. Marked /\ Open
      BY <1>5, LetThroughMarks, TrailOpen DEF LetThrough, HasGuard
    <2>2. /\ routes' = routes /\ mounts' = mounts /\ request' = request
          /\ step' = "guards"
      BY <1>5 DEF LetThrough, HasGuard, registered
    <2>3. /\ Len(trail') = Len(trail) /\ Len(trail) \in Nat
          /\ \A i \in 1..Len(trail) :
               trail'[i].router = trail[i].router /\ trail'[i].used = trail[i].used
      BY <2>1 DEF Marked, Open
    <2>4. ASSUME NEW i \in 1..(Len(trail) - 1), NEW rest, NEW key, Declined(i, rest, key)
          PROVE  Declined(i, rest, key)'
      <3>1. i \in 1..Len(trail) /\ i + 1 \in 1..Len(trail)
        BY <2>3
      <3>2. /\ trail'[i].router = trail[i].router /\ trail'[i].used = trail[i].used
            /\ trail'[i + 1].router = trail[i + 1].router
            /\ trail'[i + 1].used = trail[i + 1].used
        BY <2>3, <3>1
      <3>3. QED
        BY <2>2, <2>4, <3>2 DEF Declined, Left
    <2>5. QED
      BY <2>2, <2>3, <2>4 DEF Searched, Plain, Descended, GaveUp
  <1>6. CASE Refuse \/ GuardThrows \/ NoMap \/ Handle
    <2>1. Stays /\ step' # "notFound"
      BY <1>6, EndStays DEF Refuse, GuardThrows, NoMap, Handle
    <2>2. QED
      BY <1>2, <2>1 DEF Stays
  <1>7. CASE NotFound
    <2>1. Stays /\ tempPath' = Stripped /\ step = "guards"
      BY <1>7, EndStays DEF NotFound, Guarded
    <2>2. <<request.method, Stripped>> \notin routes[at] /\ Matching(Stripped) = {}
      BY <1>7 DEF NotFound, HasRoute
    <2>3. /\ trail' = trail /\ request' = request /\ routes' = routes
          /\ mounts' = mounts /\ at' = at
      BY <2>1 DEF Stays, registered, at
    <2>4. SUFFICES ASSUME Plain PROVE Descended' /\ GaveUp'
      BY <2>3 DEF Searched, Plain
    <2>5. Stripped = tempPath /\ Left(request.path, Last(trail).used, tempPath)
      BY <2>1, <2>4, PlainStripped
    <2>6. Descended'
      <3>1. \A i, rest, key : Declined(i, rest, key) => Declined(i, rest, key)'
        BY <2>3 DEF Declined, Left
      <3>2. QED
        BY <2>3, <2>4, <3>1 DEF Searched, Descended
    <2>7. GaveUp'
      <3>2. Left(request.path, Last(trail).used, tempPath)'
        BY <2>1, <2>3, <2>5
      <3>3. <<request.method, tempPath>>' \notin routes'[at']
        BY <2>1, <2>2, <2>3
      <3>4. Matching(tempPath)' = {}
        BY <2>1, <2>2, <2>3 DEF Matching
      <3>5. QED
        BY <3>2, <3>3, <3>4 DEF GaveUp
    <2>8. QED
      BY <2>6, <2>7
  <1>8. CASE Descend
    <2>1. PICK x : Taken(x) /\ Deeper(x) /\ tempPath' = Rest(x, Stripped)
      BY <1>8, DescendTakes
    <2>2. Open
      BY <1>8, TrailOpen DEF Descend, Guarded
    <2>3. /\ routes' = routes /\ mounts' = mounts /\ request' = request
          /\ step' = "guards" /\ step = "guards"
      BY <1>8 DEF Descend, Guarded, registered
    <2>4. <<request.method, Stripped>> \notin routes[at]
      BY <1>8 DEF Descend, HasRoute
    <2>5. SUFFICES ASSUME Plain PROVE Descended' /\ GaveUp'
      BY <2>3 DEF Searched, Plain
    <2>6. Stripped = tempPath /\ Left(request.path, Last(trail).used, tempPath)
      BY <2>3, <2>5, PlainStripped
    <2>7. PICK last : last = Len(trail)
      OBVIOUS
    <2>8. /\ last \in Nat /\ last > 0 /\ trail[last].router = at
          /\ Last(trail) = trail[last]
      BY <2>2, <2>7 DEF Open, at
    <2>9. /\ Len(trail') = last + 1
          /\ \A i \in 1..last : trail'[i] = trail[i]
          /\ trail'[last + 1].router = mounts[at][x]
          /\ trail'[last + 1].used = Used(x)
      BY <2>1, <2>7, SMTT(20) DEF Deeper, Call
    <2>10. ASSUME NEW i \in 1..last PROVE \E rest, key : Declined(i, rest, key)'
      <3>1. CASE i # last
        <4>1. i \in 1..(Len(trail) - 1) /\ i + 1 \in 1..last
          BY <2>7, <2>8, <3>1
        <4>2. PICK rest, key : Declined(i, rest, key)
          BY <2>5, <4>1 DEF Searched, Descended
        <4>3. trail'[i] = trail[i] /\ trail'[i + 1] = trail[i + 1]
          BY <2>9, <4>1
        <4>4. Declined(i, rest, key)'
          BY <2>3, <4>2, <4>3 DEF Declined, Left
        <4>5. QED
          BY <4>4
      <3>2. CASE i = last
        <4>1. trail'[i] = trail[last]
          BY <2>9, <3>2
        <4>2. /\ trail'[i + 1].router = mounts[at][x]
              /\ trail'[i + 1].used = Used(x)
          BY <2>9, <3>2
        <4>3. Used(x) = IF tempPath = x THEN request.path ELSE trail[last].used \o x
          BY <2>6, <2>8 DEF Used
        <4>4. x \in DOMAIN mounts[at] /\ x \in Text /\ IsPrefix(x, tempPath)
          BY <2>1, <2>6 DEF Taken
        <4>5. tempPath \in Text
          BY DEF Asked
        <4>6. Left(request.path, trail[last].used, tempPath)
          BY <2>6, <2>8
        <4>7. /\ tempPath \in Text /\ x \in Text
              /\ Left(request'.path, trail'[i].used, tempPath)
              /\ <<request'.method, tempPath>> \notin routes'[trail'[i].router]
              /\ x \in DOMAIN mounts'[trail'[i].router] /\ IsPrefix(x, tempPath)
              /\ mounts'[trail'[i].router][x] = trail'[i + 1].router
              /\ trail'[i + 1].used =
                   IF tempPath = x THEN request'.path ELSE trail'[i].used \o x
          BY <2>3, <2>4, <2>6, <2>8, <4>1, <4>2, <4>3, <4>4, <4>5, <4>6
        <4>8. PICK rest : rest = tempPath
          OBVIOUS
        <4>9. Declined(i, rest, x)'
          BY <4>7, <4>8 DEF Declined
        <4>10. QED
          BY <4>9
      <3>3. QED
        BY <3>1, <3>2
    <2>11. Descended'
      <3>1. Len(trail') - 1 = last
        BY <2>8, <2>9
      <3>2. QED
        BY <2>10, <3>1 DEF Descended
    <2>12. QED
      BY <2>3, <2>11 DEF GaveUp
  <1>9. QED
    BY <1>3, <1>4, <1>5, <1>6, <1>7, <1>8, ApartSteps DEF HandleRequest

(* A sequence that begins another is its first part.                       *)
LEMMA PrefixElements ==
  ASSUME NEW s \in Seq(Names), NEW t \in Seq(Names)
  PROVE  IsPrefix(s, t) <=> Len(s) <= Len(t) /\ \A i \in 1..Len(s) : s[i] = t[i]
  <1>1. Len(s) \in Nat /\ Len(t) \in Nat
    BY LenProperties
  <1>2. SubSeq(s, 1, Len(s)) = s
    BY <1>1, SubSeqFull
  <1>3. ASSUME Len(s) <= Len(t)
        PROVE  /\ SubSeq(t, 1, Len(s)) \in Seq(Names)
               /\ Len(SubSeq(t, 1, Len(s))) = Len(s)
               /\ \A i \in 1..Len(s) : SubSeq(t, 1, Len(s))[i] = t[i]
    <2>1. \A i \in 1..Len(s) : t[i] \in Names
      BY <1>1, <1>3, ElementOfSeq
    <2>2. QED
      BY <1>1, <1>3, <2>1, SubSeqProperties
  <1>4. ASSUME Len(s) <= Len(t), \A i \in 1..Len(s) : s[i] = t[i]
        PROVE  s = SubSeq(t, 1, Len(s))
    <2>1. PICK u : u = SubSeq(t, 1, Len(s))
      OBVIOUS
    <2>2. u \in Seq(Names) /\ Len(s) = Len(u) /\ \A i \in 1..Len(s) : s[i] = u[i]
      BY <1>3, <1>4, <2>1
    <2>3. s = u
      BY <2>2, SeqEqual
    <2>4. QED
      BY <2>1, <2>3
  <1>5. ASSUME IsPrefix(s, t)
        PROVE  Len(s) <= Len(t) /\ \A i \in 1..Len(s) : s[i] = t[i]
    <2>1. Len(s) <= Len(t) /\ s = SubSeq(t, 1, Len(s))
      BY <1>2, <1>5 DEF IsPrefix
    <2>2. QED
      BY <1>3, <2>1
  <1>6. QED
    BY <1>2, <1>4, <1>5 DEF IsPrefix

LEMMA ConcatPrefix ==
  ASSUME NEW s \in Seq(Names), NEW t \in Seq(Names)
  PROVE  s \o t \in Seq(Names) /\ IsPrefix(s, s \o t)
  <1>1. PICK u : u = s \o t
    OBVIOUS
  <1>2. Concat(u, s, t) /\ Len(s) \in Nat /\ Len(t) \in Nat
    BY <1>1, Joining, LenProperties
  <1>3. u \in Seq(Names) /\ Len(s) <= Len(u) /\ \A i \in 1..Len(s) : s[i] = u[i]
    BY <1>2 DEF Concat
  <1>4. IsPrefix(s, u)
    BY <1>3, PrefixElements
  <1>5. QED
    BY <1>1, <1>3, <1>4

LEMMA PrefixTransitive ==
  ASSUME NEW s \in Seq(Names), NEW t \in Seq(Names), NEW u \in Seq(Names),
         IsPrefix(s, t), IsPrefix(t, u)
  PROVE  IsPrefix(s, u)
  <1>1. Len(s) \in Nat /\ Len(t) \in Nat /\ Len(u) \in Nat
    BY LenProperties
  <1>2. Len(s) <= Len(t) /\ \A i \in 1..Len(s) : s[i] = t[i]
    BY PrefixElements
  <1>3. Len(t) <= Len(u) /\ \A i \in 1..Len(t) : t[i] = u[i]
    BY PrefixElements
  <1>4. Len(s) <= Len(u) /\ \A i \in 1..Len(s) : s[i] = u[i]
    BY <1>1, <1>2, <1>3
  <1>5. QED
    BY <1>4, PrefixElements

(* What begins s \o r after s begins r.                                    *)
LEMMA PrefixCancel ==
  ASSUME NEW s \in Seq(Names), NEW x \in Seq(Names), NEW r \in Seq(Names),
         IsPrefix(s \o x, s \o r)
  PROVE  IsPrefix(x, r)
  <1>1. PICK u, v : u = s \o x /\ v = s \o r
    OBVIOUS
  <1>2. /\ Concat(u, s, x) /\ Concat(v, s, r)
        /\ Len(s) \in Nat /\ Len(x) \in Nat /\ Len(r) \in Nat
    BY <1>1, Joining, LenProperties
  <1>3. u \in Seq(Names) /\ v \in Seq(Names) /\ IsPrefix(u, v)
    BY <1>1, <1>2 DEF Concat
  <1>4. Len(u) <= Len(v) /\ \A i \in 1..Len(u) : u[i] = v[i]
    BY <1>3, PrefixElements
  <1>5. Len(u) = Len(s) + Len(x) /\ Len(v) = Len(s) + Len(r)
    BY <1>2 DEF Concat
  <1>6. ASSUME NEW i \in 1..Len(x) PROVE x[i] = r[i]
    <2>1. Len(s) + i \in 1..Len(u) /\ i \in 1..Len(r)
      BY <1>2, <1>4, <1>5
    <2>2. u[Len(s) + i] = x[i] /\ v[Len(s) + i] = r[i]
      BY <1>2, <2>1 DEF Concat
    <2>3. QED
      BY <1>4, <2>1, <2>2
  <1>7. Len(x) <= Len(r)
    BY <1>2, <1>4, <1>5
  <1>8. QED
    BY <1>6, <1>7, PrefixElements

(* Of two texts that both begin a third one, one begins the other.         *)
LEMMA PrefixesNest ==
  ASSUME NEW x \in Seq(Names), NEW y \in Seq(Names), NEW r \in Seq(Names),
         IsPrefix(x, r), IsPrefix(y, r)
  PROVE  IsPrefix(x, y) \/ IsPrefix(y, x)
  <1>1. Len(x) \in Nat /\ Len(y) \in Nat
    BY LenProperties
  <1>2. \A i \in 1..Len(x) : x[i] = r[i]
    BY PrefixElements
  <1>3. \A i \in 1..Len(y) : y[i] = r[i]
    BY PrefixElements
  <1>4. CASE Len(x) <= Len(y)
    <2>1. \A i \in 1..Len(x) : x[i] = y[i]
      BY <1>1, <1>2, <1>3, <1>4
    <2>2. QED
      BY <1>4, <2>1, PrefixElements
  <1>5. CASE Len(y) <= Len(x)
    <2>1. \A i \in 1..Len(y) : y[i] = x[i]
      BY <1>1, <1>2, <1>3, <1>5
    <2>2. QED
      BY <1>5, <2>1, PrefixElements
  <1>6. QED
    BY <1>1, <1>4, <1>5

(* A call on the trail has no route for what was left to it, and where a    *)
(* key fits the trail goes on.                                             *)
Dealt(i, rest) ==
  /\ rest \in Text
  /\ Left(request.path, trail[i].used, rest)
  /\ <<request.method, rest>> \notin routes[trail[i].router]
  /\ \A x \in DOMAIN mounts[trail[i].router] : IsPrefix(x, rest) =>
       \E j \in 1..Len(trail) :
         /\ trail[j].router = mounts[trail[i].router][x]
         /\ trail[j].used = IF rest = x THEN request.path ELSE trail[i].used \o x

LEMMA AllDealt ==
  ASSUME Tree, Asked, Searched, Plain, NoNestedMounts, step = "notFound",
         NEW i \in 1..Len(trail)
  PROVE  \E rest : Dealt(i, rest)
  <1>1. Open
    BY TrailOpen
  <1>2. Descended /\ GaveUp
    BY DEF Searched
  <1>3. CASE i = Len(trail)
    <2>1. PICK rest : rest = tempPath
      OBVIOUS
    <2>2. /\ Left(request.path, trail[i].used, rest)
          /\ <<request.method, rest>> \notin routes[trail[i].router]
          /\ {x \in DOMAIN mounts[trail[i].router] : IsPrefix(x, rest)} = {}
      BY <1>1, <1>2, <1>3, <2>1 DEF GaveUp, Open, at, Matching
    <2>3. rest \in Text
      BY <2>1 DEF Asked
    <2>4. \A x \in DOMAIN mounts[trail[i].router] : ~IsPrefix(x, rest)
      BY <2>2
    <2>5. Dealt(i, rest)
      BY <2>2, <2>3, <2>4 DEF Dealt
    <2>6. QED
      BY <2>5
  <1>4. CASE i # Len(trail)
    <2>1. i \in 1..(Len(trail) - 1) /\ i + 1 \in 1..Len(trail)
      BY <1>1, <1>4 DEF Open
    <2>2. PICK rest, key : Declined(i, rest, key)
      BY <1>2, <2>1 DEF Descended
    <2>3. trail[i].router \in Routers
      <3>1. trail[i] \in Calls
        BY ElementOfSeq DEF Asked
      <3>2. QED
        BY <3>1 DEF Calls
    <2>4. ASSUME NEW x \in DOMAIN mounts[trail[i].router], IsPrefix(x, rest)
          PROVE  x = key
      <3>1. x \in Text /\ key \in Text /\ rest \in Text /\ IsPrefix(key, rest)
        BY <2>2, <2>3 DEF Declined, Tree
      <3>2. x \in Seq(Names) /\ key \in Seq(Names) /\ rest \in Seq(Names)
        BY <3>1, TextLength
      <3>3. IsPrefix(x, key) \/ IsPrefix(key, x)
        BY <2>4, <3>1, <3>2, PrefixesNest
      <3>4. key \in DOMAIN mounts[trail[i].router]
        BY <2>2 DEF Declined
      <3>5. QED
        BY <2>3, <3>3, <3>4 DEF NoNestedMounts
    <2>5. /\ trail[i + 1].router = mounts[trail[i].router][key]
          /\ trail[i + 1].used = IF rest = key THEN request.path ELSE trail[i].used \o key
      BY <2>2 DEF Declined
    <2>6. /\ rest \in Text
          /\ Left(request.path, trail[i].used, rest)
          /\ <<request.method, rest>> \notin routes[trail[i].router]
      BY <2>2 DEF Declined
    <2>7. Dealt(i, rest)
      BY <2>1, <2>4, <2>5, <2>6 DEF Dealt
    <2>8. QED
      BY <2>7
  <1>5. QED
    BY <1>3, <1>4

(* The places that the request has been at, and those where the path does  *)
(* not lead.                                                               *)
Visited(q) ==
  \E i \in 1..Len(trail) : q.router = trail[i].router /\ q.prefix = trail[i].used
Excluded ==
  {q \in [router : Routers, prefix : Seq(Names)] :
     Visited(q) \/ ~IsPrefix(q.prefix, request.path)}

LEMMA ExcludedClosed ==
  ASSUME Tree, Asked, Searched, Plain, NoNestedMounts, step = "notFound",
         NEW q \in Excluded, NEW x \in DOMAIN mounts[q.router]
  PROVE  [router |-> mounts[q.router][x], prefix |-> q.prefix \o x] \in Excluded
  <1>1. q.router \in Routers /\ q.prefix \in Seq(Names)
    BY DEF Excluded
  <1>2. x \in Text /\ mounts[q.router][x] \in Routers
    BY <1>1 DEF Tree
  <1>3. PICK path, prefix, p, child :
          /\ path = request.path /\ prefix = q.prefix /\ p = q.prefix \o x
          /\ child = mounts[q.router][x]
    OBVIOUS
  <1>4. /\ x \in Seq(Names) /\ path \in Seq(Names) /\ prefix \in Seq(Names)
        /\ Len(x) \in Nat /\ Len(x) > 0 /\ Len(prefix) \in Nat /\ p = prefix \o x
    BY <1>1, <1>2, <1>3, TextLength, LenProperties DEF Asked
  <1>5. p \in Seq(Names) /\ IsPrefix(prefix, p) /\ Len(p) = Len(prefix) + Len(x)
    <2>1. p \in Seq(Names) /\ IsPrefix(prefix, p)
      BY <1>4, ConcatPrefix
    <2>2. Concat(p, prefix, x)
      BY <1>4, Joining
    <2>3. QED
      BY <2>1, <2>2 DEF Concat
  <1>6. ASSUME IsPrefix(p, path)
        PROVE  \E j \in 1..Len(trail) : child = trail[j].router /\ p = trail[j].used
    <2>1. IsPrefix(prefix, path)
      BY <1>4, <1>5, <1>6, PrefixTransitive
    <2>2. PICK i \in 1..Len(trail) : q.router = trail[i].router /\ prefix = trail[i].used
      BY <1>3, <2>1 DEF Excluded, Visited
    <2>3. PICK rest : Dealt(i, rest)
      BY AllDealt
    <2>4. rest \in Seq(Names)
      BY <2>3, TextLength DEF Dealt
    <2>5. path = prefix \o rest
      <3>1. path # prefix
        <4>1. Len(p) <= Len(path)
          BY <1>6 DEF IsPrefix
        <4>2. Len(path) # Len(prefix)
          <5>1. Len(path) \in Nat
            BY <1>4, LenProperties
          <5>2. QED
            BY <1>4, <1>5, <4>1, <5>1
        <4>3. QED
          BY <4>2
      <3>2. QED
        BY <1>3, <2>2, <2>3, <3>1 DEF Dealt, Left
    <2>6. IsPrefix(x, rest)
      BY <1>4, <1>6, <2>4, <2>5, PrefixCancel
    <2>7. PICK j \in 1..Len(trail) :
            /\ trail[j].router = mounts[trail[i].router][x]
            /\ trail[j].used = IF rest = x THEN request.path ELSE trail[i].used \o x
      BY <2>2, <2>3, <2>6 DEF Dealt
    <2>8. trail[j].used = p
      BY <1>3, <1>4, <2>2, <2>5, <2>7
    <2>9. QED
      BY <1>3, <2>2, <2>7, <2>8
  <1>7. PICK new : new = [router |-> child, prefix |-> p]
    OBVIOUS
  <1>8. /\ new \in [router : Routers, prefix : Seq(Names)]
        /\ new.router = child /\ new.prefix = p
    BY <1>2, <1>3, <1>5, <1>7
  <1>9. new \in Excluded
    BY <1>3, <1>6, <1>8 DEF Excluded, Visited
  <1>10. QED
    BY <1>3, <1>7, <1>9

LEMMA NobodyElse ==
  ASSUME RouterAssumption, Tree, Asked, Way, Searched, Plain, NoNestedMounts,
         step = "notFound"
  PROVE  ~HasAddress(request.method, request.target)
  <1>1. Start \subseteq Excluded
    <2>1. trail # <<>>
      BY DEF Asked
    <2>2. 1 \in 1..Len(trail) /\ trail[1].router = App /\ trail[1].used = <<>>
      BY <2>1, TrailOpen DEF Way, Open
    <2>3. PICK q : q = [router |-> App, prefix |-> <<>>]
      OBVIOUS
    <2>4. App \in Routers /\ <<>> \in Seq(Names)
      BY DEF RouterAssumption, App, Routers
    <2>5. q \in [router : Routers, prefix : Seq(Names)] /\ q.router = App /\ q.prefix = <<>>
      BY <2>3, <2>4
    <2>6. q \in Excluded
      BY <2>2, <2>5 DEF Excluded, Visited
    <2>7. QED
      BY <2>3, <2>6 DEF Start
  <1>2. PICK S : S = Excluded
    OBVIOUS
  <1>3. \A q \in S : \A x \in DOMAIN mounts[q.router] :
          [router |-> mounts[q.router][x], prefix |-> q.prefix \o x] \in S
    BY <1>2, ExcludedClosed
  <1>4. \A n \in Nat : Places[n] \subseteq S
    BY <1>1, <1>2, <1>3, PlacesWithin
  <1>5. SUFFICES ASSUME NEW q \in Places[MaxRouter], NEW route \in routes[q.router],
                        route[1] = request.method,
                        Address(q.prefix, route[2]) \in
                          {Tail(request.target), PathOf(request.target)},
                        ~EndsWithSlash(Address(q.prefix, route[2]))
                 PROVE  FALSE
    BY DEF HasAddress
  <1>6. q \in Excluded
    BY <1>2, <1>4 DEF RouterAssumption
  <1>7. q.router \in Routers /\ q.prefix \in Seq(Names)
    BY <1>6 DEF Excluded
  <1>8. PICK path, prefix, key, method :
          /\ path = request.path /\ prefix = q.prefix /\ key = route[2]
          /\ method = request.method
    OBVIOUS
  <1>9. key \in Text /\ route = <<method, key>>
    <2>1. route \in Methods \X {Tail(s) : s \in RoutePaths}
      BY <1>7 DEF Tree
    <2>2. PICK s \in RoutePaths : key = Tail(s)
      BY <1>8, <2>1
    <2>3. s \in Text /\ Len(s) > 1
      BY DEF RouterAssumption, IsText, StartsWithSlash, Text
    <2>4. key \in Text
      BY <2>2, <2>3, TailText
    <2>5. QED
      BY <1>5, <1>8, <2>1, <2>4
  <1>10. path \in Seq(Names) /\ prefix \in Seq(Names) /\ key \in Seq(Names) /\ Len(key) \in Nat /\ Len(key) > 0
    BY <1>7, <1>8, <1>9, TextLength DEF Asked
  <1>11. path = prefix \o key \/ (path = prefix /\ key = Empty)
    <2>1. PICK address : address = Address(prefix, key)
      OBVIOUS
    <2>2. address = PathOf(request.target)
      BY <1>5, <1>8, <2>1 DEF PathOf
    <2>3. address = path
      BY <1>8, <2>2 DEF Asked
    <2>4. QED
      BY <2>1, <2>3 DEF Address
  <1>12. IsPrefix(prefix, path)
    <2>1. CASE path = prefix \o key
      BY <1>10, <2>1, ConcatPrefix
    <2>2. CASE path = prefix
      BY <1>10, <2>2, PrefixElements, LenProperties
    <2>3. QED
      BY <1>11, <2>1, <2>2
  <1>13. PICK i \in 1..Len(trail) : q.router = trail[i].router /\ prefix = trail[i].used
    BY <1>6, <1>8, <1>12 DEF Excluded, Visited
  <1>14. PICK rest : Dealt(i, rest)
    BY AllDealt
  <1>15. /\ rest \in Seq(Names) /\ Len(rest) \in Nat /\ Len(rest) > 0
         /\ path = prefix \o rest \/ (rest = Empty /\ path = prefix)
         /\ <<method, rest>> \notin routes[q.router]
    BY <1>8, <1>13, <1>14, TextLength DEF Dealt, Left
  <1>16. key # rest
    BY <1>9, <1>15
  <1>17. \A t \in Seq(Names) : Len(t) > 0 => prefix \o t # prefix
    BY <1>10, ConcatEqualIffEmpty, EmptySeq
  <1>18. \A t \in Seq(Names) : prefix \o key = prefix \o t => key = t
    BY <1>10, ConcatSimplifications
  <1>19. QED
    BY <1>10, <1>11, <1>15, <1>16, <1>17, <1>18

LEMMA AlwaysSearched == Spec => []Searched
  <1>1. Init => Searched
    BY DEF Init, Searched, Descended, GaveUp
  <1>2. IInv /\ Searched /\ [Next]_vars => Searched'
    BY SearchedKept, RouterAssumption DEF IInv
  <1>3. QED
    BY <1>1, <1>2, Invariance, PTL DEF Spec

(* A request that is told 404 was sent to the address of no route,         *)
(* wherever one may be reached: of none whose address has no slash at its  *)
(* end, under mounts that do not begin with one another and in a path      *)
(* without an empty name (router.cpp:96-126, 202, server.cpp:391-395).     *)
THEOREM HonestNotFound == Spec => []NotFoundIsHonest
  <1>1. ASSUME IInv, Searched PROVE NotFoundIsHonest
    <2>1. SUFFICES ASSUME step = "notFound", NoNestedMounts,
                          Nothing \notin ToSet(request.path) \/ request.path = Empty
                   PROVE  ~HasAddress(request.method, request.target)
      BY DEF NotFoundIsHonest
    <2>2. Plain
      BY <2>1 DEF Plain
    <2>3. QED
      BY <1>1, <2>1, <2>2, NobodyElse, RouterAssumption DEF IInv
  <1>2. QED
    BY <1>1, Invariance, AlwaysSearched, PTL

=============================================================================
