------------------------- MODULE TreeBuilderProofs -------------------------
(***************************************************************************)
(* Proofs about TreeBuilder, for every bound on the source and every set   *)
(* of entry kinds.                                                         *)
(***************************************************************************)
EXTENDS TreeBuilder, FiniteSetTheorems, TLAPS

\* The provers that a step is given to, in this order, when it names none.
USE SMTT(15), Zenon, SMTT(60), ZenonT(60)

----------------------------------------------------------------------------
(* Sequences *)

LEMMA EmptySeq ==
  ASSUME NEW S
  PROVE  /\ <<>> \in Seq(S) /\ Len(<<>>) = 0
         /\ \A s \in Seq(S) : s # <<>> => Len(s) \in Nat \ {0}
OBVIOUS

LEMMA LenProperties ==
  ASSUME NEW S, NEW s \in Seq(S)
  PROVE  Len(s) \in Nat /\ s \in [1..Len(s) -> S] /\ DOMAIN s = 1..Len(s)
OBVIOUS

LEMMA SubSeqProperties ==
  ASSUME NEW S, NEW s \in Seq(S), NEW m \in Int, NEW n \in Int,
         \A k \in m..n : s[k] \in S
  PROVE  /\ SubSeq(s, m, n) \in Seq(S)
         /\ Len(SubSeq(s, m, n)) = IF m <= n THEN n - m + 1 ELSE 0
         /\ \A k \in 1..(n - m + 1) : SubSeq(s, m, n)[k] = s[m + k - 1]
OBVIOUS

LEMMA AppendProperties ==
  ASSUME NEW S, NEW s \in Seq(S), NEW e \in S
  PROVE  /\ Append(s, e) \in Seq(S) /\ Append(s, e) # <<>>
         /\ Len(Append(s, e)) = Len(s) + 1
         /\ \A k \in 1..Len(s) : Append(s, e)[k] = s[k]
         /\ Append(s, e)[Len(s) + 1] = e
OBVIOUS

----------------------------------------------------------------------------
(* Types *)

FrameRec  == [dir : Nat, left : Nat, refused : Nat, next : Nat]
HeaderRec == [name : Nat, type : {DIRECTORY, PLAIN_FILE}, length : Nat, in : Nat]
StackRec  == [node : Nat, fill : Nat]

----------------------------------------------------------------------------
(* Paths.  An object of the source is known by the names on the way down   *)
(* to it: each object has one such path, and no two have the same.         *)

LEMMA LeastOf ==
  ASSUME NEW T, T \subseteq Nat, T # {}
  PROVE  \E x \in T : \A y \in T : x <= y
<1>. DEFINE R == {ss \in Nat \X Nat : ss[1] < ss[2]}
<1>1. OpToRel(<, Nat) = R
  BY DEF OpToRel
<1>2. IsWellFoundedOn(R, Nat)
  BY <1>1, NatLessThanWellFounded, Zenon
<1>. HIDE DEF R
<1>3. PICK x \in T : \A y \in T : ~(<<y, x>> \in R)
  BY <1>2, WFMin, Zenon
<1>4. ASSUME NEW y \in T PROVE x <= y
  <2>1. x \in Nat /\ y \in Nat
    OBVIOUS
  <2>2. y < x => <<y, x>> \in R
    BY <2>1 DEF R
  <2>3. ~(y < x)
    BY <1>3, <2>2
  <2>. QED BY <2>1, <2>3
<1>. QED BY <1>4

\* What holds of all objects if it holds of each one whose elders it holds of.
LEMMA EldersFirst ==
  ASSUME NEW n \in Nat, NEW T, T \subseteq 2..n,
         \A h \in 2..n : (\A g \in 2..n : g < h => g \in T) => h \in T
  PROVE  T = 2..n
<1>. DEFINE B == (2..n) \ T
<1>1. SUFFICES ASSUME B # {} PROVE FALSE
  BY ZenonT(60)
<1>2. B \subseteq Nat
  OBVIOUS
<1>3. PICK x \in B : \A y \in B : x <= y
  BY <1>1, <1>2, LeastOf, Zenon
<1>4. \A g \in 2..n : g < x => g \in T
  <2>1. \A g \in 2..n : g < x => ~(x <= g)
    BY <1>2
  <2> QED BY <1>3, <2>1, Zenon
<1> QED BY <1>3, <1>4

\* Parents are older than their children, and siblings differ in their names.
TreeOrder ==
  /\ data \in Seq(HeaderRec)
  /\ \A h \in Objects : data[h].in \in 1..(h - 1)
  /\ \A g, h \in Objects : data[g].in = data[h].in /\ data[g].name = data[h].name => g = h

LEMMA OrderFacts ==
  ASSUME TreeOrder
  PROVE  /\ Len(data) \in Nat /\ HeadNode \notin Objects
         /\ \A h \in Objects : /\ h \in Nat /\ h > 1 /\ h \in 1..Len(data)
                               /\ data[h].name \in Nat /\ data[h].in \in Nat
                               /\ data[h].in < h
                               /\ data[h].in # HeadNode => data[h].in \in Objects
<1>1. Len(data) \in Nat /\ HeadNode \notin Objects
  BY DEF TreeOrder, Objects, HeadNode
<1>2. ASSUME NEW h \in Objects
      PROVE  /\ h \in Nat /\ h > 1 /\ h \in 1..Len(data)
             /\ data[h].name \in Nat /\ data[h].in \in Nat /\ data[h].in < h
             /\ data[h].in # HeadNode => data[h].in \in Objects
  <2>1. h \in Nat /\ h > 1 /\ h <= Len(data) /\ h \in 1..Len(data)
    BY <1>1 DEF Objects
  <2>2. data[h] \in HeaderRec
    BY <2>1 DEF TreeOrder
  <2>3. data[h].name \in Nat
    BY <2>2 DEF HeaderRec
  <2>4. data[h].in \in 1..(h - 1)
    BY DEF TreeOrder
  <2> QED BY <1>1, <2>1, <2>3, <2>4 DEF Objects, HeadNode
<1> QED BY <1>1, <1>2

\* A route of n steps.
LEMMA RouteShape ==
  ASSUME TreeOrder, NEW n \in 1..Len(data), NEW c \in [1..n -> Objects], NEW h
  PROVE  /\ Len(c) = n /\ n \in Nat /\ DOMAIN c = 1..n /\ Last(c) = c[n]
         /\ \A k \in 1..n : c[k] \in Objects
         /\ IsRoute(c, h) <=> /\ data[c[1]].in = HeadNode
                              /\ \A k \in 2..n : data[c[k]].in = c[k - 1]
                              /\ c[n] = h
<1>1. n \in Nat /\ n >= 1
  BY OrderFacts
<1>2. Len(c) = n /\ DOMAIN c = 1..n
  BY <1>1
<1>3. Last(c) = c[n]
  BY <1>2 DEF Last
<1> QED BY <1>1, <1>2, <1>3, Zenon DEF IsRoute

\* There is a route to each object ...
LEMMA RouteExists ==
  ASSUME TreeOrder, NEW h \in Objects
  PROVE  \E n \in 1..Len(data) : \E c \in [1..n -> Objects] : IsRoute(c, h)
<1>. DEFINE T == {g \in Objects : \E n \in 1..(g - 1) : \E c \in [1..n -> Objects] : IsRoute(c, g)}
<1>1. ASSUME NEW g \in Objects, \A k \in Objects : k < g => k \in T PROVE g \in T
  <2>1. /\ g \in Nat /\ g > 1 /\ g <= Len(data) /\ Len(data) \in Nat
        /\ data[g].in \in Nat /\ data[g].in < g
    BY OrderFacts
  <2>2. CASE data[g].in = HeadNode
    <3>. DEFINE c == [k \in 1..1 |-> g]
    <3>1. 1 \in 1..(g - 1) /\ 1 \in 1..Len(data) /\ c \in [1..1 -> Objects]
      BY <2>1
    <3>2. c[1] = g /\ \A k \in 2..1 : data[c[k]].in = c[k - 1]
      OBVIOUS
    <3>. HIDE DEF c
    <3>3. IsRoute(c, g)
      BY <2>2, <3>1, <3>2, RouteShape, ZenonT(60)
    <3> QED BY <3>1, <3>3, ZenonT(60)
  <2>3. CASE data[g].in # HeadNode
    <3>. DEFINE d == data[g].in
    <3>1. d \in T
      BY <1>1, <2>1, <2>3, OrderFacts
    <3>2. PICK n \in 1..(d - 1) : \E c \in [1..n -> Objects] : IsRoute(c, d)
      BY <3>1
    <3>. PICK c \in [1..n -> Objects] : IsRoute(c, d)
      BY <3>2
    <3>3. /\ n \in Nat /\ n >= 1 /\ n + 1 \in 1..(g - 1) /\ n + 1 \in 1..Len(data)
          /\ n \in 1..Len(data)
      BY <2>1, <3>2
    <3>4. /\ data[c[1]].in = HeadNode /\ c[n] = d
          /\ \A k \in 2..n : data[c[k]].in = c[k - 1]
      <4>1. IsRoute(c, d) <=> /\ data[c[1]].in = HeadNode
                              /\ \A k \in 2..n : data[c[k]].in = c[k - 1]
                              /\ c[n] = d
        BY <3>3, RouteShape, ZenonT(60)
      <4> QED BY <4>1, Zenon
    <3>. DEFINE e == [k \in 1..(n + 1) |-> IF k = n + 1 THEN g ELSE c[k]]
    <3>5. e \in [1..(n + 1) -> Objects] /\ e[n + 1] = g /\ \A k \in 1..n : e[k] = c[k]
      BY <3>3
    <3>6. ASSUME NEW k \in 2..(n + 1) PROVE data[e[k]].in = e[k - 1]
      <4>1. CASE k = n + 1
        <5>1. k - 1 = n /\ n \in 1..n
          BY <3>3, <4>1
        <5> QED BY <3>4, <3>5, <4>1, <5>1, Zenon
      <4>2. CASE k # n + 1
        <5>1. k \in 2..n /\ k \in 1..n /\ k - 1 \in 1..n
          BY <3>3, <4>2
        <5> QED BY <3>4, <3>5, <5>1, Zenon
      <4> QED BY <4>1, <4>2
    <3>7. data[e[1]].in = HeadNode
      BY <3>3, <3>4, <3>5
    <3>. HIDE DEF e
    <3>8. IsRoute(e, g)
      BY <3>3, <3>5, <3>6, <3>7, RouteShape
    <3> QED BY <3>3, <3>5, <3>8
  <2> QED BY <2>2, <2>3
<1>2. Len(data) \in Nat /\ Objects = 2..Len(data) /\ T \subseteq Objects
  BY OrderFacts DEF Objects
<1>. HIDE DEF T
<1>3. h \in T
  BY <1>1, <1>2, EldersFirst, ZenonT(60)
<1>4. PICK n \in 1..(h - 1) : \E c \in [1..n -> Objects] : IsRoute(c, h)
  BY <1>3 DEF T
<1>5. h \in Nat /\ h \in 1..Len(data) /\ Len(data) \in Nat
  BY OrderFacts
<1>6. n \in 1..Len(data)
  BY <1>4, <1>5
<1> QED BY <1>4, <1>6

\* The first n members of x.
Cut(x, n) == [k \in 1..n |-> x[k]]

\* A route without its last step is the route to the directory of its end.
LEMMA RouteFront ==
  ASSUME TreeOrder, NEW g \in Objects,
         NEW p \in 1..Len(data), NEW x \in [1..p -> Objects], IsRoute(x, g)
  PROVE  /\ p \in Nat /\ x[p] = g
         /\ data[g].in = HeadNode => p = 1
         /\ data[g].in # HeadNode =>
              /\ p - 1 \in 1..Len(data)
              /\ Cut(x, p - 1) \in [1..(p - 1) -> Objects]
              /\ IsRoute(Cut(x, p - 1), data[g].in)
<1>1. p \in Nat /\ Len(data) \in Nat /\ p >= 1 /\ p <= Len(data)
  BY OrderFacts
<1>2. /\ data[x[1]].in = HeadNode /\ x[p] = g
      /\ \A k \in 2..p : data[x[k]].in = x[k - 1]
  BY RouteShape
<1>3. ASSUME data[g].in = HeadNode PROVE p = 1
  <2>1. SUFFICES ASSUME p # 1 PROVE FALSE
    OBVIOUS
  <2>2. p \in 2..p /\ p - 1 \in 1..p
    BY <1>1, <2>1
  <2> QED BY <1>2, <1>3, <2>2, OrderFacts
<1>4. ASSUME data[g].in # HeadNode
      PROVE  /\ p - 1 \in 1..Len(data)
             /\ Cut(x, p - 1) \in [1..(p - 1) -> Objects]
             /\ IsRoute(Cut(x, p - 1), data[g].in)
  <2>1. p # 1
    BY <1>2, <1>4
  <2>2. p \in 2..p /\ p - 1 \in 1..Len(data) /\ p - 1 \in 1..p
    BY <1>1, <2>1
  <2>3. x[p - 1] = data[g].in
    BY <1>2, <2>2
  <2>. DEFINE u == Cut(x, p - 1)
  <2>4. u \in [1..(p - 1) -> Objects]
    BY <1>1 DEF Cut
  <2>5. \A k \in 1..(p - 1) : u[k] = x[k]
    BY DEF Cut
  <2>. HIDE DEF u
  <2>6. /\ 1 \in 1..(p - 1) /\ p - 1 \in 1..(p - 1)
        /\ \A k \in 2..(p - 1) : k \in 2..p /\ k \in 1..(p - 1) /\ k - 1 \in 1..(p - 1)
    BY <1>1, <2>1
  <2>7. /\ data[u[1]].in = HeadNode /\ u[p - 1] = data[g].in
        /\ \A k \in 2..(p - 1) : data[u[k]].in = u[k - 1]
    BY <1>2, <2>3, <2>5, <2>6, Zenon
  <2>8. IsRoute(u, data[g].in)
    <3>1. IsRoute(u, data[g].in) <=>
            /\ data[u[1]].in = HeadNode
            /\ \A k \in 2..(p - 1) : data[u[k]].in = u[k - 1]
            /\ u[p - 1] = data[g].in
      <4>1. PICK i : i = p - 1
        OBVIOUS
      <4>2. i \in 1..Len(data) /\ u \in [1..i -> Objects]
        BY <2>2, <2>4, <4>1, Zenon
      <4>3. IsRoute(u, data[g].in) <=>
              /\ data[u[1]].in = HeadNode
              /\ \A k \in 2..i : data[u[k]].in = u[k - 1]
              /\ u[i] = data[g].in
        BY <4>2, RouteShape, ZenonT(60)
      <4> QED BY <4>1, <4>3, Zenon
    <3> QED BY <2>7, <3>1, Zenon
  <2> QED BY <2>2, <2>4, <2>8, Zenon DEF u
<1> QED BY <1>1, <1>2, <1>3, <1>4, Zenon

\* ... and only one.
LEMMA RouteUnique ==
  ASSUME TreeOrder, NEW h \in Objects,
         NEW n \in 1..Len(data), NEW c \in [1..n -> Objects], IsRoute(c, h),
         NEW m \in 1..Len(data), NEW d \in [1..m -> Objects], IsRoute(d, h)
  PROVE  n = m /\ c = d
<1>. DEFINE Same(g) ==
       \A p, q \in 1..Len(data) : \A x \in [1..p -> Objects], y \in [1..q -> Objects] :
          IsRoute(x, g) /\ IsRoute(y, g) => p = q /\ x = y
            T == {g \in Objects : Same(g)}
<1>1. ASSUME NEW g \in Objects, \A k \in Objects : k < g => k \in T PROVE g \in T
  <2>. SUFFICES ASSUME NEW p \in 1..Len(data), NEW q \in 1..Len(data),
                       NEW x \in [1..p -> Objects], NEW y \in [1..q -> Objects],
                       IsRoute(x, g), IsRoute(y, g)
                PROVE  p = q /\ x = y
    OBVIOUS
  <2>. DEFINE u == Cut(x, p - 1)
              v == Cut(y, q - 1)
  <2>1. /\ p \in Nat /\ x[p] = g
        /\ data[g].in = HeadNode => p = 1
        /\ data[g].in # HeadNode => /\ p - 1 \in 1..Len(data)
                                    /\ u \in [1..(p - 1) -> Objects]
                                    /\ IsRoute(u, data[g].in)
    BY RouteFront, Zenon
  <2>2. /\ q \in Nat /\ y[q] = g
        /\ data[g].in = HeadNode => q = 1
        /\ data[g].in # HeadNode => /\ q - 1 \in 1..Len(data)
                                    /\ v \in [1..(q - 1) -> Objects]
                                    /\ IsRoute(v, data[g].in)
    BY RouteFront, Zenon
  <2>3. CASE data[g].in = HeadNode
    BY <2>1, <2>2, <2>3
  <2>4. CASE data[g].in # HeadNode
    <3>1. /\ \A k \in 1..(p - 1) : u[k] = x[k]
          /\ \A k \in 1..(q - 1) : v[k] = y[k]
      BY DEF Cut
    <3>. HIDE DEF u, v
    <3>2. Same(data[g].in)
      <4>1. data[g].in \in Objects /\ data[g].in < g
        BY <2>4, OrderFacts
      <4> QED BY <1>1, <4>1, ZenonT(60)
    <3>3. p - 1 = q - 1 /\ u = v
      <4>. HIDE DEF Same
      <4>1. PICK i, j : i = p - 1 /\ j = q - 1
        OBVIOUS
      <4>2. /\ i \in 1..Len(data) /\ j \in 1..Len(data)
            /\ u \in [1..i -> Objects] /\ v \in [1..j -> Objects]
        BY <2>1, <2>2, <2>4, <4>1, Zenon
      <4>3. i = j /\ u = v
        BY <2>1, <2>2, <2>4, <3>2, <4>2, Zenon DEF Same
      <4> QED BY <4>1, <4>3, Zenon
    <3>4. p = q
      BY <2>1, <2>2, <3>3
    <3>5. ASSUME NEW k \in 1..p PROVE x[k] = y[k]
      <4>1. k = p \/ k \in 1..(p - 1)
        BY <2>1
      <4> QED BY <2>1, <2>2, <3>1, <3>3, <3>4, <4>1
    <3> QED BY <3>4, <3>5
  <2> QED BY <2>3, <2>4
<1>2. Len(data) \in Nat /\ Objects = 2..Len(data) /\ T \subseteq Objects
  BY OrderFacts DEF Objects
<1>. HIDE DEF T
<1>3. h \in T
  BY <1>1, <1>2, EldersFirst, ZenonT(60)
<1>4. Same(h)
  BY <1>3 DEF T
<1> QED BY <1>4, Zenon

\* Route(h) is the route to h.
LEMMA RouteIs ==
  ASSUME TreeOrder, NEW h \in Objects
  PROVE  \E n \in 1..Len(data) : Route(h) \in [1..n -> Objects] /\ IsRoute(Route(h), h)
<1>. DEFINE R == UNION {[1..n -> Objects] : n \in 1..Len(data)}
<1>1. \E c \in R : IsRoute(c, h)
  BY RouteExists, Zenon
<1>2. Route(h) \in R /\ IsRoute(Route(h), h)
  BY <1>1, Zenon DEF Route
<1> QED BY <1>2, Zenon

LEMMA AppendIs ==
  ASSUME NEW S, NEW s \in Seq(S), NEW e \in S, NEW t \in Seq(S),
         Len(t) = Len(s) + 1, t[Len(s) + 1] = e, \A k \in 1..Len(s) : t[k] = s[k]
  PROVE  t = Append(s, e)
OBVIOUS

\* What an object is called: its name, behind the path of its directory.
LEMMA PathStep ==
  ASSUME TreeOrder, NEW h \in Objects
  PROVE  /\ data[h].in = HeadNode => PathOf(h) = <<data[h].name>>
         /\ data[h].in # HeadNode => PathOf(h) = Append(PathOf(data[h].in), data[h].name)
         /\ PathOf(h) \in Seq(Nat)
<1>1. PICK n \in 1..Len(data) : Route(h) \in [1..n -> Objects] /\ IsRoute(Route(h), h)
  BY RouteIs
<1>. DEFINE c == Route(h)
            u == Cut(c, n - 1)
<1>2. /\ n \in Nat /\ c[n] = h
      /\ data[h].in = HeadNode => n = 1
      /\ data[h].in # HeadNode => /\ n - 1 \in 1..Len(data)
                                  /\ u \in [1..(n - 1) -> Objects]
                                  /\ IsRoute(u, data[h].in)
  BY <1>1, RouteFront, Zenon
<1>3. PathOf(h) = [k \in 1..n |-> data[c[k]].name]
  BY <1>1 DEF PathOf
<1>4. \A k \in 1..n : data[c[k]].name \in Nat
  BY <1>1, OrderFacts
<1>5. PathOf(h) \in Seq(Nat)
  BY <1>2, <1>3, <1>4
<1>6. ASSUME data[h].in = HeadNode PROVE PathOf(h) = <<data[h].name>>
  <2>1. n = 1 /\ c[1] = h
    BY <1>2, <1>6
  <2> QED BY <1>3, <2>1
<1>7. ASSUME data[h].in # HeadNode PROVE PathOf(h) = Append(PathOf(data[h].in), data[h].name)
  <2>. DEFINE d == data[h].in
  <2>1. d \in Objects
    BY <1>7, OrderFacts
  <2>2. PICK m \in 1..Len(data) : Route(d) \in [1..m -> Objects] /\ IsRoute(Route(d), d)
    BY <2>1, RouteIs, ZenonT(60)
  <2>3. m = n - 1 /\ Route(d) = u
    <3>1. PICK i : i = n - 1
      OBVIOUS
    <3>2. i \in 1..Len(data) /\ u \in [1..i -> Objects] /\ IsRoute(u, d)
      BY <1>2, <1>7, <3>1, Zenon
    <3>. HIDE DEF d, u
    <3>3. m = i /\ Route(d) = u
      BY <2>1, <2>2, <3>2, RouteUnique, Zenon
    <3> QED BY <3>1, <3>3, Zenon
  <2>4. PathOf(d) = [k \in 1..(n - 1) |-> data[c[k]].name]
    BY <2>2, <2>3 DEF PathOf, Cut
  <2>5. n - 1 \in Nat /\ \A k \in 1..n : k \in 1..(n - 1) \/ k = n
    BY <1>2
  <2>6. PathOf(d) \in Seq(Nat) /\ Len(PathOf(d)) = n - 1
    BY <1>4, <2>4, <2>5
  <2>7. Append(PathOf(d), data[h].name) = [k \in 1..n |-> data[c[k]].name]
    <3>. DEFINE t == [k \in 1..n |-> data[c[k]].name]
    <3>1. t \in Seq(Nat) /\ Len(t) = n
      BY <1>2, <1>4
    <3>2. data[h].name \in Nat /\ n = Len(PathOf(d)) + 1 /\ n \in 1..n /\ t[n] = data[h].name
      BY <1>2, <2>5, <2>6, OrderFacts
    <3>3. \A k \in 1..Len(PathOf(d)) : t[k] = PathOf(d)[k]
      BY <1>2, <2>4, <2>5, <2>6
    <3>. HIDE DEF t, d
    <3>4. t = Append(PathOf(d), data[h].name)
      BY <2>6, <3>1, <3>2, <3>3, AppendIs
    <3> QED BY <3>4, ZenonT(60) DEF t, d
  <2> QED BY <1>3, <2>7
<1> QED BY <1>5, <1>6, <1>7

LEMMA AppendFacts ==
  ASSUME NEW S, NEW s \in Seq(S), NEW e \in S
  PROVE  /\ Append(s, e) \in Seq(S) /\ Append(s, e) # <<>>
         /\ Len(s) \in Nat /\ Len(Append(s, e)) = Len(s) + 1
         /\ Front(Append(s, e)) = s /\ Last(Append(s, e)) = e
         /\ SubSeq(Append(s, e), 1, Len(s) + 1) = Append(s, e)
         /\ \A n \in 1..Len(s) : SubSeq(Append(s, e), 1, n) = SubSeq(s, 1, n)
<1>. DEFINE a == Append(s, e)
<1>1. /\ a \in Seq(S) /\ a # <<>> /\ Len(s) \in Nat /\ Len(a) = Len(s) + 1
      /\ a[Len(s) + 1] = e /\ \A k \in 1..Len(s) : a[k] = s[k]
  OBVIOUS
<1>. HIDE DEF a
<1>2. Last(a) = e
  BY <1>1 DEF Last
<1>3. Front(a) = s
  BY <1>1 DEF Front
<1>4. SubSeq(a, 1, Len(s) + 1) = a
  BY <1>1
<1>5. ASSUME NEW n \in 1..Len(s) PROVE SubSeq(a, 1, n) = SubSeq(s, 1, n)
  BY <1>1
<1> QED BY <1>1, <1>2, <1>3, <1>4, <1>5 DEF a

LEMMA PathFacts ==
  ASSUME TreeOrder, NEW h \in Objects
  PROVE  /\ PathOf(h) \in Seq(Nat) /\ PathOf(h) # <<>> /\ Len(PathOf(h)) \in Nat
         /\ Len(PathOf(h)) >= 1 /\ Last(PathOf(h)) = data[h].name
         /\ data[h].in = HeadNode <=> Len(PathOf(h)) = 1
         /\ data[h].in # HeadNode =>
              /\ data[h].in \in Objects /\ Front(PathOf(h)) = PathOf(data[h].in)
              /\ PathOf(h) = Append(PathOf(data[h].in), data[h].name)
<1>1. ASSUME NEW g \in Objects PROVE PathOf(g) \in Seq(Nat) /\ Len(PathOf(g)) >= 1
  <2>1. data[g].name \in Nat /\ (data[g].in # HeadNode => data[g].in \in Objects)
    BY OrderFacts
  <2>2. CASE data[g].in = HeadNode
    <3>1. PathOf(g) = <<data[g].name>> /\ PathOf(g) \in Seq(Nat)
      BY <2>2, PathStep, Zenon
    <3> QED BY <3>1
  <2>3. CASE data[g].in # HeadNode
    <3>1. PathOf(data[g].in) \in Seq(Nat) /\ PathOf(g) \in Seq(Nat)
      BY <2>1, <2>3, PathStep
    <3>2. PathOf(g) = Append(PathOf(data[g].in), data[g].name)
      BY <2>3, PathStep
    <3> QED BY <2>1, <3>1, <3>2
  <2> QED BY <2>2, <2>3
<1>2. data[h].name \in Nat /\ (data[h].in # HeadNode => data[h].in \in Objects)
  BY OrderFacts
<1>3. PathOf(h) \in Seq(Nat) /\ Len(PathOf(h)) >= 1
  BY <1>1
<1>4. CASE data[h].in = HeadNode
  <2>1. PathOf(h) = <<data[h].name>>
    BY <1>4, PathStep
  <2>2. Len(PathOf(h)) = 1 /\ Last(PathOf(h)) = data[h].name /\ PathOf(h) # <<>>
    BY <2>1 DEF Last
  <2> QED BY <1>3, <1>4, <2>2
<1>5. CASE data[h].in # HeadNode
  <2>. DEFINE q == PathOf(data[h].in)
  <2>1. PathOf(h) = Append(q, data[h].name)
    BY <1>5, PathStep
  <2>2. q \in Seq(Nat) /\ Len(q) >= 1
    BY <1>1, <1>2, <1>5
  <2>. HIDE DEF q
  <2>3. /\ Len(q) \in Nat /\ Len(PathOf(h)) = Len(q) + 1 /\ PathOf(h) # <<>>
        /\ Front(PathOf(h)) = q /\ Last(PathOf(h)) = data[h].name
    BY <1>2, <2>1, <2>2, AppendFacts
  <2>4. Len(PathOf(h)) # 1
    BY <2>2, <2>3
  <2> QED BY <1>2, <1>3, <1>5, <2>1, <2>3, <2>4 DEF q
<1> QED BY <1>4, <1>5

\* Different objects have different paths.
LEMMA PathInjective ==
  ASSUME TreeOrder, NEW g \in Objects, NEW h \in Objects, PathOf(g) = PathOf(h)
  PROVE  g = h
<1>. DEFINE Single(x) == \A y \in Objects : PathOf(x) = PathOf(y) => x = y
            T == {x \in Objects : Single(x)}
<1>1. ASSUME NEW x \in Objects, \A k \in Objects : k < x => k \in T PROVE x \in T
  <2>. SUFFICES ASSUME NEW y \in Objects, PathOf(x) = PathOf(y) PROVE x = y
    OBVIOUS
  <2>1. data[x].name = data[y].name /\ (data[x].in = HeadNode <=> data[y].in = HeadNode)
    BY PathFacts
  <2>2. data[x].in = data[y].in
    <3>1. CASE data[x].in = HeadNode
      BY <2>1, <3>1
    <3>2. CASE data[x].in # HeadNode
      <4>1. /\ data[x].in \in Objects /\ Front(PathOf(x)) = PathOf(data[x].in)
            /\ data[y].in \in Objects /\ Front(PathOf(y)) = PathOf(data[y].in)
        BY <2>1, <3>2, PathFacts
      <4>2. data[x].in \in T
        BY <1>1, <4>1, OrderFacts
      <4> QED BY <4>1, <4>2
    <3> QED BY <3>1, <3>2
  <2> QED BY <2>1, <2>2 DEF TreeOrder
<1>2. Len(data) \in Nat /\ Objects = 2..Len(data) /\ T \subseteq Objects
  BY OrderFacts DEF Objects
<1>. HIDE DEF T
<1>3. g \in T
  BY <1>1, <1>2, EldersFirst, ZenonT(60)
<1>4. Single(g)
  BY <1>3 DEF T
<1> QED BY <1>4, Zenon

\* The directories above an object are objects.
LEMMA PathClosed ==
  ASSUME TreeOrder, NEW h \in Objects, NEW n \in 1..Len(PathOf(h))
  PROVE  SubSeq(PathOf(h), 1, n) \in {PathOf(g) : g \in Objects}
<1>. DEFINE P == {PathOf(g) : g \in Objects}
            Closed(x) == \A m \in 1..Len(PathOf(x)) : SubSeq(PathOf(x), 1, m) \in P
            T == {x \in Objects : Closed(x)}
<1>1. ASSUME NEW x \in Objects, \A k \in Objects : k < x => k \in T PROVE x \in T
  <2>. SUFFICES ASSUME NEW m \in 1..Len(PathOf(x)) PROVE SubSeq(PathOf(x), 1, m) \in P
    OBVIOUS
  <2>0. PathOf(x) \in P
    OBVIOUS
  <2>. HIDE DEF P
  <2>1. PathOf(x) \in Seq(Nat) /\ Len(PathOf(x)) \in Nat
    BY PathFacts
  <2>2. CASE m = Len(PathOf(x))
    <3>1. SubSeq(PathOf(x), 1, m) = PathOf(x)
      BY <2>1, <2>2
    <3> QED BY <2>0, <3>1, ZenonT(60)
  <2>3. CASE m # Len(PathOf(x))
    <3>. DEFINE q == PathOf(data[x].in)
    <3>1. data[x].in # HeadNode
      <4>1. Len(PathOf(x)) # 1
        <5>1. PICK l \in Nat : l = Len(PathOf(x))
          BY <2>1
        <5>2. m \in 1..l /\ m # l
          BY <2>3, <5>1
        <5>3. l # 1
          BY <5>2
        <5> QED BY <5>1, <5>3
      <4> QED BY <4>1, PathFacts, Zenon
    <3>2. data[x].in \in Objects /\ PathOf(x) = Append(q, data[x].name)
      BY <3>1, PathFacts
    <3>3. q \in Seq(Nat) /\ data[x].name \in Nat
      BY <3>2, PathFacts, OrderFacts
    <3>4. data[x].in \in T
      BY <1>1, <3>2, OrderFacts
    <3>. HIDE DEF q
    <3>5. /\ Len(q) \in Nat /\ Len(PathOf(x)) = Len(q) + 1
          /\ \A k \in 1..Len(q) : SubSeq(PathOf(x), 1, k) = SubSeq(q, 1, k)
      BY <3>2, <3>3, AppendFacts
    <3>6. m \in 1..Len(q)
      BY <2>1, <2>3, <3>5
    <3>7. SubSeq(q, 1, m) \in P
      BY <3>4, <3>6 DEF q
    <3> QED BY <3>5, <3>6, <3>7, ZenonT(60)
  <2> QED BY <2>2, <2>3
<1>2. Len(data) \in Nat /\ Objects = 2..Len(data) /\ T \subseteq Objects
  BY OrderFacts DEF Objects
<1>. HIDE DEF T
<1>3. h \in T
  BY <1>1, <1>2, EldersFirst, ZenonT(60)
<1>4. Closed(h)
  BY <1>3 DEF T
<1> QED BY <1>4, Zenon

----------------------------------------------------------------------------
(* Stacks *)

\* What popping a stack leaves.
LEMMA PopFacts ==
  ASSUME NEW S, NEW s \in Seq(S), s # <<>>
  PROVE  /\ Len(s) \in Nat \ {0}
         /\ Last(s) \in S
         /\ Last(s) = s[Len(s)]
         /\ Front(s) \in Seq(S)
         /\ Len(Front(s)) = Len(s) - 1
         /\ \A i \in 1..(Len(s) - 1) : Front(s)[i] = s[i]
<1>1. Len(s) \in Nat \ {0} /\ s \in [1..Len(s) -> S]
  BY EmptySeq, LenProperties
<1>2. /\ SubSeq(s, 1, Len(s) - 1) \in Seq(S)
      /\ Len(SubSeq(s, 1, Len(s) - 1))
           = IF 1 <= Len(s) - 1 THEN (Len(s) - 1) - 1 + 1 ELSE 0
      /\ \A i \in 1..((Len(s) - 1) - 1 + 1) :
            SubSeq(s, 1, Len(s) - 1)[i] = s[1 + i - 1]
  <2>1. \A i \in 1..(Len(s) - 1) : s[i] \in S
    BY <1>1
  <2>2. 1 \in Int /\ Len(s) - 1 \in Int
    BY <1>1
  <2>. QED
    BY <2>1, <2>2, SubSeqProperties
<1>. QED
  BY <1>1, <1>2 DEF Last, Front

\* What pushing onto a stack does.
LEMMA PushFacts ==
  ASSUME NEW S, NEW s \in Seq(S), NEW x \in S
  PROVE  /\ Len(s) \in Nat
         /\ Append(s, x) \in Seq(S)
         /\ Append(s, x) # <<>>
         /\ Len(Append(s, x)) = Len(s) + 1
         /\ \A i \in 1..Len(s) : Append(s, x)[i] = s[i]
         /\ Append(s, x)[Len(s) + 1] = x
         /\ Last(Append(s, x)) = x
  BY AppendProperties, LenProperties DEF Last

\* The fields of the records on the stacks, and how to make one.
LEMMA FrameFacts ==
  /\ \A f \in FrameRec : /\ f.dir \in Nat /\ f.left \in Nat
                         /\ f.refused \in Nat /\ f.next \in Nat
  /\ \A d, l, r, n \in Nat : Frame(d, l, r, n) \in FrameRec
  /\ \A d, l, r, n : /\ Frame(d, l, r, n).dir = d
                     /\ Frame(d, l, r, n).left = l
                     /\ Frame(d, l, r, n).refused = r
                     /\ Frame(d, l, r, n).next = n
  BY DEF FrameRec, Frame

LEMMA EntryFacts ==
  /\ \A e \in StackRec : e.node \in Nat /\ e.fill \in Nat
  /\ \A n, k \in Nat : Entry(n, k) \in StackRec
  /\ \A n, k : Entry(n, k).node = n /\ Entry(n, k).fill = k
  BY DEF StackRec, Entry

LEMMA HeaderFacts ==
  /\ \A h \in HeaderRec :
       /\ h.name \in Nat /\ h.type \in {DIRECTORY, PLAIN_FILE}
       /\ h.length \in Nat /\ h.in \in Nat
  /\ \A n, l, d \in Nat : \A t \in {DIRECTORY, PLAIN_FILE} :
       Header(n, t, l, d) \in HeaderRec
  /\ \A n, t, l, d : /\ Header(n, t, l, d).name = n
                     /\ Header(n, t, l, d).type = t
                     /\ Header(n, t, l, d).length = l
                     /\ Header(n, t, l, d).in = d
  BY DEF HeaderRec, Header

\* Consuming an entry counts it off the directory on top, which is dropped when
\* nothing of it is left.
LEMMA ConsumedFacts ==
  ASSUME frames \in Seq(FrameRec), frames # <<>>, Last(frames).left > 0,
         NEW n, n = Len(frames),
         NEW f, f = Last(frames)
  PROVE  /\ n \in Nat \ {0}
         /\ f \in FrameRec /\ f = frames[n]
         /\ Consumed \in Seq(FrameRec)
         /\ \/ /\ Len(Consumed) = n - 1
               /\ f.left = 1 /\ f.refused = 0
            \/ /\ Len(Consumed) = n
               /\ Consumed[n] = Frame(f.dir, f.left - 1, f.refused, f.next + 1)
               /\ f.left - 1 + f.refused > 0
         /\ \A i \in 1..(n - 1) : Consumed[i] = frames[i]
<1>1. /\ n \in Nat \ {0}
      /\ f \in FrameRec /\ f = frames[n]
      /\ Front(frames) \in Seq(FrameRec)
      /\ Len(Front(frames)) = n - 1
      /\ \A i \in 1..(n - 1) : Front(frames)[i] = frames[i]
  BY PopFacts
<1>2. /\ f.dir \in Nat /\ f.left \in Nat \ {0}
      /\ f.refused \in Nat /\ f.next \in Nat
  <2>1. f \in FrameRec /\ f.left > 0
    BY <1>1
  <2>2. f.dir \in Nat /\ f.left \in Nat /\ f.refused \in Nat /\ f.next \in Nat
    BY <2>1, FrameFacts, Zenon
  <2>. QED
    BY <2>1, <2>2
<1>. DEFINE g == Frame(f.dir, f.left - 1, f.refused, f.next + 1)
<1>3. g \in FrameRec
  <2>1. f.left - 1 \in Nat /\ f.next + 1 \in Nat
    BY <1>2
  <2>. QED
    BY <1>2, <2>1, FrameFacts, Zenon
<1>4. Consumed = IF f.left + f.refused = 1 THEN Front(frames)
                                           ELSE Append(Front(frames), g)
  BY DEF Consumed
<1>. HIDE DEF g
<1>5. CASE f.left + f.refused = 1
  <2>1. f.left = 1 /\ f.refused = 0
    BY <1>2, <1>5
  <2>2. Consumed = Front(frames)
    BY <1>4, <1>5
  <2>. QED
    BY <1>1, <2>1, <2>2
<1>6. CASE f.left + f.refused # 1
  <2>1. /\ Append(Front(frames), g) \in Seq(FrameRec)
        /\ Len(Append(Front(frames), g)) = Len(Front(frames)) + 1
        /\ \A i \in 1..Len(Front(frames)) :
              Append(Front(frames), g)[i] = Front(frames)[i]
        /\ Append(Front(frames), g)[Len(Front(frames)) + 1] = g
    BY <1>1, <1>3, PushFacts
  <2>2. Consumed = Append(Front(frames), g)
    BY <1>4, <1>6
  <2>3. f.left - 1 + f.refused > 0
    BY <1>2, <1>6
  <2>4. Len(Consumed) = n /\ Consumed[n] = g
    BY <1>1, <2>1, <2>2
  <2>. QED
    BY <1>1, <2>1, <2>2, <2>3, <2>4 DEF g
<1>. QED
  BY <1>5, <1>6

\* Descending pushes a frame on that, unless there is nothing to report.
LEMMA EnteredFacts ==
  ASSUME frames \in Seq(FrameRec), frames # <<>>, Last(frames).left > 0,
         NEW d \in Nat, NEW a \in Nat, NEW b \in Nat
  PROVE  Entered(d, a, b) \in Seq(FrameRec)
<1>1. Consumed \in Seq(FrameRec)
  BY ConsumedFacts
<1>2. Frame(d, a, b, 0) \in FrameRec
  BY FrameFacts
<1>3. Append(Consumed, Frame(d, a, b, 0)) \in Seq(FrameRec)
  BY <1>1, <1>2, PushFacts
<1>. QED
  BY <1>1, <1>3 DEF Entered

\* The stack S of s_builder after a slot of its top was used, where D are the
\* headers.
Popped(D, S) ==
  IF Last(S).fill + 1 # D[Last(S).node].length
  THEN Append(Front(S), Entry(Last(S).node, Last(S).fill + 1))
  ELSE Front(S)

LEMMA PoppedFacts ==
  ASSUME NEW D, NEW S \in Seq(StackRec), S # <<>>,
         NEW n, n = Len(S),
         NEW e, e = Last(S)
  PROVE  /\ n \in Nat \ {0}
         /\ e \in StackRec /\ e = S[n]
         /\ Popped(D, S) \in Seq(StackRec)
         /\ \/ /\ Len(Popped(D, S)) = n - 1
               /\ e.fill + 1 = D[e.node].length
            \/ /\ Len(Popped(D, S)) = n
               /\ Popped(D, S)[n] = Entry(e.node, e.fill + 1)
               /\ e.fill + 1 # D[e.node].length
         /\ \A i \in 1..(n - 1) : Popped(D, S)[i] = S[i]
<1>1. /\ n \in Nat \ {0}
      /\ e \in StackRec /\ e = S[n]
      /\ Front(S) \in Seq(StackRec)
      /\ Len(Front(S)) = n - 1
      /\ \A i \in 1..(n - 1) : Front(S)[i] = S[i]
  BY PopFacts
<1>. DEFINE g == Entry(e.node, e.fill + 1)
<1>2. g \in StackRec
  <2>1. e.node \in Nat /\ e.fill \in Nat
    BY <1>1, EntryFacts
  <2>2. e.fill + 1 \in Nat
    BY <2>1
  <2>. QED
    BY <2>1, <2>2, EntryFacts
<1>3. Popped(D, S) = IF e.fill + 1 # D[e.node].length THEN Append(Front(S), g)
                                                      ELSE Front(S)
  BY DEF Popped
<1>. HIDE DEF g
<1>4. CASE e.fill + 1 = D[e.node].length
  BY <1>1, <1>3, <1>4
<1>5. CASE e.fill + 1 # D[e.node].length
  <2>1. /\ Append(Front(S), g) \in Seq(StackRec)
        /\ Len(Append(Front(S), g)) = Len(Front(S)) + 1
        /\ \A i \in 1..Len(Front(S)) : Append(Front(S), g)[i] = Front(S)[i]
        /\ Append(Front(S), g)[Len(Front(S)) + 1] = g
    BY <1>1, <1>2, PushFacts
  <2>2. Popped(D, S) = Append(Front(S), g)
    BY <1>3, <1>5
  <2>3. Len(Popped(D, S)) = n /\ Popped(D, S)[n] = g
    BY <1>1, <2>1, <2>2
  <2>. QED
    BY <1>1, <1>5, <2>1, <2>2, <2>3 DEF g
<1>. QED
  BY <1>4, <1>5

LEMMA WithoutSlotType ==
  ASSUME directories \in Seq(StackRec)
  PROVE  /\ WithoutSlot \in Seq(StackRec)
         /\ directories = <<>> => WithoutSlot = <<>>
         /\ directories # <<>> => WithoutSlot = Popped(data, directories)
<1>1. directories # <<>> => WithoutSlot = Popped(data, directories)
  BY DEF WithoutSlot, Popped
<1>2. directories = <<>> => WithoutSlot = <<>>
  BY DEF WithoutSlot
<1>. QED
  BY <1>1, <1>2, PoppedFacts

LEMMA WithChildType ==
  ASSUME children \in [DOMAIN children -> Nat], NEW id \in Nat
  PROVE  WithChild(id) \in [DOMAIN WithChild(id) -> Nat]
  BY DEF WithChild

\* What a listing is.
LEMMA ListingFacts ==
  ASSUME NEW l \in Listings, unseen \in Nat
  PROVE  /\ l.counted \in Nat /\ l.reported \in Nat /\ l.refused \in Nat
         /\ unseen - l.reported - l.refused \in Nat
         /\ DirLength(l) \in Nat
         /\ ~Churn => l.counted = l.reported
         /\ "dangling" \notin EntryKinds => l.refused = 0
<1>1. /\ l.counted \in Nat /\ l.reported \in Nat /\ l.refused \in Nat
      /\ l.reported + l.refused <= unseen
      /\ l.counted = l.reported \/ Churn
      /\ l.refused = 0 \/ "dangling" \in EntryKinds
  BY BuilderAssumption DEF Listings
<1>. QED
  BY <1>1 DEF DirLength

----------------------------------------------------------------------------
(* Type correctness *)

\* While s_builder waits for a file, nftw has not counted that file off yet.
OpeningInv == phase = "opening" => frames # <<>> /\ Last(frames).left > 0

TypeInv == TypeOK /\ OpeningInv

LEMMA InitType == Init => TypeInv
<1>. SUFFICES ASSUME Init PROVE TypeInv
  OBVIOUS
<1>1. frames \in Seq(FrameRec)
  <2>1. Frame(HeadNode, 1, 0, 0) \in FrameRec
    BY FrameFacts DEF HeadNode
  <2>. QED
    BY <2>1 DEF Init
<1>2. data \in Seq(HeaderRec)
  <2>1. Header(0, DIRECTORY, 1, NoDir) \in HeaderRec
    BY HeaderFacts DEF NoDir
  <2>. QED
    BY <2>1 DEF Init
<1>3. directories \in Seq(StackRec)
  <2>1. Entry(HeadNode, 0) \in StackRec
    BY EntryFacts DEF HeadNode
  <2>. QED
    BY <2>1 DEF Init
<1>4. children \in [DOMAIN children -> Nat]
  BY DEF Init
<1>. QED
  BY <1>1, <1>2, <1>3, <1>4, BuilderAssumption
  DEF TypeInv, TypeOK, OpeningInv, Init, FrameRec, HeaderRec, StackRec

LEMMA NextType == TypeInv /\ [Next]_vars => TypeInv'
<1>. SUFFICES ASSUME TypeInv, [Next]_vars PROVE TypeInv'
  OBVIOUS
<1>1. /\ frames \in Seq(FrameRec) /\ data \in Seq(HeaderRec)
      /\ directories \in Seq(StackRec) /\ unseen \in Nat
      /\ header_count \in Nat /\ subitems_count \in Nat
      /\ children \in [DOMAIN children -> Nat]
  BY DEF TypeInv, TypeOK, FrameRec, HeaderRec, StackRec
<1>2. Len(data) \in Nat /\ Len(data) + 1 \in Nat
  BY <1>1, LenProperties
<1>3. ASSUME frames # <<>>
      PROVE  /\ Last(frames) \in FrameRec
             /\ Last(frames).dir \in Nat /\ Last(frames).next \in Nat
  <2>1. Last(frames) \in FrameRec
    BY <1>1, <1>3, PopFacts
  <2>. QED
    BY <2>1, FrameFacts
<1>4. CASE IgnoreDot
  <2>1. PICK l \in Listings :
           /\ frames' = Entered(NoDir, l.reported, l.refused)
           /\ unseen' = unseen - l.reported - l.refused
    BY <1>4 DEF IgnoreDot
  <2>2. frames' \in Seq(FrameRec) /\ unseen' \in Nat
    BY <1>1, <1>4, <2>1, ListingFacts, EnteredFacts, Zenon DEF IgnoreDot, NextIsOf, NoDir
  <2>. QED
    BY <1>4, <2>2
    DEF IgnoreDot, NextIsOf, TypeInv, TypeOK, OpeningInv, FrameRec
<1>5. CASE BuildDirectory
  <2>1. PICK l \in Listings :
           /\ subitems_count' = subitems_count + DirLength(l)
           /\ data' = Append(data, Header(Last(frames).next, DIRECTORY,
                                          DirLength(l), Last(frames).dir))
           /\ children' = WithChild(Len(data) + 1)
           /\ directories' = IF directories = <<>> \/ DirLength(l) = 0
                             THEN WithoutSlot
                             ELSE Append(WithoutSlot, Entry(Len(data) + 1, 0))
           /\ frames' = Entered(Len(data) + 1, l.reported, l.refused)
           /\ unseen' = unseen - l.reported - l.refused
    BY <1>5 DEF BuildDirectory
  <2>2. frames' \in Seq(FrameRec) /\ unseen' \in Nat
    BY <1>1, <1>2, <1>5, <2>1, ListingFacts, EnteredFacts, Zenon
    DEF BuildDirectory, NextIsOf
  <2>3. data' \in Seq(HeaderRec)
    <3>1. Header(Last(frames).next, DIRECTORY, DirLength(l), Last(frames).dir)
            \in HeaderRec
      BY <1>1, <1>3, <1>5, ListingFacts, HeaderFacts, Zenon DEF BuildDirectory, NextIsOf
    <3>. QED
      BY <1>1, <2>1, <3>1, PushFacts
  <2>4. directories' \in Seq(StackRec)
    <3>1. Entry(Len(data) + 1, 0) \in StackRec
      BY <1>2, EntryFacts
    <3>. QED
      BY <1>1, <2>1, <3>1, WithoutSlotType, PushFacts
  <2>5. children' \in [DOMAIN children' -> Nat]
    BY <1>1, <1>2, <2>1, WithChildType
  <2>6. subitems_count' \in Nat /\ header_count' \in Nat
    <3>1. DirLength(l) \in Nat
      BY <1>1, ListingFacts
    <3>2. header_count' = header_count + 1
      BY <1>5 DEF BuildDirectory
    <3>. QED
      BY <1>1, <2>1, <3>1, <3>2
  <2>. QED
    BY <1>5, <2>2, <2>3, <2>4, <2>5, <2>6
    DEF BuildDirectory, NextIsOf, TypeInv, TypeOK, OpeningInv, FrameRec,
        HeaderRec, StackRec
<1>6. CASE ReportFile
  <2>1. PICK size \in FileSizes :
           data' = Append(data, Header(Last(frames).next, PLAIN_FILE,
                                       size, Last(frames).dir))
    BY <1>6 DEF ReportFile
  <2>2. data' \in Seq(HeaderRec)
    <3>1. Header(Last(frames).next, PLAIN_FILE, size, Last(frames).dir)
            \in HeaderRec
      BY <1>3, <1>6, BuilderAssumption, HeaderFacts, Zenon DEF ReportFile, NextIsOf
    <3>. QED
      BY <1>1, <2>1, <3>1, PushFacts
  <2>3. openable' \in BOOLEAN
    BY <1>6, Zenon DEF ReportFile
  <2>4. header_count' \in Nat
    BY <1>1, <1>6 DEF ReportFile
  <2>. QED
    BY <1>6, <2>2, <2>3, <2>4
    DEF ReportFile, NextIsOf, TypeInv, TypeOK, OpeningInv, HeaderRec
<1>7. CASE BuildFile
  <2>1. frames' \in Seq(FrameRec)
    BY <1>1, <1>7, ConsumedFacts DEF BuildFile, TypeInv, OpeningInv
  <2>2. directories' \in Seq(StackRec)
    BY <1>1, <1>7, WithoutSlotType DEF BuildFile
  <2>3. children' \in [DOMAIN children' -> Nat]
    BY <1>1, <1>2, <1>7, WithChildType DEF BuildFile
  <2>. QED
    BY <1>7, <2>1, <2>2, <2>3
    DEF BuildFile, TypeInv, TypeOK, OpeningInv, FrameRec, StackRec
<1>8. CASE SkipSeen
  <2>1. frames' \in Seq(FrameRec)
    BY <1>1, <1>8, ConsumedFacts DEF SkipSeen, NextIsOf
  <2>. QED
    BY <1>8, <2>1 DEF SkipSeen, NextIsOf, TypeInv, TypeOK, OpeningInv, FrameRec
<1>9. CASE Refuse
  <2>1. header_count' \in Nat
    BY <1>1, <1>9 DEF Refuse
  <2>2. frames' \in Seq([dir : Nat, left : Nat, refused : Nat, next : Nat])
    BY <1>9 DEF Refuse
  <2>. QED
    BY <1>9, <2>1, <2>2 DEF Refuse, TypeInv, TypeOK, OpeningInv
<1>10. CASE Return
  BY <1>10 DEF Return, TypeInv, TypeOK, OpeningInv
<1>11. CASE Unlock
  BY <1>11 DEF Unlock, TypeInv, TypeOK, OpeningInv
<1>12. CASE Done \/ UNCHANGED vars
  BY <1>12 DEF Done, vars, TypeInv, TypeOK, OpeningInv
<1>. QED
  BY <1>4, <1>5, <1>6, <1>7, <1>8, <1>9, <1>10, <1>11, <1>12
  DEF Next, BuilderNext

\* Whatever the source holds, the variables of the walk keep their types: in
\* particular no count of nftw or of s_builder becomes negative.
THEOREM TypeCorrect == Spec => []TypeOK
<1>1. TypeInv => TypeOK
  BY DEF TypeInv
<1>. QED
  BY InitType, NextType, <1>1, PTL DEF Spec

----------------------------------------------------------------------------
(***************************************************************************)
(* The slots                                                               *)
(*                                                                         *)
(* SlotsInBounds is not inductive: it says nothing of the free slots of a  *)
(* stacked directory beyond the first one.  StackOK does, and it says that *)
(* no directory is stacked twice.  Both are stated for any headers D,      *)
(* children C and stack S, because a callback adds a header, hangs it into *)
(* a slot and pushes it one after the other.                               *)
(***************************************************************************)
SlotsOK(D, C) ==
  /\ \A s \in DOMAIN C :
       /\ s[1] \in 1..Len(D) /\ s[2] \in Nat
       /\ s = <<s[1], s[2]>>
       /\ D[s[1]].type = DIRECTORY /\ s[2] < D[s[1]].length
       /\ C[s] \in Nat /\ s[1] < C[s] /\ C[s] <= Len(D)
  /\ \A s, t \in DOMAIN C : C[s] = C[t] => s = t

StackOK(D, C, S) ==
  /\ \A i \in 1..Len(S) :
       /\ S[i].node \in 1..Len(D)
       /\ D[S[i].node].type = DIRECTORY
       /\ S[i].fill < D[S[i].node].length
       /\ \A k \in Nat : k >= S[i].fill => <<S[i].node, k>> \notin DOMAIN C
  /\ \A i, j \in 1..Len(S) : S[i].node = S[j].node => i = j

\* The children after header id took the first free slot of the top of S.
Hung(C, S, id) ==
  LET slot == <<Last(S).node, Last(S).fill>>
  IN  [s \in DOMAIN C \cup {slot} |-> IF s = slot THEN id ELSE C[s]]

\* A further header changes nothing for the slots and the stack.
LEMMA GrowSlots ==
  ASSUME NEW D \in Seq(HeaderRec), NEW h \in HeaderRec, NEW C, NEW S,
         SlotsOK(D, C), StackOK(D, C, S)
  PROVE  SlotsOK(Append(D, h), C) /\ StackOK(Append(D, h), C, S)
<1>. DEFINE E == Append(D, h)
<1>1. /\ Len(D) \in Nat /\ Len(E) = Len(D) + 1
      /\ \A i \in 1..Len(D) : E[i] = D[i]
  BY PushFacts
<1>. HIDE DEF E
<1>2. SlotsOK(E, C)
  BY <1>1 DEF SlotsOK
<1>3. StackOK(E, C, S)
  BY <1>1 DEF StackOK
<1>. QED
  BY <1>2, <1>3 DEF E

LEMMA PoppedGrown ==
  ASSUME NEW D \in Seq(HeaderRec), NEW h \in HeaderRec, NEW C,
         NEW S \in Seq(StackRec), S # <<>>, StackOK(D, C, S)
  PROVE  Popped(Append(D, h), S) = Popped(D, S)
<1>1. Len(S) \in Nat \ {0} /\ Last(S) = S[Len(S)]
  BY PopFacts, Zenon
<1>2. Last(S).node \in 1..Len(D)
  BY <1>1 DEF StackOK
<1>3. Append(D, h)[Last(S).node] = D[Last(S).node]
  BY <1>2, PushFacts
<1>. QED
  BY <1>3 DEF Popped

\* Hanging a header into the tree: the slot is free and within the array, and
\* what stays on the stack has a free slot left.
LEMMA HangSlots ==
  ASSUME NEW D \in Seq(HeaderRec), NEW C, NEW S \in Seq(StackRec), S # <<>>,
         NEW id \in Nat, id <= Len(D),
         SlotsOK(D, C), StackOK(D, C, S),
         \A i \in 1..Len(S) : S[i].node < id,
         \A s \in DOMAIN C : C[s] # id
  PROVE  /\ SlotsOK(D, Hung(C, S, id))
         /\ StackOK(D, Hung(C, S, id), Popped(D, S))
         /\ \A i \in 1..Len(Popped(D, S)) : Popped(D, S)[i].node < id
<1>. DEFINE n == Len(S)
            e == Last(S)
            slot == <<e.node, e.fill>>
            H == Hung(C, S, id)
            P == Popped(D, S)
<1>1. /\ n \in Nat \ {0} /\ e \in StackRec /\ e = S[n]
      /\ P \in Seq(StackRec)
      /\ \/ Len(P) = n - 1
         \/ /\ Len(P) = n
            /\ P[n] = Entry(e.node, e.fill + 1)
            /\ e.fill + 1 # D[e.node].length
      /\ \A i \in 1..(n - 1) : P[i] = S[i]
  BY PoppedFacts
<1>2. /\ e.node \in 1..Len(D) /\ e.node \in Nat /\ e.fill \in Nat
      /\ D[e.node].type = DIRECTORY
      /\ e.fill < D[e.node].length
      /\ e.node < id
      /\ \A k \in Nat : k >= e.fill => <<e.node, k>> \notin DOMAIN C
  <2>1. n \in 1..Len(S)
    BY <1>1
  <2>2. e.node \in Nat /\ e.fill \in Nat
    BY <1>1, EntryFacts
  <2>. QED
    BY <1>1, <2>1, <2>2 DEF StackOK
<1>3. Len(D) \in Nat /\ \A d \in 1..Len(D) : D[d].length \in Nat
  BY LenProperties, HeaderFacts
<1>4. /\ DOMAIN H = DOMAIN C \cup {slot}
      /\ H[slot] = id
      /\ \A s \in DOMAIN C : s # slot => H[s] = C[s]
  BY DEF Hung
<1>5. slot \notin DOMAIN C
  BY <1>2
<1>6. SlotsOK(D, H)
  <2>1. /\ slot[1] = e.node /\ slot[2] = e.fill
    OBVIOUS
  <2>. HIDE DEF slot, H, e
  <2>2. ASSUME NEW s \in DOMAIN H
        PROVE  /\ s[1] \in 1..Len(D) /\ s[2] \in Nat
               /\ s = <<s[1], s[2]>>
               /\ D[s[1]].type = DIRECTORY /\ s[2] < D[s[1]].length
               /\ H[s] \in Nat /\ s[1] < H[s] /\ H[s] <= Len(D)
    <3>1. CASE s \in DOMAIN C
      BY <1>4, <1>5, <3>1 DEF SlotsOK
    <3>2. CASE s = slot
      <4>1. slot = <<slot[1], slot[2]>>
        BY DEF slot
      <4>. QED
        BY <1>2, <1>4, <2>1, <3>2, <4>1
    <3>. QED
      BY <1>4, <3>1, <3>2
  <2>3. ASSUME NEW s \in DOMAIN H, NEW t \in DOMAIN H, H[s] = H[t]
        PROVE  s = t
    BY <1>4, <1>5, <2>3 DEF SlotsOK
  <2>. QED
    BY <2>2, <2>3 DEF SlotsOK
<1>7. ASSUME NEW i \in 1..Len(P)
      PROVE  /\ i \in 1..n
             /\ P[i].node = S[i].node
             /\ i # n => P[i] = S[i]
             /\ i = n => P[i].fill = e.fill + 1 /\ e.fill + 1 # D[e.node].length
  <2>1. CASE i \in 1..(n - 1)
    BY <1>1, <2>1
  <2>2. CASE i = n /\ Len(P) = n
    <3>1. P[n] = Entry(e.node, e.fill + 1) /\ e.fill + 1 # D[e.node].length
      BY <1>1, <2>2
    <3>2. P[n].node = e.node /\ P[n].fill = e.fill + 1
      BY <3>1, EntryFacts
    <3>. QED
      BY <1>1, <2>2, <3>1, <3>2
  <2>. QED
    BY <1>1, <2>1, <2>2
<1>8. StackOK(D, H, P)
  <2>. HIDE DEF H, P, e, n
  <2>1. ASSUME NEW i \in 1..Len(P)
        PROVE  /\ P[i].node \in 1..Len(D)
               /\ D[P[i].node].type = DIRECTORY
               /\ P[i].fill < D[P[i].node].length
               /\ \A k \in Nat : k >= P[i].fill => <<P[i].node, k>> \notin DOMAIN H
    <3>1. CASE i # n
      <4>1. i \in 1..Len(S) /\ n \in 1..Len(S) /\ P[i] = S[i] /\ e = S[n]
        BY <1>1, <1>7, <3>1 DEF n
      <4>2. S[i].node # e.node
        BY <3>1, <4>1 DEF StackOK
      <4>3. \A k : <<S[i].node, k>> # slot
        BY <4>2
      <4>. QED
        BY <1>4, <4>1, <4>3 DEF StackOK
    <3>2. CASE i = n
      <4>1. P[i].node = e.node /\ P[i].fill = e.fill + 1 /\ e.fill + 1 # D[e.node].length
        BY <1>1, <1>7, <3>2
      <4>2. P[i].fill < D[P[i].node].length
        BY <1>2, <1>3, <4>1
      <4>3. \A k \in Nat : k >= e.fill + 1 => <<e.node, k>> \notin DOMAIN H
        <5>1. \A k \in Nat : k >= e.fill + 1 => k >= e.fill /\ k # e.fill
          BY <1>2
        <5>. QED
          BY <1>2, <1>4, <5>1
      <4>. QED
        BY <1>2, <4>1, <4>2, <4>3
    <3>. QED
      BY <3>1, <3>2
  <2>2. ASSUME NEW i \in 1..Len(P), NEW j \in 1..Len(P), P[i].node = P[j].node
        PROVE  i = j
    BY <1>7, <2>2 DEF StackOK, n
  <2>. QED
    BY <2>1, <2>2 DEF StackOK
<1>9. \A i \in 1..Len(P) : P[i].node < id
  BY <1>7
<1>. QED
  BY <1>6, <1>8, <1>9

\* Pushing the header that was made last.
LEMMA PushSlots ==
  ASSUME NEW D \in Seq(HeaderRec), NEW C, NEW S \in Seq(StackRec),
         NEW id \in Nat \ {0}, id = Len(D),
         D[id].type = DIRECTORY, D[id].length > 0,
         StackOK(D, C, S),
         \A i \in 1..Len(S) : S[i].node < id,
         \A s \in DOMAIN C : s[1] < id
  PROVE  StackOK(D, C, Append(S, Entry(id, 0)))
<1>. DEFINE T == Append(S, Entry(id, 0))
<1>1. Entry(id, 0) \in StackRec /\ Entry(id, 0).node = id /\ Entry(id, 0).fill = 0
  BY EntryFacts
<1>2. /\ Len(S) \in Nat /\ Len(T) = Len(S) + 1
      /\ \A i \in 1..Len(S) : T[i] = S[i]
      /\ T[Len(S) + 1] = Entry(id, 0)
  BY <1>1, PushFacts
<1>3. \A k : <<id, k>> \notin DOMAIN C
  <2>. SUFFICES ASSUME NEW k, <<id, k>> \in DOMAIN C PROVE FALSE
    OBVIOUS
  <2>1. <<id, k>>[1] < id
    OBVIOUS
  <2>. QED
    BY <2>1
<1>. HIDE DEF T
<1>4. ASSUME NEW i \in 1..Len(T)
      PROVE  /\ T[i].node \in 1..Len(D)
             /\ D[T[i].node].type = DIRECTORY
             /\ T[i].fill < D[T[i].node].length
             /\ \A k \in Nat : k >= T[i].fill => <<T[i].node, k>> \notin DOMAIN C
  <2>1. CASE i \in 1..Len(S)
    BY <1>2, <2>1 DEF StackOK
  <2>2. CASE i = Len(S) + 1
    <3>1. T[i].node = id /\ T[i].fill = 0
      BY <1>1, <1>2, <2>2
    <3>. QED
      BY <1>3, <3>1
  <2>. QED
    BY <1>2, <2>1, <2>2
<1>5. ASSUME NEW i \in 1..Len(T), NEW j \in 1..Len(T), T[i].node = T[j].node
      PROVE  i = j
  <2>1. T[Len(S) + 1].node = id
    BY <1>1, <1>2
  <2>2. \A k \in 1..Len(S) : T[k].node < id /\ T[k].node \in Nat
    BY <1>2 DEF StackOK
  <2>. QED
    BY <1>2, <1>5, <2>1, <2>2 DEF StackOK
<1>. QED
  BY <1>4, <1>5 DEF StackOK, T

StackInv ==
  /\ SlotsOK(data, children)
  /\ StackOK(data, children, directories)
  /\ phase = "opening" =>
       /\ data # <<>> /\ data[Len(data)].type = PLAIN_FILE
       /\ \A s \in DOMAIN children : children[s] # Len(data)

LEMMA WithChildHung ==
  ASSUME NEW id
  PROVE  /\ directories = <<>> => WithChild(id) = children
         /\ directories # <<>> => WithChild(id) = Hung(children, directories, id)
  BY DEF WithChild, Hung

LEMMA InitStack == Init => StackInv
<1>. SUFFICES ASSUME Init PROVE StackInv
  OBVIOUS
<1>1. /\ Len(data) = 1 /\ Len(directories) = 1 /\ DOMAIN children = {}
      /\ data[1] = Header(0, DIRECTORY, 1, NoDir)
      /\ directories[1] = Entry(HeadNode, 0)
  BY DEF Init
<1>2. /\ directories[1].node = 1 /\ directories[1].fill = 0
      /\ data[1].type = DIRECTORY /\ data[1].length = 1
  BY <1>1, EntryFacts, HeaderFacts DEF HeadNode
<1>3. SlotsOK(data, children)
  BY <1>1 DEF SlotsOK
<1>4. StackOK(data, children, directories)
  BY <1>1, <1>2 DEF StackOK
<1>. QED
  BY <1>3, <1>4 DEF StackInv, Init

\* FTW_D: with data' in place of data the old slots and stack are as good as
\* before, the new header is hung into the tree and pushed if it has entries.
LEMMA DirectoryStack ==
  ASSUME TypeInv, StackInv, BuildDirectory
  PROVE  StackInv'
<1>1. /\ data \in Seq(HeaderRec) /\ directories \in Seq(StackRec)
      /\ unseen \in Nat /\ frames \in Seq(FrameRec)
  BY DEF TypeInv, TypeOK, HeaderRec, StackRec, FrameRec
<1>. DEFINE id == Len(data) + 1
<1>2. PICK l \in Listings :
         /\ data' = Append(data, Header(Last(frames).next, DIRECTORY,
                                        DirLength(l), Last(frames).dir))
         /\ children' = WithChild(id)
         /\ directories' = IF directories = <<>> \/ DirLength(l) = 0
                           THEN WithoutSlot
                           ELSE Append(WithoutSlot, Entry(id, 0))
  BY DEF BuildDirectory
<1>. DEFINE h == Header(Last(frames).next, DIRECTORY, DirLength(l), Last(frames).dir)
<1>3. /\ h \in HeaderRec /\ h.type = DIRECTORY /\ h.length = DirLength(l)
      /\ DirLength(l) \in Nat
  <2>1. DirLength(l) \in Nat
    BY <1>1, ListingFacts
  <2>2. Last(frames) \in FrameRec
    BY <1>1, PopFacts DEF BuildDirectory, NextIsOf
  <2>3. Last(frames).next \in Nat /\ Last(frames).dir \in Nat
    BY <2>2, FrameFacts
  <2>. QED
    BY <2>1, <2>3, HeaderFacts
<1>. HIDE DEF h
<1>4. /\ data' \in Seq(HeaderRec) /\ Len(data') = id /\ data'[id] = h
      /\ \A i \in 1..Len(data) : data'[i] = data[i]
      /\ Len(data) \in Nat
  BY <1>1, <1>2, <1>3, PushFacts DEF h
<1>5. SlotsOK(data', children) /\ StackOK(data', children, directories)
  BY <1>1, <1>2, <1>3, GrowSlots DEF StackInv, h
<1>6. phase' # "opening"
  BY DEF BuildDirectory, NextIsOf
<1>7. CASE directories = <<>>
  <2>1. children' = children /\ directories' = directories
    BY <1>1, <1>2, <1>7, WithChildHung, WithoutSlotType
  <2>. QED
    BY <1>5, <1>6, <2>1 DEF StackInv
<1>8. CASE directories # <<>>
  <2>. DEFINE P == Popped(data', directories)
              H == Hung(children, directories, id)
              n == Len(directories)
  <2>0. Last(directories) = directories[n] /\ n \in Nat \ {0}
    <3>1. directories \in Seq(StackRec)
      BY <1>1
    <3>. QED
      BY <1>8, <3>1, PopFacts, Zenon
  <2>1. id \in Nat \ {0} /\ id <= Len(data')
    BY <1>4
  <2>2. \A i \in 1..Len(directories) : directories[i].node < id
    BY <1>4 DEF StackInv, StackOK
  <2>3. \A s \in DOMAIN children : children[s] # id /\ s[1] < id
    BY <1>4 DEF StackInv, SlotsOK
  <2>4. /\ SlotsOK(data', H) /\ StackOK(data', H, P)
        /\ \A i \in 1..Len(P) : P[i].node < id
    BY <1>1, <1>4, <1>5, <1>8, <2>1, <2>2, <2>3, HangSlots, Zenon
  <2>5. children' = H
    BY <1>2, <1>8, WithChildHung
  <2>6. WithoutSlot = P
    <3>1. WithoutSlot = Popped(data, directories)
      BY <1>1, <1>8, WithoutSlotType
    <3>2. StackOK(data, children, directories)
      BY DEF StackInv
    <3>. QED
      BY <1>1, <1>2, <1>3, <1>8, <3>1, <3>2, PoppedGrown DEF h
  <2>7. P \in Seq(StackRec)
    BY <1>1, <1>8, PoppedFacts
  <2>8. \A s \in DOMAIN H : s[1] < id
    <3>1. DOMAIN H = DOMAIN children \cup {<<Last(directories).node, Last(directories).fill>>}
      BY DEF Hung
    <3>2. Last(directories).node < id
      BY <2>0, <2>2
    <3>3. <<Last(directories).node, Last(directories).fill>>[1] < id
      BY <3>2
    <3>. QED
      BY <2>3, <3>1, <3>3
  <2>. HIDE DEF P, H
  <2>9. StackOK(data', children', directories')
    <3>1. CASE DirLength(l) = 0
      BY <1>2, <2>4, <2>5, <2>6, <3>1
    <3>2. CASE DirLength(l) # 0
      <4>1. directories' = Append(P, Entry(id, 0))
        BY <1>2, <1>8, <2>6, <3>2
      <4>2. data'[id].type = DIRECTORY /\ data'[id].length > 0
        BY <1>3, <1>4, <3>2
      <4>3. id = Len(data')
        BY <1>4
      <4>4. StackOK(data', H, Append(P, Entry(id, 0)))
        BY <1>4, <2>1, <2>4, <2>7, <2>8, <4>2, <4>3, PushSlots
      <4>. QED
        BY <2>5, <4>1, <4>4
    <3>. QED
      BY <3>1, <3>2
  <2>. QED
    BY <1>6, <2>4, <2>5, <2>9 DEF StackInv
<1>. QED
  BY <1>7, <1>8

\* FTW_F before fopen(): the header exists and is nobody's child.
LEMMA ReportStack ==
  ASSUME TypeInv, StackInv, ReportFile
  PROVE  StackInv'
<1>1. data \in Seq(HeaderRec) /\ frames \in Seq(FrameRec)
  BY DEF TypeInv, TypeOK, HeaderRec, FrameRec
<1>2. PICK size \in FileSizes :
         data' = Append(data, Header(Last(frames).next, PLAIN_FILE,
                                     size, Last(frames).dir))
  BY DEF ReportFile
<1>. DEFINE h == Header(Last(frames).next, PLAIN_FILE, size, Last(frames).dir)
<1>3. h \in HeaderRec /\ h.type = PLAIN_FILE
  <2>1. Last(frames) \in FrameRec
    BY <1>1, PopFacts DEF ReportFile, NextIsOf
  <2>2. Last(frames).next \in Nat /\ Last(frames).dir \in Nat
    BY <2>1, FrameFacts
  <2>. QED
    BY <2>2, BuilderAssumption, HeaderFacts
<1>. HIDE DEF h
<1>4. /\ data' # <<>> /\ Len(data) \in Nat /\ Len(data') = Len(data) + 1
      /\ data'[Len(data')] = h
  BY <1>1, <1>2, <1>3, PushFacts DEF h
<1>5. SlotsOK(data', children) /\ StackOK(data', children, directories)
  BY <1>1, <1>2, <1>3, GrowSlots DEF StackInv, h
<1>6. \A s \in DOMAIN children : children[s] # Len(data')
  BY <1>4 DEF StackInv, SlotsOK
<1>7. children' = children /\ directories' = directories
  BY DEF ReportFile
<1>. QED
  BY <1>3, <1>4, <1>5, <1>6, <1>7 DEF StackInv

\* FTW_F after fopen()
LEMMA FileStack ==
  ASSUME TypeInv, StackInv, BuildFile
  PROVE  StackInv'
<1>1. data \in Seq(HeaderRec) /\ directories \in Seq(StackRec)
  BY DEF TypeInv, TypeOK, HeaderRec, StackRec
<1>2. /\ children' = WithChild(Len(data)) /\ directories' = WithoutSlot
      /\ data' = data /\ phase = "opening" /\ phase' = "walk"
  BY DEF BuildFile
<1>3. CASE directories = <<>>
  <2>1. children' = children /\ directories' = directories
    BY <1>1, <1>2, <1>3, WithChildHung, WithoutSlotType
  <2>. QED
    BY <1>2, <2>1 DEF StackInv
<1>4. CASE directories # <<>>
  <2>1. Len(data) \in Nat
    BY <1>1, LenProperties
  <2>2. \A i \in 1..Len(directories) : directories[i].node < Len(data)
    <3>1. data[Len(data)].type # DIRECTORY
      BY <1>2 DEF StackInv, PLAIN_FILE, DIRECTORY
    <3>. QED
      BY <2>1, <3>1 DEF StackInv, StackOK
  <2>3. /\ SlotsOK(data, Hung(children, directories, Len(data)))
        /\ StackOK(data, Hung(children, directories, Len(data)), Popped(data, directories))
    BY <1>1, <1>2, <1>4, <2>1, <2>2, HangSlots DEF StackInv
  <2>4. /\ children' = Hung(children, directories, Len(data))
        /\ directories' = Popped(data, directories)
    BY <1>1, <1>2, <1>4, WithChildHung, WithoutSlotType
  <2>. QED
    BY <1>2, <2>3, <2>4 DEF StackInv
<1>. QED
  BY <1>3, <1>4

LEMMA NextStack == TypeInv /\ StackInv /\ [Next]_vars => StackInv'
<1>. SUFFICES ASSUME TypeInv, StackInv, [Next]_vars PROVE StackInv'
  OBVIOUS
<1>1. CASE IgnoreDot \/ SkipSeen \/ Refuse \/ Return \/ Unlock \/ Done \/ UNCHANGED vars
  <2>1. /\ data' = data /\ children' = children /\ directories' = directories
        /\ phase' = "opening" => phase = "opening"
    BY <1>1 DEF IgnoreDot, SkipSeen, Refuse, Return, Unlock, Done, vars
  <2>. QED
    BY <2>1 DEF StackInv
<1>. QED
  BY <1>1, DirectoryStack, ReportStack, FileStack DEF Next, BuilderNext

\* For every source, whatever links, unreadable entries or changes it meets,
\* s_builder writes only slots of the arrays it has allocated, each at most
\* once, and every header becomes the child of at most one, older, directory:
\* what writeDFS walks is a tree.
THEOREM SlotsAlwaysInBounds == Spec => []SlotsInBounds
<1>1. TypeInv /\ StackInv => SlotsInBounds
  <2>. SUFFICES ASSUME TypeInv, StackInv PROVE SlotsInBounds
    OBVIOUS
  <2>1. /\ data \in Seq(HeaderRec) /\ directories \in Seq(StackRec)
    BY DEF TypeInv, TypeOK, HeaderRec, StackRec
  <2>2. DOMAIN data = 1..Len(data) /\ DOMAIN directories = 1..Len(directories)
    BY <2>1, LenProperties
  <2>3. \A i \in DOMAIN directories : directories[i].fill \in Nat
    BY <2>1, <2>2, EntryFacts, LenProperties
  <2>4. \A i \in DOMAIN directories :
           /\ directories[i].fill < data[directories[i].node].length
           /\ <<directories[i].node, directories[i].fill>> \notin DOMAIN children
    BY <2>2, <2>3 DEF StackInv, StackOK
  <2>. QED
    BY <2>2, <2>4 DEF SlotsInBounds, StackInv, SlotsOK
<1>. QED
  BY InitType, NextType, InitStack, NextStack, <1>1, PTL DEF Spec

----------------------------------------------------------------------------
(***************************************************************************)
(* What s_builder makes of an ordinary source: files and directories that  *)
(* nobody changes during the walk, of any number, size and nesting.        *)
(*                                                                         *)
(* The argument is that the stack of s_builder and the recursion of nftw   *)
(* move in step (LockStep): level by level they hold the same directory,   *)
(* the first free slot is the number of the next entry, and the free slots *)
(* are as many as the entries to come.  With it a header always takes the  *)
(* slot of the entry it stands for (Placed), the slots that are not filled *)
(* belong to stacked directories (Filled), and every header but the one    *)
(* being made has a slot (Attached).                                       *)
(***************************************************************************)

OrdinarySource == EntryKinds \subseteq {"file", "dir", "locked"} /\ ~Churn

LockStep(D, S, F) ==
  /\ Len(S) = Len(F)
  /\ \A i \in 1..Len(F) :
       /\ F[i].dir = S[i].node
       /\ F[i].next = S[i].fill
       /\ F[i].refused = 0
       /\ F[i].left > 0
       /\ D[S[i].node].length = S[i].fill + F[i].left

Placed(D, C) ==
  \A s \in DOMAIN C : D[C[s]].in = s[1] /\ D[C[s]].name = s[2]

\* The directories among the first m headers.
Filled(D, C, S, m) ==
  \A d \in 1..m : D[d].type = DIRECTORY =>
     \A k \in 0..(D[d].length - 1) :
        \/ <<d, k>> \in DOMAIN C
        \/ \E i \in 1..Len(S) : S[i].node = d /\ k >= S[i].fill

Attached(C, m) == \A h \in 2..m : \E s \in DOMAIN C : C[s] = h

Pending == IF phase = "opening" THEN 1 ELSE 0

MirrorInv ==
  /\ LockStep(data, directories, frames)
  /\ Placed(data, children)
  /\ Filled(data, children, directories, Len(data))
  /\ Attached(children, Len(data) - Pending)
  /\ header_count = Len(data) - 1
  /\ phase = "opening" => /\ data[Len(data)].in = Last(frames).dir
                          /\ data[Len(data)].name = Last(frames).next
  /\ phase = "image" => frames = <<>>

----------------------------------------------------------------------------
(* One callback, piece by piece *)

\* A further header disturbs none of this, as all indices are old ones.
LEMMA GrowMirror ==
  ASSUME NEW D \in Seq(HeaderRec), NEW h \in HeaderRec, NEW C,
         NEW S, NEW F,
         SlotsOK(D, C), StackOK(D, C, S),
         LockStep(D, S, F), Placed(D, C), Filled(D, C, S, Len(D))
  PROVE  /\ LockStep(Append(D, h), S, F)
         /\ Placed(Append(D, h), C)
         /\ Filled(Append(D, h), C, S, Len(D))
<1>. DEFINE E == Append(D, h)
<1>1. Len(D) \in Nat /\ \A i \in 1..Len(D) : E[i] = D[i]
  BY PushFacts
<1>. HIDE DEF E
<1>2. LockStep(E, S, F)
  <2>1. \A i \in 1..Len(F) : E[S[i].node] = D[S[i].node]
    BY <1>1 DEF LockStep, StackOK
  <2>. QED
    BY <2>1 DEF LockStep
<1>3. Placed(E, C)
  <2>1. \A s \in DOMAIN C : C[s] \in 1..Len(D)
    BY <1>1 DEF SlotsOK
  <2>. QED
    BY <1>1, <2>1 DEF Placed
<1>4. Filled(E, C, S, Len(D))
  BY <1>1 DEF Filled
<1>. QED
  BY <1>2, <1>3, <1>4 DEF E

\* Using the first free slot of the top, and counting off the entry.
LEMMA HangLockStep ==
  ASSUME NEW D, frames \in Seq(FrameRec), directories \in Seq(StackRec),
         frames # <<>>, LockStep(D, directories, frames)
  PROVE  LockStep(D, Popped(D, directories), Consumed)
<1>. DEFINE n == Len(frames)
            e == Last(directories)
            f == Last(frames)
            P == Popped(D, directories)
<1>1. n \in Nat \ {0} /\ f \in FrameRec /\ f = frames[n]
  BY PopFacts
<1>2. Len(directories) = n /\ directories # <<>>
  BY <1>1, EmptySeq DEF LockStep
<1>3. /\ f.dir = e.node /\ f.next = e.fill /\ f.refused = 0 /\ f.left > 0
      /\ D[e.node].length = e.fill + f.left
      /\ e \in StackRec
  <2>1. e = directories[n] /\ e \in StackRec
    BY <1>2, PopFacts
  <2>. QED
    BY <1>1, <2>1 DEF LockStep
<1>4. /\ f.dir \in Nat /\ f.left \in Nat /\ f.next \in Nat
      /\ e.node \in Nat /\ e.fill \in Nat
  BY <1>1, <1>3, FrameFacts, EntryFacts
<1>5. /\ \/ Len(Consumed) = n - 1 /\ f.left = 1
         \/ /\ Len(Consumed) = n
            /\ Consumed[n] = Frame(f.dir, f.left - 1, f.refused, f.next + 1)
            /\ f.left - 1 + f.refused > 0
      /\ \A i \in 1..(n - 1) : Consumed[i] = frames[i]
  BY <1>3, ConsumedFacts
<1>6. /\ \/ Len(P) = n - 1 /\ e.fill + 1 = D[e.node].length
         \/ /\ Len(P) = n
            /\ P[n] = Entry(e.node, e.fill + 1)
            /\ e.fill + 1 # D[e.node].length
      /\ \A i \in 1..(n - 1) : P[i] = directories[i]
  BY <1>2, PoppedFacts
<1>. HIDE DEF n, e, f, P
<1>7. f.left = 1 <=> e.fill + 1 = D[e.node].length
  BY <1>3, <1>4
<1>8. \A i \in 1..(n - 1) :
         /\ Consumed[i].dir = P[i].node /\ Consumed[i].next = P[i].fill
         /\ Consumed[i].refused = 0 /\ Consumed[i].left > 0
         /\ D[P[i].node].length = P[i].fill + Consumed[i].left
  <2>1. \A i \in 1..(n - 1) : i \in 1..Len(frames)
    BY <1>1 DEF n
  <2>. QED
    BY <1>5, <1>6, <2>1 DEF LockStep
<1>9. CASE f.left = 1
  <2>1. Len(Consumed) = n - 1 /\ Len(P) = n - 1
    BY <1>1, <1>3, <1>5, <1>6, <1>7, <1>9
  <2>. QED
    BY <1>8, <2>1 DEF LockStep, P
<1>10. CASE f.left # 1
  <2>1. /\ Len(Consumed) = n
        /\ Consumed[n] = Frame(f.dir, f.left - 1, f.refused, f.next + 1)
        /\ Len(P) = n
        /\ P[n] = Entry(e.node, e.fill + 1)
    BY <1>5, <1>6, <1>7, <1>10
  <2>2. /\ Consumed[n].dir = f.dir /\ Consumed[n].left = f.left - 1
        /\ Consumed[n].refused = f.refused /\ Consumed[n].next = f.next + 1
        /\ P[n].node = e.node /\ P[n].fill = e.fill + 1
    <3>1. /\ Consumed[n].dir = f.dir /\ Consumed[n].left = f.left - 1
          /\ Consumed[n].refused = f.refused /\ Consumed[n].next = f.next + 1
      BY <2>1 DEF Frame
    <3>2. P[n].node = e.node /\ P[n].fill = e.fill + 1
      BY <2>1 DEF Entry
    <3>. QED
      BY <3>1, <3>2
  <2>3. /\ Consumed[n].dir = P[n].node /\ Consumed[n].next = P[n].fill
        /\ Consumed[n].refused = 0 /\ Consumed[n].left > 0
        /\ D[P[n].node].length = P[n].fill + Consumed[n].left
    <3>1. e.fill + f.left = (e.fill + 1) + (f.left - 1) /\ f.left - 1 > 0
      <4>1. \A a, b \in Nat : b > 0 /\ b # 1 => a + b = (a + 1) + (b - 1) /\ b - 1 > 0
        OBVIOUS
      <4>. QED
        BY <1>3, <1>4, <1>10, <4>1
    <3>. QED
      BY <1>3, <2>2, <3>1
  <2>4. \A i \in 1..n : i \in 1..(n - 1) \/ i = n
    BY <1>1
  <2>. QED
    BY <1>8, <2>1, <2>3, <2>4 DEF LockStep, P
<1>. QED
  BY <1>9, <1>10

\* The header takes the slot of its entry.
LEMMA HangPlaced ==
  ASSUME NEW D, NEW C, NEW S, NEW id, Placed(D, C),
         D[id].in = Last(S).node, D[id].name = Last(S).fill
  PROVE  Placed(D, Hung(C, S, id))
  BY DEF Placed, Hung

LEMMA HangFilled ==
  ASSUME NEW D \in Seq(HeaderRec), NEW C, NEW S \in Seq(StackRec), S # <<>>,
         NEW id, NEW m \in Nat, m <= Len(D), Filled(D, C, S, m)
  PROVE  Filled(D, Hung(C, S, id), Popped(D, S), m)
<1>. DEFINE n == Len(S)
            e == Last(S)
            H == Hung(C, S, id)
            P == Popped(D, S)
<1>1. /\ n \in Nat \ {0} /\ e \in StackRec /\ e = S[n]
      /\ \/ Len(P) = n - 1 /\ e.fill + 1 = D[e.node].length
         \/ Len(P) = n /\ P[n] = Entry(e.node, e.fill + 1)
      /\ \A i \in 1..(n - 1) : P[i] = S[i]
  BY PoppedFacts
<1>2. DOMAIN H = DOMAIN C \cup {<<e.node, e.fill>>}
  BY DEF Hung
<1>. HIDE DEF H, P, e
<1>3. e.node \in Nat /\ e.fill \in Nat
  BY <1>1, EntryFacts
<1>. SUFFICES ASSUME NEW d \in 1..m, D[d].type = DIRECTORY,
                     NEW k \in 0..(D[d].length - 1)
              PROVE  \/ <<d, k>> \in DOMAIN H
                     \/ \E i \in 1..Len(P) : P[i].node = d /\ k >= P[i].fill
  BY DEF Filled, H, P
<1>6. D[d].length \in Nat
  <2>1. D[d] \in HeaderRec
    BY LenProperties
  <2>. QED
    BY <2>1, HeaderFacts
<1>4. CASE <<d, k>> \in DOMAIN C
  BY <1>2, <1>4
<1>5. ASSUME NEW i \in 1..n, S[i].node = d, k >= S[i].fill
      PROVE  \/ <<d, k>> \in DOMAIN H
             \/ \E j \in 1..Len(P) : P[j].node = d /\ k >= P[j].fill
  <2>1. CASE i # n
    <3>1. i \in 1..(n - 1) /\ i \in 1..Len(P)
      BY <1>1, <2>1
    <3>. QED
      BY <1>1, <1>5, <3>1
  <2>2. CASE i = n /\ k = e.fill
    BY <1>1, <1>2, <1>5, <2>2
  <2>3. CASE i = n /\ k # e.fill
    <3>1. e.node = d /\ k >= e.fill + 1
      <4>1. e.node = d /\ k >= e.fill
        BY <1>1, <1>5, <2>3
      <4>. QED
        BY <1>3, <1>6, <2>3, <4>1
    <3>2. e.fill + 1 # D[e.node].length
      BY <1>3, <1>6, <3>1
    <3>3. Len(P) = n /\ P[n] = Entry(e.node, e.fill + 1)
      BY <1>1, <3>2
    <3>4. P[n].node = e.node /\ P[n].fill = e.fill + 1 /\ n \in 1..Len(P)
      BY <1>1, <3>3, EntryFacts
    <3>. QED
      BY <3>1, <3>4
  <2>. QED
    BY <2>1, <2>2, <2>3
<1>. QED
  BY <1>4, <1>5, Zenon DEF Filled

LEMMA HangAttached ==
  ASSUME NEW C, NEW S, NEW m \in Nat, Attached(C, m),
         <<Last(S).node, Last(S).fill>> \notin DOMAIN C
  PROVE  Attached(Hung(C, S, m + 1), m + 1)
<1>. DEFINE slot == <<Last(S).node, Last(S).fill>>
            H == Hung(C, S, m + 1)
<1>1. /\ DOMAIN H = DOMAIN C \cup {slot} /\ H[slot] = m + 1
      /\ \A s \in DOMAIN C : H[s] = C[s]
  BY DEF Hung
<1>. HIDE DEF H, slot
<1>2. \A h \in 2..(m + 1) : h \in 2..m \/ h = m + 1
  OBVIOUS
<1>3. Attached(H, m + 1)
  BY <1>1, <1>2 DEF Attached
<1>. QED
  BY <1>3 DEF H

\* nftw descends into the header made last, and s_builder pushes it.
LEMMA PushLockStep ==
  ASSUME NEW D, NEW S \in Seq(StackRec), NEW F \in Seq(FrameRec),
         LockStep(D, S, F), NEW id \in Nat, NEW a \in Nat \ {0},
         D[id].length = a
  PROVE  LockStep(D, Append(S, Entry(id, 0)), Append(F, Frame(id, a, 0, 0)))
<1>. DEFINE n == Len(F)
            T == Append(S, Entry(id, 0))
            G == Append(F, Frame(id, a, 0, 0))
<1>1. Entry(id, 0) \in StackRec /\ Frame(id, a, 0, 0) \in FrameRec
  BY EntryFacts, FrameFacts, Zenon
<1>2. Len(S) = n
  BY DEF LockStep
<1>3. /\ n \in Nat /\ Len(T) = n + 1 /\ T[n + 1] = Entry(id, 0)
      /\ \A i \in 1..n : T[i] = S[i]
  BY <1>1, <1>2, PushFacts
<1>4. /\ Len(G) = n + 1 /\ G[n + 1] = Frame(id, a, 0, 0)
      /\ \A i \in 1..n : G[i] = F[i]
  BY <1>1, PushFacts
<1>5. /\ G[n + 1].dir = T[n + 1].node /\ G[n + 1].next = T[n + 1].fill
      /\ G[n + 1].refused = 0 /\ G[n + 1].left > 0
      /\ D[T[n + 1].node].length = T[n + 1].fill + G[n + 1].left
  <2>1. T[n + 1].node = id /\ T[n + 1].fill = 0
    BY <1>3 DEF Entry
  <2>2. /\ G[n + 1].dir = id /\ G[n + 1].next = 0
        /\ G[n + 1].refused = 0 /\ G[n + 1].left = a
    BY <1>4 DEF Frame
  <2>3. a > 0 /\ a = 0 + a
    OBVIOUS
  <2>. HIDE DEF T, G
  <2>. QED
    BY <2>1, <2>2, <2>3
<1>. HIDE DEF T, G
<1>6. \A i \in 1..(n + 1) : i \in 1..n \/ i = n + 1
  BY <1>3
<1>7. LockStep(D, T, G)
  BY <1>3, <1>4, <1>5, <1>6 DEF LockStep
<1>. QED
  BY <1>7 DEF T, G

LEMMA PushFilled ==
  ASSUME NEW D, NEW C, NEW S \in Seq(StackRec), NEW m \in Nat,
         Filled(D, C, S, m)
  PROVE  Filled(D, C, Append(S, Entry(m + 1, 0)), m + 1)
<1>. DEFINE T == Append(S, Entry(m + 1, 0))
<1>1. Entry(m + 1, 0) \in StackRec
  BY EntryFacts
<1>2. /\ Len(S) \in Nat /\ Len(T) = Len(S) + 1
      /\ T[Len(S) + 1] = Entry(m + 1, 0)
      /\ \A i \in 1..Len(S) : T[i] = S[i]
  BY <1>1, PushFacts
<1>3. T[Len(S) + 1].node = m + 1 /\ T[Len(S) + 1].fill = 0
  BY <1>2 DEF Entry
<1>. HIDE DEF T
<1>4. \A i \in 1..Len(S) : i \in 1..Len(T)
  BY <1>2
<1>5. Len(S) + 1 \in 1..Len(T)
  BY <1>2
<1>6. \A d \in 1..(m + 1) : d \in 1..m \/ d = m + 1
  OBVIOUS
<1>7. ASSUME NEW d \in 1..(m + 1), D[d].type = DIRECTORY,
             NEW k \in 0..(D[d].length - 1)
      PROVE  \/ <<d, k>> \in DOMAIN C
             \/ \E i \in 1..Len(T) : T[i].node = d /\ k >= T[i].fill
  <2>1. CASE d \in 1..m
    <3>1. \/ <<d, k>> \in DOMAIN C
          \/ \E i \in 1..Len(S) : S[i].node = d /\ k >= S[i].fill
      BY <1>7, <2>1 DEF Filled
    <3>. QED
      BY <1>2, <1>4, <3>1
  <2>2. CASE d = m + 1
    BY <1>3, <1>5, <2>2
  <2>. QED
    BY <1>6, <2>1, <2>2
<1>8. Filled(D, C, T, m + 1)
  BY <1>7 DEF Filled
<1>. QED
  BY <1>8 DEF T

\* The top of the two stacks.
LEMMA TopFacts ==
  ASSUME frames \in Seq(FrameRec), directories \in Seq(StackRec), frames # <<>>,
         LockStep(data, directories, frames), StackOK(data, children, directories)
  PROVE  /\ directories # <<>>
         /\ Last(frames).dir = Last(directories).node
         /\ Last(frames).next = Last(directories).fill
         /\ Last(frames).left > 0
         /\ <<Last(directories).node, Last(directories).fill>> \notin DOMAIN children
<1>. DEFINE n == Len(frames)
<1>1. n \in Nat \ {0} /\ Last(frames) = frames[n]
  BY PopFacts, Zenon
<1>2. Len(directories) = n /\ directories # <<>>
  BY <1>1, EmptySeq DEF LockStep
<1>3. Last(directories) = directories[n] /\ Last(directories) \in StackRec
  BY <1>2, PopFacts
<1>4. Last(directories).fill \in Nat
  BY <1>3, EntryFacts
<1>5. n \in 1..n
  BY <1>1
<1>6. <<Last(directories).node, Last(directories).fill>> \notin DOMAIN children
  <2>1. Last(directories).fill >= Last(directories).fill
    BY <1>4
  <2>. QED
    BY <1>2, <1>3, <1>4, <1>5, <2>1 DEF StackOK
<1>. QED
  BY <1>1, <1>2, <1>3, <1>5, <1>6 DEF LockStep

----------------------------------------------------------------------------
(* The invariant, action by action *)

LEMMA InitMirror == Init => MirrorInv
<1>. SUFFICES ASSUME Init PROVE MirrorInv
  OBVIOUS
<1>1. /\ Len(data) = 1 /\ Len(directories) = 1 /\ Len(frames) = 1
      /\ data[1] = Header(0, DIRECTORY, 1, NoDir)
      /\ directories[1] = Entry(HeadNode, 0)
      /\ frames[1] = Frame(HeadNode, 1, 0, 0)
  BY DEF Init
<1>2. data[1].length = 1
  BY <1>1 DEF Header
<1>3. directories[1].node = 1 /\ directories[1].fill = 0
  BY <1>1 DEF Entry, HeadNode
<1>4. /\ frames[1].dir = 1 /\ frames[1].left = 1
      /\ frames[1].refused = 0 /\ frames[1].next = 0
  BY <1>1 DEF Frame, HeadNode
<1>5. DOMAIN children = {}
  BY DEF Init
<1>6. LockStep(data, directories, frames)
  BY <1>1, <1>2, <1>3, <1>4 DEF LockStep
<1>7. Placed(data, children)
  BY <1>5 DEF Placed
<1>8. Filled(data, children, directories, Len(data))
  BY <1>1, <1>2, <1>3 DEF Filled
<1>9. Attached(children, Len(data) - Pending)
  BY <1>1 DEF Attached, Pending, Init
<1>. QED
  BY <1>1, <1>6, <1>7, <1>8, <1>9 DEF MirrorInv, Init

\* FTW_D: the new header takes the slot of its entry and, unless the directory
\* is empty, both stacks grow by it.
LEMMA DirectoryMirror ==
  ASSUME OrdinarySource, TypeInv, StackInv, MirrorInv, BuildDirectory
  PROVE  MirrorInv'
<1>1. /\ data \in Seq(HeaderRec) /\ directories \in Seq(StackRec)
      /\ unseen \in Nat /\ frames \in Seq(FrameRec) /\ frames # <<>>
  BY DEF TypeInv, TypeOK, HeaderRec, StackRec, FrameRec, BuildDirectory, NextIsOf
<1>. DEFINE id == Len(data) + 1
            P == Popped(data', directories)
            H == Hung(children, directories, id)
<1>2. PICK l \in Listings :
         /\ data' = Append(data, Header(Last(frames).next, DIRECTORY,
                                        DirLength(l), Last(frames).dir))
         /\ children' = WithChild(id)
         /\ directories' = IF directories = <<>> \/ DirLength(l) = 0
                           THEN WithoutSlot
                           ELSE Append(WithoutSlot, Entry(id, 0))
         /\ frames' = Entered(id, l.reported, l.refused)
  BY DEF BuildDirectory
<1>. DEFINE h == Header(Last(frames).next, DIRECTORY, DirLength(l), Last(frames).dir)
<1>3. DirLength(l) \in Nat /\ l.reported = DirLength(l) /\ l.refused = 0
  <2>1. ~Churn /\ "dangling" \notin EntryKinds
    BY DEF OrdinarySource
  <2>2. unseen \in Nat
    BY <1>1
  <2>. QED
    BY <2>1, <2>2, ListingFacts DEF DirLength
<1>4. /\ h \in HeaderRec /\ h.length = DirLength(l)
      /\ h.in = Last(frames).dir /\ h.name = Last(frames).next
  <2>1. Last(frames) \in FrameRec
    BY <1>1, PopFacts
  <2>2. Last(frames).next \in Nat /\ Last(frames).dir \in Nat
    BY <2>1, FrameFacts
  <2>. QED
    BY <1>3, <2>2, HeaderFacts
<1>. HIDE DEF h
<1>5. /\ data' \in Seq(HeaderRec) /\ Len(data') = id /\ data'[id] = h
      /\ Len(data) \in Nat /\ id \in Nat
  BY <1>1, <1>2, <1>4, PushFacts DEF h
<1>6. /\ LockStep(data', directories, frames) /\ Placed(data', children)
      /\ Filled(data', children, directories, Len(data))
  BY <1>1, <1>2, <1>4, GrowMirror, Zenon DEF StackInv, MirrorInv, h
<1>7. /\ directories # <<>>
      /\ h.in = Last(directories).node /\ h.name = Last(directories).fill
      /\ Last(frames).left > 0
      /\ <<Last(directories).node, Last(directories).fill>> \notin DOMAIN children
  BY <1>1, <1>4, TopFacts, Zenon DEF StackInv, MirrorInv
<1>8. children' = H
  BY <1>2, <1>7, WithChildHung
<1>9. WithoutSlot = P /\ P \in Seq(StackRec)
  <2>1. WithoutSlot = Popped(data, directories) /\ WithoutSlot \in Seq(StackRec)
    BY <1>1, <1>7, WithoutSlotType
  <2>2. StackOK(data, children, directories)
    BY DEF StackInv
  <2>. QED
    BY <1>1, <1>2, <1>4, <1>7, <2>1, <2>2, PoppedGrown DEF h
<1>10. LockStep(data', P, Consumed) /\ Consumed \in Seq(FrameRec)
  <2>1. LockStep(data', directories, frames) /\ frames # <<>>
    BY <1>1, <1>6
  <2>2. LockStep(data', P, Consumed)
    BY <1>1, <2>1, HangLockStep
  <2>3. Consumed \in Seq(FrameRec)
    BY <1>1, <1>7, <2>1, ConsumedFacts
  <2>. QED
    BY <2>2, <2>3
<1>11. Placed(data', children')
  BY <1>5, <1>6, <1>7, <1>8, HangPlaced
<1>12. Filled(data', H, P, Len(data))
  <2>1. Len(data) <= Len(data')
    BY <1>5
  <2>. QED
    BY <1>1, <1>5, <1>6, <1>7, <2>1, HangFilled
<1>13. phase = "walk" /\ phase' = "walk"
  BY DEF BuildDirectory, NextIsOf
<1>14. Attached(children', Len(data') - Pending')
  <2>1. Attached(children, Len(data))
    BY <1>5, <1>13 DEF MirrorInv, Pending
  <2>2. Attached(H, id)
    BY <1>5, <1>7, <2>1, HangAttached
  <2>. QED
    BY <1>5, <1>8, <1>13, <2>2 DEF Pending
<1>15. header_count' = Len(data') - 1
  BY <1>5 DEF BuildDirectory, MirrorInv
<1>. HIDE DEF P, H
<1>16. /\ LockStep(data', directories', frames')
       /\ Filled(data', children', directories', Len(data'))
  <2>1. CASE DirLength(l) = 0
    <3>1. directories' = P /\ frames' = Consumed
      BY <1>2, <1>3, <1>9, <2>1 DEF Entered
    <3>2. data'[id].length = 0
      BY <1>4, <1>5, <2>1
    <3>3. Filled(data', H, P, id)
      BY <1>5, <1>12, <3>2 DEF Filled
    <3>. QED
      BY <1>5, <1>8, <1>10, <3>1, <3>3
  <2>2. CASE DirLength(l) # 0
    <3>1. /\ directories' = Append(P, Entry(id, 0))
          /\ frames' = Append(Consumed, Frame(id, DirLength(l), 0, 0))
      BY <1>2, <1>3, <1>7, <1>9, <2>2 DEF Entered
    <3>2. DirLength(l) \in Nat \ {0} /\ data'[id].length = DirLength(l)
      BY <1>3, <1>4, <1>5, <2>2
    <3>3. LockStep(data', directories', frames')
      BY <1>5, <1>9, <1>10, <3>1, <3>2, PushLockStep
    <3>4. Filled(data', H, Append(P, Entry(id, 0)), id)
      BY <1>5, <1>9, <1>12, PushFilled
    <3>. QED
      BY <1>5, <1>8, <3>1, <3>3, <3>4
  <2>. QED
    BY <2>1, <2>2
<1>. QED
  BY <1>11, <1>13, <1>14, <1>15, <1>16 DEF MirrorInv

\* FTW_F before fopen(): the header knows its entry, but has no slot yet.
LEMMA ReportMirror ==
  ASSUME TypeInv, StackInv, MirrorInv, ReportFile
  PROVE  MirrorInv'
<1>1. /\ data \in Seq(HeaderRec) /\ frames \in Seq(FrameRec) /\ frames # <<>>
      /\ phase = "walk" /\ phase' = "opening"
      /\ UNCHANGED <<frames, children, directories>>
  BY DEF TypeInv, TypeOK, HeaderRec, FrameRec, ReportFile, NextIsOf
<1>2. PICK size \in FileSizes :
         data' = Append(data, Header(Last(frames).next, PLAIN_FILE,
                                     size, Last(frames).dir))
  BY DEF ReportFile
<1>. DEFINE h == Header(Last(frames).next, PLAIN_FILE, size, Last(frames).dir)
<1>3. /\ h \in HeaderRec /\ h.type = PLAIN_FILE
      /\ h.in = Last(frames).dir /\ h.name = Last(frames).next
  <2>1. Last(frames) \in FrameRec
    BY <1>1, PopFacts
  <2>2. Last(frames).next \in Nat /\ Last(frames).dir \in Nat /\ size \in Nat
    BY <2>1, FrameFacts, BuilderAssumption
  <2>. QED
    BY <2>2, HeaderFacts
<1>. HIDE DEF h
<1>4. /\ Len(data) \in Nat /\ Len(data') = Len(data) + 1
      /\ data'[Len(data) + 1] = h
  BY <1>1, <1>2, <1>3, PushFacts DEF h
<1>5. /\ LockStep(data', directories, frames) /\ Placed(data', children)
      /\ Filled(data', children, directories, Len(data))
  BY <1>1, <1>2, <1>3, GrowMirror, Zenon DEF StackInv, MirrorInv, h
<1>6. Filled(data', children, directories, Len(data'))
  <2>1. data'[Len(data) + 1].type # DIRECTORY
    BY <1>3, <1>4 DEF DIRECTORY, PLAIN_FILE
  <2>2. \A d \in 1..Len(data') : d \in 1..Len(data) \/ d = Len(data) + 1
    BY <1>4
  <2>. QED
    BY <1>5, <2>1, <2>2 DEF Filled
<1>7. Attached(children, Len(data') - Pending')
  <2>1. Attached(children, Len(data))
    BY <1>1, <1>4 DEF MirrorInv, Pending
  <2>2. Len(data') - Pending' = Len(data)
    BY <1>1, <1>4 DEF Pending
  <2>. QED
    BY <2>1, <2>2
<1>8. header_count' = Len(data') - 1
  BY <1>4 DEF ReportFile, MirrorInv
<1>9. /\ data'[Len(data')].in = Last(frames').dir
      /\ data'[Len(data')].name = Last(frames').next
  BY <1>1, <1>3, <1>4
<1>. QED
  BY <1>1, <1>5, <1>6, <1>7, <1>8, <1>9 DEF MirrorInv

\* FTW_F after fopen(): the file takes the slot of its entry.
LEMMA FileMirror ==
  ASSUME TypeInv, StackInv, MirrorInv, BuildFile
  PROVE  MirrorInv'
<1>. DEFINE id == Len(data)
            P == Popped(data, directories)
            H == Hung(children, directories, id)
<1>1. /\ data \in Seq(HeaderRec) /\ directories \in Seq(StackRec)
      /\ frames \in Seq(FrameRec) /\ frames # <<>>
      /\ phase = "opening" /\ phase' = "walk"
  BY DEF TypeInv, TypeOK, OpeningInv, HeaderRec, StackRec, FrameRec, BuildFile
<1>2. /\ data' = data /\ children' = WithChild(id) /\ directories' = WithoutSlot
      /\ frames' = Consumed /\ header_count' = header_count
  BY DEF BuildFile
<1>3. /\ directories # <<>>
      /\ data[id].in = Last(directories).node
      /\ data[id].name = Last(directories).fill
      /\ Last(frames).left > 0
      /\ <<Last(directories).node, Last(directories).fill>> \notin DOMAIN children
  BY <1>1, TopFacts DEF StackInv, MirrorInv
<1>4. children' = H /\ directories' = P
  BY <1>1, <1>2, <1>3, WithChildHung, WithoutSlotType
<1>5. LockStep(data, P, Consumed)
  BY <1>1, <1>3, HangLockStep DEF MirrorInv
<1>6. Placed(data, H)
  BY <1>3, HangPlaced DEF MirrorInv
<1>7. Len(data) \in Nat \ {0}
  <2>1. Len(data) \in Nat /\ header_count \in Nat
    BY <1>1 DEF TypeInv, TypeOK
  <2>2. header_count = Len(data) - 1
    BY DEF MirrorInv
  <2>. QED
    BY <2>1, <2>2
<1>8. Filled(data, H, P, Len(data))
  BY <1>1, <1>3, <1>7, HangFilled DEF MirrorInv
<1>9. Attached(H, Len(data))
  <2>. DEFINE m == Len(data) - 1
  <2>1. m \in Nat /\ m + 1 = id /\ Attached(children, m)
    BY <1>1, <1>7 DEF MirrorInv, Pending
  <2>2. Attached(Hung(children, directories, m + 1), m + 1)
    BY <1>3, <2>1, HangAttached
  <2>. QED
    BY <2>1, <2>2
<1>10. Attached(children', Len(data') - Pending')
  BY <1>1, <1>2, <1>4, <1>7, <1>9 DEF Pending
<1>. QED
  BY <1>1, <1>2, <1>4, <1>5, <1>6, <1>8, <1>10, Zenon DEF MirrorInv

LEMMA NextMirror ==
  ASSUME OrdinarySource, TypeInv, StackInv, MirrorInv, [Next]_vars
  PROVE  MirrorInv'
<1>1. CASE BuildDirectory
  BY <1>1, DirectoryMirror
<1>2. CASE ReportFile
  BY <1>2, ReportMirror
<1>3. CASE BuildFile
  BY <1>3, FileMirror
<1>4. ~IgnoreDot /\ ~SkipSeen
  BY DEF OrdinarySource, IgnoreDot, SkipSeen, NextIsOf
<1>5. ~Refuse
  <2>1. SUFFICES ASSUME frames # <<>> PROVE ~(Last(frames).refused > 0)
    BY DEF OrdinarySource, Refuse, NextIsOf
  <2>2. frames \in Seq(FrameRec)
    BY DEF TypeInv, TypeOK, FrameRec
  <2>3. Last(frames) = frames[Len(frames)] /\ Len(frames) \in 1..Len(frames)
    <3>1. Len(frames) \in Nat \ {0} /\ Last(frames) = frames[Len(frames)]
      BY <2>1, <2>2, PopFacts, Zenon
    <3>. QED
      BY <3>1
  <2>. QED
    BY <2>3 DEF MirrorInv, LockStep
<1>6. CASE Return
  BY <1>6 DEF Return, MirrorInv, Pending
<1>7. CASE Unlock
  BY <1>7 DEF Unlock, MirrorInv, Pending
<1>8. CASE UNCHANGED vars
  BY <1>8 DEF vars, MirrorInv, Pending
<1>. QED
  BY <1>1, <1>2, <1>3, <1>4, <1>5, <1>6, <1>7, <1>8 DEF Next, BuilderNext, Done

\* Mastering an ordinary source of any size and shape, files that cannot be
\* opened for a while included: each slot of the tree that s_builder hands to
\* writeDFS holds the object the source has at this place, no slot is left
\* uninitialised, and no object is left out.
THEOREM OrdinarySourceImaged ==
  ASSUME OrdinarySource
  PROVE  Spec => [](TreeMatchesSource /\ EverySlotFilled /\ EveryObjectImaged)
<1>1. Init => TypeInv /\ StackInv /\ MirrorInv
  BY InitType, InitStack, InitMirror
<1>2. TypeInv /\ StackInv /\ MirrorInv /\ [Next]_vars
        => (TypeInv /\ StackInv /\ MirrorInv)'
  BY OrdinarySource, NextType, NextStack, NextMirror
<1>3. TypeInv /\ StackInv /\ MirrorInv
        => TreeMatchesSource /\ EverySlotFilled /\ EveryObjectImaged
  <2>. SUFFICES ASSUME TypeInv, StackInv, MirrorInv
       PROVE  TreeMatchesSource /\ EverySlotFilled /\ EveryObjectImaged
    OBVIOUS
  <2>1. TreeMatchesSource
    BY DEF MirrorInv, Placed, TreeMatchesSource
  <2>2. DOMAIN data = 1..Len(data) /\ Len(data) \in Nat
    BY DEF TypeInv, TypeOK
  <2>3. ASSUME phase = "image" PROVE Len(directories) = 0 /\ Pending = 0
    BY <2>3 DEF MirrorInv, LockStep, Pending
  <2>4. EverySlotFilled
    BY <2>2, <2>3 DEF MirrorInv, Filled, EverySlotFilled
  <2>5. EveryObjectImaged
    BY <2>2, <2>3 DEF MirrorInv, Attached, EveryObjectImaged
  <2>. QED
    BY <2>1, <2>4, <2>5
<1>. QED
  BY <1>1, <1>2, <1>3, PTL DEF Spec

\* The same for the slots alone: when writeDFS starts on an ordinary source, every
\* slot of every new node[length] has been written.
THEOREM OrdinarySourceFillsSlots ==
  ASSUME OrdinarySource
  PROVE  Spec => []EverySlotFilled
<1>1. Spec => [](TreeMatchesSource /\ EverySlotFilled /\ EveryObjectImaged)
  BY OrdinarySource, OrdinarySourceImaged
<1>. QED BY <1>1, PTL

----------------------------------------------------------------------------
(***************************************************************************)
(* The room for the headers                                                *)
(*                                                                         *)
(* find_header_size adds up two counters that s_builder keeps on the side. *)
(* That they agree cannot be shown by adding up the slots that are free on *)
(* the stack, which takes an induction over the stack.  They are counted   *)
(* as a set instead: there are subitems_count + 1 slots in all (SizeInv),  *)
(* and in a finished tree of an ordinary source `children' is a bijection  *)
(* between the slots and the headers other than the dummy head.            *)
(***************************************************************************)

SlotsOf(d, length) == {d} \X (0..(length - 1))

AllSlots(D) ==
  {s \in (1..Len(D)) \X Nat : D[s[1]].type = DIRECTORY /\ s[2] < D[s[1]].length}

SizeInv ==
  /\ IsFiniteSet(AllSlots(data))
  /\ Cardinality(AllSlots(data)) = subitems_count + 1

LEMMA SlotsOfFacts ==
  ASSUME NEW d, NEW n \in Nat
  PROVE  IsFiniteSet(SlotsOf(d, n)) /\ Cardinality(SlotsOf(d, n)) = n
<1>1. IsFiniteSet({d}) /\ Cardinality({d}) = 1
  BY FS_Singleton
<1>2. IsFiniteSet(0..(n - 1)) /\ Cardinality(0..(n - 1)) = n
  <2>1. 0 \in Int /\ n - 1 \in Int
    OBVIOUS
  <2>2. /\ IsFiniteSet(0..(n - 1))
        /\ Cardinality(0..(n - 1)) = IF 0 > n - 1 THEN 0 ELSE (n - 1) - 0 + 1
    BY <2>1, FS_Interval
  <2>. QED
    BY <2>2
<1>3. ASSUME NEW S, NEW T, IsFiniteSet(S), IsFiniteSet(T),
             Cardinality(S) = 1, Cardinality(T) = n
      PROVE  IsFiniteSet(S \X T) /\ Cardinality(S \X T) = n
  <2>1. IsFiniteSet(S \X T) /\ Cardinality(S \X T) = 1 * n
    BY <1>3, FS_Product
  <2>. QED
    BY <2>1
<1>. QED
  BY <1>1, <1>2, <1>3 DEF SlotsOf

\* A further header adds its own slots, if it is a directory.
LEMMA GrowAllSlots ==
  ASSUME NEW D \in Seq(HeaderRec), NEW h \in HeaderRec
  PROVE  AllSlots(Append(D, h)) =
           AllSlots(D) \cup (IF h.type = DIRECTORY
                             THEN SlotsOf(Len(D) + 1, h.length) ELSE {})
<1>. DEFINE E == Append(D, h)
<1>1. /\ Len(D) \in Nat /\ Len(E) = Len(D) + 1 /\ E[Len(D) + 1] = h
      /\ \A i \in 1..Len(D) : E[i] = D[i]
  BY PushFacts
<1>2. h.length \in Nat
  BY HeaderFacts
<1>. HIDE DEF E
<1>3. \A i : i \in 1..Len(E) <=> i \in 1..Len(D) \/ i = Len(D) + 1
  BY <1>1
<1>4. Len(D) + 1 \notin 1..Len(D)
  BY <1>1
<1>5. \A k : k \in 0..(h.length - 1) <=> k \in Nat /\ k < h.length
  BY <1>2
<1>6. ASSUME NEW i, NEW k
      PROVE  <<i, k>> \in AllSlots(E) <=>
               \/ <<i, k>> \in AllSlots(D)
               \/ h.type = DIRECTORY /\ <<i, k>> \in SlotsOf(Len(D) + 1, h.length)
  <2>1. <<i, k>> \in AllSlots(E) <=>
          i \in 1..Len(E) /\ k \in Nat /\ E[i].type = DIRECTORY /\ k < E[i].length
    BY DEF AllSlots
  <2>2. <<i, k>> \in AllSlots(D) <=>
          i \in 1..Len(D) /\ k \in Nat /\ D[i].type = DIRECTORY /\ k < D[i].length
    BY DEF AllSlots
  <2>3. <<i, k>> \in SlotsOf(Len(D) + 1, h.length) <=>
          i = Len(D) + 1 /\ k \in 0..(h.length - 1)
    BY DEF SlotsOf
  <2>. QED
    BY <1>1, <1>3, <1>4, <1>5, <2>1, <2>2, <2>3
<1>7. /\ \A s \in AllSlots(E) : s = <<s[1], s[2]>>
      /\ \A s \in AllSlots(D) : s = <<s[1], s[2]>>
      /\ \A s \in SlotsOf(Len(D) + 1, h.length) : s = <<s[1], s[2]>>
  BY DEF AllSlots, SlotsOf
<1>8. AllSlots(E) = AllSlots(D) \cup (IF h.type = DIRECTORY
                                      THEN SlotsOf(Len(D) + 1, h.length) ELSE {})
  BY <1>6, <1>7
<1>. QED
  BY <1>8 DEF E

LEMMA CountSlots ==
  ASSUME NEW D \in Seq(HeaderRec), NEW h \in HeaderRec, h.type = DIRECTORY,
         NEW n \in Nat, IsFiniteSet(AllSlots(D)), Cardinality(AllSlots(D)) = n
  PROVE  /\ IsFiniteSet(AllSlots(Append(D, h)))
         /\ Cardinality(AllSlots(Append(D, h))) = n + h.length
<1>. DEFINE A == AllSlots(D)
            B == SlotsOf(Len(D) + 1, h.length)
<1>1. h.length \in Nat
  BY HeaderFacts
<1>2. IsFiniteSet(B) /\ Cardinality(B) = h.length
  BY <1>1, SlotsOfFacts
<1>3. A \cap B = {}
  <2>1. \A s \in A : s[1] \in 1..Len(D)
    BY DEF AllSlots
  <2>2. \A s \in B : s[1] = Len(D) + 1
    BY DEF SlotsOf
  <2>3. Len(D) + 1 \notin 1..Len(D)
    OBVIOUS
  <2>. QED
    BY <2>1, <2>2, <2>3
<1>4. AllSlots(Append(D, h)) = A \cup B
  BY GrowAllSlots
<1>. HIDE DEF A, B
<1>5. /\ IsFiniteSet(A \cup B)
      /\ Cardinality(A \cup B) = Cardinality(A) + Cardinality(B) - Cardinality(A \cap B)
  BY <1>2, FS_Union DEF A
<1>6. Cardinality(A \cap B) = 0
  BY <1>3, FS_EmptySet, Zenon
<1>. QED
  BY <1>1, <1>2, <1>4, <1>5, <1>6 DEF A

LEMMA InitSize == Init => SizeInv
<1>. SUFFICES ASSUME Init PROVE SizeInv
  OBVIOUS
<1>1. /\ Len(data) = 1 /\ data[1] = Header(0, DIRECTORY, 1, NoDir)
      /\ subitems_count = 0
  BY DEF Init
<1>2. data[1].type = DIRECTORY /\ data[1].length = 1
  BY <1>1 DEF Header
<1>3. ASSUME NEW i, NEW k
      PROVE  <<i, k>> \in AllSlots(data) <=> <<i, k>> \in SlotsOf(1, 1)
  <2>1. <<i, k>> \in AllSlots(data) <=> i \in 1..1 /\ k \in Nat /\ k < 1
    BY <1>1, <1>2 DEF AllSlots
  <2>2. <<i, k>> \in SlotsOf(1, 1) <=> i = 1 /\ k \in 0..(1 - 1)
    BY DEF SlotsOf
  <2>. QED
    BY <2>1, <2>2
<1>4. /\ \A s \in AllSlots(data) : s = <<s[1], s[2]>>
      /\ \A s \in SlotsOf(1, 1) : s = <<s[1], s[2]>>
  BY DEF AllSlots, SlotsOf
<1>5. AllSlots(data) = SlotsOf(1, 1)
  BY <1>3, <1>4
<1>6. IsFiniteSet(SlotsOf(1, 1)) /\ Cardinality(SlotsOf(1, 1)) = 1
  BY SlotsOfFacts
<1>. QED
  BY <1>1, <1>5, <1>6 DEF SizeInv

LEMMA NextSize == TypeInv /\ SizeInv /\ [Next]_vars => SizeInv'
<1>. SUFFICES ASSUME TypeInv, SizeInv, [Next]_vars PROVE SizeInv'
  OBVIOUS
<1>1. /\ data \in Seq(HeaderRec) /\ frames \in Seq(FrameRec)
      /\ unseen \in Nat /\ subitems_count \in Nat
  BY DEF TypeInv, TypeOK, HeaderRec, FrameRec
<1>2. ASSUME frames # <<>>, NEW t \in {DIRECTORY, PLAIN_FILE}, NEW n \in Nat
      PROVE  /\ Header(Last(frames).next, t, n, Last(frames).dir) \in HeaderRec
             /\ Header(Last(frames).next, t, n, Last(frames).dir).type = t
             /\ Header(Last(frames).next, t, n, Last(frames).dir).length = n
  <2>1. Last(frames) \in FrameRec
    BY <1>1, <1>2, PopFacts
  <2>2. Last(frames).next \in Nat /\ Last(frames).dir \in Nat
    BY <2>1, FrameFacts
  <2>. QED
    BY <2>2, Zenon DEF Header, HeaderRec
<1>3. CASE BuildDirectory
  <2>1. PICK l \in Listings :
           /\ subitems_count' = subitems_count + DirLength(l)
           /\ data' = Append(data, Header(Last(frames).next, DIRECTORY,
                                          DirLength(l), Last(frames).dir))
    BY <1>3 DEF BuildDirectory
  <2>. DEFINE h == Header(Last(frames).next, DIRECTORY, DirLength(l), Last(frames).dir)
  <2>2. DirLength(l) \in Nat
    BY <1>1, ListingFacts
  <2>3. h \in HeaderRec /\ h.type = DIRECTORY /\ h.length = DirLength(l)
    BY <1>2, <1>3, <2>2 DEF BuildDirectory, NextIsOf
  <2>. HIDE DEF h
  <2>4. subitems_count + 1 \in Nat /\ data' = Append(data, h)
    BY <1>1, <2>1 DEF h
  <2>5. /\ IsFiniteSet(AllSlots(data'))
        /\ Cardinality(AllSlots(data')) = subitems_count + 1 + h.length
    BY <1>1, <2>3, <2>4, CountSlots DEF SizeInv
  <2>6. subitems_count + 1 + DirLength(l) = subitems_count + DirLength(l) + 1
    BY <1>1, <2>2
  <2>. QED
    BY <2>1, <2>3, <2>5, <2>6 DEF SizeInv
<1>4. CASE ReportFile
  <2>1. PICK size \in FileSizes :
           data' = Append(data, Header(Last(frames).next, PLAIN_FILE,
                                       size, Last(frames).dir))
    BY <1>4 DEF ReportFile
  <2>. DEFINE h == Header(Last(frames).next, PLAIN_FILE, size, Last(frames).dir)
  <2>2. h \in HeaderRec /\ h.type # DIRECTORY
    BY <1>2, <1>4, BuilderAssumption DEF ReportFile, NextIsOf, DIRECTORY, PLAIN_FILE
  <2>. HIDE DEF h
  <2>3. data' = Append(data, h)
    BY <2>1 DEF h
  <2>4. AllSlots(data') = AllSlots(data)
    BY <1>1, <2>2, <2>3, GrowAllSlots, Zenon
  <2>5. subitems_count' = subitems_count
    BY <1>4 DEF ReportFile
  <2>. QED
    BY <2>4, <2>5 DEF SizeInv
<1>5. CASE UNCHANGED <<data, subitems_count>>
  BY <1>5 DEF SizeInv
<1>. QED
  BY <1>3, <1>4, <1>5 DEF Next, BuilderNext, IgnoreDot, BuildFile, SkipSeen, Refuse,
     Return, Unlock, Done, vars

\* In a finished tree the slots and the objects are as many.
LEMMA SlotsAreObjects ==
  ASSUME TypeInv, StackInv, MirrorInv, phase = "image",
         IsFiniteSet(AllSlots(data))
  PROVE  Cardinality(AllSlots(data)) = Len(data) - 1
<1>. DEFINE A == AllSlots(data)
            B == 2..Len(data)
<1>1. data \in Seq(HeaderRec) /\ Len(data) \in Nat
  BY DEF TypeInv, TypeOK, HeaderRec
<1>2. Len(directories) = 0 /\ Attached(children, Len(data))
  BY <1>1 DEF MirrorInv, LockStep, Pending
<1>3. ASSUME NEW s \in A PROVE s \in DOMAIN children
  <2>1. /\ s = <<s[1], s[2]>> /\ s[1] \in 1..Len(data) /\ s[2] \in Nat
        /\ data[s[1]].type = DIRECTORY /\ s[2] < data[s[1]].length
    BY DEF AllSlots
  <2>2. data[s[1]].length \in Nat
    BY <1>1, <2>1, HeaderFacts
  <2>3. s[2] \in 0..(data[s[1]].length - 1)
    BY <2>1, <2>2
  <2>4. <<s[1], s[2]>> \in DOMAIN children
    BY <1>2, <2>1, <2>3 DEF MirrorInv, Filled
  <2>. QED
    BY <2>1, <2>4
<1>4. ASSUME NEW s \in DOMAIN children PROVE s \in A /\ children[s] \in B
  <2>1. /\ s = <<s[1], s[2]>> /\ s[1] \in 1..Len(data) /\ s[2] \in Nat
        /\ data[s[1]].type = DIRECTORY /\ s[2] < data[s[1]].length
        /\ children[s] \in Nat /\ s[1] < children[s] /\ children[s] <= Len(data)
    BY DEF StackInv, SlotsOK
  <2>2. <<s[1], s[2]>> \in A
    BY <2>1 DEF AllSlots
  <2>3. children[s] \in B
    BY <1>1, <2>1
  <2>. QED
    BY <2>1, <2>2, <2>3
<1>5. \A s, t \in DOMAIN children : children[s] = children[t] => s = t
  BY DEF StackInv, SlotsOK
<1>6. \A h \in B : \E s \in DOMAIN children : children[s] = h
  BY <1>2 DEF Attached
<1>. HIDE DEF A, B
<1>. DEFINE f == [s \in A |-> children[s]]
<1>7. f \in Bijection(A, B)
  <2>1. f \in [A -> B]
    BY <1>3, <1>4
  <2>2. IsInjective(f)
    BY <1>3, <1>5 DEF IsInjective
  <2>3. \A h \in B : \E s \in A : f[s] = h
    BY <1>4, <1>6
  <2>. HIDE DEF f
  <2>. QED
    BY <2>1, <2>2, <2>3 DEF Bijection, Injection, Surjection
<1>8. Cardinality(B) = Cardinality(A)
  <2>1. ExistsBijection(A, B)
    BY <1>7 DEF ExistsBijection
  <2>. QED
    BY <2>1, FS_Bijection DEF A
<1>9. Cardinality(B) = Len(data) - 1
  <2>1. 2 \in Int /\ Len(data) \in Int
    BY <1>1
  <2>2. Cardinality(2..Len(data)) = IF 2 > Len(data) THEN 0 ELSE Len(data) - 2 + 1
    BY <2>1, FS_Interval
  <2>3. Len(data) >= 1
    <3>1. header_count \in Nat /\ header_count = Len(data) - 1
      BY DEF TypeInv, TypeOK, MirrorInv
    <3>. QED
      BY <1>1, <3>1
  <2>. QED
    BY <1>1, <2>2, <2>3 DEF B
<1>. QED
  BY <1>8, <1>9 DEF A

\* Mastering an ordinary source of any size and shape: when imageDFS asks
\* find_header_size where the files begin, the two counters of s_builder agree
\* with each other and with the tree, one pointer for each object but the root.
THEOREM OrdinarySourceSized ==
  ASSUME OrdinarySource
  PROVE  Spec => []HeaderSizeExact
<1>. DEFINE Inv == TypeInv /\ StackInv /\ MirrorInv /\ SizeInv
<1>1. Init => Inv
  BY InitType, InitStack, InitMirror, InitSize
<1>2. Inv /\ [Next]_vars => Inv'
  BY OrdinarySource, NextType, NextStack, NextMirror, NextSize
<1>3. Inv => HeaderSizeExact
  <2>. SUFFICES ASSUME TypeInv, StackInv, MirrorInv, SizeInv, phase = "image"
       PROVE  subitems_count + 1 = header_count
    BY DEF HeaderSizeExact
  <2>1. Cardinality(AllSlots(data)) = Len(data) - 1
    BY SlotsAreObjects DEF SizeInv
  <2>. QED
    BY <2>1 DEF SizeInv, MirrorInv
<1>. QED
  BY <1>1, <1>2, <1>3, PTL DEF Spec
=============================================================================
