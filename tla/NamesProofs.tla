---------------------------- MODULE NamesProofs -----------------------------
(***************************************************************************)
(* Names of any length below NAME_SIZE, and for buffers of any size, pass  *)
(* through the image unchanged.                                            *)
(***************************************************************************)
EXTENDS Names, WellFoundedInduction, TLAPS

\* The provers that a step is given to, in this order, when it names none.
USE SMTT(15), Zenon, SMTT(60), ZenonT(60)

\* What parse_name() may return, which may also be empty: a name can end in a
\* backslash.
Short == UNION {[1..n -> Chars] : n \in 0..(NAME_SIZE - 1)}

\* A char array that holds the string s and its terminator.
Buffer(b, s) ==
  /\ b \in [1..NAME_SIZE -> Chars \cup {NUL}]
  /\ \A k \in 1..Len(s) : b[k] = s[k]
  /\ b[Len(s) + 1] = NUL

Stages == {"path", "parsed", "ignored", "node", "image", "shown", "listed"}

NameInv ==
  /\ name \in AllNames /\ stage \in Stages
  /\ stage = "path" => text \in {name, <<"d", "/">> \o name}
  /\ stage \in {"parsed", "ignored"} => text \in Short /\ (Plain => text = name)
  /\ stage = "ignored" => text \in Dots
  /\ stage \in {"node", "image"} =>
       \E s \in Short : Buffer(text, s) /\ (Plain => s = name)
  /\ stage = "shown" => (Plain => text = name)
  /\ stage = "listed" => \E s \in Short : text = trimSpaces(s) /\ (Plain => s = name)

----------------------------------------------------------------------------
(* Numbers and sequences *)

LEMMA LeastOf ==
  ASSUME NEW T, T \subseteq Nat, T # {}
  PROVE  \E x \in T : \A y \in T : x <= y
<1> DEFINE R == {ss \in Nat \X Nat : ss[1] < ss[2]}
<1>1. OpToRel(<, Nat) = R
  BY DEF OpToRel
<1>2. IsWellFoundedOn(R, Nat)
  BY <1>1, NatLessThanWellFounded, Zenon
<1> HIDE DEF R
<1>3. PICK x \in T : \A y \in T : ~(<<y, x>> \in R)
  BY <1>2, WFMin, Zenon
<1>4. ASSUME NEW y \in T PROVE x <= y
  <2>1. x \in Nat /\ y \in Nat
    OBVIOUS
  <2>2. y < x => <<y, x>> \in R
    BY <2>1 DEF R
  <2>3. ~(y < x)
    BY <1>3, <2>2
  <2> QED BY <2>1, <2>3
<1> QED BY <1>4

LEMMA MinFacts ==
  ASSUME NEW T, T \subseteq Nat, T # {}
  PROVE  Min(T) \in T /\ \A y \in T : Min(T) <= y
<1>1. \E x \in T : \A y \in T : x <= y
  BY LeastOf, Zenon
<1> QED BY <1>1, Zenon DEF Min

LEMMA MaxFacts ==
  ASSUME NEW n \in Nat, NEW T, T \subseteq 0..n, T # {}
  PROVE  Max(T) \in T /\ \A y \in T : Max(T) >= y
<1> DEFINE U == {n - x : x \in T}
<1>1. U \subseteq Nat /\ U # {}
  <2>1. \A x \in T : n - x \in Nat
    OBVIOUS
  <2> QED BY <2>1, Zenon
<1>2. PICK u \in U : \A v \in U : u <= v
  BY <1>1, LeastOf, Zenon
<1>3. PICK x \in T : u = n - x
  OBVIOUS
<1>4. ASSUME NEW y \in T PROVE x >= y
  <2>1. n - x <= n - y
    BY <1>2, <1>3, Zenon
  <2> QED BY <2>1
<1>5. \E z \in T : \A y \in T : z >= y
  BY <1>4
<1> QED BY <1>5, Zenon DEF Max

LEMMA StringFacts ==
  /\ NAME_SIZE \in Nat \ {0} /\ Space \in Chars /\ NUL \notin Chars /\ "/" \notin Chars
  /\ \A s \in Short : s \in Seq(Chars) /\ Len(s) \in 0..(NAME_SIZE - 1)
  /\ AllNames \subseteq Short
<1>1. NAME_SIZE \in Nat \ {0} /\ Space \in Chars /\ NUL \notin Chars /\ "/" \notin Chars
  BY NameAssumption
<1>2. ASSUME NEW s \in Short PROVE s \in Seq(Chars) /\ Len(s) \in 0..(NAME_SIZE - 1)
  <2>1. PICK n \in 0..(NAME_SIZE - 1) : s \in [1..n -> Chars]
    BY DEF Short
  <2> QED BY <1>1, <2>1
<1>3. 1..(NAME_SIZE - 1) \subseteq 0..(NAME_SIZE - 1)
  BY <1>1
<1>4. AllNames \subseteq Short
  BY <1>3, Zenon DEF AllNames, Short
<1> QED BY <1>1, <1>2, <1>4

LEMMA Shorter ==
  ASSUME NEW s \in Seq(Chars), Len(s) < NAME_SIZE
  PROVE  s \in Short
<1>1. Len(s) \in 0..(NAME_SIZE - 1) /\ s \in [1..Len(s) -> Chars]
  BY StringFacts
<1> QED BY <1>1, Zenon DEF Short

----------------------------------------------------------------------------
(* Buffers *)

\* Read as a string, a buffer is the string it holds.
LEMMA BufferString ==
  ASSUME NEW s \in Short, NEW b, Buffer(b, s)
  PROVE  CString(b) = s
<1> DEFINE T == {k \in DOMAIN b : b[k] = NUL} \cup {Len(b) + 1}
<1>1. PICK n \in Nat, l \in Nat : n = NAME_SIZE /\ l = Len(s) /\ l < n
  <2>1. Len(s) \in Nat /\ Len(s) < NAME_SIZE
    BY StringFacts
  <2> QED BY <2>1, StringFacts
<1>2. DOMAIN b = 1..n /\ Len(b) = n /\ s \in Seq(Chars)
  BY <1>1, StringFacts DEF Buffer
<1>3. l + 1 \in T
  BY <1>1, <1>2 DEF Buffer
<1>4. ASSUME NEW k \in T PROVE k \in Nat /\ k >= l + 1
  <2>1. CASE k = Len(b) + 1
    BY <1>1, <1>2, <2>1
  <2>2. CASE k \in 1..n /\ b[k] = NUL
    <3>1. k \in 1..l => b[k] = s[k] /\ s[k] \in Chars
      BY <1>1, <1>2 DEF Buffer
    <3>2. ~(k \in 1..l)
      BY <2>2, <3>1, StringFacts
    <3> QED BY <2>2, <3>2
  <2> QED BY <1>2, <2>1, <2>2
<1>5. Min(T) \in T /\ \A y \in T : Min(T) <= y
  <2>1. T \subseteq Nat /\ T # {}
    BY <1>3, <1>4
  <2> HIDE DEF T
  <2> QED BY <2>1, MinFacts, Zenon
<1>6. Min(T) = l + 1
  <2> HIDE DEF T
  <2>1. Min(T) \in Nat /\ Min(T) >= l + 1 /\ Min(T) <= l + 1
    BY <1>3, <1>4, <1>5
  <2> QED BY <2>1
<1>7. CString(b) = SubSeq(b, 1, l)
  <2>1. (l + 1) - 1 = l
    OBVIOUS
  <2> QED BY <1>6, <2>1, Zenon DEF CString
<1>8. SubSeq(b, 1, l) = [k \in 1..l |-> b[k]]
  <2>1. b \in Seq(Chars \cup {NUL})
    BY <1>1, <1>2 DEF Buffer
  <2> QED BY <1>1, <1>2, <2>1
<1>9. s = [k \in 1..l |-> s[k]]
  BY <1>1, <1>2
<1>10. \A k \in 1..l : b[k] = s[k]
  BY <1>1 DEF Buffer
<1> QED BY <1>7, <1>8, <1>9, <1>10, Zenon

LEMMA Padded ==
  ASSUME NEW s \in Short
  PROVE  Buffer(space_pad(s), s)
<1>1. s \in Seq(Chars) /\ Len(s) \in 0..(NAME_SIZE - 1) /\ DOMAIN s = 1..Len(s)
  BY StringFacts
<1>2. space_pad(s) \in [1..NAME_SIZE -> Chars \cup {NUL}]
  BY <1>1, StringFacts DEF space_pad
<1>3. \A k \in 1..Len(s) : space_pad(s)[k] = s[k]
  BY <1>1, StringFacts DEF space_pad
<1>4. space_pad(s)[Len(s) + 1] = NUL
  BY <1>1, StringFacts DEF space_pad
<1> QED BY <1>2, <1>3, <1>4 DEF Buffer

LEMMA Copied ==
  ASSUME NEW s \in Short, NEW b, Buffer(b, s)
  PROVE  Buffer(Strncpy(b), s)
<1>1. CString(b) = s
  BY BufferString
<1>2. s \in Seq(Chars) /\ Len(s) \in 0..(NAME_SIZE - 1) /\ DOMAIN s = 1..Len(s)
  BY StringFacts
<1>3. Strncpy(b) = [k \in 1..NAME_SIZE |-> IF k \in 1..Len(s) THEN b[k] ELSE NUL]
  BY <1>1, <1>2, Zenon DEF Strncpy
<1>4. b \in [1..NAME_SIZE -> Chars \cup {NUL}] /\ \A k \in 1..Len(s) : b[k] = s[k]
  BY DEF Buffer
<1>5. Strncpy(b) \in [1..NAME_SIZE -> Chars \cup {NUL}]
  BY <1>3, <1>4
<1>6. \A k \in 1..Len(s) : Strncpy(b)[k] = s[k]
  BY <1>2, <1>3, <1>4, StringFacts
<1>7. Strncpy(b)[Len(s) + 1] = NUL
  BY <1>2, <1>3, StringFacts
<1> QED BY <1>5, <1>6, <1>7 DEF Buffer
----------------------------------------------------------------------------
(* parse_name *)

LEMMA LastOfFacts ==
  ASSUME NEW S, NEW s \in Seq(S), NEW set
  PROVE  LET p == LastOf(s, set)
         IN  /\ p \in 0..Len(s)
             /\ p # 0 => s[p] \in set
             /\ \A k \in 1..Len(s) : s[k] \in set => k <= p
<1> DEFINE T == {0} \cup {k \in DOMAIN s : s[k] \in set}
<1>1. PICK n \in Nat : n = Len(s) /\ DOMAIN s = 1..n
  OBVIOUS
<1>2. T \subseteq 0..n /\ T # {}
  BY <1>1
<1>3. Max(T) \in T /\ \A y \in T : Max(T) >= y
  <2> HIDE DEF T
  <2> QED BY <1>2, MaxFacts, Zenon
<1>4. LastOf(s, set) = Max(T)
  BY Zenon DEF LastOf
<1>5. PICK p : p = Max(T)
  BY Zenon
<1>6. p \in 0..n /\ (p # 0 => s[p] \in set) /\ \A k \in 1..n : s[k] \in set => p >= k
  BY <1>1, <1>2, <1>3, <1>5
<1>7. \A k \in 1..n : s[k] \in set => k <= p
  BY <1>6
<1> QED BY <1>1, <1>4, <1>5, <1>6, <1>7, Zenon

LEMMA Part ==
  ASSUME NEW S, NEW s \in Seq(S), NEW p \in Nat, p <= Len(s)
  PROVE  /\ SubSeq(s, p + 1, Len(s)) \in Seq(S)
         /\ Len(SubSeq(s, p + 1, Len(s))) = Len(s) - p
         /\ SubSeq(s, p + 1, Len(s)) = [k \in 1..(Len(s) - p) |-> s[p + k]]
OBVIOUS

Slashes == {"\\", "/"}

\* The name given alone: it has no slash.
LEMMA ParseAlone ==
  ASSUME name \in AllNames
  PROVE  parse_name(name) \in Short /\ (Plain => parse_name(name) = name)
<1>1. name \in Seq(Chars) /\ Len(name) \in 0..(NAME_SIZE - 1) /\ name \in Short
  BY StringFacts
<1>2. PICK p : p = LastOf(name, Slashes)
  OBVIOUS
<1>3. p \in 0..Len(name) /\ (p # 0 => name[p] \in Slashes)
  BY <1>1, <1>2, LastOfFacts
<1>4. parse_name(name) = IF p = 0 THEN name ELSE SubSeq(name, p + 1, Len(name))
  BY <1>2, Zenon DEF parse_name, Slashes
<1>5. parse_name(name) \in Short
  <2>1. CASE p = 0
    BY <1>1, <1>4, <2>1
  <2>2. CASE p # 0
    <3>1. /\ SubSeq(name, p + 1, Len(name)) \in Seq(Chars)
          /\ Len(SubSeq(name, p + 1, Len(name))) = Len(name) - p
      BY <1>1, <1>3, Part
    <3>2. Len(name) - p < NAME_SIZE
      BY <1>1, <1>3, StringFacts
    <3>3. SubSeq(name, p + 1, Len(name)) \in Short
      BY <3>1, <3>2, Shorter, Zenon
    <3> QED BY <1>4, <2>2, <3>3
  <2> QED BY <2>1, <2>2
<1>6. ASSUME Plain PROVE p = 0
  <2>1. p # 0 => p \in DOMAIN name /\ name[p] \in Chars
    BY <1>1, <1>3
  <2>2. p # 0 => name[p] = "\\"
    BY <1>3, <2>1, StringFacts DEF Slashes
  <2>3. p # 0 => "\\" \in Range(name)
    BY <2>1, <2>2, Zenon DEF Range
  <2> QED BY <1>6, <2>3 DEF Plain
<1> QED BY <1>4, <1>5, <1>6

\* The name behind a directory and a slash.
LEMMA ParsePath ==
  ASSUME name \in AllNames, NEW path, path = <<"d", "/">> \o name
  PROVE  parse_name(path) \in Short /\ (Plain => parse_name(path) = name)
<1>1. name \in Seq(Chars) /\ Len(name) \in 0..(NAME_SIZE - 1) /\ name \in Short
  BY StringFacts
<1>2. PICK S : S = Chars \cup {"d", "/"}
  BY Zenon
<1>3. PICK l \in Nat : l = Len(name)
  BY <1>1
<1>4. path \in Seq(S) /\ Len(path) = l + 2
  BY <1>1, <1>2, <1>3
<1>5. path[2] = "/" /\ \A k \in 1..l : path[2 + k] = name[k]
  BY <1>1, <1>3
<1>6. PICK p : p = LastOf(path, Slashes)
  OBVIOUS
<1>7. /\ p \in 0..Len(path) /\ (p # 0 => path[p] \in Slashes)
      /\ \A k \in 1..Len(path) : path[k] \in Slashes => k <= p
  BY <1>4, <1>6, LastOfFacts, Zenon
<1>8. p \in 2..(l + 2)
  <2>1. 2 \in 1..Len(path)
    BY <1>4
  <2>2. 2 <= p
    BY <1>5, <1>7, <2>1 DEF Slashes
  <2> QED BY <1>4, <1>7, <2>2
<1>9. parse_name(path) = SubSeq(path, p + 1, Len(path))
  <2>1. p # 0
    BY <1>8
  <2> QED BY <1>6, <2>1, Zenon DEF parse_name, Slashes
<1>10. SubSeq(path, p + 1, Len(path)) = [k \in 1..(Len(path) - p) |-> path[p + k]]
  BY <1>4, <1>8, Part
<1>11. parse_name(path) = [k \in 1..(l + 2 - p) |-> name[(p - 2) + k]]
  <2>1. ASSUME NEW k \in 1..(l + 2 - p) PROVE path[p + k] = name[(p - 2) + k]
    <3>1. (p - 2) + k \in 1..l /\ 2 + ((p - 2) + k) = p + k
      BY <1>8
    <3> QED BY <1>5, <3>1, Zenon
  <2>2. Len(path) - p = l + 2 - p
    BY <1>4, <1>8
  <2> QED BY <1>9, <1>10, <2>1, <2>2, Zenon
<1>12. parse_name(path) \in Short
  <2>1. \A k \in 1..(l + 2 - p) : name[(p - 2) + k] \in Chars
    BY <1>1, <1>3, <1>8
  <2>2. l + 2 - p \in 0..(NAME_SIZE - 1)
    BY <1>1, <1>3, <1>8, StringFacts
  <2>3. parse_name(path) \in [1..(l + 2 - p) -> Chars]
    BY <1>11, <2>1
  <2> QED BY <2>2, <2>3, Zenon DEF Short
<1>13. ASSUME Plain PROVE p = 2
  <2>1. SUFFICES ASSUME p # 2 PROVE FALSE
    OBVIOUS
  <2>2. PICK k \in 1..l : p = 2 + k
    <3>1. p - 2 \in 1..l /\ p = 2 + (p - 2)
      BY <1>8, <2>1
    <3> QED BY <3>1
  <2>3. name[k] \in Slashes /\ name[k] \in Chars /\ k \in DOMAIN name
    BY <1>1, <1>3, <1>5, <1>7, <1>8, <2>2
  <2>4. name[k] = "\\"
    BY <2>3, StringFacts DEF Slashes
  <2> QED BY <1>13, <2>3, <2>4, Zenon DEF Plain, Range
<1>14. ASSUME p = 2 PROVE parse_name(path) = name
  <2>1. l + 2 - p = l /\ \A k \in 1..l : (p - 2) + k = k
    BY <1>14
  <2>2. name = [k \in 1..l |-> name[k]]
    BY <1>1, <1>3
  <2> QED BY <1>11, <2>1, <2>2, Zenon
<1> QED BY <1>12, <1>13, <1>14

----------------------------------------------------------------------------
(* trimSpaces *)

LEMMA Slice ==
  ASSUME NEW S, NEW s \in Seq(S), NEW i \in Nat, NEW n \in Nat, i + n <= Len(s)
  PROVE  /\ SubSeq(s, i + 1, i + n) \in Seq(S)
         /\ Len(SubSeq(s, i + 1, i + n)) = n
         /\ SubSeq(s, i + 1, i + n) = [k \in 1..n |-> s[i + k]]
<1>1. (i + n) - (i + 1) + 1 = n
  OBVIOUS
<1>2. \A k \in 1..n : (i + 1) + k - 1 = i + k /\ i + k \in 1..Len(s)
  OBVIOUS
<1>3. SubSeq(s, i + 1, i + n) = [k \in 1..n |-> s[i + k]]
  OBVIOUS
<1>4. \A k \in 1..n : s[i + k] \in S
  BY <1>2
<1>5. [k \in 1..n |-> s[i + k]] \in Seq(S) /\ Len([k \in 1..n |-> s[i + k]]) = n
  BY <1>4
<1> QED BY <1>3, <1>5

\* Some spaces at the beginning, what is left, and some spaces at the end.
LEMMA Trimmed ==
  ASSUME NEW s \in Short, NEW t, t = trimSpaces(s)
  PROVE  /\ t # <<>> => t[1] # Space /\ Last(t) # Space
         /\ \E i, j \in 0..Len(s) : s = [k \in 1..i |-> Space] \o t \o [k \in 1..j |-> Space]
<1> DEFINE ink == {k \in DOMAIN s : s[k] # Space}
<1>1. PICK l \in Nat : l = Len(s) /\ DOMAIN s = 1..l
  BY StringFacts
<1>2. s \in Seq(Chars) /\ s = [k \in 1..l |-> s[k]] /\ \A k \in 1..l : s[k] \in Chars
  BY <1>1, StringFacts
<1>3. CASE ink = {}
  <2>1. t = <<>>
    BY <1>3, Zenon DEF trimSpaces
  <2>2. \A k \in 1..l : s[k] = Space
    BY <1>1, <1>3
  <2>3. s = [k \in 1..l |-> Space]
    BY <1>2, <2>2, Zenon
  <2>4. [k \in 1..l |-> Space] \in Seq(Chars) /\ [k \in 1..0 |-> Space] = <<>>
    BY <1>1, StringFacts
  <2>5. \A u \in Seq(Chars) : u \o <<>> \o <<>> = u
    OBVIOUS
  <2>6. s = [k \in 1..l |-> Space] \o t \o [k \in 1..0 |-> Space]
    BY <2>1, <2>3, <2>4, <2>5
  <2>7. l \in 0..Len(s) /\ 0 \in 0..Len(s)
    BY <1>1
  <2> QED BY <2>1, <2>6, <2>7, Zenon
<1>4. CASE ink # {}
  <2>1. PICK a, b : a = Min(ink) /\ b = Max(ink)
    OBVIOUS
  <2>2. ink \subseteq 0..l /\ ink \subseteq Nat
    BY <1>1
  <2>3. a \in ink /\ b \in ink /\ \A y \in ink : a <= y /\ b >= y
    <3> HIDE DEF ink
    <3> QED BY <1>4, <2>1, <2>2, MinFacts, MaxFacts, Zenon
  <2>4. a \in 1..l /\ b \in 1..l /\ a <= b /\ s[a] # Space /\ s[b] # Space
    BY <1>1, <2>3
  <2>5. \A k \in 1..l : k < a \/ k > b => s[k] = Space
    BY <1>1, <2>3, <2>4
  <2>6. PICK i \in Nat, n \in Nat \ {0}, j \in Nat :
          i = a - 1 /\ n = (b - a) + 1 /\ j = l - b /\ i + n + j = l /\ i + 1 = a /\ i + n = b
    <3>1. /\ a - 1 \in Nat /\ (b - a) + 1 \in Nat \ {0} /\ l - b \in Nat
          /\ (a - 1) + ((b - a) + 1) + (l - b) = l
          /\ (a - 1) + 1 = a /\ (a - 1) + ((b - a) + 1) = b
      BY <2>4
    <3> QED BY <3>1, Zenon
  <2>6a. i + n + j = l
    BY <2>6
  <2>7. t = SubSeq(s, i + 1, i + n)
    BY <1>4, <2>1, <2>6, Zenon DEF trimSpaces
  <2>8. t = [k \in 1..n |-> s[i + k]] /\ Len(t) = n /\ t \in Seq(Chars)
    <3>1. i + n <= Len(s)
      BY <1>1, <2>6a
    <3>2. s \in Seq(Chars) /\ n \in Nat
      BY <1>2
    <3>3. /\ SubSeq(s, i + 1, i + n) \in Seq(Chars)
          /\ Len(SubSeq(s, i + 1, i + n)) = n
          /\ SubSeq(s, i + 1, i + n) = [k \in 1..n |-> s[i + k]]
      BY <3>1, <3>2, Slice
    <3> QED BY <2>7, <3>3
  <2>9. t[1] # Space /\ Last(t) # Space
    BY <2>4, <2>6, <2>8 DEF Last
  <2>10. PICK u, v : u = [k \in 1..i |-> Space] /\ v = [k \in 1..j |-> Space]
    BY Zenon
  <2>11. /\ u \in Seq(Chars) /\ Len(u) = i /\ \A k \in 1..i : u[k] = Space
         /\ v \in Seq(Chars) /\ Len(v) = j /\ \A k \in 1..j : v[k] = Space
    BY <2>10, StringFacts
  <2>12. PICK w : w = u \o t
    BY Zenon
  <2>13. /\ w \in Seq(Chars) /\ Len(w) = i + n
         /\ \A k \in 1..i : w[k] = Space
         /\ \A k \in 1..n : w[i + k] = s[i + k]
    <3>1. /\ w \in Seq(Chars) /\ Len(w) = i + n
          /\ \A k \in 1..i : w[k] = u[k]
          /\ \A k \in 1..n : w[i + k] = t[k]
      <4>1. t \in Seq(Chars) /\ u \in Seq(Chars) /\ n = Len(t) /\ i = Len(u)
        BY <2>8, <2>11
      <4>2. /\ u \o t \in Seq(Chars) /\ Len(u \o t) = Len(u) + Len(t)
            /\ \A k \in 1..Len(u) : (u \o t)[k] = u[k]
            /\ \A k \in 1..Len(t) : (u \o t)[Len(u) + k] = t[k]
        BY <4>1
      <4> QED BY <2>12, <4>1, <4>2, Zenon
    <3>2. \A k \in 1..n : t[k] = s[i + k]
      BY <2>8
    <3> QED BY <2>11, <3>1, <3>2, Zenon
  <2>14. PICK x : x = w \o v
    BY Zenon
  <2>15. /\ x \in Seq(Chars) /\ Len(x) = l
         /\ \A k \in 1..(i + n) : x[k] = w[k]
         /\ \A k \in 1..j : x[(i + n) + k] = v[k]
    <3>1. w \in Seq(Chars) /\ v \in Seq(Chars) /\ i + n = Len(w) /\ j = Len(v)
      BY <2>11, <2>13
    <3>2. /\ w \o v \in Seq(Chars) /\ Len(w \o v) = Len(w) + Len(v)
          /\ \A k \in 1..Len(w) : (w \o v)[k] = w[k]
          /\ \A k \in 1..Len(v) : (w \o v)[Len(w) + k] = v[k]
      BY <3>1
    <3> QED BY <2>6a, <2>14, <3>1, <3>2, Zenon
  <2>16. ASSUME NEW k \in 1..l PROVE x[k] = s[k]
    <3>1. CASE k <= i
      <4>1. k \in 1..i /\ k \in 1..(i + n) /\ k < a
        BY <2>6, <3>1
      <4>2. x[k] = Space
        BY <2>13, <2>15, <4>1
      <4> QED BY <2>5, <4>1, <4>2
    <3>2. CASE k > i /\ k <= i + n
      <4>1. k - i \in 1..n /\ i + (k - i) = k /\ k \in 1..(i + n) /\ 1 \in 1..n
        BY <3>2
      <4>2. w[i + (k - i)] = s[i + (k - i)]
        BY <2>13, <4>1
      <4> QED BY <2>15, <4>1, <4>2
    <3>3. CASE k > i + n
      <4>1. k - (i + n) \in 1..j /\ (i + n) + (k - (i + n)) = k /\ k > b
        BY <2>6, <3>3
      <4>2. x[(i + n) + (k - (i + n))] = Space
        BY <2>11, <2>15, <4>1, Zenon
      <4> QED BY <2>5, <4>1, <4>2
    <3> QED BY <3>1, <3>2, <3>3
  <2>17. x = s
    <3>1. x = [k \in 1..l |-> x[k]]
      BY <2>15
    <3> QED BY <1>2, <2>16, <3>1, Zenon
  <2>18. s = [k \in 1..i |-> Space] \o t \o [k \in 1..j |-> Space]
    BY <2>10, <2>12, <2>14, <2>17, Zenon
  <2>19. i \in 0..Len(s) /\ j \in 0..Len(s)
    BY <1>1, <2>6a
  <2> QED BY <2>9, <2>18, <2>19, Zenon
<1> QED BY <1>3, <1>4, Zenon
----------------------------------------------------------------------------
(* The invariant *)

LEMMA NameInit == Init => NameInv
BY Zenon DEF Init, NameInv, Stages

LEMMA NameStep == NameInv /\ [Next]_vars => NameInv'
<1> SUFFICES ASSUME NameInv, [Next]_vars PROVE NameInv'
  OBVIOUS
<1>1. CASE Parse
  <2>1. name' = name /\ stage = "path" /\ text' = parse_name(text)
        /\ stage' \in {"parsed", "ignored"} /\ (stage' = "ignored" => text' \in Dots)
    BY <1>1 DEF Parse
  <2>2. parse_name(text) \in Short /\ (Plain => parse_name(text) = name)
    <3>1. name \in AllNames /\ (text = name \/ text = <<"d", "/">> \o name)
      BY <2>1 DEF NameInv
    <3> QED BY <3>1, ParseAlone, ParsePath, Zenon
  <2>3. Plain' = Plain
    BY <2>1 DEF Plain
  <2> QED BY <2>1, <2>2, <2>3 DEF NameInv, Stages
<1>2. CASE StoreName
  <2>1. name' = name /\ stage = "parsed" /\ text' = Strncpy(space_pad(text)) /\ stage' = "node"
    BY <1>2 DEF StoreName
  <2>2. text \in Short /\ (Plain => text = name)
    BY <2>1 DEF NameInv
  <2>3. Buffer(text', text)
    BY <2>1, <2>2, Padded, Copied
  <2>4. Plain' = Plain
    BY <2>1 DEF Plain
  <2>5. \E s \in Short : Buffer(text', s) /\ (Plain' => s = name')
    BY <2>1, <2>2, <2>3, <2>4, Zenon
  <2> QED BY <2>1, <2>5 DEF NameInv, Stages
<1>3. CASE WriteName
  <2>1. name' = name /\ stage = "node" /\ text' = space_pad(CString(text)) /\ stage' = "image"
    BY <1>3 DEF WriteName
  <2>2. PICK s \in Short : Buffer(text, s) /\ (Plain => s = name)
    BY <2>1 DEF NameInv
  <2>3. Buffer(text', s)
    <3>1. CString(text) = s
      BY <2>2, BufferString, Zenon
    <3> QED BY <2>1, <3>1, Padded, Zenon
  <2>4. Plain' = Plain
    BY <2>1 DEF Plain
  <2>5. \E r \in Short : Buffer(text', r) /\ (Plain' => r = name')
    BY <2>1, <2>2, <2>3, <2>4, Zenon
  <2> QED BY <2>1, <2>5 DEF NameInv, Stages
<1>4. CASE ReadName
  <2>1. name' = name /\ stage = "image" /\ text' = CString(Strncpy(text)) /\ stage' = "shown"
    BY <1>4 DEF ReadName
  <2>2. PICK s \in Short : Buffer(text, s) /\ (Plain => s = name)
    BY <2>1 DEF NameInv
  <2>3. text' = s
    <3>1. Buffer(Strncpy(text), s)
      BY <2>2, Copied, Zenon
    <3> QED BY <2>1, <3>1, BufferString, Zenon
  <2>4. Plain' = Plain
    BY <2>1 DEF Plain
  <2> QED BY <2>1, <2>2, <2>3, <2>4 DEF NameInv, Stages
<1>5. CASE ListName
  <2>1. name' = name /\ stage = "image" /\ text' = trimSpaces(CString(text)) /\ stage' = "listed"
    BY <1>5 DEF ListName
  <2>2. PICK s \in Short : Buffer(text, s) /\ (Plain => s = name)
    BY <2>1 DEF NameInv
  <2>3. text' = trimSpaces(s)
    <3>1. CString(text) = s
      BY <2>2, BufferString, Zenon
    <3> QED BY <2>1, <3>1, Zenon
  <2>4. Plain' = Plain
    BY <2>1 DEF Plain
  <2>5. \E r \in Short : text' = trimSpaces(r) /\ (Plain' => r = name')
    BY <2>1, <2>2, <2>3, <2>4, Zenon
  <2> QED BY <2>1, <2>5 DEF NameInv, Stages
<1>6. CASE UNCHANGED vars
  <2>1. name' = name /\ text' = text /\ stage' = stage
    BY <1>6 DEF vars
  <2>2. Plain' = Plain
    BY <2>1 DEF Plain
  <2> QED BY <2>1, <2>2, Zenon DEF NameInv
<1> QED BY <1>1, <1>2, <1>3, <1>4, <1>5, <1>6 DEF Next, Done

LEMMA NameInvariant == Spec => []NameInv
BY NameInit, NameStep, PTL DEF Spec

----------------------------------------------------------------------------
(* Theorems *)

\* A name without a backslash comes out of the mounted image as nftw found it,
\* whatever its characters, its length and the size of the buffers.
THEOREM NamesAlwaysKept == Spec => []NameKept
<1>1. NameInv => NameKept
  BY Zenon DEF NameInv, NameKept
<1> QED BY <1>1, NameInvariant, PTL

\* The buffers that s_builder() and writeDFS() fill are always terminated.
THEOREM BuffersTerminated == Spec => []AlwaysTerminated
<1>1. NameInv => AlwaysTerminated
  <2> SUFFICES ASSUME NameInv, stage \in {"node", "image"} PROVE NUL \in Range(text)
    BY DEF AlwaysTerminated
  <2>1. PICK s \in Short : Buffer(text, s)
    BY DEF NameInv
  <2>2. Len(s) + 1 \in 1..NAME_SIZE
    BY StringFacts
  <2>3. Len(s) + 1 \in DOMAIN text /\ text[Len(s) + 1] = NUL
    BY <2>1, <2>2 DEF Buffer
  <2> QED BY <2>3, Zenon DEF Range
<1> QED BY <1>1, NameInvariant, PTL

\* The listing tool's trimSpaces() takes the spaces at both ends off a name,
\* all of them and nothing else.
THEOREM ListingTrimsSpaces == Spec => []ListedTrimmed
<1>1. NameInv => ListedTrimmed
  <2> SUFFICES ASSUME NameInv, stage = "listed", Plain
               PROVE  /\ text # <<>> => text[1] # Space /\ Last(text) # Space
                      /\ \E i, j \in 0..Len(name) :
                           name = [k \in 1..i |-> Space] \o text \o [k \in 1..j |-> Space]
    BY Zenon DEF ListedTrimmed
  <2>1. name \in Short /\ text = trimSpaces(name)
    BY StringFacts DEF NameInv
  <2>2. /\ trimSpaces(name) # <<>> => trimSpaces(name)[1] # Space /\ Last(trimSpaces(name)) # Space
        /\ \E i, j \in 0..Len(name) :
             name = [k \in 1..i |-> Space] \o trimSpaces(name) \o [k \in 1..j |-> Space]
    BY <2>1, Trimmed, Zenon
  <2> QED BY <2>1, <2>2, Zenon
<1> QED BY <1>1, NameInvariant, PTL
=============================================================================
