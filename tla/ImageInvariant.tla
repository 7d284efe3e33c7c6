----------------------------- MODULE ImageInvariant -----------------------------
(***************************************************************************)
(* The image that writeDFS leaves behind, for every source: also one with  *)
(* links, unreadable entries and entries that come and go, and with files  *)
(* that change between stat() and the copy.                                *)
(*                                                                         *)
(* The invariant has three parts.  Progress: the callers of writeDFS form  *)
(* a path in the tree, and a header is written only when its one slot has  *)
(* been entered, so that no node is entered twice.  Room: the headers and  *)
(* pointers written so far are counted as subsets of the headers and slots *)
(* that find_header_size counts, so that they end before the first file.   *)
(* Layout: each header with its pointers, and each file, has cells of its  *)
(* own, and what was written there is still there.                         *)
(*                                                                         *)
(* The last section shows that imageDFS preserves it when it starts, and   *)
(* writeDFS when it writes a header: that of a directory, whose first      *)
(* child it then enters, or that of a file, which it copies.               *)
(***************************************************************************)
EXTENDS ImageWriter, TreeBuilderProofs

\* The provers that a step is given to, in this order, when it names none.
USE SMTT(15), Zenon, SMTT(60), ZenonT(60)

----------------------------------------------------------------------------
(* The image and the source directory *)

\* The numbers from 0 on, in increasing order.
LEMMA SortedRange ==
  ASSUME NEW n \in Nat
  PROVE  Sorted(0..(n - 1)) = [k \in 1..n |-> k - 1]
<1>. DEFINE S == 0..(n - 1)
            U == UNION {[1..m -> S] : m \in {0} \cup {x + 1 : x \in S}}
            Up(s) == /\ \A j, k \in DOMAIN s : j < k => s[j] < s[k]
                     /\ \A x \in S : \E k \in DOMAIN s : s[k] = x
            r == [k \in 1..n |-> k - 1]
<1>1. r \in U /\ Up(r)
  <2>1. n \in {0} \cup {x + 1 : x \in S}
    <3>1. CASE n = 0
      BY <3>1
    <3>2. CASE n # 0
      <4>1. n - 1 \in S /\ (n - 1) + 1 = n
        BY <3>2
      <4> QED BY <4>1
    <3> QED BY <3>1, <3>2
  <2>2. r \in [1..n -> S]
    OBVIOUS
  <2>3. ASSUME NEW x \in S PROVE \E k \in DOMAIN r : r[k] = x
    <3>1. x + 1 \in 1..n /\ (x + 1) - 1 = x
      OBVIOUS
    <3> QED BY <3>1
  <2>4. \A j, k \in DOMAIN r : j < k => r[j] < r[k]
    OBVIOUS
  <2> QED BY <2>1, <2>2, <2>3, <2>4, ZenonT(60)
<1>2. ASSUME NEW s \in U, Up(s) PROVE s = r
  <2>1. PICK m \in {0} \cup {x + 1 : x \in S} : s \in [1..m -> S]
    OBVIOUS
  <2>2. m \in Nat
    BY <2>1
  <2>3. \A j, k \in 1..m : j < k => s[j] < s[k]
    BY <1>2, <2>1
  <2>4. \A x \in S : \E k \in 1..m : s[k] = x
    BY <1>2, <2>1
  <2>5. \A k \in 1..m : s[k] \in Nat /\ s[k] <= n - 1
    BY <2>1
  <2>6. ASSUME NEW k \in 1..m PROVE s[k] = k - 1
    <3>. DEFINE T == {j \in 1..m : s[j] # j - 1}
    <3>1. SUFFICES ASSUME T # {} PROVE FALSE
      OBVIOUS
    <3>2. PICK j \in T : \A l \in T : j <= l
      <4>1. T \subseteq Nat
        BY <2>2
      <4> QED BY <3>1, <4>1, LeastOf, Zenon
    <3>3. /\ j \in 1..m /\ j \in Nat /\ j >= 1 /\ s[j] # j - 1
          /\ \A l \in 1..m : l < j => s[l] = l - 1
      BY <2>2, <3>2
    <3>4. s[j] > j - 1
      <4>1. CASE j = 1
        BY <2>5, <3>3, <4>1
      <4>2. CASE j # 1
        <5>1. j - 1 \in 1..m /\ j - 1 < j
          BY <2>2, <3>3, <4>2
        <5>2. s[j - 1] = j - 2 /\ s[j - 1] < s[j] /\ s[j] \in Nat
          BY <2>3, <2>5, <3>3, <5>1
        <5> QED BY <3>3, <5>2
      <4> QED BY <4>1, <4>2
    <3>5. j - 1 \in S
      <4>1. s[j] \in Nat /\ s[j] <= n - 1
        BY <2>5, <3>3
      <4> QED BY <3>3, <3>4, <4>1
    <3>6. PICK l \in 1..m : s[l] = j - 1
      BY <2>4, <3>5, ZenonT(60)
    <3>7. l \in Nat /\ ~(l < j)
      BY <2>2, <3>3, <3>6
    <3>8. l # j
      BY <3>3, <3>6
    <3>9. s[j] < s[l] /\ s[l] \in Nat /\ s[j] \in Nat
      BY <2>3, <2>5, <3>3, <3>7, <3>8
    <3> QED BY <3>3, <3>4, <3>6, <3>9
  <2>7. m = n
    <3>1. ~(m < n)
      <4>1. SUFFICES ASSUME m < n PROVE FALSE
        OBVIOUS
      <4>2. m \in S
        BY <2>2, <4>1
      <4>3. PICK k \in 1..m : s[k] = m
        BY <2>4, <4>2
      <4> QED BY <2>2, <2>6, <4>3
    <3>2. ~(m > n)
      <4>1. SUFFICES ASSUME m > n PROVE FALSE
        OBVIOUS
      <4>2. n + 1 \in 1..m
        BY <2>2, <4>1
      <4>3. s[n + 1] = n /\ s[n + 1] <= n - 1
        BY <2>5, <2>6, <4>2
      <4> QED BY <4>3
    <3> QED BY <2>2, <3>1, <3>2
  <2> QED BY <2>1, <2>6, <2>7
<1>3. Sorted(S) = CHOOSE s \in U : Up(s)
  BY Zenon DEF Sorted
<1>. HIDE DEF U, Up, r
<1>4. Sorted(S) = r
  BY <1>1, <1>2, <1>3, Zenon
<1> QED BY <1>4 DEF r

Paths == {PathOf(h) : h \in Objects}

LEMMA ByPathFacts ==
  ASSUME TreeOrder, NEW f
  PROVE  /\ DOMAIN ByPath(f) = Paths
         /\ \A h \in Objects : ByPath(f)[PathOf(h)] = f[h]
<1>1. ByPath(f) = [p \in Paths |-> f[CHOOSE h \in Objects : PathOf(h) = p]]
  BY Zenon DEF ByPath, Paths
<1>2. ASSUME NEW h \in Objects PROVE ByPath(f)[PathOf(h)] = f[h]
  <2>1. PathOf(h) \in Paths
    BY DEF Paths
  <2>2. (CHOOSE g \in Objects : PathOf(g) = PathOf(h)) = h
    <3>. DEFINE c == CHOOSE g \in Objects : PathOf(g) = PathOf(h)
    <3>1. c \in Objects /\ PathOf(c) = PathOf(h)
      BY Zenon
    <3>. HIDE DEF c
    <3>2. c = h
      BY <3>1, PathInjective, Zenon
    <3> QED BY <3>2 DEF c
  <2> QED BY <1>1, <2>1, <2>2, Zenon
<1> QED BY <1>1, <1>2, Zenon

KidsOf(h) == {g \in Objects : data[g].in = h}
DataAt(h) == Cell(output, headerAt[h] + OFFSET)

\* What the image of an ordinary source has, told object by object.
Imaged ==
  /\ TreeOrder
  /\ output \in Seq(Nat)
  /\ \E h \in Objects : data[h].in = HeadNode
  /\ \A h \in Objects :
       /\ headerAt[h] \in Nat /\ headerAt[h] + M_HDR_SIZE <= Len(output)
       /\ data[h].in = HeadNode => headerAt[h] = 0
       /\ HeaderIntact(h)
       /\ data[h].length \in Nat /\ DataAt(h) + data[h].length <= Len(output)
       /\ \/ /\ data[h].type = DIRECTORY
             /\ {data[g].name : g \in KidsOf(h)} = 0..(data[h].length - 1)
             /\ \A g \in KidsOf(h) : Cell(output, DataAt(h) + data[g].name) = headerAt[g]
          \/ /\ data[h].type = PLAIN_FILE
             /\ KidsOf(h) = {}
             /\ \A k \in 1..data[h].length :
                   Cell(output, DataAt(h) + k - 1) = Content(h, data[h].length)[k]

LEMMA ObjectFacts ==
  ASSUME Imaged, NEW h \in Objects
  PROVE  /\ Object(h).type = data[h].type /\ Object(h).time = MTime(h)
         /\ Object(h).kids \in Seq(Nat) /\ Object(h).bytes \in Seq(Nat)
         /\ Size(Object(h)) = data[h].length
         /\ data[h].type = DIRECTORY =>
              Object(h).kids = [k \in 1..data[h].length |-> k - 1]
         /\ data[h].type = PLAIN_FILE =>
              Object(h).bytes = Content(h, data[h].length)
<1>1. h \in Nat /\ data[h].length \in Nat /\ DIRECTORY # PLAIN_FILE
  BY OrderFacts DEF Imaged, DIRECTORY, PLAIN_FILE
<1>2. /\ Object(h).type = data[h].type /\ Object(h).time = MTime(h)
      /\ Object(h).kids = Sorted({data[g].name : g \in KidsOf(h)})
      /\ Object(h).bytes = IF data[h].type = PLAIN_FILE THEN Content(h, data[h].length) ELSE <<>>
  BY DEF Object, KidsOf
<1>3. CASE data[h].type = DIRECTORY
  <2>1. {data[g].name : g \in KidsOf(h)} = 0..(data[h].length - 1)
    BY <1>1, <1>3, Zenon DEF Imaged
  <2>2. Object(h).kids = [k \in 1..data[h].length |-> k - 1]
    BY <1>1, <1>2, <2>1, SortedRange, Zenon
  <2>3. Object(h).bytes = <<>>
    BY <1>1, <1>2, <1>3, Zenon
  <2>4. Object(h).kids \in Seq(Nat) /\ Len(Object(h).kids) = data[h].length
    BY <1>1, <2>2
  <2>5. Size(Object(h)) = data[h].length
    BY <1>2, <1>3, <2>4, Zenon DEF Size
  <2> QED BY <1>1, <1>2, <1>3, <2>2, <2>3, <2>4, <2>5
<1>4. CASE data[h].type # DIRECTORY
  <2>1. data[h].type = PLAIN_FILE /\ KidsOf(h) = {}
    BY <1>4, Zenon DEF Imaged
  <2>2. {data[g].name : g \in KidsOf(h)} = 0..(0 - 1)
    BY <2>1
  <2>3. Object(h).kids = [k \in 1..0 |-> k - 1]
    BY <1>2, <2>2, SortedRange, Zenon
  <2>4. Object(h).bytes = Content(h, data[h].length)
    BY <1>2, <2>1, Zenon
  <2>5. Object(h).bytes \in Seq(Nat) /\ Len(Object(h).bytes) = data[h].length
    BY <1>1, <2>4 DEF Content
  <2>6. Object(h).kids \in Seq(Nat)
    BY <2>3
  <2>7. Size(Object(h)) = data[h].length
    BY <1>2, <1>4, <2>5, Zenon DEF Size
  <2> QED BY <1>1, <1>2, <1>4, <2>1, <2>4, <2>5, <2>6, <2>7
<1> QED BY <1>3, <1>4

\* The image holds the source directory.
LEMMA ImagedEncodes ==
  ASSUME Imaged
  PROVE  Encodes(output, SourceTree, ByPath(headerAt))
<1>. DEFINE fs == SourceTree
            where == ByPath(headerAt)
<1>1. TreeOrder /\ output \in Seq(Nat)
  BY DEF Imaged
<1>2. /\ DOMAIN fs = Paths /\ DOMAIN where = Paths
      /\ \A h \in Objects : fs[PathOf(h)] = Object(h) /\ where[PathOf(h)] = headerAt[h]
  <2>. DEFINE f == [h \in Objects |-> Object(h)]
  <2>1. \A h \in Objects : f[h] = Object(h)
    BY Zenon
  <2>2. fs = ByPath(f)
    BY Zenon DEF SourceTree
  <2>. HIDE DEF f
  <2> QED BY <1>1, <2>1, <2>2, ByPathFacts, Zenon
<1>. HIDE DEF fs, where
<1>3. <<Cell(output, NAME)>> \in Paths
  <2>1. PICK h \in Objects : data[h].in = HeadNode
    BY DEF Imaged
  <2>2. headerAt[h] = 0 /\ HeaderIntact(h)
    BY <2>1, Zenon DEF Imaged
  <2>3. Cell(output, NAME) = data[h].name
    BY <2>2 DEF HeaderIntact, NAME
  <2>4. PathOf(h) = <<data[h].name>>
    BY <1>1, <2>1, PathStep, Zenon
  <2> QED BY <2>3, <2>4, Zenon DEF Paths
<1>4. ASSUME NEW p \in Paths
      PROVE  LET o == fs[p]
                 off == Cell(output, where[p] + OFFSET)
             IN  /\ p \in Seq(Nat) /\ p # <<>>
                 /\ o.kids \in Seq(Nat) /\ o.bytes \in Seq(Nat)
                 /\ \A n \in 1..Len(p) : SubSeq(p, 1, n) \in DOMAIN fs
                 /\ Len(p) = 1 => where[p] = 0
                 /\ HeaderEncodes(output, where[p], Last(p), o)
                 /\ \/ /\ o.type = DIRECTORY
                       /\ \A k \in DOMAIN o.kids :
                            /\ Append(p, o.kids[k]) \in DOMAIN fs
                            /\ Cell(output, off + (k - 1) * PTR_SIZE) = where[Append(p, o.kids[k])]
                    \/ /\ o.type = PLAIN_FILE
                       /\ \A k \in DOMAIN o.bytes : Cell(output, off + k - 1) = o.bytes[k]
                 /\ Len(p) > 1 =>
                      \E k \in DOMAIN fs[Front(p)].kids : fs[Front(p)].kids[k] = Last(p)
  <2>1. PICK h \in Objects : p = PathOf(h)
    BY DEF Paths
  <2>2. fs[p] = Object(h) /\ where[p] = headerAt[h]
    BY <1>2, <2>1, Zenon
  <2>3. /\ p \in Seq(Nat) /\ p # <<>> /\ Len(p) \in Nat /\ Last(p) = data[h].name
        /\ data[h].in = HeadNode <=> Len(p) = 1
    BY <1>1, <2>1, PathFacts, Zenon
  <2>4. \A n \in 1..Len(p) : SubSeq(p, 1, n) \in DOMAIN fs
    BY <1>1, <1>2, <2>1, PathClosed, Zenon DEF Paths
  <2>5. Len(p) = 1 => where[p] = 0
    BY <2>2, <2>3, Zenon DEF Imaged
  <2>6. /\ headerAt[h] \in Nat /\ headerAt[h] + M_HDR_SIZE <= Len(output)
        /\ HeaderIntact(h) /\ data[h].length \in Nat
        /\ DataAt(h) + data[h].length <= Len(output)
    BY Zenon DEF Imaged
  <2>7. /\ Object(h).type = data[h].type /\ Object(h).time = MTime(h)
        /\ Object(h).kids \in Seq(Nat) /\ Object(h).bytes \in Seq(Nat)
        /\ Size(Object(h)) = data[h].length
    BY ObjectFacts, Zenon
  <2>8. HeaderEncodes(output, where[p], Last(p), fs[p])
    BY <2>2, <2>3, <2>6, <2>7, Zenon DEF HeaderEncodes, HeaderIntact, DataAt
  <2>9. \/ /\ fs[p].type = DIRECTORY
           /\ \A k \in DOMAIN fs[p].kids :
                /\ Append(p, fs[p].kids[k]) \in DOMAIN fs
                /\ Cell(output, DataAt(h) + (k - 1) * PTR_SIZE) = where[Append(p, fs[p].kids[k])]
        \/ /\ fs[p].type = PLAIN_FILE
           /\ \A k \in DOMAIN fs[p].bytes : Cell(output, DataAt(h) + k - 1) = fs[p].bytes[k]
    <3>1. CASE data[h].type = DIRECTORY
      <4>1. /\ {data[g].name : g \in KidsOf(h)} = 0..(data[h].length - 1)
            /\ \A g \in KidsOf(h) : Cell(output, DataAt(h) + data[g].name) = headerAt[g]
        <5>1. DIRECTORY # PLAIN_FILE
          BY DEF DIRECTORY, PLAIN_FILE
        <5> QED BY <3>1, <5>1, Zenon DEF Imaged
      <4>2. fs[p].kids = [k \in 1..data[h].length |-> k - 1]
        BY <2>2, <3>1, ObjectFacts, Zenon
      <4>3. ASSUME NEW k \in 1..data[h].length
            PROVE  /\ Append(p, k - 1) \in DOMAIN fs
                   /\ Cell(output, DataAt(h) + (k - 1) * PTR_SIZE) = where[Append(p, k - 1)]
        <5>1. k - 1 \in 0..(data[h].length - 1) /\ (k - 1) * PTR_SIZE = k - 1
          BY <2>6 DEF PTR_SIZE
        <5>2. PICK g \in KidsOf(h) : data[g].name = k - 1
          BY <4>1, <5>1, Zenon
        <5>3. g \in Objects /\ data[g].in = h /\ h # HeadNode
          BY <1>1, <5>2, OrderFacts DEF KidsOf
        <5>4. PathOf(g) = Append(p, k - 1)
          BY <1>1, <2>1, <5>2, <5>3, PathStep, Zenon
        <5>5. PathOf(g) \in Paths /\ where[PathOf(g)] = headerAt[g]
          BY <1>2, <5>3, Zenon DEF Paths
        <5>6. Cell(output, DataAt(h) + (k - 1)) = headerAt[g]
          BY <4>1, <5>2, Zenon
        <5> QED BY <1>2, <5>1, <5>4, <5>5, <5>6, Zenon
      <4> QED BY <2>2, <2>7, <3>1, <4>2, <4>3, Zenon
    <3>2. CASE data[h].type # DIRECTORY
      <4>1. /\ data[h].type = PLAIN_FILE
            /\ \A k \in 1..data[h].length :
                  Cell(output, DataAt(h) + k - 1) = Content(h, data[h].length)[k]
        BY <3>2, Zenon DEF Imaged
      <4>2. fs[p].bytes = Content(h, data[h].length)
        BY <2>2, <4>1, ObjectFacts, Zenon
      <4>3. DOMAIN Content(h, data[h].length) = 1..data[h].length
        BY Zenon DEF Content
      <4> QED BY <2>2, <2>7, <4>1, <4>2, <4>3, Zenon
    <3> QED BY <3>1, <3>2, Zenon
  <2>10. ASSUME Len(p) > 1
         PROVE  \E k \in DOMAIN fs[Front(p)].kids : fs[Front(p)].kids[k] = Last(p)
    <3>. DEFINE d == data[h].in
    <3>1. d # HeadNode
      <4>1. Len(p) # 1
        <5>1. PICK l \in Nat : l = Len(p)
          BY <2>3, Zenon
        <5> QED BY <2>10, <5>1
      <4> QED BY <2>3, <4>1, Zenon
    <3>2. d \in Objects /\ Front(p) = PathOf(d)
      BY <1>1, <2>1, <3>1, PathFacts, Zenon
    <3>3. h \in KidsOf(d)
      BY DEF KidsOf
    <3>. HIDE DEF d
    <3>4. data[d].type = DIRECTORY /\ {data[g].name : g \in KidsOf(d)} = 0..(data[d].length - 1)
      BY <3>2, <3>3 DEF Imaged
    <3>5. fs[Front(p)].kids = [k \in 1..data[d].length |-> k - 1]
      BY <1>2, <3>2, <3>4, ObjectFacts, Zenon
    <3>6. data[h].name \in 0..(data[d].length - 1) /\ data[d].length \in Nat
      BY <3>2, <3>3, <3>4, Zenon DEF Imaged
    <3>7. data[h].name + 1 \in 1..data[d].length /\ (data[h].name + 1) - 1 = data[h].name
      BY <3>6
    <3> QED BY <2>3, <3>5, <3>7
  <2> QED BY <2>2, <2>3, <2>4, <2>5, <2>7, <2>8, <2>9, <2>10, Zenon DEF DataAt
<1>5. Encodes(output, fs, where)
  BY <1>1, <1>2, <1>3, <1>4, Zenon DEF Encodes
<1> QED BY <1>5, Zenon DEF fs, where

----------------------------------------------------------------------------
(* The invariant *)

\* The counters of s_builder cover the headers it has made; sizes are sizes.
SizesOK(D) == \A h \in 1..Len(D) : D[h].type = PLAIN_FILE => D[h].length \in FileSizes

CountInv == header_count >= Len(data) - 1 /\ SizesOK(data)

\* The dummy head keeps its one slot.
HeadInv == 1 \in 1..Len(data) /\ data[1].type = DIRECTORY /\ data[1].length = 1

BaseInv == TypeInv /\ StackInv /\ HeadInv /\ SizeInv /\ CountInv

(***************************************************************************)
(* The tree does not change while it is written.  The predicates below     *)
(* have it as arguments (D headers, C children), and the image I, the      *)
(* offsets A of its headers and the callers cs of writeDFS too, so that    *)
(* what a step leaves alone needs no proof.                                *)
(***************************************************************************)
ChildOf(C, h, k) == IF <<h, k>> \in DOMAIN C THEN C[<<h, k>>] ELSE 0

Top(C) == ChildOf(C, HeadNode, 0)

\* The headers written so far.
Seen == DOMAIN headerAt

----------------------------------------------------------------------------
(* Progress *)

CallRec == [node : Nat, at : Nat, i : Nat]

CallsOK(D, cs) ==
  /\ cs \in Seq(CallRec)
  /\ \A j \in 1..Len(cs) : /\ cs[j].node \in 1..Len(D)
                           /\ D[cs[j].node].type = DIRECTORY
                           /\ cs[j].i < D[cs[j].node].length

Callers(D, C, A, cs) ==
  /\ CallsOK(D, cs)
  /\ \A j \in 1..Len(cs) : cs[j].node \in DOMAIN A /\ cs[j].at = A[cs[j].node]
  /\ \A j, l \in 1..Len(cs) : cs[j].node = cs[l].node => j = l
  /\ \A j \in 2..Len(cs) : cs[j].node = ChildOf(C, cs[j - 1].node, cs[j - 1].i)

\* The child k of directory d has been entered before, as far as cs tells.
Behind(cs, entering, d, k) ==
  \A j \in 1..Len(cs) : cs[j].node = d =>
     k < cs[j].i \/ (k = cs[j].i /\ ~(entering /\ j = Len(cs)))

EnteredOnce(C, W, cs, entering) ==
  \A h \in W : \/ h = Top(C)
               \/ \E d \in W, k \in Nat : /\ <<d, k>> \in DOMAIN C /\ C[<<d, k>>] = h
                                          /\ Behind(cs, entering, d, k)

PcInv ==
  /\ pc \in {"idle", "enter", "return", "written", "undefined"}
  /\ pc = "idle" => calls = <<>> /\ node = 0 /\ Seen = {} /\ output = <<>>
  /\ pc # "idle" => phase = "image"
  /\ pc = "enter" /\ calls = <<>> => Seen = {} /\ node = Top(children)
  /\ pc \in {"enter", "return"} /\ calls # <<>> =>
       node = ChildOf(children, Last(calls).node, Last(calls).i)
  /\ pc \in {"return", "written"} => node \in Seen
  /\ pc = "written" => calls = <<>>
  /\ node \in 0..Len(data)
  /\ Seen \subseteq 2..Len(data) /\ changed \subseteq Seen
  /\ Seen # {} => Top(children) \in Seen /\ headerAt[Top(children)] = 0

Progress ==
  /\ PcInv
  /\ Callers(data, children, headerAt, calls)
  /\ EnteredOnce(children, Seen, calls, pc = "enter")

----------------------------------------------------------------------------
(* Room *)

SlotsIn(D, W) == {s \in AllSlots(D) : s[1] \in W}

Room ==
  /\ header_off \in Nat /\ file_off \in Nat
  /\ IsFiniteSet(Seen) /\ IsFiniteSet(SlotsIn(data, Seen))
  /\ pc # "idle" =>
       /\ header_off = 5 * Cardinality(Seen) + Cardinality(SlotsIn(data, Seen))
       /\ find_header_size <= file_off

----------------------------------------------------------------------------
(* Layout *)

Pointers(D, h) == IF D[h].type = DIRECTORY THEN D[h].length ELSE 0

\* Where the header of h and its pointers end.
End(D, A, h) == A[h] + 5 + Pointers(D, h)

Apart(D, A, top) ==
  /\ \A h \in DOMAIN A : A[h] \in Nat /\ End(D, A, h) <= top
  /\ \A g, h \in DOMAIN A : g # h => End(D, A, g) <= A[h] \/ End(D, A, h) <= A[g]

HeaderIn(D, I, a, h) ==
  /\ a + 5 <= Len(I)
  /\ Cell(I, a + NAME) = D[h].name
  /\ Cell(I, a + LENGTH) = D[h].length
  /\ Cell(I, a + TIME) = MTime(h)
  /\ Cell(I, a + TYPE) = D[h].type
  /\ D[h].type = DIRECTORY => Cell(I, a + OFFSET) = a + 5

\* The pointer to child k of directory d has been stored, as far as cs tells.
Stored(cs, d, k) == \A j \in 1..Len(cs) : cs[j].node = d => k < cs[j].i

PointerIn(C, I, A, d, k) ==
  /\ <<d, k>> \in DOMAIN C /\ C[<<d, k>>] \in DOMAIN A
  /\ A[d] + 5 + k < Len(I)
  /\ Cell(I, A[d] + 5 + k) = A[C[<<d, k>>]]

PointersIn(D, C, I, A, cs) ==
  \A d \in DOMAIN A : D[d].type = DIRECTORY =>
     \A k \in 0..(D[d].length - 1) : Stored(cs, d, k) => PointerIn(C, I, A, d, k)

\* No file is too large for the int `remaining' of the loop that copies it.
FilesFitInt == \A s \in FileSizes : s > 0 => ToInt(s, IntBits) > 0

\* File h has its cells between lo and hi, and holds its bytes unless it is one
\* of those in X, which changed.
FileIn(D, I, A, X, lo, hi, h) ==
  LET off == Cell(I, A[h] + OFFSET)
  IN  /\ lo <= off /\ off + D[h].length <= hi
      /\ FilesFitInt /\ h \notin X =>
           /\ D[h].length > 0 => off + D[h].length <= Len(I)
           /\ \A k \in 1..D[h].length :
                Cell(I, off + k - 1) = Content(h, D[h].length)[k]

HeadersIn(D, I, A) == \A h \in DOMAIN A : HeaderIn(D, I, A[h], h)

FilesIn(D, I, A, X, lo, hi) ==
  \A h \in DOMAIN A : D[h].type = PLAIN_FILE => FileIn(D, I, A, X, lo, hi, h)

Layout ==
  /\ output \in Seq(Nat)
  /\ Apart(data, headerAt, header_off)
  /\ HeadersIn(data, output, headerAt)
  /\ PointersIn(data, children, output, headerAt, calls)
  /\ FilesIn(data, output, headerAt, changed, find_header_size, file_off)

ImageInv == Progress /\ Room /\ Layout

----------------------------------------------------------------------------
(* One write *)

\* J has what I had, outside the cells from lo to hi.
Kept(I, J, lo, hi) ==
  /\ Len(I) <= Len(J)
  /\ \A o \in Nat : o < Len(I) /\ (o < lo \/ hi <= o) => Cell(J, o) = Cell(I, o)

\* J has cells at off.
CellsIn(J, off, cells) ==
  /\ cells # <<>> => off + Len(cells) <= Len(J)
  /\ \A k \in 1..Len(cells) : Cell(J, off + k - 1) = cells[k]

LEMMA PutFacts ==
  ASSUME NEW I \in Seq(Nat), NEW off \in Nat, NEW cells \in Seq(Nat),
         NEW J, J = Put(I, off, cells)
  PROVE  /\ J \in Seq(Nat) /\ Kept(I, J, off, off + Len(cells))
         /\ CellsIn(J, off, cells)
<1>. DEFINE n == Len(I)
            c == Len(cells)
<1>1. n \in Nat /\ I \in [1..n -> Nat] /\ c \in Nat /\ cells \in [1..c -> Nat]
  BY LenProperties
<1>2. CASE cells = <<>>
  <2>1. J = I /\ c = 0
    BY <1>2 DEF Put
  <2>. HIDE DEF n, c
  <2>2. Kept(I, J, off, off + c)
    BY <1>1, <2>1 DEF Kept, n
  <2>. QED BY <1>2, <2>1, <2>2 DEF c, CellsIn
<1>3. CASE cells # <<>>
  <2>1. c > 0
    BY <1>1, <1>3, EmptySeq
  <2>. DEFINE m == IF n <= off + c THEN off + c ELSE n
  <2>2. (1..n) \cup (1..(off + c)) = 1..m /\ m \in Nat
    BY <1>1
  <2>3. J = [i \in 1..m |-> IF i > off /\ i <= off + c THEN cells[i - off]
                             ELSE IF i <= n THEN I[i] ELSE 0]
    BY <1>3, <2>2 DEF Put
  <2>. HIDE DEF n, c, m
  <2>4. \A i \in 1..m : J[i] \in Nat
    <3>. TAKE i \in 1..m
    <3>1. i > off /\ i <= off + c => cells[i - off] \in Nat
      <4>1. i > off /\ i <= off + c => i - off \in 1..c
        BY <1>1, <2>2
      <4>. QED BY <1>1, <4>1
    <3>2. i <= n => I[i] \in Nat
      <4>1. i <= n => i \in 1..n
        BY <1>1
      <4>. QED BY <1>1, <4>1
    <3>. QED BY <2>3, <3>1, <3>2
  <2>5. J \in Seq(Nat) /\ Len(J) = m
    <3>1. J \in [1..m -> Nat]
      BY <2>3, <2>4
    <3>. QED BY <2>2, <3>1
  <2>6. n <= m /\ off + c <= m
    BY <1>1 DEF m
  <2>7. ASSUME NEW o \in Nat, o < n, o < off \/ off + c <= o
        PROVE  Cell(J, o) = Cell(I, o)
    <3>1. o + 1 \in 1..m /\ ~(o + 1 > off /\ o + 1 <= off + c) /\ o + 1 <= n
      BY <1>1, <2>6, <2>7, <2>2
    <3>. QED BY <2>3, <3>1 DEF Cell
  <2>8. ASSUME NEW k \in 1..c PROVE Cell(J, off + k - 1) = cells[k]
    <3>1. /\ off + k - 1 + 1 \in 1..m /\ off + k - 1 + 1 > off
          /\ off + k - 1 + 1 <= off + c /\ off + k - 1 + 1 - off = k
      BY <1>1, <2>6, <2>2
    <3>. QED BY <2>3, <3>1 DEF Cell
  <2>9. Kept(I, J, off, off + c)
    BY <2>5, <2>6, <2>7 DEF Kept, n
  <2>. QED BY <2>5, <2>6, <2>8, <2>9 DEF c, CellsIn
<1>. QED BY <1>2, <1>3

LEMMA HeaderCellsFacts ==
  ASSUME NEW a \in Nat, NEW b \in Nat, NEW c \in Nat, NEW d \in Nat, NEW e \in Nat,
         NEW cs, cs = HeaderCells(a, b, c, d, e)
  PROVE  /\ cs \in Seq(Nat) /\ Len(cs) = 5
         /\ cs[1] = a /\ cs[2] = b /\ cs[3] = c /\ cs[4] = d /\ cs[5] = e
  BY DEF HeaderCells

\* The fields cs of a header are at off.
FieldsIn(J, off, cs) ==
  /\ off + 5 <= Len(J)
  /\ Cell(J, off + NAME) = cs[1] /\ Cell(J, off + LENGTH) = cs[2]
  /\ Cell(J, off + TIME) = cs[3] /\ Cell(J, off + OFFSET) = cs[4]
  /\ Cell(J, off + TYPE) = cs[5]

LEMMA HeaderPut ==
  ASSUME NEW I \in Seq(Nat), NEW off \in Nat, NEW cs \in Seq(Nat), Len(cs) = 5,
         NEW J, J = Put(I, off, cs)
  PROVE  J \in Seq(Nat) /\ Kept(I, J, off, off + 5) /\ FieldsIn(J, off, cs)
<1>1. /\ J \in Seq(Nat) /\ Kept(I, J, off, off + Len(cs)) /\ CellsIn(J, off, cs)
  BY PutFacts, Zenon
<1>2. cs # <<>>
  <2>1. Len(<<>>) # 5
    OBVIOUS
  <2>. QED BY <2>1, Zenon
<1>3. /\ Kept(I, J, off, off + 5) /\ off + 5 <= Len(J)
      /\ \A k \in 1..5 : Cell(J, off + k - 1) = cs[k]
  BY <1>1, <1>2, Zenon DEF CellsIn
<1>4. /\ off + 1 - 1 = off + 0 /\ off + 2 - 1 = off + 1 /\ off + 3 - 1 = off + 2
      /\ off + 4 - 1 = off + 3 /\ off + 5 - 1 = off + 4
      /\ 1 \in 1..5 /\ 2 \in 1..5 /\ 3 \in 1..5 /\ 4 \in 1..5 /\ 5 \in 1..5
  OBVIOUS
<1>5. /\ Cell(J, off + 0) = cs[1] /\ Cell(J, off + 1) = cs[2]
      /\ Cell(J, off + 2) = cs[3] /\ Cell(J, off + 3) = cs[4]
      /\ Cell(J, off + 4) = cs[5]
  BY <1>3, <1>4, Zenon
<1>. QED BY <1>1, <1>3, <1>5, Zenon DEF FieldsIn, NAME, LENGTH, TIME, OFFSET, TYPE

----------------------------------------------------------------------------
(* What the walk leaves to writeDFS *)

LEMMA InitHead == Init => HeadInv
<1>. SUFFICES ASSUME Init PROVE HeadInv
  OBVIOUS
<1>1. Len(data) = 1 /\ data[1] = Header(0, DIRECTORY, 1, NoDir)
  BY DEF Init
<1>. QED
  BY <1>1 DEF HeadInv, Header

LEMMA NextHead == TypeInv /\ HeadInv /\ [Next]_vars => HeadInv'
<1>. SUFFICES ASSUME TypeInv, HeadInv, [Next]_vars PROVE HeadInv'
  OBVIOUS
<1>1. data \in Seq(HeaderRec)
  BY DEF TypeInv, TypeOK, HeaderRec
<1>2. ASSUME NEW h, data' = Append(data, h) PROVE HeadInv'
  BY <1>1, <1>2 DEF HeadInv
<1>3. CASE data' = data
  BY <1>3 DEF HeadInv
<1>4. CASE BuildDirectory
  BY <1>2, <1>4 DEF BuildDirectory
<1>5. CASE ReportFile
  BY <1>2, <1>5 DEF ReportFile
<1>. QED
  BY <1>3, <1>4, <1>5 DEF Next, BuilderNext, IgnoreDot, BuildFile, SkipSeen, Refuse,
     Return, Unlock, Done, vars

LEMMA BaseFacts ==
  ASSUME BaseInv
  PROVE  /\ data \in Seq(HeaderRec) /\ Len(data) \in Nat /\ 1 <= Len(data)
         /\ header_count \in Nat /\ subitems_count \in Nat
         /\ data[1].type = DIRECTORY /\ data[1].length = 1
         /\ \A h \in 1..Len(data) :
              /\ data[h].name \in Nat /\ data[h].length \in Nat
              /\ data[h].type \in {DIRECTORY, PLAIN_FILE}
<1>1. data \in Seq(HeaderRec) /\ header_count \in Nat /\ subitems_count \in Nat
  BY Zenon DEF BaseInv, TypeInv, TypeOK, HeaderRec
<1>2. Len(data) \in Nat /\ \A h \in 1..Len(data) : data[h] \in HeaderRec
  BY <1>1, LenProperties
<1>3. 1 <= Len(data) /\ data[1].type = DIRECTORY /\ data[1].length = 1
  BY <1>2 DEF BaseInv, HeadInv
<1>. QED BY <1>1, <1>2, <1>3, HeaderFacts

\* A slot leads to a younger header, or it was never written.
LEMMA SlotFacts ==
  ASSUME BaseInv, NEW d \in 1..Len(data), NEW k \in Nat
  PROVE  /\ ChildOf(children, d, k) \in 0..Len(data)
         /\ ChildOf(children, d, k) # 0 => /\ <<d, k>> \in DOMAIN children
                               /\ children[<<d, k>>] = ChildOf(children, d, k)
                               /\ d < ChildOf(children, d, k)
<1>1. Len(data) \in Nat
  BY BaseFacts
<1>2. CASE <<d, k>> \in DOMAIN children
  <2>1. /\ <<d, k>>[1] < children[<<d, k>>] /\ children[<<d, k>>] <= Len(data)
        /\ children[<<d, k>>] \in Nat
    BY <1>2, Zenon DEF BaseInv, StackInv, SlotsOK
  <2>2. ChildOf(children, d, k) = children[<<d, k>>] /\ <<d, k>>[1] = d
    BY <1>2 DEF ChildOf
  <2>. QED BY <1>1, <1>2, <2>1, <2>2
<1>3. CASE <<d, k>> \notin DOMAIN children
  BY <1>1, <1>3 DEF ChildOf
<1>. QED BY <1>2, <1>3

LEMMA OneSlot ==
  ASSUME BaseInv, NEW s \in DOMAIN children, NEW t \in DOMAIN children,
         children[s] = children[t]
  PROVE  s = t
  BY Zenon DEF BaseInv, StackInv, SlotsOK

LEMMA InitBase == Init => BaseInv
<1>. SUFFICES ASSUME Init PROVE BaseInv
  OBVIOUS
<1>1. Len(data) = 1 /\ data[1].type = DIRECTORY /\ header_count = 0
  BY HeaderFacts DEF Init
<1>2. CountInv
  BY <1>1 DEF CountInv, SizesOK, DIRECTORY, PLAIN_FILE
<1>. QED BY <1>2, InitType, InitStack, InitHead, InitSize DEF BaseInv

LEMMA NextBase == BaseInv /\ [Next]_vars => BaseInv'
<1>. SUFFICES ASSUME BaseInv, [Next]_vars PROVE BaseInv'
  OBVIOUS
<1>1. TypeInv /\ StackInv /\ HeadInv /\ SizeInv /\ CountInv
  BY DEF BaseInv
<1>2. TypeInv' /\ StackInv' /\ HeadInv' /\ SizeInv'
  BY <1>1, NextType, NextStack, NextHead, NextSize
<1>. SUFFICES CountInv'
  BY <1>2 DEF BaseInv
<1>3. data \in Seq(HeaderRec) /\ Len(data) \in Nat /\ header_count \in Nat
  BY BaseFacts
<1>4. ASSUME NEW n, NEW t, NEW l, NEW d, t = PLAIN_FILE => l \in FileSizes,
             data' = Append(data, Header(n, t, l, d)), header_count' = header_count + 1
      PROVE  CountInv'
  <2>1. /\ Len(data') = Len(data) + 1 /\ data'[Len(data) + 1] = Header(n, t, l, d)
        /\ \A h \in 1..Len(data) : data'[h] = data[h]
    BY <1>3, <1>4
  <2>2. \A h \in 1..Len(data') : h \in 1..Len(data) \/ h = Len(data) + 1
    BY <1>3, <2>1
  <2>3. header_count' >= Len(data') - 1
    BY <1>1, <1>3, <1>4, <2>1 DEF CountInv
  <2>. QED BY <1>1, <1>4, <2>1, <2>2, <2>3, HeaderFacts DEF CountInv, SizesOK
<1>5. CASE data' = data /\ header_count' \in {header_count, header_count + 1}
  <2>1. header_count >= Len(data) - 1 /\ Len(data') = Len(data)
    BY <1>1, <1>5, Zenon DEF CountInv
  <2>2. header_count' >= Len(data') - 1
    BY <1>3, <1>5, <2>1
  <2>. QED BY <1>1, <1>5, <2>2, Zenon DEF CountInv
<1>6. CASE BuildDirectory
  <2>1. PICK l \in Listings :
           data' = Append(data, Header(Last(frames).next, DIRECTORY,
                                       DirLength(l), Last(frames).dir))
    BY <1>6 DEF BuildDirectory
  <2>2. DIRECTORY # PLAIN_FILE /\ header_count' = header_count + 1
    BY <1>6 DEF BuildDirectory, DIRECTORY, PLAIN_FILE
  <2>. QED BY <1>4, <2>1, <2>2, Zenon
<1>7. CASE ReportFile
  <2>1. PICK size \in FileSizes :
           data' = Append(data, Header(Last(frames).next, PLAIN_FILE,
                                       size, Last(frames).dir))
    BY <1>7 DEF ReportFile
  <2>2. header_count' = header_count + 1
    BY <1>7 DEF ReportFile
  <2>. QED BY <1>4, <2>1, <2>2, Zenon
<1>8. CASE Refuse
  BY <1>5, <1>8 DEF Refuse
<1>9. CASE IgnoreDot \/ BuildFile \/ SkipSeen \/ Return \/ Unlock \/ Done \/ UNCHANGED vars
  BY <1>5, <1>9 DEF IgnoreDot, BuildFile, SkipSeen, Return, Unlock, Done, vars
<1>. QED BY <1>6, <1>7, <1>8, <1>9 DEF Next, BuilderNext

\* Any headers other than the dummy head, and their pointers, find room below
\* the files; all of them together just fill it, if s_builder counted no more.
LEMMA RoomFor ==
  ASSUME BaseInv, NEW W, W \subseteq 2..Len(data)
  PROVE  /\ IsFiniteSet(W) /\ IsFiniteSet(SlotsIn(data, W))
         /\ Cardinality(W) \in Nat /\ Cardinality(SlotsIn(data, W)) \in Nat
         /\ 5 * Cardinality(W) + Cardinality(SlotsIn(data, W)) <= find_header_size
         /\ W = 2..Len(data) /\ header_count = Len(data) - 1 =>
              5 * Cardinality(W) + Cardinality(SlotsIn(data, W)) = find_header_size
<1>1. /\ Len(data) \in Nat /\ 1 <= Len(data)
      /\ header_count \in Nat /\ subitems_count \in Nat
      /\ data[1].type = DIRECTORY /\ data[1].length = 1
  BY BaseFacts
<1>2. header_count >= Len(data) - 1
  BY DEF BaseInv, CountInv
<1>3. IsFiniteSet(2..Len(data)) /\ Cardinality(2..Len(data)) = Len(data) - 1
  <2>1. 2 \in Int /\ Len(data) \in Int
    BY <1>1
  <2>2. /\ IsFiniteSet(2..Len(data))
        /\ Cardinality(2..Len(data)) = IF 2 > Len(data) THEN 0 ELSE Len(data) - 2 + 1
    BY <2>1, FS_Interval
  <2>. QED BY <1>1, <2>2
<1>4. IsFiniteSet(W) /\ Cardinality(W) \in Nat /\ Cardinality(W) <= Len(data) - 1
  BY <1>3, FS_Subset, FS_CardinalityType, Zenon
<1>. DEFINE B == AllSlots(data) \ {<<1, 0>>}
<1>5. IsFiniteSet(B) /\ Cardinality(B) = subitems_count
  <2>1. <<1, 0>> \in AllSlots(data)
    BY <1>1 DEF AllSlots
  <2>2. /\ IsFiniteSet(AllSlots(data))
        /\ Cardinality(AllSlots(data)) = subitems_count + 1
    BY DEF BaseInv, SizeInv
  <2>3. /\ IsFiniteSet(B)
        /\ Cardinality(B) = Cardinality(AllSlots(data)) - 1
    BY <2>1, <2>2, FS_RemoveElement
  <2>. QED BY <1>1, <2>2, <2>3
<1>6. SlotsIn(data, W) \subseteq B
  <2>1. \A s \in SlotsIn(data, W) : s \in AllSlots(data) /\ s[1] \in 2..Len(data)
    BY Zenon DEF SlotsIn
  <2>2. <<1, 0>>[1] = 1 /\ 1 \notin 2..Len(data)
    BY <1>1
  <2>. QED BY <2>1, <2>2
<1>7. ASSUME W = 2..Len(data) PROVE B \subseteq SlotsIn(data, W)
  <2>. SUFFICES ASSUME NEW s \in B PROVE s[1] \in W
    BY DEF SlotsIn
  <2>1. /\ s = <<s[1], s[2]>> /\ s[1] \in 1..Len(data) /\ s[2] \in Nat
        /\ s[2] < data[s[1]].length /\ s # <<1, 0>>
    BY DEF AllSlots
  <2>2. s[1] = 1 => s[2] = 0
    BY <1>1, <2>1
  <2>. HIDE DEF B
  <2>3. s[1] # 1
    BY <2>1, <2>2
  <2>. QED BY <1>1, <1>7, <2>1, <2>3
<1>. HIDE DEF B
<1>8. /\ IsFiniteSet(SlotsIn(data, W)) /\ Cardinality(SlotsIn(data, W)) \in Nat
      /\ Cardinality(SlotsIn(data, W)) <= subitems_count
  BY <1>5, <1>6, FS_Subset, FS_CardinalityType
<1>9. find_header_size = header_count * 5 + subitems_count * 1
  BY DEF find_header_size, M_HDR_SIZE, PTR_SIZE
<1>10. 5 * Cardinality(W) + Cardinality(SlotsIn(data, W)) <= find_header_size
  BY <1>1, <1>2, <1>4, <1>8, <1>9
<1>11. ASSUME W = 2..Len(data), header_count = Len(data) - 1
       PROVE  5 * Cardinality(W) + Cardinality(SlotsIn(data, W)) = find_header_size
  <2>1. SlotsIn(data, W) = B
    BY <1>6, <1>7, <1>11, Zenon
  <2>2. Cardinality(SlotsIn(data, W)) = subitems_count
    BY <1>5, <2>1
  <2>3. Cardinality(W) = header_count
    BY <1>3, <1>11
  <2>. QED BY <1>1, <1>9, <2>2, <2>3
<1>. QED BY <1>4, <1>8, <1>10, <1>11

\* One more header with its pointers.
LEMMA OneMore ==
  ASSUME BaseInv, NEW W, W \subseteq 2..Len(data), NEW h \in 2..Len(data), h \notin W
  PROVE  /\ Pointers(data, h) \in Nat
         /\ Cardinality(W \cup {h}) = Cardinality(W) + 1
         /\ Cardinality(SlotsIn(data, W \cup {h})) = Cardinality(SlotsIn(data, W)) + Pointers(data, h)
<1>1. Len(data) \in Nat /\ h \in 1..Len(data) /\ data[h].length \in Nat
  BY BaseFacts
<1>2. IsFiniteSet(W) /\ IsFiniteSet(SlotsIn(data, W)) /\ Cardinality(SlotsIn(data, W)) \in Nat
  BY RoomFor, Zenon
<1>3. Cardinality(W \cup {h}) = Cardinality(W) + 1
  BY <1>2, FS_AddElement, Zenon
<1>. DEFINE A == SlotsIn(data, W)
            B == IF data[h].type = DIRECTORY THEN SlotsOf(h, data[h].length) ELSE {}
<1>4. SlotsIn(data, W \cup {h}) = A \cup B
  <2>1. \A s \in AllSlots(data) : s[1] = h => s \in B
    <3>. SUFFICES ASSUME NEW s \in AllSlots(data), s[1] = h PROVE s \in B
      OBVIOUS
    <3>1. /\ s = <<s[1], s[2]>> /\ s[2] \in Nat /\ data[h].type = DIRECTORY
          /\ s[2] < data[h].length
      BY DEF AllSlots
    <3>2. s[2] \in 0..(data[h].length - 1)
      BY <1>1, <3>1
    <3>3. <<h, s[2]>> \in SlotsOf(h, data[h].length)
      BY <3>2 DEF SlotsOf
    <3>. QED BY <3>1, <3>3
  <2>2. \A s \in B : s \in AllSlots(data) /\ s[1] = h
    <3>. SUFFICES ASSUME NEW s \in B PROVE s \in AllSlots(data) /\ s[1] = h
      OBVIOUS
    <3>1. data[h].type = DIRECTORY /\ s \in SlotsOf(h, data[h].length)
      BY Zenon
    <3>2. s = <<h, s[2]>> /\ s[2] \in 0..(data[h].length - 1) /\ s[1] = h
      BY <3>1 DEF SlotsOf
    <3>3. s[2] \in Nat /\ s[2] < data[h].length
      BY <1>1, <3>2
    <3>4. <<h, s[2]>> \in AllSlots(data)
      BY <1>1, <3>1, <3>3 DEF AllSlots
    <3>. QED BY <3>2, <3>4
  <2>. HIDE DEF B
  <2>. QED BY <2>1, <2>2 DEF SlotsIn
<1>5. A \cap B = {}
  <2>1. \A s \in A : s[1] \in W
    BY DEF SlotsIn
  <2>2. \A s \in B : s[1] = h
    BY DEF SlotsOf
  <2>. QED BY <2>1, <2>2
<1>6. IsFiniteSet(B) /\ Cardinality(B) = Pointers(data, h) /\ Pointers(data, h) \in Nat
  BY <1>1, SlotsOfFacts, FS_EmptySet DEF Pointers
<1>. HIDE DEF A, B
<1>7. Cardinality(A \cup B) = Cardinality(A) + Cardinality(B) - Cardinality(A \cap B)
  BY <1>2, <1>6, FS_Union DEF A
<1>8. Cardinality(A \cap B) = 0
  BY <1>5, FS_EmptySet, Zenon
<1>9. Cardinality(A) \in Nat
  BY <1>2 DEF A
<1>10. Cardinality(A \cup B) = Cardinality(A) + Pointers(data, h)
  BY <1>6, <1>7, <1>8, <1>9
<1>11. Cardinality(SlotsIn(data, W \cup {h})) = Cardinality(A) + Pointers(data, h)
  BY <1>4, <1>10, Zenon
<1>. QED BY <1>3, <1>6, <1>11, Zenon DEF A

----------------------------------------------------------------------------
(* The callers of writeDFS *)

LEMMA CallFacts ==
  /\ \A c \in CallRec : c.node \in Nat /\ c.at \in Nat /\ c.i \in Nat
  /\ \A n, a, i \in Nat : Call(n, a, i) \in CallRec
  /\ \A n, a, i : Call(n, a, i).node = n /\ Call(n, a, i).at = a /\ Call(n, a, i).i = i
  BY DEF CallRec, Call

LEMMA RootFacts ==
  ASSUME BaseInv
  PROVE  /\ Top(children) \in 0..Len(data)
         /\ Top(children) # 0 => /\ <<1, 0>> \in DOMAIN children /\ children[<<1, 0>>] = Top(children)
                       /\ Top(children) \in 2..Len(data)
<1>1. 1 \in 1..Len(data) /\ 0 \in Nat /\ Len(data) \in Nat
  BY BaseFacts
<1>2. /\ ChildOf(children, 1, 0) \in 0..Len(data)
      /\ ChildOf(children, 1, 0) # 0 => /\ <<1, 0>> \in DOMAIN children
                            /\ children[<<1, 0>>] = ChildOf(children, 1, 0) /\ 1 < ChildOf(children, 1, 0)
  BY <1>1, SlotFacts
<1>. QED BY <1>1, <1>2 DEF Top, HeadNode

\* The innermost caller.
LEMMA CallerFacts ==
  ASSUME BaseInv, Progress, calls # <<>>, NEW c, c = Last(calls), NEW n, n = Len(calls)
  PROVE  /\ n \in Nat /\ n \in 1..n /\ c = calls[n] /\ calls \in Seq(CallRec)
         /\ c \in CallRec /\ c.node \in Seen /\ c.at = headerAt[c.node]
         /\ c.node \in 2..Len(data) /\ c.node \in 1..Len(data)
         /\ c.i \in Nat /\ c.at \in Nat
         /\ data[c.node].type = DIRECTORY /\ c.i < data[c.node].length
<1>1. calls \in Seq(CallRec) /\ CallsOK(data, calls)
  BY DEF Progress, Callers, CallsOK
<1>2. n \in Nat \ {0} /\ c = calls[n] /\ c \in CallRec
  BY <1>1, PopFacts, Zenon
<1>3. n \in Nat /\ n \in 1..n
  BY <1>2
<1>4. c.node \in Seen /\ c.at = headerAt[c.node]
  BY <1>2, <1>3, Zenon DEF Progress, Callers, Seen
<1>5. data[c.node].type = DIRECTORY /\ c.i < data[c.node].length
  BY <1>1, <1>2, <1>3, Zenon DEF CallsOK
<1>6. c.node \in 2..Len(data)
  BY <1>4, Zenon DEF Progress, PcInv
<1>7. c.node \in 1..Len(data)
  BY <1>6, BaseFacts
<1>. QED BY <1>1, <1>2, <1>3, <1>4, <1>5, <1>6, <1>7, CallFacts, Zenon

\* A node that is entered was not written before.
LEMMA Entering ==
  ASSUME BaseInv, Progress, pc = "enter", node # 0
  PROVE  /\ node \in 2..Len(data) /\ node \notin Seen
         /\ calls # <<>> => /\ <<Last(calls).node, Last(calls).i>> \in DOMAIN children
                            /\ children[<<Last(calls).node, Last(calls).i>>] = node
<1>1. CASE calls = <<>>
  <2>1. Seen = {} /\ node = Top(children)
    BY <1>1 DEF Progress, PcInv
  <2>. QED BY <1>1, <2>1, RootFacts
<1>2. CASE calls # <<>>
  <2>. DEFINE c == Last(calls)
              n == Len(calls)
  <2>1. /\ n \in 1..n /\ c = calls[n] /\ c.node \in Seen /\ c.i \in Nat
        /\ c.node \in 2..Len(data) /\ c.node \in 1..Len(data)
    BY <1>2, CallerFacts
  <2>2. node = ChildOf(children, c.node, c.i)
    BY <1>2 DEF Progress, PcInv
  <2>. HIDE DEF c, n
  <2>3. /\ <<c.node, c.i>> \in DOMAIN children /\ children[<<c.node, c.i>>] = node
        /\ node \in 0..Len(data) /\ c.node < node
    BY <2>1, <2>2, SlotFacts, Zenon
  <2>4. node \in 2..Len(data)
    BY <2>1, <2>3, BaseFacts
  <2>5. ASSUME node \in Seen PROVE FALSE
    <3>1. CASE node = Top(children)
      <4>1. <<1, 0>> \in DOMAIN children /\ children[<<1, 0>>] = node
        BY <3>1, RootFacts
      <4>2. <<1, 0>> = <<c.node, c.i>>
        BY <2>3, <4>1, OneSlot
      <4>3. c.node = 1
        BY <4>2
      <4>. QED BY <2>1, <4>3
    <3>2. ASSUME NEW d \in Seen, NEW k \in Nat, <<d, k>> \in DOMAIN children,
                 children[<<d, k>>] = node, Behind(calls, TRUE, d, k)
          PROVE  FALSE
      <4>1. <<d, k>> = <<c.node, c.i>>
        BY <2>3, <3>2, OneSlot
      <4>2. d = c.node /\ k = c.i
        BY <4>1
      <4>3. k < calls[n].i \/ (k = calls[n].i /\ ~(TRUE /\ n = Len(calls)))
        BY <2>1, <3>2, <4>2, Zenon DEF Behind, n
      <4>4. calls[n].i = k /\ n = Len(calls)
        BY <2>1, <4>2 DEF n
      <4>. QED BY <4>3, <4>4
    <3>3. (pc = "enter") = TRUE
      OBVIOUS
    <3>4. EnteredOnce(children, Seen, calls, TRUE)
      BY <3>3, Zenon DEF Progress
    <3>. QED BY <2>5, <3>1, <3>2, <3>4, Zenon DEF EnteredOnce
  <2>. QED BY <2>3, <2>4, <2>5 DEF c
<1>. QED BY <1>1, <1>2

----------------------------------------------------------------------------
(* A header is added *)

LEMMA RecordedFacts ==
  ASSUME NEW A, A = Recorded, node \notin Seen
  PROVE  /\ DOMAIN A = Seen \cup {node} /\ A[node] = header_off
         /\ \A h \in Seen : h # node /\ A[h] = headerAt[h]
  BY DEF Recorded, Seen

LEMMA RoomAdded ==
  ASSUME BaseInv, Progress, Room, pc = "enter", node # 0,
         NEW W, W = Seen \cup {node}
  PROVE  /\ W \subseteq 2..Len(data) /\ IsFiniteSet(W) /\ IsFiniteSet(SlotsIn(data, W))
         /\ Pointers(data, node) \in Nat /\ header_off \in Nat /\ file_off \in Nat
         /\ header_off + 5 + Pointers(data, node) = 5 * Cardinality(W) + Cardinality(SlotsIn(data, W))
         /\ header_off + 5 + Pointers(data, node) <= find_header_size
         /\ header_off + 5 <= find_header_size
         /\ find_header_size <= file_off /\ find_header_size \in Nat
<1>1. Seen \subseteq 2..Len(data) /\ node \in 2..Len(data) /\ node \notin Seen
  BY Entering DEF Progress, PcInv
<1>2. W \subseteq 2..Len(data)
  BY <1>1
<1>3. /\ IsFiniteSet(W) /\ IsFiniteSet(SlotsIn(data, W))
      /\ Cardinality(W) \in Nat /\ Cardinality(SlotsIn(data, W)) \in Nat
      /\ 5 * Cardinality(W) + Cardinality(SlotsIn(data, W)) <= find_header_size
  BY <1>2, RoomFor
<1>4. /\ Pointers(data, node) \in Nat /\ Cardinality(W) = Cardinality(Seen) + 1
      /\ Cardinality(SlotsIn(data, W)) = Cardinality(SlotsIn(data, Seen)) + Pointers(data, node)
  BY <1>1, OneMore, Zenon
<1>5. Cardinality(Seen) \in Nat /\ Cardinality(SlotsIn(data, Seen)) \in Nat
  BY <1>1, RoomFor, Zenon
<1>6. /\ header_off = 5 * Cardinality(Seen) + Cardinality(SlotsIn(data, Seen))
      /\ find_header_size <= file_off /\ header_off \in Nat /\ file_off \in Nat
  BY DEF Room
<1>7. find_header_size \in Nat
  BY BaseFacts DEF find_header_size, M_HDR_SIZE, PTR_SIZE
<1>8. header_off + 5 + Pointers(data, node) = 5 * Cardinality(W) + Cardinality(SlotsIn(data, W))
  BY <1>4, <1>5, <1>6
<1>9. header_off + 5 <= find_header_size
  BY <1>3, <1>4, <1>6, <1>7, <1>8
<1>. QED BY <1>2, <1>3, <1>4, <1>6, <1>7, <1>8, <1>9

LEMMA ApartAdded ==
  ASSUME BaseInv, Progress, Room, Layout, pc = "enter", node # 0,
         NEW A, A = Recorded
  PROVE  Apart(data, A, header_off + 5 + Pointers(data, node))
<1>1. node \notin Seen /\ Pointers(data, node) \in Nat /\ header_off \in Nat
  BY Entering, RoomAdded, Zenon
<1>2. /\ DOMAIN A = Seen \cup {node} /\ A[node] = header_off
      /\ \A h \in Seen : h # node /\ A[h] = headerAt[h]
  BY <1>1, RecordedFacts
<1>3. /\ \A h \in Seen : headerAt[h] \in Nat /\ End(data, headerAt, h) <= header_off
      /\ \A g, h \in Seen : g # h =>
            End(data, headerAt, g) <= headerAt[h] \/ End(data, headerAt, h) <= headerAt[g]
  BY Zenon DEF Layout, Apart, Seen
<1>4. \A h \in Seen : End(data, A, h) = End(data, headerAt, h)
  BY <1>2 DEF End
<1>5. End(data, A, node) = header_off + 5 + Pointers(data, node)
  BY <1>2 DEF End
<1>6. \A h \in Seen : End(data, headerAt, h) \in Nat
  <2>1. \A h \in Seen : Pointers(data, h) \in Nat
    <3>1. \A h \in Seen : data[h].length \in Nat
      <4>1. \A h \in Seen : h \in 1..Len(data)
        <5>1. Len(data) \in Nat
          BY BaseFacts
        <5>. QED BY <5>1 DEF Progress, PcInv
      <4>. QED BY <4>1, BaseFacts
    <3>. QED BY <3>1 DEF Pointers
  <2>. QED BY <1>3, <2>1 DEF End
<1>7. \A h \in DOMAIN A : A[h] \in Nat /\ End(data, A, h) <= header_off + 5 + Pointers(data, node)
  <2>1. \A x \in Nat : x <= header_off => x <= header_off + 5 + Pointers(data, node)
    BY <1>1
  <2>2. header_off + 5 + Pointers(data, node) <= header_off + 5 + Pointers(data, node)
    BY <1>1
  <2>. QED BY <1>1, <1>2, <1>3, <1>4, <1>5, <1>6, <2>1, <2>2, Zenon
<1>8. ASSUME NEW g \in DOMAIN A, NEW h \in DOMAIN A, g # h
      PROVE  End(data, A, g) <= A[h] \/ End(data, A, h) <= A[g]
  BY <1>2, <1>3, <1>4, <1>8, Zenon
<1>. QED BY <1>7, <1>8, Zenon DEF Apart

LEMMA ProgressAdded ==
  ASSUME BaseInv, Progress, Room, pc = "enter", node # 0, NEW A, A = Recorded
  PROVE  /\ Callers(data, children, A, calls)
         /\ \A h \in Seen \cup {node} :
              \/ h = Top(children)
              \/ \E d \in Seen, k \in Nat : /\ <<d, k>> \in DOMAIN children
                                           /\ children[<<d, k>>] = h
                                           /\ Behind(calls, FALSE, d, k)
         /\ Top(children) \in DOMAIN A /\ A[Top(children)] = 0
<1>1. node \notin Seen
  BY Entering
<1>2. /\ DOMAIN A = Seen \cup {node} /\ A[node] = header_off
      /\ \A h \in Seen : h # node /\ A[h] = headerAt[h]
  BY <1>1, RecordedFacts
<1>3. Callers(data, children, A, calls)
  BY <1>2, Zenon DEF Progress, Callers, Seen
<1>4. EnteredOnce(children, Seen, calls, TRUE)
  <2>1. (pc = "enter") = TRUE
    OBVIOUS
  <2>. QED BY <2>1, Zenon DEF Progress
<1>5. \A d, k : Behind(calls, TRUE, d, k) => Behind(calls, FALSE, d, k)
  BY Zenon DEF Behind
<1>6. CASE calls = <<>>
  <2>1. Seen = {} /\ node = Top(children)
    BY <1>6 DEF Progress, PcInv
  <2>2. header_off = 0
    <3>1. header_off = 5 * Cardinality(Seen) + Cardinality(SlotsIn(data, Seen))
      BY DEF Room
    <3>2. Cardinality(Seen) = 0
      BY <2>1, FS_EmptySet, Zenon
    <3>3. SlotsIn(data, Seen) = {}
      BY <2>1, Zenon DEF SlotsIn
    <3>4. Cardinality(SlotsIn(data, Seen)) = 0
      BY <3>3, FS_EmptySet, Zenon
    <3>. QED BY <3>1, <3>2, <3>4
  <2>. QED BY <1>2, <1>3, <2>1, <2>2, Zenon
<1>7. CASE calls # <<>>
  <2>. DEFINE c == Last(calls)
              n == Len(calls)
  <2>1. n \in 1..n /\ c = calls[n] /\ c.node \in Seen /\ c.i \in Nat
    BY <1>7, CallerFacts
  <2>2. <<c.node, c.i>> \in DOMAIN children /\ children[<<c.node, c.i>>] = node
    BY <1>7, Entering
  <2>3. Behind(calls, FALSE, c.node, c.i)
    <3>1. \A j \in 1..n : calls[j].node = calls[n].node => j = n
      BY <2>1, Zenon DEF Progress, Callers, n
    <3>. QED BY <2>1, <3>1, Zenon DEF Behind, n
  <2>4. Top(children) \in Seen /\ headerAt[Top(children)] = 0
    BY <2>1 DEF Progress, PcInv
  <2>. HIDE DEF c, n
  <2>5. ASSUME NEW h \in Seen \cup {node}
        PROVE  \/ h = Top(children)
               \/ \E d \in Seen, k \in Nat : /\ <<d, k>> \in DOMAIN children
                                            /\ children[<<d, k>>] = h
                                            /\ Behind(calls, FALSE, d, k)
    <3>1. CASE h = node
      BY <2>1, <2>2, <2>3, <3>1, Zenon
    <3>2. CASE h \in Seen
      BY <1>4, <1>5, <3>2, Zenon DEF EnteredOnce
    <3>. QED BY <3>1, <3>2, Zenon
  <2>. QED BY <1>2, <1>3, <2>4, <2>5, Zenon
<1>. QED BY <1>6, <1>7, Zenon

\* J has what I had below a header at off, and between that and the files at f.
Beside(I, J, off, f) ==
  /\ Len(I) <= Len(J)
  /\ \A o \in Nat : o < Len(I) /\ (o < off \/ (off + 5 <= o /\ o < f))
       => Cell(J, o) = Cell(I, o)

\* Where an object that has been written lies.
LEMMA SeenFacts ==
  ASSUME BaseInv, Progress, Room, Layout, NEW h \in Seen
  PROVE  /\ h \in 1..Len(data) /\ data[h].length \in Nat /\ Pointers(data, h) \in Nat
         /\ data[h].type \in {DIRECTORY, PLAIN_FILE}
         /\ headerAt[h] \in Nat /\ headerAt[h] + 5 + Pointers(data, h) <= header_off
         /\ headerAt[h] + 5 <= Len(output) /\ HeaderIn(data, output, headerAt[h], h)
         /\ header_off \in Nat /\ file_off \in Nat /\ Len(output) \in Nat
         /\ Cell(output, headerAt[h] + OFFSET) \in Nat
         /\ data[h].type = PLAIN_FILE =>
              FileIn(data, output, headerAt, changed, find_header_size, file_off, h)
<1>1. Len(data) \in Nat /\ h \in 1..Len(data)
  <2>1. Len(data) \in Nat
    BY BaseFacts
  <2>. QED BY <2>1 DEF Progress, PcInv
<1>2. data[h].length \in Nat /\ data[h].type \in {DIRECTORY, PLAIN_FILE}
  BY <1>1, BaseFacts
<1>3. Pointers(data, h) \in Nat
  BY <1>2 DEF Pointers
<1>4. headerAt[h] \in Nat /\ headerAt[h] + 5 + Pointers(data, h) <= header_off
  BY Zenon DEF Layout, Apart, End, Seen
<1>5. /\ HeaderIn(data, output, headerAt[h], h) /\ output \in Seq(Nat)
      /\ data[h].type = PLAIN_FILE =>
           FileIn(data, output, headerAt, changed, find_header_size, file_off, h)
  BY Zenon DEF Layout, HeadersIn, FilesIn, Seen
<1>6. headerAt[h] + 5 <= Len(output) /\ Len(output) \in Nat
  BY <1>5 DEF HeaderIn
<1>7. header_off \in Nat /\ file_off \in Nat
  BY DEF Room
<1>8. Cell(output, headerAt[h] + OFFSET) \in Nat
  <2>1. headerAt[h] + OFFSET + 1 \in 1..Len(output)
    BY <1>4, <1>6 DEF OFFSET
  <2>. QED BY <1>5, <2>1, LenProperties DEF Cell
<1>. QED BY <1>1, <1>2, <1>3, <1>4, <1>5, <1>6, <1>7, <1>8

\* A header survives a write elsewhere.
LEMMA HeaderKept ==
  ASSUME NEW I, NEW J, NEW a \in Nat, NEW h, HeaderIn(data, I, a, h),
         Len(I) \in Nat, Len(J) \in Nat, Len(I) <= Len(J),
         \A o \in a..(a + 4) : Cell(J, o) = Cell(I, o)
  PROVE  HeaderIn(data, J, a, h) /\ Cell(J, a + OFFSET) = Cell(I, a + OFFSET)
<1>1. /\ a + NAME \in a..(a + 4) /\ a + LENGTH \in a..(a + 4) /\ a + TIME \in a..(a + 4)
      /\ a + OFFSET \in a..(a + 4) /\ a + TYPE \in a..(a + 4)
  BY DEF NAME, LENGTH, TIME, OFFSET, TYPE
<1>2. a + 5 <= Len(J)
  BY DEF HeaderIn
<1>. QED BY <1>1, <1>2, Zenon DEF HeaderIn

\* So does a file.
LEMMA FileKept ==
  ASSUME NEW I, NEW J, NEW A, NEW B, NEW C, NEW h, NEW lo \in Nat, NEW hi \in Nat,
         FileIn(data, I, A, C, lo, hi, h), A[h] = B[h], data[h].length \in Nat,
         Cell(I, A[h] + OFFSET) \in Nat, Cell(J, A[h] + OFFSET) = Cell(I, A[h] + OFFSET),
         Len(I) \in Nat, Len(J) \in Nat, Len(I) <= Len(J),
         \A o \in Nat : lo <= o /\ o < hi /\ o < Len(I) => Cell(J, o) = Cell(I, o)
  PROVE  FileIn(data, J, B, C, lo, hi, h)
<1>. DEFINE off == Cell(I, A[h] + OFFSET)
            len == data[h].length
<1>1. /\ lo <= off /\ off + len <= hi
      /\ FilesFitInt /\ h \notin C =>
           /\ len > 0 => off + len <= Len(I)
           /\ \A k \in 1..len : Cell(I, off + k - 1) = Content(h, len)[k]
  BY Zenon DEF FileIn
<1>2. off = Cell(J, B[h] + OFFSET)
  BY Zenon
<1>3. off \in Nat /\ len \in Nat
  OBVIOUS
<1>. HIDE DEF off, len
<1>4. ASSUME FilesFitInt, h \notin C
      PROVE  /\ len > 0 => off + len <= Len(J)
             /\ \A k \in 1..len : Cell(J, off + k - 1) = Content(h, len)[k]
  <2>1. len > 0 => off + len <= Len(I)
    BY <1>1, <1>4
  <2>2. len > 0 => off + len <= Len(J)
    BY <1>3, <2>1
  <2>3. \A k \in 1..len : /\ off + k - 1 \in Nat /\ lo <= off + k - 1
                          /\ off + k - 1 < hi /\ off + k - 1 < Len(I)
    BY <1>1, <1>3, <2>1
  <2>. QED BY <1>1, <1>4, <2>2, <2>3, Zenon
<1>. QED BY <1>1, <1>2, <1>4, Zenon DEF FileIn, len

\* What has been written before is still there after the next header, and after
\* the copy of the next file.
LEMMA LayoutAdded ==
  ASSUME BaseInv, Progress, Room, Layout, pc = "enter", node # 0,
         NEW A, A = Recorded, NEW J \in Seq(Nat), Beside(output, J, header_off, file_off)
  PROVE  /\ \A h \in Seen : HeaderIn(data, J, A[h], h)
         /\ \A d \in Seen : data[d].type = DIRECTORY =>
              \A k \in 0..(data[d].length - 1) :
                 Stored(calls, d, k) => PointerIn(children, J, A, d, k)
         /\ \A h \in Seen : data[h].type = PLAIN_FILE =>
              FileIn(data, J, A, changed, find_header_size, file_off, h)
<1>1. node \notin Seen
  BY Entering
<1>2. /\ DOMAIN A = Seen \cup {node}
      /\ \A h \in Seen : h # node /\ A[h] = headerAt[h]
  BY <1>1, RecordedFacts, Zenon
<1>3. /\ header_off \in Nat /\ file_off \in Nat /\ find_header_size \in Nat
      /\ header_off + 5 <= find_header_size /\ find_header_size <= file_off
  BY RoomAdded, Zenon
<1>4. Len(output) \in Nat /\ Len(J) \in Nat /\ Len(output) <= Len(J)
  BY LenProperties DEF Layout, Beside
<1>5. ASSUME NEW o \in Nat, o < header_off, o < Len(output)
      PROVE  Cell(J, o) = Cell(output, o)
  BY <1>5, Zenon DEF Beside
<1>6. ASSUME NEW o \in Nat, find_header_size <= o, o < file_off, o < Len(output)
      PROVE  Cell(J, o) = Cell(output, o)
  <2>1. header_off + 5 <= o
    BY <1>3, <1>6
  <2>. QED BY <1>6, <2>1, Zenon DEF Beside
<1>7. ASSUME NEW h \in Seen
      PROVE  /\ HeaderIn(data, J, A[h], h)
             /\ Cell(J, headerAt[h] + OFFSET) = Cell(output, headerAt[h] + OFFSET)
  <2>1. /\ headerAt[h] \in Nat /\ Pointers(data, h) \in Nat
        /\ headerAt[h] + 5 + Pointers(data, h) <= header_off
        /\ headerAt[h] + 5 <= Len(output) /\ HeaderIn(data, output, headerAt[h], h)
    BY SeenFacts
  <2>2. \A o \in headerAt[h]..(headerAt[h] + 4) :
           o \in Nat /\ o < header_off /\ o < Len(output)
    <3>1. \A a, m, t, l \in Nat : a + 5 + m <= t /\ a + 5 <= l =>
             \A o \in a..(a + 4) : o \in Nat /\ o < t /\ o < l
      OBVIOUS
    <3>. QED BY <1>3, <1>4, <2>1, <3>1, Zenon
  <2>3. \A o \in headerAt[h]..(headerAt[h] + 4) : Cell(J, o) = Cell(output, o)
    BY <1>5, <2>2, Zenon
  <2>4. /\ HeaderIn(data, J, headerAt[h], h)
        /\ Cell(J, headerAt[h] + OFFSET) = Cell(output, headerAt[h] + OFFSET)
    BY <1>4, <2>1, <2>3, HeaderKept, Zenon
  <2>. QED BY <1>2, <2>4, Zenon
<1>8. ASSUME NEW d \in Seen, data[d].type = DIRECTORY,
             NEW k \in 0..(data[d].length - 1), Stored(calls, d, k)
      PROVE  PointerIn(children, J, A, d, k)
  <2>1. /\ <<d, k>> \in DOMAIN children /\ children[<<d, k>>] \in Seen
        /\ headerAt[d] + 5 + k < Len(output)
        /\ Cell(output, headerAt[d] + 5 + k) = headerAt[children[<<d, k>>]]
    BY <1>8, Zenon DEF Layout, PointersIn, PointerIn, Seen
  <2>2. /\ headerAt[d] \in Nat /\ data[d].length \in Nat /\ Pointers(data, d) = data[d].length
        /\ headerAt[d] + 5 + Pointers(data, d) <= header_off
    BY <1>8, SeenFacts DEF Pointers
  <2>3. headerAt[d] + 5 + k \in Nat /\ headerAt[d] + 5 + k < header_off
    <3>1. \A a, b, l, t \in Nat : b \in 0..(l - 1) /\ a + 5 + l <= t
             => a + 5 + b \in Nat /\ a + 5 + b < t
      OBVIOUS
    <3>2. k \in Nat
      BY <2>2
    <3>. QED BY <1>3, <2>2, <3>1, <3>2, Zenon
  <2>4. Cell(J, headerAt[d] + 5 + k) = headerAt[children[<<d, k>>]]
    BY <1>5, <2>1, <2>3, Zenon
  <2>5. headerAt[d] + 5 + k < Len(J)
    BY <1>4, <2>1, <2>3
  <2>. QED BY <1>2, <2>1, <2>4, <2>5, Zenon DEF PointerIn
<1>9. ASSUME NEW h \in Seen, data[h].type = PLAIN_FILE
      PROVE  FileIn(data, J, A, changed, find_header_size, file_off, h)
  <2>1. /\ FileIn(data, output, headerAt, changed, find_header_size, file_off, h)
        /\ data[h].length \in Nat /\ Cell(output, headerAt[h] + OFFSET) \in Nat
    BY <1>9, SeenFacts
  <2>2. headerAt[h] = A[h]
    BY <1>2, Zenon
  <2>. QED BY <1>3, <1>4, <1>6, <1>7, <2>1, <2>2, FileKept, Zenon
<1>. QED BY <1>7, <1>8, <1>9, Zenon

----------------------------------------------------------------------------
(* The steps that write headers *)

\* The frame of every step that writes.
LEMMA TreeFixed ==
  ASSUME UNCHANGED vars
  PROVE  /\ data' = data /\ children' = children /\ phase' = phase
         /\ find_header_size' = find_header_size /\ Top(children)' = Top(children)
         /\ Seen' = DOMAIN headerAt'
  BY DEF vars, find_header_size, Seen

\* Nothing is written yet.
LEMMA NothingWritten ==
  ASSUME NEW A, DOMAIN A = {}
  PROVE  /\ \A D, t : Apart(D, A, t)
         /\ \A D, I : HeadersIn(D, I, A)
         /\ \A D, C, I, cs : PointersIn(D, C, I, A, cs)
         /\ \A D, I, X, lo, hi : FilesIn(D, I, A, X, lo, hi)
         /\ \A D, C : Callers(D, C, A, <<>>)
         /\ \A C, e : EnteredOnce(C, DOMAIN A, <<>>, e)
         /\ \A D : SlotsIn(D, DOMAIN A) = {}
<1>1. \A D, C : Callers(D, C, A, <<>>)
  BY DEF Callers, CallsOK
<1>. QED
  BY <1>1, Zenon DEF Apart, HeadersIn, PointersIn, FilesIn, EnteredOnce, SlotsIn

\* The walk, and the call of imageDFS.
LEMMA IdleSteps ==
  ASSUME BaseInv, BaseInv', ImageInv, pc = "idle",
         \/ UNCHANGED <<pc, node, calls, header_off, file_off, output, headerAt, changed>>
         \/ imageDFS
  PROVE  ImageInv'
<1>1. /\ calls = <<>> /\ DOMAIN headerAt = {} /\ output = <<>> /\ node = 0
      /\ header_off \in Nat /\ file_off \in Nat /\ changed \subseteq {}
  BY Zenon DEF ImageInv, Progress, PcInv, Room, Seen
<1>2. /\ calls' = <<>> /\ headerAt' = headerAt /\ output' = <<>> /\ changed' = changed
  BY <1>1 DEF imageDFS
<1>3. /\ DOMAIN headerAt' = {} /\ Seen' = {} /\ SlotsIn(data', {}) = {}
      /\ Apart(data', headerAt', header_off') /\ HeadersIn(data', output', headerAt')
      /\ PointersIn(data', children', output', headerAt', calls')
      /\ FilesIn(data', output', headerAt', changed', find_header_size', file_off')
      /\ Callers(data', children', headerAt', calls')
      /\ EnteredOnce(children', Seen', calls', (pc = "enter")')
  BY <1>1, <1>2, NothingWritten, Zenon DEF Seen
<1>4. Layout'
  <2>1. output' \in Seq(Nat)
    BY <1>2
  <2>. QED BY <1>3, <2>1 DEF Layout
<1>5. find_header_size \in Nat /\ Len(data') \in Nat
  <2>1. find_header_size \in Nat
    BY BaseFacts DEF find_header_size, M_HDR_SIZE, PTR_SIZE
  <2>2. data' \in Seq(HeaderRec)
    BY Zenon DEF BaseInv, TypeInv, TypeOK, HeaderRec
  <2>. QED BY <2>1, <2>2, LenProperties
<1>6. CASE UNCHANGED <<pc, node, calls, header_off, file_off, output, headerAt, changed>>
  <2>1. Progress'
    <3>1. node' \in 0..Len(data')
      BY <1>1, <1>5, <1>6
    <3>. QED BY <1>1, <1>2, <1>3, <1>6, <3>1 DEF Progress, PcInv
  <2>2. Room'
    BY <1>1, <1>3, <1>6, FS_EmptySet DEF Room
  <2>. QED BY <1>4, <2>1, <2>2 DEF ImageInv
<1>7. CASE imageDFS
  <2>1. /\ data' = data /\ children' = children /\ phase' = phase
        /\ find_header_size' = find_header_size /\ Top(children)' = Top(children)
    BY <1>7, TreeFixed DEF imageDFS
  <2>2. /\ phase = "image" /\ header_off' = 0 /\ file_off' = find_header_size
        /\ node' = Top(children) /\ pc' = "enter"
    BY <1>7 DEF imageDFS, Top, ChildOf, Child, Uninitialised
  <2>3. node' \in 0..Len(data)
    BY <2>2, RootFacts, Zenon
  <2>4. Progress'
    BY <1>1, <1>2, <1>3, <2>1, <2>2, <2>3 DEF Progress, PcInv
  <2>5. Room'
    <3>1. IsFiniteSet({}) /\ Cardinality({}) = 0
      BY FS_EmptySet
    <3>2. find_header_size <= find_header_size /\ 0 = 5 * 0 + 0 /\ 0 \in Nat
      BY <1>5
    <3>. QED BY <1>3, <1>5, <2>1, <2>2, <3>1, <3>2, Zenon DEF Room
  <2>. QED BY <1>4, <2>4, <2>5 DEF ImageInv
<1>. QED BY <1>6, <1>7

\* A node without children of its own has been written.
LEMMA ProgressReturned ==
  ASSUME BaseInv, Progress, Room, pc = "enter", node # 0, UNCHANGED vars,
         headerAt' = Recorded, pc' = "return", UNCHANGED <<node, calls>>,
         changed' \subseteq Seen \cup {node}
  PROVE  Progress'
<1>1. /\ data' = data /\ children' = children /\ phase' = phase
      /\ Top(children)' = Top(children) /\ Seen' = DOMAIN headerAt'
  BY TreeFixed
<1>2. node \in 2..Len(data) /\ node \notin Seen
  BY Entering
<1>3. Seen' = Seen \cup {node}
  BY <1>1, <1>2, RecordedFacts, Zenon
<1>4. /\ Callers(data, children, headerAt', calls)
      /\ \A h \in Seen \cup {node} :
           \/ h = Top(children)
           \/ \E d \in Seen, k \in Nat : /\ <<d, k>> \in DOMAIN children
                                        /\ children[<<d, k>>] = h
                                        /\ Behind(calls, FALSE, d, k)
      /\ Top(children) \in DOMAIN headerAt' /\ headerAt'[Top(children)] = 0
  BY ProgressAdded, Zenon
<1>5. EnteredOnce(children, Seen \cup {node}, calls, FALSE)
  BY <1>4, Zenon DEF EnteredOnce
<1>6. (pc' = "enter") = FALSE
  OBVIOUS
<1>7. PcInv'
  <2>1. /\ phase = "image" /\ Seen \subseteq 2..Len(data)
        /\ calls # <<>> => node = ChildOf(children, Last(calls).node, Last(calls).i)
        /\ node \in 0..Len(data)
    BY DEF Progress, PcInv
  <2>2. Seen' \subseteq 2..Len(data)
    BY <1>2, <1>3, <2>1
  <2>3. node' \in Seen'
    BY <1>3
  <2>. QED BY <1>1, <1>3, <1>4, <2>1, <2>2, <2>3 DEF PcInv
<1>. QED BY <1>1, <1>3, <1>4, <1>5, <1>6, <1>7, Zenon DEF Progress

LEMMA PushCall ==
  ASSUME NEW cs \in Seq(CallRec), NEW c \in CallRec, NEW ds, ds = Append(cs, c)
  PROVE  /\ ds # <<>> /\ Last(ds) = c
         /\ ds \in Seq(CallRec) /\ Len(cs) \in Nat /\ Len(ds) = Len(cs) + 1
         /\ ds[Len(cs) + 1] = c /\ \A j \in 1..Len(cs) : ds[j] = cs[j]
<1>1. /\ ds \in Seq(CallRec) /\ Len(cs) \in Nat /\ Len(ds) = Len(cs) + 1
      /\ ds[Len(cs) + 1] = c /\ \A j \in 1..Len(cs) : ds[j] = cs[j]
  BY PushFacts
<1>2. ds # <<>>
  OBVIOUS
<1>. QED BY <1>1, <1>2 DEF Last

LEMMA CallersPushed ==
  ASSUME NEW D, NEW C, NEW A, NEW cs, NEW ds, NEW c, Callers(D, C, A, cs),
         ds \in Seq(CallRec), Len(cs) \in Nat, Len(ds) = Len(cs) + 1,
         ds[Len(cs) + 1] = c, \A j \in 1..Len(cs) : ds[j] = cs[j],
         c.node \in DOMAIN A, c.node \in 1..Len(D), D[c.node].type = DIRECTORY,
         c.at = A[c.node], c.i < D[c.node].length,
         \A j \in 1..Len(cs) : cs[j].node # c.node,
         cs # <<>> => c.node = ChildOf(C, Last(cs).node, Last(cs).i)
  PROVE  Callers(D, C, A, ds)
<1>1. cs \in Seq(CallRec) /\ CallsOK(D, cs)
  BY DEF Callers, CallsOK
<1>5. \A j \in 1..Len(ds) : j \in 1..Len(cs) \/ j = Len(cs) + 1
  OBVIOUS
<1>6. CallsOK(D, ds)
  BY <1>1, <1>5, Zenon DEF CallsOK
<1>7. ASSUME NEW j \in 1..Len(ds) PROVE ds[j].node \in DOMAIN A /\ ds[j].at = A[ds[j].node]
  <2>1. CASE j \in 1..Len(cs)
    BY <2>1, Zenon DEF Callers
  <2>2. CASE j = Len(cs) + 1
    BY <2>2, Zenon
  <2>. QED BY <1>5, <2>1, <2>2
<1>8. ASSUME NEW j \in 1..Len(ds), NEW l \in 1..Len(ds), ds[j].node = ds[l].node
      PROVE  j = l
  <2>1. \A k \in 1..Len(cs) : ds[k].node # c.node
    BY Zenon
  <2>2. ds[Len(cs) + 1].node = c.node
    BY Zenon
  <2>3. CASE j \in 1..Len(cs) /\ l \in 1..Len(cs)
    <3>1. ds[j] = cs[j] /\ ds[l] = cs[l]
      BY <2>3, Zenon
    <3>2. cs[j].node = cs[l].node
      BY <1>8, <3>1, Zenon
    <3>. QED BY <2>3, <3>2, Zenon DEF Callers
  <2>4. CASE j \in 1..Len(cs) /\ l = Len(cs) + 1
    BY <1>8, <2>1, <2>2, <2>4, Zenon
  <2>5. CASE j = Len(cs) + 1 /\ l \in 1..Len(cs)
    BY <1>8, <2>1, <2>2, <2>5, Zenon
  <2>. QED BY <1>5, <2>3, <2>4, <2>5, Zenon
<1>9. ASSUME NEW j \in 2..Len(ds)
      PROVE  ds[j].node = ChildOf(C, ds[j - 1].node, ds[j - 1].i)
  <2>1. CASE j = Len(cs) + 1
    <3>1. Len(cs) \in 1..Len(cs) /\ j - 1 = Len(cs)
      BY <2>1
    <3>2. cs # <<>>
      BY <1>1, <3>1
    <3>3. ds[j - 1] = Last(cs)
      BY <1>1, <3>1, <3>2, PopFacts, Zenon
    <3>. QED BY <2>1, <3>2, <3>3, Zenon
  <2>2. CASE j # Len(cs) + 1
    <3>1. j \in 2..Len(cs) /\ j \in 1..Len(cs) /\ j - 1 \in 1..Len(cs)
      BY <2>2
    <3>2. cs[j].node = ChildOf(C, cs[j - 1].node, cs[j - 1].i)
      BY <3>1, Zenon DEF Callers
    <3>3. ds[j] = cs[j] /\ ds[j - 1] = cs[j - 1]
      BY <3>1, Zenon
    <3>. QED BY <3>2, <3>3, Zenon
  <2>. QED BY <2>1, <2>2
<1>. QED BY <1>6, <1>7, <1>8, <1>9, Zenon DEF Callers

\* A directory has been written and its first child is entered.
LEMMA ProgressDown ==
  ASSUME BaseInv, Progress, Room, pc = "enter", node # 0, UNCHANGED vars,
         data[node].type = DIRECTORY, data[node].length # 0,
         headerAt' = Recorded, pc' = "enter",
         NEW c \in CallRec, c.node = node, c.at = header_off, c.i = 0,
         calls' = Append(calls, c), node' = Child(node, 0), UNCHANGED changed
  PROVE  /\ Progress' /\ \A d \in Seen : \A k : Stored(calls', d, k) => Stored(calls, d, k)
         /\ \A k \in Nat : ~Stored(calls', node, k)
<1>1. /\ data' = data /\ children' = children /\ phase' = phase
      /\ Top(children)' = Top(children) /\ Seen' = DOMAIN headerAt'
  BY TreeFixed
<1>2. node \in 2..Len(data) /\ node \notin Seen
  BY Entering
<1>3. /\ Seen' = Seen \cup {node} /\ headerAt'[node] = header_off
  BY <1>1, <1>2, RecordedFacts, Zenon
<1>4. /\ Callers(data, children, headerAt', calls)
      /\ \A h \in Seen \cup {node} :
           \/ h = Top(children)
           \/ \E d \in Seen, k \in Nat : /\ <<d, k>> \in DOMAIN children
                                        /\ children[<<d, k>>] = h
                                        /\ Behind(calls, FALSE, d, k)
      /\ Top(children) \in DOMAIN headerAt' /\ headerAt'[Top(children)] = 0
  BY ProgressAdded, Zenon
<1>5. /\ node \in 1..Len(data) /\ node \in Nat /\ header_off \in Nat
      /\ data[node].length \in Nat /\ 0 < data[node].length
  <2>1. Len(data) \in Nat
    BY BaseFacts
  <2>2. node \in 1..Len(data) /\ node \in Nat
    BY <1>2, <2>1
  <2>3. data[node].length \in Nat
    BY <2>2, BaseFacts
  <2>. QED BY <2>2, <2>3 DEF Room
<1>6. /\ phase = "image" /\ Seen \subseteq 2..Len(data)
      /\ calls # <<>> => node = ChildOf(children, Last(calls).node, Last(calls).i)
      /\ changed \subseteq Seen
  BY DEF Progress, PcInv
<1>7. \A j \in 1..Len(calls) : calls[j].node \in Seen
  BY Zenon DEF Progress, Callers, Seen
<1>. DEFINE n == Len(calls)
<1>8. /\ c.node = node /\ c.at = headerAt'[node] /\ c.i = 0
      /\ calls' # <<>> /\ Last(calls') = c /\ calls' \in Seq(CallRec)
      /\ n \in Nat /\ Len(calls') = n + 1
      /\ calls'[n + 1] = c /\ \A j \in 1..n : calls'[j] = calls[j]
  <2>1. calls \in Seq(CallRec) /\ 0 \in Nat
    BY DEF Progress, Callers, CallsOK
  <2>2. /\ calls' # <<>> /\ Last(calls') = c /\ calls' \in Seq(CallRec)
        /\ n \in Nat /\ Len(calls') = n + 1
        /\ calls'[n + 1] = c /\ \A j \in 1..n : calls'[j] = calls[j]
    BY <2>1 DEF Last
  <2>. QED BY <1>3, <2>2, Zenon
<1>. HIDE DEF n
<1>9. Callers(data, children, headerAt', calls')
  <2>1. node \in DOMAIN headerAt' /\ 0 \in Nat /\ headerAt'[node] \in Nat
    BY <1>1, <1>3, <1>5
  <2>2. \A j \in 1..Len(calls) : calls[j].node # node
    BY <1>2, <1>7
  <2>3. /\ c.node \in DOMAIN headerAt' /\ c.node \in 1..Len(data)
        /\ data[c.node].type = DIRECTORY /\ c.at = headerAt'[c.node]
        /\ c.i < data[c.node].length /\ \A j \in 1..Len(calls) : calls[j].node # c.node
    BY <1>5, <1>8, <2>1, <2>2
  <2>4. calls # <<>> => c.node = ChildOf(children, Last(calls).node, Last(calls).i)
    BY <1>6
  <2>5. /\ calls' \in Seq(CallRec) /\ Len(calls) \in Nat /\ Len(calls') = Len(calls) + 1
        /\ calls'[Len(calls) + 1] = c /\ \A j \in 1..Len(calls) : calls'[j] = calls[j]
    BY <1>8, Zenon DEF n
  <2>. QED BY <1>4, <2>3, <2>4, <2>5, CallersPushed, Zenon
<1>10. /\ n + 1 \in 1..Len(calls')
       /\ \A j \in 1..n : j \in 1..Len(calls') /\ j # Len(calls')
       /\ \A j \in 1..Len(calls') : j \in 1..n \/ j = n + 1
  BY <1>8
<1>11. ASSUME NEW d \in Seen, NEW k, Behind(calls, FALSE, d, k)
       PROVE  Behind(calls', TRUE, d, k)
  <2>. SUFFICES ASSUME NEW j \in 1..Len(calls'), calls'[j].node = d
                PROVE  k < calls'[j].i \/ (k = calls'[j].i /\ ~(TRUE /\ j = Len(calls')))
    BY Zenon DEF Behind
  <2>1. j \in 1..n
    BY <1>2, <1>8, <1>10, Zenon
  <2>. QED BY <1>8, <1>10, <1>11, <2>1, Zenon DEF Behind, n
<1>12. EnteredOnce(children, Seen', calls', TRUE)
  BY <1>3, <1>4, <1>11, Zenon DEF EnteredOnce
<1>13. (pc' = "enter") = TRUE
  OBVIOUS
<1>14. PcInv'
  <2>1. node' = ChildOf(children, node, 0)
    BY DEF Child, ChildOf, Uninitialised
  <2>2. node' \in 0..Len(data)
    <3>1. 0 \in Nat
      OBVIOUS
    <3>. QED BY <1>5, <2>1, <3>1, SlotFacts, Zenon
  <2>3. Seen' \subseteq 2..Len(data) /\ changed' \subseteq Seen'
    BY <1>2, <1>3, <1>6
  <2>. QED BY <1>1, <1>3, <1>4, <1>6, <1>8, <2>1, <2>2, <2>3 DEF PcInv
<1>15. Progress'
  BY <1>1, <1>9, <1>12, <1>13, <1>14, Zenon DEF Progress
<1>16. \A d \in Seen : \A k : Stored(calls', d, k) => Stored(calls, d, k)
  BY <1>8, <1>10, Zenon DEF Stored, n
<1>17. \A k \in Nat : ~Stored(calls', node, k)
  <2>1. \A k \in Nat : ~(k < 0)
    OBVIOUS
  <2>. QED BY <1>8, <1>10, <2>1, Zenon DEF Stored
<1>. QED BY <1>15, <1>16, <1>17

\* The header of node, and what was there before.
LEMMA LayoutWith ==
  ASSUME BaseInv, Progress, Room, Layout, pc = "enter", node # 0,
         NEW A, A = Recorded, NEW J \in Seq(Nat), Beside(output, J, header_off, file_off),
         HeaderIn(data, J, header_off, node),
         NEW cs, \A d \in Seen : \A k : Stored(cs, d, k) => Stored(calls, d, k),
         data[node].type = DIRECTORY =>
           \A k \in 0..(data[node].length - 1) : ~Stored(cs, node, k)
  PROVE  /\ HeadersIn(data, J, A) /\ PointersIn(data, children, J, A, cs)
         /\ DOMAIN A = Seen \cup {node} /\ A[node] = header_off
<1>1. node \notin Seen
  BY Entering
<1>2. DOMAIN A = Seen \cup {node} /\ A[node] = header_off
  BY <1>1, RecordedFacts, Zenon
<1>3. /\ \A h \in Seen : HeaderIn(data, J, A[h], h)
      /\ \A d \in Seen : data[d].type = DIRECTORY =>
           \A k \in 0..(data[d].length - 1) :
              Stored(calls, d, k) => PointerIn(children, J, A, d, k)
  BY LayoutAdded, Zenon
<1>4. HeadersIn(data, J, A)
  <2>. SUFFICES ASSUME NEW h \in DOMAIN A PROVE HeaderIn(data, J, A[h], h)
    BY Zenon DEF HeadersIn
  <2>1. CASE h = node
    BY <1>2, <2>1, Zenon
  <2>2. CASE h \in Seen
    BY <1>3, <2>2, Zenon
  <2>. QED BY <1>2, <2>1, <2>2, Zenon
<1>5. PointersIn(data, children, J, A, cs)
  <2>. SUFFICES ASSUME NEW d \in DOMAIN A, data[d].type = DIRECTORY,
                       NEW k \in 0..(data[d].length - 1), Stored(cs, d, k)
                PROVE  PointerIn(children, J, A, d, k)
    BY Zenon DEF PointersIn
  <2>1. CASE d = node
    BY <2>1, Zenon
  <2>2. CASE d \in Seen
    BY <1>3, <2>2, Zenon
  <2>. QED BY <1>2, <2>1, <2>2, Zenon
<1>. QED BY <1>2, <1>4, <1>5

\* What is known when writeDFS enters a node.
LEMMA NodeFacts ==
  ASSUME BaseInv, Progress, pc = "enter", node # 0
  PROVE  /\ node \in 1..Len(data) /\ node \in Nat /\ node \notin Seen
         /\ data[node].name \in Nat /\ data[node].length \in Nat /\ MTime(node) \in Nat
         /\ data[node].type = PLAIN_FILE => data[node].length \in FileSizes
<1>1. Len(data) \in Nat /\ node \in 2..Len(data) /\ node \notin Seen
  BY Entering, BaseFacts
<1>2. node \in 1..Len(data) /\ node \in Nat
  BY <1>1
<1>3. data[node].type = PLAIN_FILE => data[node].length \in FileSizes
  BY <1>2, Zenon DEF BaseInv, CountInv, SizesOK
<1>4. MTime(node) \in Nat
  BY <1>2 DEF MTime
<1>. QED BY <1>1, <1>2, <1>3, <1>4, BaseFacts

LEMMA WriteDirectoryStep ==
  ASSUME BaseInv, ImageInv, WriteDirectory
  PROVE  ImageInv'
<1>1. Progress /\ Room /\ Layout
  BY DEF ImageInv
<1>2. /\ pc = "enter" /\ node # 0 /\ data[node].type = DIRECTORY /\ UNCHANGED vars
      /\ headerAt' = Recorded /\ UNCHANGED <<file_off, changed>>
  BY DEF WriteDirectory, Uninitialised
<1>. DEFINE n == data[node].length
            cs == HeaderCells(data[node].name, n, MTime(node), header_off + 5, DIRECTORY)
<1>3. /\ output' = Put(output, header_off, cs)
      /\ header_off' = header_off + 5 + 1 * n
  BY DEF WriteDirectory, M_HDR_SIZE, PTR_SIZE
<1>4. /\ node \in 1..Len(data) /\ node \in Nat /\ node \notin Seen
      /\ data[node].name \in Nat /\ n \in Nat /\ MTime(node) \in Nat
  BY <1>1, <1>2, NodeFacts
<1>5. /\ Seen \cup {node} \subseteq 2..Len(data)
      /\ IsFiniteSet(Seen \cup {node}) /\ IsFiniteSet(SlotsIn(data, Seen \cup {node}))
      /\ header_off \in Nat /\ file_off \in Nat
      /\ header_off + 5 + Pointers(data, node)
           = 5 * Cardinality(Seen \cup {node}) + Cardinality(SlotsIn(data, Seen \cup {node}))
      /\ find_header_size <= file_off /\ find_header_size \in Nat
      /\ header_off + 5 <= find_header_size
  BY <1>1, <1>2, RoomAdded, Zenon
<1>6. /\ data' = data /\ children' = children /\ phase' = phase
      /\ find_header_size' = find_header_size /\ Seen' = DOMAIN headerAt'
  BY <1>2, TreeFixed
<1>7. Pointers(data, node) = n /\ header_off' = header_off + 5 + Pointers(data, node)
  <2>1. Pointers(data, node) = n
    BY <1>2, Zenon DEF Pointers
  <2>. QED BY <1>3, <1>4, <2>1
<1>8. cs \in Seq(Nat) /\ Len(cs) = 5 /\ cs[1] = data[node].name /\ cs[2] = n
      /\ cs[3] = MTime(node) /\ cs[4] = header_off + 5 /\ cs[5] = DIRECTORY
  <2>1. header_off + 5 \in Nat /\ DIRECTORY \in Nat
    BY <1>5 DEF DIRECTORY
  <2>. QED BY <1>4, <2>1 DEF HeaderCells
<1>. HIDE DEF cs
<1>9. /\ output' \in Seq(Nat) /\ Kept(output, output', header_off, header_off + 5)
      /\ FieldsIn(output', header_off, cs)
  <2>1. output \in Seq(Nat)
    BY <1>1 DEF Layout
  <2>2. output' = Put(output, header_off, cs)
    BY <1>3
  <2>3. header_off \in Nat /\ cs \in Seq(Nat) /\ Len(cs) = 5
    BY <1>5, <1>8, Zenon
  <2>. QED BY <2>1, <2>2, <2>3, HeaderPut, Zenon
<1>10. HeaderIn(data, output', header_off, node)
  BY <1>2, <1>8, <1>9, Zenon DEF HeaderIn, FieldsIn
<1>11. Beside(output, output', header_off, file_off)
  BY <1>9, Zenon DEF Kept, Beside
<1>12. Apart(data, headerAt', header_off')
  BY <1>1, <1>2, <1>7, ApartAdded, Zenon
<1>13. /\ Progress' /\ \A d \in Seen : \A k : Stored(calls', d, k) => Stored(calls, d, k)
       /\ \A k \in 0..(n - 1) : ~Stored(calls', node, k)
       /\ pc' # "idle"
  <2>1. CASE n = 0
    <3>1. pc' = "return" /\ UNCHANGED <<node, calls>>
      BY <2>1 DEF WriteDirectory
    <3>2. changed' \subseteq Seen \cup {node}
      BY <1>1, <1>2 DEF Progress, PcInv
    <3>3. Progress'
      BY <1>1, <1>2, <3>1, <3>2, ProgressReturned
    <3>4. 0..(n - 1) = {}
      BY <2>1
    <3>. QED BY <3>1, <3>3, <3>4
  <2>2. CASE n # 0
    <3>. DEFINE c == Call(node, header_off, 0)
    <3>1. /\ calls' = Append(calls, c) /\ node' = Child(node, 0) /\ pc' = "enter"
      BY <2>2 DEF WriteDirectory
    <3>2. c \in CallRec /\ c.node = node /\ c.at = header_off /\ c.i = 0
      BY <1>4, <1>5 DEF Call, CallRec
    <3>. HIDE DEF c
    <3>3. /\ Progress' /\ \A d \in Seen : \A k : Stored(calls', d, k) => Stored(calls, d, k)
          /\ \A k \in Nat : ~Stored(calls', node, k)
      BY <1>1, <1>2, <2>2, <3>1, <3>2, ProgressDown, Zenon
    <3>4. \A k \in 0..(n - 1) : k \in Nat
      BY <1>4
    <3>. QED BY <3>1, <3>3, <3>4, Zenon
  <2>. QED BY <2>1, <2>2
<1>14. /\ HeadersIn(data, output', headerAt')
       /\ PointersIn(data, children, output', headerAt', calls')
       /\ DOMAIN headerAt' = Seen \cup {node}
  BY <1>1, <1>2, <1>9, <1>10, <1>11, <1>13, LayoutWith, Zenon
<1>15. FilesIn(data, output', headerAt', changed, find_header_size, file_off)
  <2>1. \A h \in Seen : data[h].type = PLAIN_FILE =>
           FileIn(data, output', headerAt', changed, find_header_size, file_off, h)
    BY <1>1, <1>2, <1>9, <1>11, LayoutAdded, Zenon
  <2>2. data[node].type # PLAIN_FILE
    BY <1>2 DEF DIRECTORY, PLAIN_FILE
  <2>. QED BY <1>14, <2>1, <2>2, Zenon DEF FilesIn
<1>16. Layout'
  BY <1>2, <1>6, <1>9, <1>12, <1>14, <1>15 DEF Layout
<1>17. Room'
  <2>1. Seen' = Seen \cup {node}
    BY <1>6, <1>14, Zenon
  <2>2. header_off' \in Nat /\ file_off' \in Nat
    BY <1>2, <1>4, <1>5, <1>7
  <2>. QED BY <1>2, <1>5, <1>6, <1>7, <2>1, <2>2 DEF Room
<1>. QED BY <1>13, <1>16, <1>17 DEF ImageInv

\* A header, and then a file behind it.
LEMMA HeaderAndFilePut ==
  ASSUME NEW I \in Seq(Nat), NEW off \in Nat, NEW cs \in Seq(Nat), Len(cs) = 5,
         NEW f \in Nat, off + 5 <= f, NEW ct \in Seq(Nat),
         NEW K, K = Put(I, off, cs), NEW J, J = Put(K, f, ct)
  PROVE  /\ J \in Seq(Nat) /\ FieldsIn(J, off, cs) /\ Beside(I, J, off, f)
         /\ CellsIn(J, f, ct)
<1>1. K \in Seq(Nat) /\ Kept(I, K, off, off + 5) /\ FieldsIn(K, off, cs)
  BY HeaderPut, Zenon
<1>3. J \in Seq(Nat) /\ Kept(K, J, f, f + Len(ct)) /\ CellsIn(J, f, ct)
  BY <1>1, PutFacts, Zenon
<1>4. Len(I) \in Nat /\ Len(K) \in Nat /\ Len(J) \in Nat
  BY <1>1, <1>3, LenProperties
<1>5. Len(I) <= Len(K) /\ Len(K) <= Len(J)
  BY <1>1, <1>3, Zenon DEF Kept
<1>6. Len(I) <= Len(J)
  BY <1>4, <1>5
<1>7. ASSUME NEW o \in Nat, o < Len(K), o < f PROVE Cell(J, o) = Cell(K, o)
  BY <1>3, <1>7, Zenon DEF Kept
<1>8. FieldsIn(J, off, cs)
  <2>1. off + 5 <= Len(K)
    BY <1>1, Zenon DEF FieldsIn
  <2>2. \A x \in 0..4 : off + x \in Nat /\ off + x < Len(K) /\ off + x < f
    BY <1>4, <2>1
  <2>3. \A x \in 0..4 : Cell(J, off + x) = Cell(K, off + x)
    BY <1>7, <2>2, Zenon
  <2>4. NAME \in 0..4 /\ LENGTH \in 0..4 /\ TIME \in 0..4 /\ OFFSET \in 0..4 /\ TYPE \in 0..4
    BY DEF NAME, LENGTH, TIME, OFFSET, TYPE
  <2>5. off + 5 <= Len(J)
    BY <1>4, <1>5, <2>1
  <2>. QED BY <1>1, <2>3, <2>4, <2>5, Zenon DEF FieldsIn
<1>9. ASSUME NEW o \in Nat, o < Len(I), o < off \/ (off + 5 <= o /\ o < f)
      PROVE  Cell(J, o) = Cell(I, o)
  <2>1. o < Len(K) /\ o < f
    BY <1>4, <1>5, <1>9
  <2>2. Cell(J, o) = Cell(K, o)
    BY <1>7, <2>1
  <2>3. Cell(K, o) = Cell(I, o)
    BY <1>1, <1>9, Zenon DEF Kept
  <2>. QED BY <2>2, <2>3
<1>. QED BY <1>3, <1>6, <1>8, <1>9, Zenon DEF Beside

LEMMA FileWider ==
  ASSUME NEW I, NEW A, NEW X, NEW Y, X \subseteq Y, NEW lo, NEW hi \in Nat, NEW to \in Nat,
         hi <= to, NEW h, FileIn(data, I, A, X, lo, hi, h),
         data[h].length \in Nat, Cell(I, A[h] + OFFSET) \in Nat
  PROVE  FileIn(data, I, A, Y, lo, to, h)
<1>. DEFINE off == Cell(I, A[h] + OFFSET)
<1>1. \A o, l, a, b \in Nat : o + l <= a /\ a <= b => o + l <= b
  OBVIOUS
<1>2. off + data[h].length <= hi
  BY Zenon DEF FileIn
<1>3. off + data[h].length <= to
  BY <1>1, <1>2, Zenon
<1>4. h \notin Y => h \notin X
  OBVIOUS
<1>. QED BY <1>3, <1>4, Zenon DEF FileIn

LEMMA CopiedFacts ==
  ASSUME BaseInv, NEW h \in Nat, NEW actual \in FileSizes
  PROVE  /\ Copied(h, actual) \in Seq(Nat)
         /\ FilesFitInt /\ actual = data[h].length =>
              Copied(h, actual) = Content(h, actual) /\ Len(Copied(h, actual)) = actual
<1>1. actual \in Nat
  BY BuilderAssumption
<1>2. Content(h, actual) \in Seq(Nat) /\ Len(Content(h, actual)) = actual
  <2>1. Content(h, actual) \in [1..actual -> Nat]
    BY <1>1 DEF Content
  <2>. QED BY <1>1, <2>1
<1>3. CASE ToInt(data[h].length, IntBits) > 0
  BY <1>2, <1>3 DEF Copied
<1>4. CASE ~(ToInt(data[h].length, IntBits) > 0)
  <2>1. Copied(h, actual) = <<>>
    BY <1>4 DEF Copied
  <2>2. ASSUME FilesFitInt, actual = data[h].length PROVE Content(h, actual) = <<>>
    <3>1. ~(actual > 0)
      BY <1>4, <2>2 DEF FilesFitInt
    <3>2. Len(Content(h, actual)) = 0
      BY <1>1, <1>2, <3>1
    <3>. QED BY <1>2, <3>2, EmptySeq
  <2>3. <<>> \in Seq(Nat)
    OBVIOUS
  <2>. QED BY <1>2, <2>1, <2>2, <2>3, Zenon
<1>. QED BY <1>3, <1>4

LEMMA OffsetCell ==
  ASSUME NEW I \in Seq(Nat), NEW a \in Nat, a + 5 <= Len(I)
  PROVE  Cell(I, a + OFFSET) \in Nat
<1>1. a + OFFSET + 1 \in 1..Len(I)
  BY LenProperties DEF OFFSET
<1>. QED BY <1>1, LenProperties DEF Cell

LEMMA WriteFileStep ==
  ASSUME BaseInv, ImageInv, WriteFile
  PROVE  ImageInv'
<1>1. Progress /\ Room /\ Layout
  BY DEF ImageInv
<1>2. /\ pc = "enter" /\ node # 0 /\ data[node].type = PLAIN_FILE /\ UNCHANGED vars
      /\ headerAt' = Recorded /\ pc' = "return" /\ UNCHANGED <<node, calls>>
      /\ file_off' = file_off + data[node].length /\ header_off' = header_off + 5
  BY DEF WriteFile, Uninitialised, M_HDR_SIZE
<1>. DEFINE n == data[node].length
            cs == HeaderCells(data[node].name, n, MTime(node), file_off, PLAIN_FILE)
<1>3. PICK actual \in IF FilesChange THEN FileSizes ELSE {n} :
         /\ output' = Put(Put(output, header_off, cs), file_off, Copied(node, actual))
         /\ changed' = IF actual = n THEN changed ELSE changed \cup {node}
  BY DEF WriteFile
<1>4. /\ node \in 1..Len(data) /\ node \in Nat /\ node \notin Seen
      /\ data[node].name \in Nat /\ n \in Nat /\ MTime(node) \in Nat /\ n \in FileSizes
  BY <1>1, <1>2, NodeFacts
<1>5. actual \in FileSizes
  BY <1>4
<1>6. /\ Seen \cup {node} \subseteq 2..Len(data)
      /\ IsFiniteSet(Seen \cup {node}) /\ IsFiniteSet(SlotsIn(data, Seen \cup {node}))
      /\ header_off \in Nat /\ file_off \in Nat
      /\ header_off + 5 + Pointers(data, node)
           = 5 * Cardinality(Seen \cup {node}) + Cardinality(SlotsIn(data, Seen \cup {node}))
      /\ find_header_size <= file_off /\ find_header_size \in Nat
      /\ header_off + 5 <= find_header_size
  BY <1>1, <1>2, RoomAdded
<1>7. /\ data' = data /\ children' = children /\ phase' = phase
      /\ find_header_size' = find_header_size /\ Seen' = DOMAIN headerAt'
  BY <1>2, TreeFixed
<1>8. header_off' = header_off + 5 + Pointers(data, node)
  <2>1. Pointers(data, node) = 0
    BY <1>2 DEF Pointers, DIRECTORY, PLAIN_FILE
  <2>. QED BY <1>2, <1>6, <2>1
<1>9. cs \in Seq(Nat) /\ Len(cs) = 5 /\ cs[1] = data[node].name /\ cs[2] = n
      /\ cs[3] = MTime(node) /\ cs[4] = file_off /\ cs[5] = PLAIN_FILE
  <2>1. PLAIN_FILE \in Nat
    BY DEF PLAIN_FILE
  <2>. QED BY <1>4, <1>6, <2>1 DEF HeaderCells
<1>. DEFINE ct == Copied(node, actual)
            J == output'
            X == changed'
<1>10. /\ ct \in Seq(Nat)
       /\ FilesFitInt /\ actual = n => ct = Content(node, n) /\ Len(ct) = n
  BY <1>4, <1>5, CopiedFacts
<1>. HIDE DEF cs, ct
<1>11. /\ J \in Seq(Nat) /\ FieldsIn(J, header_off, cs)
       /\ Beside(output, J, header_off, file_off) /\ CellsIn(J, file_off, ct)
  <2>1. output \in Seq(Nat) /\ header_off + 5 <= file_off
    BY <1>1, <1>6 DEF Layout
  <2>2. PICK K : K = Put(output, header_off, cs)
    OBVIOUS
  <2>3. J = Put(K, file_off, ct)
    BY <1>3, <2>2, Zenon DEF ct
  <2>. HIDE DEF J
  <2>4. cs \in Seq(Nat) /\ Len(cs) = 5 /\ header_off \in Nat /\ file_off \in Nat
    BY <1>6, <1>9, Zenon
  <2>. QED BY <1>10, <2>1, <2>2, <2>3, <2>4, HeaderAndFilePut, Zenon
<1>12. X = IF actual = n THEN changed ELSE changed \cup {node}
  BY <1>3, Zenon
<1>13. DOMAIN headerAt' = Seen \cup {node} /\ headerAt'[node] = header_off
       /\ \A h \in Seen : headerAt'[h] = headerAt[h]
  BY <1>2, <1>4, RecordedFacts, Zenon
<1>14. changed \subseteq X /\ X \subseteq Seen \cup {node} /\ (actual # n => node \in X)
  BY <1>1, <1>12 DEF Progress, PcInv
<1>15. Progress'
  BY <1>1, <1>2, <1>14, ProgressReturned, Zenon
<1>16. Apart(data, headerAt', header_off')
  BY <1>1, <1>2, <1>8, ApartAdded, Zenon
<1>17. HeaderIn(data, J, header_off, node)
  <2>1. data[node].type # DIRECTORY
    BY <1>2 DEF DIRECTORY, PLAIN_FILE
  <2>. QED BY <1>2, <1>9, <1>11, <2>1, Zenon DEF HeaderIn, FieldsIn
<1>. HIDE DEF J, X
<1>19. /\ HeadersIn(data, J, headerAt')
       /\ PointersIn(data, children, J, headerAt', calls)
  <2>1. data[node].type # DIRECTORY
    BY <1>2 DEF DIRECTORY, PLAIN_FILE
  <2>. QED BY <1>1, <1>2, <1>11, <1>17, <2>1, LayoutWith, Zenon
<1>20. FilesIn(data, J, headerAt', X, find_header_size, file_off')
  <2>1. file_off + n \in Nat /\ file_off <= file_off + n
    BY <1>4, <1>6
  <2>2. ASSUME NEW h \in Seen, data[h].type = PLAIN_FILE
        PROVE  FileIn(data, J, headerAt', X, find_header_size, file_off', h)
    <3>1. FileIn(data, J, headerAt', changed, find_header_size, file_off, h)
      BY <1>1, <1>2, <1>11, <2>2, LayoutAdded, Zenon
    <3>2. data[h].length \in Nat /\ headerAt[h] \in Nat
      BY <1>1, SeenFacts
    <3>3. headerAt'[h] + 5 <= Len(J)
      BY <1>13, <1>19, Zenon DEF HeadersIn, HeaderIn
    <3>4. headerAt'[h] \in Nat
      BY <1>13, <3>2, Zenon
    <3>5. Cell(J, headerAt'[h] + OFFSET) \in Nat
      BY <1>11, <3>3, <3>4, OffsetCell, Zenon
    <3>6. file_off' = file_off + n /\ file_off \in Nat /\ changed \subseteq X
      BY <1>2, <1>6, <1>14, ZenonT(60)
    <3>7. FileIn(data, J, headerAt', X, find_header_size, file_off + n, h)
      BY <2>1, <3>1, <3>2, <3>5, <3>6, FileWider
    <3>. QED BY <3>6, <3>7, Zenon
  <2>3. FileIn(data, J, headerAt', X, find_header_size, file_off', node)
    <3>1. Cell(J, headerAt'[node] + OFFSET) = file_off
      BY <1>9, <1>11, <1>13, Zenon DEF FieldsIn
    <3>2. file_off' = file_off + n /\ file_off + n <= file_off + n
      BY <1>2, <2>1
    <3>3. ASSUME FilesFitInt, node \notin X
          PROVE  /\ n > 0 => file_off + n <= Len(J)
                 /\ \A k \in 1..n : Cell(J, file_off + k - 1) = Content(node, n)[k]
      <4>1. ct = Content(node, n) /\ Len(ct) = n
        BY <1>10, <1>14, <3>3, Zenon
      <4>2. n > 0 => ct # <<>>
        BY <4>1
      <4>. QED BY <1>11, <4>1, <4>2, Zenon DEF CellsIn
    <3>. QED BY <1>6, <3>1, <3>2, <3>3, Zenon DEF FileIn
  <2>. QED BY <1>13, <2>2, <2>3, Zenon DEF FilesIn
<1>21. Layout'
  BY <1>2, <1>7, <1>11, <1>16, <1>19, <1>20, ZenonT(60) DEF Layout, J, X
<1>22. Room'
  <2>1. Seen' = Seen \cup {node}
    BY <1>7, <1>13, Zenon
  <2>2. header_off' \in Nat /\ file_off' \in Nat /\ find_header_size <= file_off'
    BY <1>2, <1>4, <1>6
  <2>. QED BY <1>6, <1>7, <1>8, <2>1, <2>2 DEF Room
<1>. QED BY <1>15, <1>21, <1>22 DEF ImageInv

==============================================================================
