---------------------------- MODULE MasterProofs ----------------------------
(***************************************************************************)
(* master as a whole: the walk of TreeBuilder, then imageDFS and writeDFS. *)
(*                                                                         *)
(* What is proved of the callback s_builder holds in the whole program:    *)
(* imageDFS and writeDFS read the tree and the counters and change none of *)
(* them, so a run of master, seen through the variables of TreeBuilder, is *)
(* a run of the walk that stutters once the walk is over.                  *)
(*                                                                         *)
(* Then the pointers: storing one preserves the invariant of               *)
(* ImageInvariant too, so every step does, and the image is right when it  *)
(* is closed.  Last comes that the image of an ordinary source holds it:   *)
(* the contract Encodes, from what ImageInvariant says of single headers.  *)
(***************************************************************************)
EXTENDS ImageInvariant

\* The provers that a step is given to, in this order, when it names none.
USE SMTT(15), Zenon, SMTT(60), ZenonT(60)

LEMMA StepsOfMaster == [WNext]_allVars => [Next]_vars
<1>. SUFFICES ASSUME [WNext]_allVars PROVE [Next]_vars
  OBVIOUS
<1>1. CASE Walk
  BY <1>1 DEF Walk, Next
<1>2. CASE Unlock
  BY <1>2 DEF Next
<1>3. CASE Write
  BY <1>3 DEF Write, imageDFS, WriteFile, WriteDirectory, StorePointer, CloseImage
<1>4. CASE Derail
  BY <1>4 DEF Derail
<1>5. CASE Ended \/ UNCHANGED allVars
  BY <1>5 DEF Ended, allVars
<1>. QED
  BY <1>1, <1>2, <1>3, <1>4, <1>5 DEF WNext

\* The whole of master implements the walk: writing the image never adds a
\* header, fills a slot or moves a counter of s_builder.
THEOREM MasterImplementsWalk == WSpec => Spec
<1>1. WInit => Init
  BY DEF WInit
<1>. QED
  BY <1>1, StepsOfMaster, PTL DEF WSpec, Spec

\* At every moment of mastering, also while writeDFS follows the tree of a
\* source that misbehaved during the walk, the slots are in bounds, each
\* header hangs in one slot only, and parents are older than their children:
\* the recursion of writeDFS is over a finite tree.
THEOREM MasterSlotsInBounds == WSpec => []SlotsInBounds
  BY MasterImplementsWalk, SlotsAlwaysInBounds, PTL

\* Mastering an ordinary source of any size and shape: writeDFS meets no
\* uninitialised slot and leaves no object out, what it finds in a slot is
\* what the source has there, and find_header_size has reserved one header for
\* each object and one pointer for each but the root.
THEOREM MasterImagesOrdinarySource ==
  ASSUME OrdinarySource
  PROVE  WSpec => [](/\ TreeMatchesSource /\ EverySlotFilled
                     /\ EveryObjectImaged /\ HeaderSizeExact)
  BY OrdinarySource, MasterImplementsWalk, OrdinarySourceImaged,
     OrdinarySourceSized, PTL

----------------------------------------------------------------------------
(* Pointers *)

\* The headers and pointers end below the files.
LEMMA HeadersBelow ==
  ASSUME BaseInv, Progress, Room, pc # "idle"
  PROVE  header_off <= find_header_size /\ find_header_size \in Nat
<1>1. 5 * Cardinality(Seen) + Cardinality(SlotsIn(data, Seen)) <= find_header_size
  BY RoomFor, Zenon DEF Progress, PcInv
<1>2. header_off = 5 * Cardinality(Seen) + Cardinality(SlotsIn(data, Seen))
  BY Zenon DEF Room
<1>3. find_header_size \in Nat
  BY BaseFacts DEF find_header_size, M_HDR_SIZE, PTR_SIZE
<1>. QED BY <1>1, <1>2, <1>3, Zenon

\* A pointer is stored: where it goes, nothing else has been put.
LEMMA PointerStored ==
  ASSUME BaseInv, Progress, Room, Layout, pc # "idle",
         NEW d \in Seen, data[d].type = DIRECTORY, NEW i \in Nat, i < data[d].length,
         <<d, i>> \in DOMAIN children, children[<<d, i>>] \in Seen,
         NEW P, P = headerAt[d] + 5 + i,
         NEW J \in Seq(Nat), Kept(output, J, P, P + 1), P < Len(J),
         Cell(J, P) = headerAt[children[<<d, i>>]]
  PROVE  /\ HeadersIn(data, J, headerAt)
         /\ FilesIn(data, J, headerAt, changed, find_header_size, file_off)
         /\ \A e \in Seen : data[e].type = DIRECTORY =>
              \A k \in 0..(data[e].length - 1) :
                 (e = d /\ k = i) \/ Stored(calls, e, k) => PointerIn(children, J, headerAt, e, k)
<1>1. /\ headerAt[d] \in Nat /\ data[d].length \in Nat /\ header_off \in Nat /\ file_off \in Nat
      /\ headerAt[d] + 5 + data[d].length <= header_off /\ Len(output) \in Nat
  BY SeenFacts, Zenon DEF Pointers
<1>2. Len(J) \in Nat /\ Len(output) <= Len(J) /\ P \in Nat /\ P < header_off
  <2>1. Len(J) \in Nat
    BY LenProperties
  <2>2. Len(output) <= Len(J)
    BY Zenon DEF Kept
  <2>3. \A a, l, t \in Nat : i < l /\ a + 5 + l <= t => a + 5 + i \in Nat /\ a + 5 + i < t
    OBVIOUS
  <2>. QED BY <1>1, <2>1, <2>2, <2>3, Zenon
<1>3. /\ header_off <= find_header_size /\ find_header_size \in Nat
  BY HeadersBelow
<1>4. ASSUME NEW o \in Nat, o < Len(output), o # P PROVE Cell(J, o) = Cell(output, o)
  <2>1. o < P \/ P + 1 <= o
    BY <1>2, <1>4
  <2>. QED BY <1>4, <2>1, Zenon DEF Kept
<1>5. ASSUME NEW e \in Seen
      PROVE  /\ headerAt[e] \in Nat /\ Pointers(data, e) \in Nat
             /\ headerAt[e] + 5 + Pointers(data, e) <= header_off
             /\ e # d => \/ P < headerAt[e]
                         \/ headerAt[e] + 5 + Pointers(data, e) <= P
  <2>1. /\ headerAt[e] \in Nat /\ Pointers(data, e) \in Nat
        /\ headerAt[e] + 5 + Pointers(data, e) <= header_off
    BY SeenFacts, Zenon
  <2>2. Pointers(data, d) = data[d].length
    BY Zenon DEF Pointers
  <2>3. e # d => \/ headerAt[d] + 5 + Pointers(data, d) <= headerAt[e]
                 \/ headerAt[e] + 5 + Pointers(data, e) <= headerAt[d]
    BY Zenon DEF Layout, Apart, End, Seen
  <2>4. \A a, b, l, m, x \in Nat : x < l =>
           /\ a + 5 + l <= b => a + 5 + x < b
           /\ b + 5 + m <= a => b + 5 + m <= a + 5 + x
    OBVIOUS
  <2>. QED BY <1>1, <2>1, <2>2, <2>3, <2>4, Zenon
<1>6. ASSUME NEW h \in Seen
      PROVE  /\ HeaderIn(data, J, headerAt[h], h)
             /\ Cell(J, headerAt[h] + OFFSET) = Cell(output, headerAt[h] + OFFSET)
  <2>1. headerAt[h] \in Nat /\ headerAt[h] + 5 <= Len(output)
        /\ HeaderIn(data, output, headerAt[h], h)
    BY SeenFacts, Zenon
  <2>2. \A a, m, p, l \in Nat : a + 5 <= l /\ (p < a \/ a + 5 + m <= p) =>
           \A o \in a..(a + 4) : o \in Nat /\ o < l /\ o # p
    OBVIOUS
  <2>3. headerAt[h] + 5 + 0 <= P \/ h # d
    BY <1>1
  <2>4. \E m \in Nat : P < headerAt[h] \/ headerAt[h] + 5 + m <= P
    <3>1. 0 \in Nat
      OBVIOUS
    <3>. QED BY <1>5, <2>3, <3>1, Zenon
  <2>5. \A o \in headerAt[h]..(headerAt[h] + 4) : o \in Nat /\ o < Len(output) /\ o # P
    BY <1>1, <1>2, <2>1, <2>2, <2>4, Zenon
  <2>6. \A o \in headerAt[h]..(headerAt[h] + 4) : Cell(J, o) = Cell(output, o)
    BY <1>4, <2>5, Zenon
  <2>. QED BY <1>1, <1>2, <2>1, <2>6, HeaderKept, Zenon
<1>7. ASSUME NEW h \in Seen, data[h].type = PLAIN_FILE
      PROVE  FileIn(data, J, headerAt, changed, find_header_size, file_off, h)
  <2>1. /\ FileIn(data, output, headerAt, changed, find_header_size, file_off, h)
        /\ data[h].length \in Nat /\ Cell(output, headerAt[h] + OFFSET) \in Nat
    BY <1>7, SeenFacts
  <2>2. \A o \in Nat : find_header_size <= o => o # P
    <3>1. \A x, a, b, o \in Nat : x < a /\ a <= b /\ b <= o => o # x
      OBVIOUS
    <3>. QED BY <1>1, <1>2, <1>3, <3>1, Zenon
  <2>3. \A o \in Nat : find_header_size <= o /\ o < file_off /\ o < Len(output)
           => Cell(J, o) = Cell(output, o)
    BY <1>4, <2>2, Zenon
  <2>. QED BY <1>1, <1>2, <1>3, <1>6, <2>1, <2>3, FileKept, Zenon
<1>8. ASSUME NEW e \in Seen, data[e].type = DIRECTORY, NEW k \in 0..(data[e].length - 1),
             (e = d /\ k = i) \/ Stored(calls, e, k)
      PROVE  PointerIn(children, J, headerAt, e, k)
  <2>1. CASE e = d /\ k = i
    BY <2>1, Zenon DEF PointerIn, Seen
  <2>2. CASE ~(e = d /\ k = i)
    <3>1. /\ <<e, k>> \in DOMAIN children /\ children[<<e, k>>] \in DOMAIN headerAt
          /\ headerAt[e] + 5 + k < Len(output)
          /\ Cell(output, headerAt[e] + 5 + k) = headerAt[children[<<e, k>>]]
      BY <1>8, <2>2, Zenon DEF Layout, PointersIn, PointerIn, Seen
    <3>2. Pointers(data, e) = data[e].length /\ headerAt[e] \in Nat /\ Pointers(data, e) \in Nat
      BY <1>5, <1>8, Zenon DEF Pointers
    <3>3. k \in Nat /\ k < Pointers(data, e)
      BY <3>2
    <3>4. headerAt[e] + 5 + k # P
      <4>1. CASE e # d
        <5>1. P < headerAt[e] \/ headerAt[e] + 5 + Pointers(data, e) <= P
          BY <1>5, <4>1, Zenon
        <5>2. \A a, x, m, p \in Nat : x < m /\ (p < a \/ a + 5 + m <= p) => a + 5 + x # p
          OBVIOUS
        <5>. QED BY <1>2, <3>2, <3>3, <5>1, <5>2, Zenon
      <4>2. CASE e = d
        <5>1. k # i /\ headerAt[e] = headerAt[d]
          BY <2>2, <4>2, Zenon
        <5>. QED BY <1>1, <3>3, <5>1
      <4>. QED BY <4>1, <4>2
    <3>5. headerAt[e] + 5 + k \in Nat /\ headerAt[e] + 5 + k < Len(J)
      <4>1. \A a, x, l, m \in Nat : a + 5 + x < l /\ l <= m
               => a + 5 + x \in Nat /\ a + 5 + x < m
        OBVIOUS
      <4>. QED BY <1>1, <1>2, <3>1, <3>2, <3>3, <4>1, Zenon
    <3>6. Cell(J, headerAt[e] + 5 + k) = headerAt[children[<<e, k>>]]
      BY <1>4, <3>1, <3>4, <3>5, Zenon
    <3>. QED BY <3>1, <3>5, <3>6, Zenon DEF PointerIn
  <2>. QED BY <2>1, <2>2
<1>. QED BY <1>6, <1>7, <1>8, Zenon DEF HeadersIn, FilesIn, Seen

\* The innermost caller turns to its next child.
LEMMA CallersNext ==
  ASSUME NEW D, NEW C, NEW A, NEW cs, NEW n \in Nat, NEW ds, Callers(D, C, A, cs),
         n = Len(cs), Len(ds) = n, ds \in Seq(CallRec),
         \A j \in 1..(n - 1) : ds[j] = cs[j],
         ds[n].node = cs[n].node, ds[n].at = cs[n].at, ds[n].i < D[cs[n].node].length
  PROVE  Callers(D, C, A, ds)
<1>1. CallsOK(D, cs)
  BY DEF Callers
<1>2. ASSUME NEW j \in 1..n PROVE ds[j].node = cs[j].node /\ ds[j].at = cs[j].at
  <2>1. CASE j = n
    BY <2>1, Zenon
  <2>2. CASE j # n
    <3>1. j \in 1..(n - 1)
      BY <2>2
    <3>. QED BY <3>1, Zenon
  <2>. QED BY <2>1, <2>2
<1>3. ASSUME NEW j \in 1..n PROVE ds[j].i < D[ds[j].node].length
  <2>1. CASE j = n
    BY <2>1, Zenon
  <2>2. CASE j # n
    <3>1. j \in 1..(n - 1)
      BY <2>2
    <3>. QED BY <1>1, <3>1, Zenon DEF CallsOK
  <2>. QED BY <2>1, <2>2
<1>4. CallsOK(D, ds)
  BY <1>1, <1>2, <1>3, Zenon DEF CallsOK
<1>5. \A j \in 1..n : ds[j].node \in DOMAIN A /\ ds[j].at = A[ds[j].node]
  BY <1>2, Zenon DEF Callers
<1>6. \A j, l \in 1..n : ds[j].node = ds[l].node => j = l
  BY <1>2, Zenon DEF Callers
<1>7. ASSUME NEW j \in 2..n PROVE ds[j].node = ChildOf(C, ds[j - 1].node, ds[j - 1].i)
  <2>1. j \in 1..n /\ j - 1 \in 1..(n - 1)
    OBVIOUS
  <2>2. ds[j].node = cs[j].node /\ ds[j - 1] = cs[j - 1]
    BY <1>2, <2>1, Zenon
  <2>. QED BY <2>2, Zenon DEF Callers
<1>. QED BY <1>4, <1>5, <1>6, <1>7, Zenon DEF Callers

\* The innermost caller returns.
LEMMA CallersPopped ==
  ASSUME NEW D, NEW C, NEW A, NEW cs, NEW n \in Nat, NEW ds, Callers(D, C, A, cs),
         n = Len(cs), n # 0, Len(ds) = n - 1, ds \in Seq(CallRec),
         \A j \in 1..(n - 1) : ds[j] = cs[j]
  PROVE  Callers(D, C, A, ds)
<1>1. CallsOK(D, cs)
  BY DEF Callers
<1>2. \A j \in 1..Len(ds) : j \in 1..Len(cs) /\ ds[j] = cs[j]
  <2>1. \A j \in 1..Len(ds) : j \in 1..Len(cs) /\ j \in 1..(n - 1)
    OBVIOUS
  <2>. QED BY <2>1, Zenon
<1>3. CallsOK(D, ds)
  BY <1>1, <1>2, Zenon DEF CallsOK
<1>4. ASSUME NEW j \in 2..Len(ds) PROVE ds[j].node = ChildOf(C, ds[j - 1].node, ds[j - 1].i)
  <2>1. j \in 1..Len(ds) /\ j - 1 \in 1..Len(ds) /\ j \in 2..Len(cs)
    OBVIOUS
  <2>2. ds[j] = cs[j] /\ ds[j - 1] = cs[j - 1]
    BY <1>2, <2>1, Zenon
  <2>. QED BY <2>1, <2>2, Zenon DEF Callers
<1>5. \A j \in 1..Len(ds) : ds[j].node \in DOMAIN A /\ ds[j].at = A[ds[j].node]
  BY <1>2, Zenon DEF Callers
<1>6. \A j, l \in 1..Len(ds) : ds[j].node = ds[l].node => j = l
  BY <1>2, Zenon DEF Callers
<1>. QED BY <1>3, <1>4, <1>5, <1>6, Zenon DEF Callers

LEMMA ProgressNext ==
  ASSUME BaseInv, Progress, pc = "return", calls # <<>>, UNCHANGED vars,
         NEW c, c = Last(calls), c.i + 1 < data[c.node].length,
         NEW e \in CallRec, e.node = c.node, e.at = c.at, e.i = c.i + 1,
         calls' = Append(Front(calls), e), node' = Child(c.node, c.i + 1),
         pc' = "enter", UNCHANGED <<headerAt, changed>>
  PROVE  /\ Progress'
         /\ \A d \in Seen : \A k \in 0..(data[d].length - 1) :
              Stored(calls', d, k) => (d = c.node /\ k = c.i) \/ Stored(calls, d, k)
<1>. DEFINE n == Len(calls)
<1>1. /\ n \in Nat /\ n \in 1..n /\ c = calls[n] /\ calls \in Seq(CallRec)
      /\ c.node \in Seen /\ c.node \in 1..Len(data) /\ c.i \in Nat
      /\ data[c.node].length \in Nat
  BY CallerFacts, BaseFacts, Zenon
<1>2. /\ data' = data /\ children' = children /\ phase' = phase
      /\ Top(children)' = Top(children) /\ Seen' = Seen
  BY TreeFixed DEF Seen
<1>3. /\ calls' \in Seq(CallRec) /\ Len(calls') = n /\ calls'[n] = e
      /\ \A j \in 1..(n - 1) : calls'[j] = calls[j]
      /\ calls' # <<>> /\ Last(calls') = e
  <2>1. /\ Front(calls) \in Seq(CallRec) /\ Len(Front(calls)) = n - 1
        /\ \A j \in 1..(n - 1) : Front(calls)[j] = calls[j]
    BY <1>1, PopFacts, Zenon
  <2>2. /\ calls' \in Seq(CallRec) /\ Len(calls') = n - 1 + 1 /\ calls'[n - 1 + 1] = e
        /\ \A j \in 1..(n - 1) : calls'[j] = Front(calls)[j]
        /\ calls' # <<>> /\ Last(calls') = e
    BY <1>1, <2>1 DEF Last
  <2>3. n - 1 + 1 = n
    BY <1>1
  <2>. QED BY <2>1, <2>2, <2>3, Zenon
<1>. HIDE DEF n
<1>4. Callers(data, children, headerAt', calls')
  <2>1. Callers(data, children, headerAt, calls) /\ n = Len(calls)
    BY DEF Progress, n
  <2>2. /\ calls'[n].node = calls[n].node /\ calls'[n].at = calls[n].at
        /\ calls'[n].i < data[calls[n].node].length
    BY <1>1, <1>3, Zenon
  <2>3. Callers(data, children, headerAt, calls')
    BY <1>1, <1>3, <2>1, <2>2, CallersNext, Zenon
  <2>. QED BY <2>3
<1>5. \A k \in Nat : k < c.i \/ k = c.i <=> k < c.i + 1
  BY <1>1
<1>6. \A j \in 1..n : j = n \/ (j \in 1..(n - 1) /\ j # n)
  BY <1>1
<1>7. ASSUME NEW d, NEW k \in Nat, Behind(calls, FALSE, d, k)
      PROVE  Behind(calls', TRUE, d, k)
  <2>. SUFFICES ASSUME NEW j \in 1..n, calls'[j].node = d
                PROVE  k < calls'[j].i \/ (k = calls'[j].i /\ ~(TRUE /\ j = n))
    BY <1>3, Zenon DEF Behind
  <2>1. CASE j = n
    <3>1. calls[n].node = d
      BY <1>1, <1>3, <2>1, Zenon
    <3>2. k < c.i \/ k = c.i
      BY <1>1, <1>7, <3>1, Zenon DEF Behind, n
    <3>3. k < c.i + 1
      BY <1>5, <3>2, Zenon
    <3>. QED BY <1>3, <2>1, <3>3, Zenon
  <2>2. CASE j \in 1..(n - 1) /\ j # n
    BY <1>3, <1>7, <2>2, Zenon DEF Behind, n
  <2>. QED BY <1>6, <2>1, <2>2, Zenon
<1>8. EnteredOnce(children, Seen, calls', TRUE)
  <2>1. (pc = "enter") = FALSE
    OBVIOUS
  <2>2. EnteredOnce(children, Seen, calls, FALSE)
    BY <2>1, Zenon DEF Progress
  <2>. QED BY <1>7, <2>2, Zenon DEF EnteredOnce
<1>9. (pc' = "enter") = TRUE
  OBVIOUS
<1>10. PcInv'
  <2>1. c.i + 1 \in Nat
    BY <1>1
  <2>2. node' = ChildOf(children, c.node, c.i + 1)
    BY DEF Child, ChildOf, Uninitialised
  <2>3. node' \in 0..Len(data)
    BY <1>1, <2>1, <2>2, SlotFacts, Zenon
  <2>4. node' = ChildOf(children, Last(calls').node, Last(calls').i)
    BY <1>3, <2>2, Zenon
  <2>5. /\ phase = "image" /\ Seen \subseteq 2..Len(data) /\ changed \subseteq Seen
        /\ Seen # {} => Top(children) \in Seen /\ headerAt[Top(children)] = 0
    BY DEF Progress, PcInv
  <2>. QED BY <1>2, <1>3, <2>3, <2>4, <2>5 DEF PcInv
<1>11. Progress'
  BY <1>2, <1>4, <1>8, <1>9, <1>10, Zenon DEF Progress
<1>12. ASSUME NEW d, NEW k \in Nat, Stored(calls', d, k)
       PROVE  (d = c.node /\ k = c.i) \/ Stored(calls, d, k)
  <2>. SUFFICES ASSUME NEW j \in 1..n, calls[j].node = d, ~(d = c.node /\ k = c.i)
                PROVE  k < calls[j].i
    BY Zenon DEF Stored, n
  <2>1. CASE j = n
    <3>1. d = c.node /\ calls'[n].node = d /\ k # c.i
      BY <1>1, <1>3, <2>1, Zenon
    <3>2. k < c.i + 1
      BY <1>1, <1>3, <1>12, <3>1, Zenon DEF Stored
    <3>. QED BY <1>1, <1>5, <2>1, <3>1, <3>2, Zenon
  <2>2. CASE j \in 1..(n - 1) /\ j # n
    BY <1>3, <1>12, <2>2, Zenon DEF Stored
  <2>. QED BY <1>6, <2>1, <2>2
<1>13. \A d : \A k \in 0..(data[d].length - 1) : k \in Nat
  OBVIOUS
<1>. QED BY <1>11, <1>12, <1>13, Zenon

LEMMA ProgressUp ==
  ASSUME BaseInv, Progress, pc = "return", calls # <<>>, UNCHANGED vars,
         NEW c, c = Last(calls), ~(c.i + 1 < data[c.node].length),
         calls' = Front(calls), node' = c.node, UNCHANGED <<pc, headerAt, changed>>
  PROVE  /\ Progress'
         /\ \A d \in Seen : \A k \in 0..(data[d].length - 1) :
              Stored(calls', d, k) => (d = c.node /\ k = c.i) \/ Stored(calls, d, k)
<1>. DEFINE n == Len(calls)
<1>1. /\ n \in Nat /\ n \in 1..n /\ c = calls[n] /\ calls \in Seq(CallRec)
      /\ c.node \in Seen /\ c.node \in 1..Len(data) /\ c.i \in Nat
      /\ data[c.node].length \in Nat
  BY CallerFacts, BaseFacts, Zenon
<1>2. /\ data' = data /\ children' = children /\ phase' = phase
      /\ Top(children)' = Top(children) /\ Seen' = Seen
  BY TreeFixed DEF Seen
<1>3. /\ calls' \in Seq(CallRec) /\ Len(calls') = n - 1
      /\ \A j \in 1..(n - 1) : calls'[j] = calls[j]
  BY <1>1, PopFacts, Zenon
<1>. HIDE DEF n
<1>4. n # 0 /\ \A j \in 1..n : j = n \/ j \in 1..(n - 1)
  BY <1>1
<1>5. Callers(data, children, headerAt, calls) /\ n = Len(calls)
  BY DEF Progress, n
<1>6. Callers(data, children, headerAt, calls')
  BY <1>1, <1>3, <1>4, <1>5, CallersPopped, Zenon
<1>7. \A j \in 1..(n - 1) : j \in 1..n
  BY <1>1
<1>8. EnteredOnce(children, Seen, calls', FALSE)
  <2>1. (pc = "enter") = FALSE
    OBVIOUS
  <2>2. EnteredOnce(children, Seen, calls, FALSE)
    BY <2>1, Zenon DEF Progress
  <2>3. ASSUME NEW d, NEW k, Behind(calls, FALSE, d, k) PROVE Behind(calls', FALSE, d, k)
    BY <1>3, <1>7, <2>3, Zenon DEF Behind, n
  <2>. QED BY <2>2, <2>3, Zenon DEF EnteredOnce
<1>9. PcInv'
  <2>1. calls' # <<>> => node' = ChildOf(children, Last(calls').node, Last(calls').i)
    <3>. SUFFICES ASSUME calls' # <<>>
                  PROVE  node' = ChildOf(children, Last(calls').node, Last(calls').i)
      OBVIOUS
    <3>1. Len(calls') \in Nat \ {0} /\ Last(calls') = calls'[Len(calls')]
      BY <1>3, PopFacts, Zenon
    <3>2. n - 1 \in 1..(n - 1) /\ n \in 2..n
      BY <1>1, <1>3, <3>1
    <3>3. Last(calls') = calls[n - 1]
      BY <1>3, <3>1, <3>2, Zenon
    <3>4. calls[n].node = ChildOf(children, calls[n - 1].node, calls[n - 1].i)
      BY <1>5, <3>2, Zenon DEF Callers
    <3>. QED BY <1>1, <3>3, <3>4, Zenon
  <2>2. /\ phase = "image" /\ Seen \subseteq 2..Len(data) /\ changed \subseteq Seen
        /\ Seen # {} => Top(children) \in Seen /\ headerAt[Top(children)] = 0
    BY DEF Progress, PcInv
  <2>3. node' \in 0..Len(data) /\ node' \in Seen
    <3>1. 1..Len(data) \subseteq 0..Len(data)
      OBVIOUS
    <3>. QED BY <1>1, <3>1
  <2>. QED BY <1>2, <2>1, <2>2, <2>3 DEF PcInv
<1>10. Progress'
  <2>1. (pc' = "enter") = FALSE
    OBVIOUS
  <2>. QED BY <1>2, <1>6, <1>8, <1>9, <2>1, Zenon DEF Progress
<1>11. ASSUME NEW d, NEW k \in 0..(data[d].length - 1), Stored(calls', d, k)
       PROVE  (d = c.node /\ k = c.i) \/ Stored(calls, d, k)
  <2>. SUFFICES ASSUME NEW j \in 1..n, calls[j].node = d, ~(d = c.node /\ k = c.i)
                PROVE  k < calls[j].i
    BY Zenon DEF Stored, n
  <2>1. CASE j = n
    <3>1. d = c.node /\ k # c.i
      BY <1>1, <2>1, Zenon
    <3>2. \A l, i, x \in Nat : ~(i + 1 < l) /\ x \in 0..(l - 1) /\ x # i => x < i
      OBVIOUS
    <3>3. k \in 0..(data[c.node].length - 1) /\ k \in Nat
      BY <3>1
    <3>4. k < c.i
      BY <1>1, <3>1, <3>2, <3>3, Zenon
    <3>. QED BY <1>1, <2>1, <3>4, Zenon
  <2>2. CASE j \in 1..(n - 1)
    <3>1. j \in 1..Len(calls') /\ calls'[j] = calls[j]
      BY <1>3, <2>2, Zenon
    <3>. QED BY <1>11, <3>1, Zenon DEF Stored
  <2>. QED BY <1>4, <2>1, <2>2
<1>. QED BY <1>10, <1>11, Zenon

LEMMA StorePointerStep ==
  ASSUME BaseInv, ImageInv, StorePointer
  PROVE  ImageInv'
<1>1. Progress /\ Room /\ Layout
  BY DEF ImageInv
<1>. DEFINE c == Last(calls)
            P == c.at + 5 + c.i
<1>2. /\ pc = "return" /\ calls # <<>> /\ UNCHANGED vars
      /\ UNCHANGED <<header_off, file_off, headerAt, changed>>
      /\ output' = Put(output, c.at + 5 + c.i * 1, <<headerAt[node]>>)
  BY DEF StorePointer, PointerAt, M_HDR_SIZE, PTR_SIZE
<1>3. /\ c \in CallRec /\ c.node \in Seen /\ c.at = headerAt[c.node]
      /\ c.node \in 2..Len(data) /\ c.node \in 1..Len(data)
      /\ c.i \in Nat /\ c.at \in Nat
      /\ data[c.node].type = DIRECTORY /\ c.i < data[c.node].length
  BY <1>1, <1>2, CallerFacts
<1>4. /\ data' = data /\ children' = children /\ phase' = phase
      /\ find_header_size' = find_header_size /\ Seen' = Seen
  BY <1>2, TreeFixed DEF Seen
<1>5. node \in Seen /\ node = ChildOf(children, c.node, c.i)
  BY <1>1, <1>2 DEF Progress, PcInv
<1>6. <<c.node, c.i>> \in DOMAIN children /\ children[<<c.node, c.i>>] = node
  <2>1. node # 0
    BY <1>1, <1>5 DEF Progress, PcInv
  <2>. QED BY <1>3, <1>5, <2>1, SlotFacts, Zenon
<1>7. headerAt[node] \in Nat /\ output \in Seq(Nat)
  BY <1>1, <1>5, SeenFacts DEF Layout
<1>8. P \in Nat /\ output' = Put(output, P, <<headerAt[node]>>)
  <2>1. c.i * 1 = c.i
    BY <1>3
  <2>. QED BY <1>2, <1>3, <2>1
<1>. HIDE DEF c
<1>9. /\ output' \in Seq(Nat) /\ Kept(output, output', P, P + 1)
      /\ P < Len(output') /\ Cell(output', P) = headerAt[node]
  <2>. DEFINE cs == <<headerAt[node]>>
  <2>1. cs \in Seq(Nat) /\ Len(cs) = 1 /\ cs[1] = headerAt[node] /\ cs # <<>>
    BY <1>7
  <2>. HIDE DEF cs, P
  <2>2. output' = Put(output, P, cs)
    BY <1>8, Zenon DEF cs
  <2>3. /\ output' \in Seq(Nat) /\ Kept(output, output', P, P + Len(cs))
        /\ CellsIn(output', P, cs)
    BY <1>7, <1>8, <2>1, <2>2, PutFacts, Zenon
  <2>4. P + 1 - 1 = P /\ 1 \in 1..1
    BY <1>8
  <2>5. Cell(output', P) = headerAt[node] /\ P + 1 <= Len(output')
    BY <2>1, <2>3, <2>4, Zenon DEF CellsIn
  <2>6. P < Len(output')
    BY <1>8, <2>3, <2>5
  <2>. QED BY <2>1, <2>3, <2>5, <2>6, Zenon
<1>10. /\ HeadersIn(data, output', headerAt)
       /\ FilesIn(data, output', headerAt, changed, find_header_size, file_off)
       /\ \A e \in Seen : data[e].type = DIRECTORY =>
            \A k \in 0..(data[e].length - 1) :
               (e = c.node /\ k = c.i) \/ Stored(calls, e, k)
                 => PointerIn(children, output', headerAt, e, k)
  <2>1. P = headerAt[c.node] + 5 + c.i /\ pc # "idle"
    BY <1>2, <1>3
  <2>2. Cell(output', P) = headerAt[children[<<c.node, c.i>>]] /\ children[<<c.node, c.i>>] \in Seen
    BY <1>5, <1>6, <1>9, Zenon
  <2>. HIDE DEF P
  <2>. QED BY <1>1, <1>3, <1>6, <1>9, <2>1, <2>2, PointerStored, Zenon
<1>11. /\ Progress' /\ pc' # "idle"
       /\ \A d \in Seen : \A k \in 0..(data[d].length - 1) :
            Stored(calls', d, k) => (d = c.node /\ k = c.i) \/ Stored(calls, d, k)
  <2>1. CASE HasNextChild(c)
    <3>. DEFINE e == Call(c.node, c.at, c.i + 1)
    <3>1. /\ calls' = Append(Front(calls), e)
          /\ node' = Child(c.node, c.i + 1) /\ pc' = "enter"
      BY <2>1 DEF StorePointer, c
    <3>2. c.i + 1 < data[c.node].length /\ c = Last(calls)
      BY <2>1 DEF HasNextChild, c
    <3>3. e \in CallRec /\ e.node = c.node /\ e.at = c.at /\ e.i = c.i + 1
      BY <1>3 DEF Call, CallRec
    <3>. HIDE DEF e
    <3>. QED BY <1>1, <1>2, <3>1, <3>2, <3>3, ProgressNext, Zenon
  <2>2. CASE ~HasNextChild(c)
    <3>1. calls' = Front(calls) /\ node' = c.node /\ pc' = pc
      BY <2>2 DEF StorePointer, c
    <3>2. ~(c.i + 1 < data[c.node].length) /\ c = Last(calls)
      BY <2>2 DEF HasNextChild, c
    <3>3. pc' # "idle"
      BY <1>2, <3>1
    <3>. QED BY <1>1, <1>2, <3>1, <3>2, <3>3, ProgressUp, Zenon
  <2>. QED BY <2>1, <2>2
<1>12. PointersIn(data, children, output', headerAt, calls')
  BY <1>10, <1>11, Zenon DEF PointersIn, Seen
<1>13. Layout'
  <2>1. Apart(data, headerAt, header_off)
    BY <1>1 DEF Layout
  <2>. QED BY <1>2, <1>4, <1>9, <1>10, <1>12, <2>1 DEF Layout
<1>14. Room'
  BY <1>1, <1>2, <1>4 DEF Room
<1>. QED BY <1>11, <1>13, <1>14 DEF ImageInv

\* The image is closed, or writeDFS leaves it.
LEMMA LastSteps ==
  ASSUME BaseInv, ImageInv, CloseImage \/ Derail
  PROVE  ImageInv'
<1>1. Progress /\ Room /\ Layout
  BY DEF ImageInv
<1>2. /\ UNCHANGED vars
      /\ UNCHANGED <<node, calls, header_off, file_off, output, headerAt, changed>>
      /\ \/ pc = "return" /\ calls = <<>> /\ pc' = "written"
         \/ pc = "enter" /\ pc' = "undefined"
  BY DEF CloseImage, Derail
<1>3. /\ data' = data /\ children' = children /\ phase' = phase
      /\ find_header_size' = find_header_size /\ Seen' = Seen
      /\ Top(children)' = Top(children)
  BY <1>2, TreeFixed DEF Seen
<1>4. Layout'
  BY <1>1, <1>2, <1>3 DEF Layout
<1>5. Room'
  BY <1>1, <1>2, <1>3 DEF Room
<1>6. PcInv'
  <2>1. PcInv
    BY <1>1 DEF Progress
  <2>. QED BY <1>2, <1>3, <2>1 DEF PcInv
<1>7. EnteredOnce(children, Seen, calls, FALSE)
  <2>1. EnteredOnce(children, Seen, calls, pc = "enter")
    BY <1>1 DEF Progress
  <2>2. \A e, d, k : Behind(calls, e, d, k) => Behind(calls, FALSE, d, k)
    BY Zenon DEF Behind
  <2>. QED BY <2>1, <2>2, Zenon DEF EnteredOnce
<1>8. (pc' = "enter") = FALSE
  BY <1>2
<1>9. Callers(data, children, headerAt, calls)
  BY <1>1 DEF Progress
<1>. QED BY <1>2, <1>3, <1>4, <1>5, <1>6, <1>7, <1>8, <1>9, Zenon DEF ImageInv, Progress

----------------------------------------------------------------------------
(* Every step *)

LEMMA InitImage == WInit => ImageInv
<1>. SUFFICES ASSUME WInit PROVE ImageInv
  OBVIOUS
<1>1. /\ Init /\ pc = "idle" /\ node = 0 /\ calls = <<>> /\ header_off = 0 /\ file_off = 0
      /\ output = <<>> /\ headerAt = <<>> /\ changed = {}
  BY DEF WInit, Uninitialised
<1>2. DOMAIN headerAt = {} /\ Seen = {}
  BY <1>1 DEF Seen
<1>3. /\ Apart(data, headerAt, header_off) /\ HeadersIn(data, output, headerAt)
      /\ PointersIn(data, children, output, headerAt, calls)
      /\ FilesIn(data, output, headerAt, changed, find_header_size, file_off)
      /\ Callers(data, children, headerAt, calls)
      /\ EnteredOnce(children, Seen, calls, pc = "enter")
      /\ SlotsIn(data, Seen) = {}
  BY <1>1, <1>2, NothingWritten, Zenon DEF Seen
<1>4. output \in Seq(Nat) /\ Len(data) \in Nat
  <2>1. BaseInv
    BY <1>1, InitBase
  <2>. QED BY <1>1, <2>1, BaseFacts
<1>5. Layout
  BY <1>3, <1>4 DEF Layout
<1>6. Room
  BY <1>1, <1>2, <1>3, FS_EmptySet DEF Room
<1>7. PcInv
  BY <1>1, <1>2, <1>4 DEF PcInv
<1>. QED BY <1>3, <1>5, <1>6, <1>7 DEF ImageInv, Progress

LEMMA NextImage ==
  ASSUME BaseInv, BaseInv', ImageInv, [WNext]_allVars
  PROVE  ImageInv'
<1>1. CASE Walk \/ (Unlock /\ UNCHANGED writerVars)
  <2>1. phase # "image"
    BY <1>1 DEF Walk, BuilderNext, IgnoreDot, BuildDirectory, ReportFile, BuildFile,
       SkipSeen, Refuse, Return, Unlock, NextIsOf
  <2>2. pc = "idle"
    BY <2>1 DEF ImageInv, Progress, PcInv
  <2>3. UNCHANGED <<pc, node, calls, header_off, file_off, output, headerAt, changed>>
    BY <1>1 DEF Walk, writerVars
  <2>. QED BY <2>2, <2>3, IdleSteps
<1>2. CASE Ended \/ UNCHANGED allVars
  <2>1. /\ UNCHANGED vars
        /\ UNCHANGED <<pc, node, calls, header_off, file_off, output, headerAt, changed>>
    BY <1>2 DEF Ended, allVars, writerVars
  <2>2. /\ data' = data /\ children' = children /\ phase' = phase
        /\ find_header_size' = find_header_size /\ Seen' = Seen
        /\ Top(children)' = Top(children)
    BY <2>1, TreeFixed DEF Seen
  <2>. QED BY <2>1, <2>2 DEF ImageInv, Progress, PcInv, Room, Layout
<1>3. CASE imageDFS
  <2>1. pc = "idle"
    BY <1>3 DEF imageDFS
  <2>. QED BY <1>3, <2>1, IdleSteps
<1>. QED
  BY <1>1, <1>2, <1>3, WriteDirectoryStep, WriteFileStep, StorePointerStep, LastSteps
     DEF WNext, Write

\* The invariant of the whole program.
LEMMA ImageInvariantHolds == WSpec => [](BaseInv /\ ImageInv)
<1>1. WInit => BaseInv /\ ImageInv
  BY InitBase, InitImage DEF WInit
<1>2. BaseInv /\ ImageInv /\ [WNext]_allVars => (BaseInv /\ ImageInv)'
  BY StepsOfMaster, NextBase, NextImage
<1>. QED BY <1>1, <1>2, PTL DEF WSpec

----------------------------------------------------------------------------
(* What it says of the image *)

\* Every variable of master keeps its type, whatever the source does during the
\* walk and whatever happens to the files until they are copied.
THEOREM MasterTypeCorrect == WSpec => []WTypeOK
<1>. DEFINE Fun == headerAt \in [DOMAIN headerAt -> Nat]
<1>1. WInit => Fun
  BY DEF WInit
<1>2. BaseInv /\ ImageInv /\ Fun /\ [WNext]_allVars => Fun'
  <2>. SUFFICES ASSUME BaseInv, ImageInv, Fun, [WNext]_allVars PROVE Fun'
    OBVIOUS
  <2>1. CASE headerAt' = headerAt
    BY <2>1
  <2>2. CASE headerAt' = Recorded
    <3>1. header_off \in Nat
      BY DEF ImageInv, Room
    <3>. QED BY <2>2, <3>1 DEF Recorded
  <2>3. headerAt' = headerAt \/ headerAt' = Recorded
    BY DEF WNext, Write, Walk, writerVars, allVars, imageDFS, WriteFile, WriteDirectory,
       StorePointer, CloseImage, Derail, Ended
  <2>. QED BY <2>1, <2>2, <2>3
<1>3. BaseInv /\ ImageInv /\ Fun => WTypeOK
  <2>. SUFFICES ASSUME BaseInv, ImageInv, Fun PROVE WTypeOK
    OBVIOUS
  <2>1. TypeOK
    BY DEF BaseInv, TypeInv
  <2>2. /\ pc \in {"idle", "enter", "return", "written", "undefined"}
        /\ node \in 0..Len(data) /\ changed \subseteq DOMAIN headerAt
    BY DEF ImageInv, Progress, PcInv, Seen
  <2>3. calls \in Seq([node : Nat, at : Nat, i : Nat])
    BY DEF ImageInv, Progress, Callers, CallsOK, CallRec
  <2>4. header_off \in Nat /\ file_off \in Nat /\ output \in Seq(Nat)
    BY DEF ImageInv, Room, Layout
  <2>. QED BY <2>1, <2>2, <2>3, <2>4 DEF WTypeOK
<1>. QED BY <1>1, <1>2, <1>3, ImageInvariantHolds, PTL DEF WSpec

\* While the image is written, and for any source at all, the headers and
\* pointers written so far stay within the room that find_header_size left for
\* them: no write of a header or a pointer reaches a byte of a file.
THEOREM HeadersStayBelowData == WSpec => []HeadersBelowData
<1>1. BaseInv /\ ImageInv => HeadersBelowData
  BY HeadersBelow DEF ImageInv, HeadersBelowData
<1>. QED BY <1>1, ImageInvariantHolds, PTL

\* When imageDFS has closed the image, the root header is at offset 0, every
\* header is complete, and every pointer leads to the header of the child it
\* stands for.  This holds for a source that misbehaved during the walk too, if
\* writeDFS came to its end, and for files that grew or shrank before they were
\* copied.
THEOREM StructureAlwaysIntact == WSpec => []StructureIntact
<1>1. ASSUME BaseInv, ImageInv, pc = "written"
      PROVE  /\ headerAt[Child(HeadNode, 0)] = 0
             /\ \A h \in DOMAIN headerAt :
                  HeaderIntact(h) /\ (data[h].type = DIRECTORY => PointersIntact(h))
  <2>1. Progress /\ Room /\ Layout
    BY <1>1 DEF ImageInv
  <2>2. calls = <<>> /\ Seen # {} /\ Top(children) = Child(HeadNode, 0)
    BY <1>1, <2>1 DEF Progress, PcInv, Top, ChildOf, Child, Uninitialised
  <2>3. headerAt[Child(HeadNode, 0)] = 0
    BY <2>1, <2>2 DEF Progress, PcInv
  <2>4. ASSUME NEW h \in DOMAIN headerAt
        PROVE  HeaderIntact(h) /\ (data[h].type = DIRECTORY => PointersIntact(h))
    <3>1. HeaderIn(data, output, headerAt[h], h)
      BY <2>1, Zenon DEF Layout, HeadersIn
    <3>2. HeaderIntact(h)
      BY <3>1, Zenon DEF HeaderIn, HeaderIntact
    <3>3. ASSUME data[h].type = DIRECTORY, NEW k \in 0..(data[h].length - 1)
          PROVE  Cell(output, Cell(output, headerAt[h] + OFFSET) + k * PTR_SIZE)
                   = headerAt[children[<<h, k>>]]
      <4>1. Stored(calls, h, k)
        BY <2>2 DEF Stored
      <4>2. Cell(output, headerAt[h] + 5 + k) = headerAt[children[<<h, k>>]]
        BY <2>1, <3>3, <4>1, Zenon DEF Layout, PointersIn, PointerIn
      <4>3. Cell(output, headerAt[h] + OFFSET) = headerAt[h] + 5
        BY <3>1, <3>3, Zenon DEF HeaderIn
      <4>4. k * PTR_SIZE = k
        BY DEF PTR_SIZE
      <4>. QED BY <4>2, <4>3, <4>4, Zenon
    <3>. QED BY <3>2, <3>3, Zenon DEF PointersIntact
  <2>. QED BY <2>3, <2>4
<1>2. BaseInv /\ ImageInv => StructureIntact
  BY <1>1 DEF StructureIntact
<1>. QED BY <1>2, ImageInvariantHolds, PTL

\* When the image is closed, every file that kept its size until it was copied
\* has its bytes where its header says, even if a neighbour grew or shrank in
\* between, provided that no file is too large for an int.
THEOREM FilesAlwaysIntact ==
  ASSUME FilesFitInt
  PROVE  WSpec => []FilesIntact
<1>1. ASSUME BaseInv, ImageInv, pc = "written", NEW h \in DOMAIN headerAt \ changed,
             data[h].type = PLAIN_FILE
      PROVE  DataIntact(h)
  <2>1. Progress /\ Room /\ Layout
    BY <1>1 DEF ImageInv
  <2>. DEFINE off == Cell(output, headerAt[h] + OFFSET)
              n == data[h].length
  <2>2. /\ n \in Nat /\ off \in Nat /\ Len(output) \in Nat
        /\ FileIn(data, output, headerAt, changed, find_header_size, file_off, h)
    BY <1>1, <2>1, SeenFacts DEF Seen
  <2>3. /\ n > 0 => off + n <= Len(output)
        /\ \A k \in 1..n : Cell(output, off + k - 1) = Content(h, n)[k]
    BY <1>1, <2>2, FilesFitInt, Zenon DEF FileIn
  <2>4. DataIntact(h) = \A k \in 1..n : /\ off + k <= Len(output)
                                        /\ Cell(output, off + k - 1) = Content(h, n)[k]
    BY Zenon DEF DataIntact
  <2>. HIDE DEF off, n
  <2>5. \A k \in 1..n : off + k <= Len(output)
    BY <2>2, <2>3
  <2>. QED BY <2>3, <2>4, <2>5, Zenon
<1>2. BaseInv /\ ImageInv => FilesIntact
  BY <1>1 DEF FilesIntact
<1>. QED BY <1>2, ImageInvariantHolds, PTL

----------------------------------------------------------------------------
(* An ordinary source *)

\* Mastering an ordinary source whose files keep their sizes, of any number,
\* size and nesting: writeDFS never follows an uninitialised slot of
\* new node[length] and never uses a stream that is NULL.
THEOREM OrdinarySourceNeverDerails ==
  ASSUME OrdinarySource, ~FilesChange
  PROVE  WSpec => []NeverDerails
<1>1. ASSUME BaseInv, ImageInv, EverySlotFilled PROVE ~Derail
  <2>. SUFFICES ASSUME pc = "enter", node = 0 PROVE FALSE
    BY ~FilesChange DEF Derail, Uninitialised
  <2>1. /\ Progress /\ phase = "image"
        /\ calls = <<>> => node = ChildOf(children, 1, 0)
        /\ calls # <<>> => node = ChildOf(children, Last(calls).node, Last(calls).i)
    BY <1>1 DEF ImageInv, Progress, PcInv, Top, HeadNode
  <2>2. PICK d \in 1..Len(data), k \in Nat :
           /\ node = ChildOf(children, d, k)
           /\ data[d].type = DIRECTORY /\ k < data[d].length
    <3>1. CASE calls = <<>>
      <4>1. 1 \in 1..Len(data) /\ 0 \in Nat /\ data[1].type = DIRECTORY /\ 0 < data[1].length
        BY <1>1, BaseFacts
      <4>. QED BY <2>1, <3>1, <4>1
    <3>2. CASE calls # <<>>
      BY <1>1, <2>1, <3>2, CallerFacts
    <3>. QED BY <3>1, <3>2
  <2>3. DOMAIN data = 1..Len(data) /\ data[d].length \in Nat
    BY <1>1, BaseFacts
  <2>4. k \in 0..(data[d].length - 1)
    BY <2>2, <2>3
  <2>5. <<d, k>> \in DOMAIN children
    BY <1>1, <2>1, <2>2, <2>3, <2>4, Zenon DEF EverySlotFilled
  <2>6. children[<<d, k>>] = 0
    BY <2>2, <2>5, Zenon DEF ChildOf
  <2>7. <<d, k>>[1] < children[<<d, k>>] /\ <<d, k>>[1] = d
    BY <1>1, <2>5 DEF BaseInv, StackInv, SlotsOK
  <2>. QED BY <2>3, <2>6, <2>7
<1>2. BaseInv /\ ImageInv /\ EverySlotFilled /\ NeverDerails /\ [WNext]_allVars
        => NeverDerails'
  <2>. SUFFICES ASSUME BaseInv, ImageInv, EverySlotFilled, NeverDerails, [WNext]_allVars
                PROVE  NeverDerails'
    OBVIOUS
  <2>1. ~Derail
    BY <1>1
  <2>. QED BY <2>1, Zenon DEF NeverDerails, WNext, Write, Walk, writerVars, allVars, imageDFS,
     WriteFile, WriteDirectory, StorePointer, CloseImage, Ended
<1>3. WInit => NeverDerails
  BY DEF WInit, NeverDerails
<1>4. Spec => []EverySlotFilled
  <2>1. Spec => [](TreeMatchesSource /\ EverySlotFilled /\ EveryObjectImaged)
    BY OrdinarySource, OrdinarySourceImaged
  <2>. QED BY <2>1, PTL
<1>. QED
  BY <1>2, <1>3, <1>4, ImageInvariantHolds, MasterImplementsWalk, PTL DEF WSpec

\* A finished image of an ordinary source has a header for every object of it,
\* and the headers and pointers fill the room before the first file exactly.
THEOREM OrdinaryImageComplete ==
  ASSUME OrdinarySource
  PROVE  WSpec => []ImageComplete
<1>1. ASSUME BaseInv, ImageInv, EveryObjectImaged, pc = "written"
      PROVE  DOMAIN headerAt = 2..Len(data) /\ header_off = find_header_size
  <2>1. /\ Progress /\ Room /\ Layout /\ calls = <<>> /\ Seen \subseteq 2..Len(data)
        /\ Top(children) \in Seen /\ phase = "image"
    BY <1>1 DEF ImageInv, Progress, PcInv
  <2>2. Len(data) \in Nat
    BY <1>1, BaseFacts
  <2>3. ASSUME NEW h \in 2..Len(data), \A y \in 2..Len(data) : y < h => y \in Seen
        PROVE  h \in Seen
    <3>1. PICK s \in DOMAIN children : children[s] = h
      BY <1>1, <2>1 DEF EveryObjectImaged
    <3>2. /\ s = <<s[1], s[2]>> /\ s[1] \in 1..Len(data) /\ s[2] \in Nat
          /\ data[s[1]].type = DIRECTORY /\ s[2] < data[s[1]].length /\ s[1] < children[s]
      BY <1>1, <3>1 DEF BaseInv, StackInv, SlotsOK
    <3>3. CASE s[1] = 1
      <4>1. s[2] = 0
        <5>1. data[1].length = 1
          BY <1>1, BaseFacts
        <5>. QED BY <3>2, <3>3, <5>1
      <4>2. s = <<1, 0>>
        BY <3>2, <3>3, <4>1
      <4>3. Top(children) = h
        BY <3>1, <4>2, Zenon DEF Top, ChildOf, HeadNode
      <4>. QED BY <2>1, <4>3
    <3>4. CASE s[1] # 1
      <4>1. s[1] \in 2..Len(data) /\ s[1] < h
        BY <2>2, <3>1, <3>2, <3>4
      <4>2. s[1] \in Seen
        BY <2>3, <4>1
      <4>3. data[s[1]].length \in Nat
        BY <1>1, <3>2, BaseFacts
      <4>4. s[2] \in 0..(data[s[1]].length - 1)
        BY <3>2, <4>3
      <4>5. Stored(calls, s[1], s[2])
        BY <2>1 DEF Stored
      <4>6. PointerIn(children, output, headerAt, s[1], s[2])
        BY <2>1, <3>2, <4>2, <4>4, <4>5, Zenon DEF Layout, PointersIn, Seen
      <4>. QED BY <3>1, <3>2, <4>6, Zenon DEF PointerIn, Seen
    <3>. QED BY <3>3, <3>4
  <2>4. 2..Len(data) \subseteq Seen
    <3>. DEFINE T == {h \in 2..Len(data) : h \notin Seen}
    <3>1. SUFFICES ASSUME T # {} PROVE FALSE
      BY Zenon
    <3>2. T \subseteq Nat
      BY <2>2
    <3>3. PICK x \in T : \A y \in T : x <= y
      BY <3>1, <3>2, LeastOf, Zenon
    <3>4. \A y \in 2..Len(data) : y < x => y \in Seen
      <4>1. \A y \in 2..Len(data) : y < x => ~(x <= y)
        BY <2>2, <3>2
      <4>. QED BY <3>3, <4>1, Zenon
    <3>. QED BY <2>3, <3>4
  <2>5. Seen = 2..Len(data) /\ header_count = Len(data) - 1
    BY <1>1, <2>1, <2>4, Zenon DEF EveryObjectImaged
  <2>6. 5 * Cardinality(Seen) + Cardinality(SlotsIn(data, Seen)) = find_header_size
    BY <1>1, <2>1, <2>5, RoomFor, Zenon
  <2>7. header_off = 5 * Cardinality(Seen) + Cardinality(SlotsIn(data, Seen))
    BY <1>1, <2>1 DEF Room
  <2>. QED BY <2>5, <2>6, <2>7, Zenon DEF Seen
<1>2. BaseInv /\ ImageInv /\ EveryObjectImaged => ImageComplete
  BY <1>1 DEF ImageComplete
<1>3. Spec => []EveryObjectImaged
  <2>1. Spec => [](TreeMatchesSource /\ EverySlotFilled /\ EveryObjectImaged)
    BY OrdinarySource, OrdinarySourceImaged
  <2>. QED BY <2>1, PTL
<1>. QED
  BY <1>2, <1>3, ImageInvariantHolds, MasterImplementsWalk, PTL

----------------------------------------------------------------------------
(* The end of the image, and what it holds in the end *)

\* The headers end with one of those in Seen, and the files have left no hole
\* behind them unless one of them changed.
TailInv ==
  /\ Seen # {} => \E h \in Seen : End(data, headerAt, h) = header_off
  /\ FilesFitInt /\ changed = {} /\ pc # "idle" =>
       file_off = find_header_size \/ file_off <= Len(output)

LEMMA PutLonger ==
  ASSUME NEW I \in Seq(Nat), NEW off \in Nat, NEW cells \in Seq(Nat),
         NEW J, J = Put(I, off, cells)
  PROVE  /\ J \in Seq(Nat) /\ Len(I) \in Nat /\ Len(J) \in Nat /\ Len(I) <= Len(J)
         /\ cells # <<>> => off + Len(cells) <= Len(J)
<1>1. J \in Seq(Nat) /\ Kept(I, J, off, off + Len(cells)) /\ CellsIn(J, off, cells)
  BY PutFacts, Zenon
<1>2. Len(I) \in Nat /\ Len(J) \in Nat
  BY <1>1, LenProperties, Zenon
<1>. QED BY <1>1, <1>2, Zenon DEF Kept, CellsIn

LEMMA TailFile ==
  ASSUME BaseInv, ImageInv, TailInv, WriteFile
  PROVE  TailInv'
<1>1. Progress /\ Room /\ Layout
  BY DEF ImageInv
<1>2. /\ pc = "enter" /\ node # 0 /\ data[node].type = PLAIN_FILE /\ UNCHANGED vars
      /\ headerAt' = Recorded
      /\ file_off' = file_off + data[node].length /\ header_off' = header_off + 5
  BY DEF WriteFile, Uninitialised, M_HDR_SIZE
<1>. DEFINE n == data[node].length
            cs == HeaderCells(data[node].name, n, MTime(node), file_off, PLAIN_FILE)
<1>3. PICK actual \in IF FilesChange THEN FileSizes ELSE {n} :
         /\ output' = Put(Put(output, header_off, cs), file_off, Copied(node, actual))
         /\ changed' = IF actual = n THEN changed ELSE changed \cup {node}
  BY DEF WriteFile
<1>4. /\ node \in Nat /\ node \notin Seen /\ data[node].name \in Nat /\ n \in Nat
      /\ MTime(node) \in Nat /\ n \in FileSizes
  BY <1>1, <1>2, NodeFacts, Zenon
<1>5. actual \in FileSizes
  BY <1>4
<1>6. header_off \in Nat /\ file_off \in Nat /\ output \in Seq(Nat)
  BY <1>1 DEF Room, Layout
<1>7. /\ data' = data /\ find_header_size' = find_header_size /\ Seen' = DOMAIN headerAt'
  BY <1>2, TreeFixed, Zenon
<1>8. Seen' = Seen \cup {node} /\ headerAt'[node] = header_off
  BY <1>2, <1>4, <1>7, RecordedFacts, Zenon
<1>9. End(data', headerAt', node) = header_off'
  <2>1. Pointers(data, node) = 0
    BY <1>2 DEF Pointers, DIRECTORY, PLAIN_FILE
  <2>2. End(data, headerAt', node) = header_off + 5 + 0
    BY <1>8, <2>1, Zenon DEF End
  <2>3. header_off + 5 + 0 = header_off + 5
    BY <1>6
  <2>. QED BY <1>2, <1>7, <2>2, <2>3, Zenon
<1>10. cs \in Seq(Nat)
  BY <1>4, <1>6 DEF HeaderCells, PLAIN_FILE
<1>. DEFINE ct == Copied(node, actual)
<1>11. /\ ct \in Seq(Nat)
       /\ FilesFitInt /\ actual = n => ct = Content(node, actual) /\ Len(ct) = actual
  BY <1>4, <1>5, CopiedFacts, Zenon
<1>. HIDE DEF cs, ct, n
<1>12. PICK K : K = Put(output, header_off, cs)
  OBVIOUS
<1>13. K \in Seq(Nat) /\ Len(output) \in Nat /\ Len(K) \in Nat /\ Len(output) <= Len(K)
  BY <1>6, <1>10, <1>12, PutLonger, Zenon
<1>14. /\ Len(output') \in Nat /\ Len(K) <= Len(output')
       /\ ct # <<>> => file_off + Len(ct) <= Len(output')
  <2>1. output' = Put(K, file_off, ct)
    BY <1>3, <1>12, Zenon DEF ct
  <2>. QED BY <1>6, <1>11, <1>13, <2>1, PutLonger, Zenon
<1>15. ASSUME FilesFitInt, changed' = {}
       PROVE  file_off' = find_header_size \/ file_off' <= Len(output')
  <2>1. actual = n /\ changed = {}
    BY <1>3, <1>15 DEF n
  <2>2. file_off = find_header_size \/ file_off <= Len(output)
    BY <1>2, <1>15, <2>1 DEF TailInv
  <2>3. Len(ct) = n /\ file_off' = file_off + n
    BY <1>2, <1>11, <1>15, <2>1, Zenon DEF n
  <2>4. CASE n = 0
    BY <1>6, <1>13, <1>14, <2>2, <2>3, <2>4
  <2>5. CASE n # 0
    <3>1. ct # <<>>
      BY <2>3, <2>5, EmptySeq
    <3>. QED BY <1>14, <2>3, <3>1, Zenon
  <2>. QED BY <2>4, <2>5
<1>. QED BY <1>7, <1>8, <1>9, <1>15, Zenon DEF TailInv

LEMMA TailDirectory ==
  ASSUME BaseInv, ImageInv, TailInv, WriteDirectory
  PROVE  TailInv'
<1>1. Progress /\ Room /\ Layout
  BY DEF ImageInv
<1>. DEFINE n == data[node].length
            cs == HeaderCells(data[node].name, n, MTime(node), header_off + 5, DIRECTORY)
<1>2. /\ pc = "enter" /\ node # 0 /\ data[node].type = DIRECTORY /\ UNCHANGED vars
      /\ headerAt' = Recorded /\ UNCHANGED <<file_off, changed>>
      /\ header_off' = header_off + 5 + 1 * n
      /\ output' = Put(output, header_off, cs)
  BY DEF WriteDirectory, Uninitialised, M_HDR_SIZE, PTR_SIZE
<1>4. /\ node \in Nat /\ node \notin Seen /\ data[node].name \in Nat /\ n \in Nat
      /\ MTime(node) \in Nat
  BY <1>1, <1>2, NodeFacts, Zenon
<1>6. header_off \in Nat /\ file_off \in Nat /\ output \in Seq(Nat)
  BY <1>1 DEF Room, Layout
<1>7. /\ data' = data /\ find_header_size' = find_header_size /\ Seen' = DOMAIN headerAt'
  BY <1>2, TreeFixed, Zenon
<1>8. Seen' = Seen \cup {node} /\ headerAt'[node] = header_off
  BY <1>2, <1>4, <1>7, RecordedFacts, Zenon
<1>9. End(data', headerAt', node) = header_off'
  <2>1. Pointers(data, node) = n
    BY <1>2 DEF Pointers
  <2>2. End(data, headerAt', node) = header_off + 5 + n
    BY <1>8, <2>1, Zenon DEF End
  <2>3. 1 * n = n
    BY <1>4
  <2>. QED BY <1>2, <1>7, <2>2, <2>3, Zenon
<1>10. cs \in Seq(Nat)
  BY <1>4, <1>6 DEF HeaderCells, DIRECTORY
<1>. HIDE DEF cs, n
<1>14. Len(output) \in Nat /\ Len(output') \in Nat /\ Len(output) <= Len(output')
  BY <1>2, <1>6, <1>10, PutLonger, Zenon
<1>15. ASSUME FilesFitInt, changed' = {}
       PROVE  file_off' = find_header_size \/ file_off' <= Len(output')
  <2>1. file_off = find_header_size \/ file_off <= Len(output)
    BY <1>2, <1>15 DEF TailInv
  <2>. QED BY <1>2, <1>6, <1>14, <2>1
<1>. QED BY <1>7, <1>8, <1>9, <1>15, Zenon DEF TailInv

LEMMA TailPointer ==
  ASSUME BaseInv, ImageInv, TailInv, StorePointer
  PROVE  TailInv'
<1>1. Progress /\ Room /\ Layout
  BY DEF ImageInv
<1>. DEFINE c == Last(calls)
<1>2. /\ pc = "return" /\ calls # <<>> /\ UNCHANGED vars
      /\ UNCHANGED <<header_off, file_off, headerAt, changed>>
      /\ output' = Put(output, c.at + 5 + c.i * 1, <<headerAt[node]>>)
  BY DEF StorePointer, PointerAt, M_HDR_SIZE, PTR_SIZE
<1>3. c.i \in Nat /\ c.at \in Nat
  BY <1>1, <1>2, CallerFacts, Zenon
<1>4. /\ data' = data /\ find_header_size' = find_header_size /\ Seen' = Seen
  BY <1>2, TreeFixed DEF Seen
<1>5. headerAt[node] \in Nat
  <2>1. node \in Seen
    BY <1>1, <1>2 DEF Progress, PcInv
  <2>. QED BY <1>1, <2>1, SeenFacts, Zenon
<1>6. output \in Seq(Nat) /\ file_off \in Nat
  BY <1>1 DEF Room, Layout
<1>7. Len(output) \in Nat /\ Len(output') \in Nat /\ Len(output) <= Len(output')
  <2>1. c.at + 5 + c.i * 1 \in Nat
    BY <1>3
  <2>2. <<headerAt[node]>> \in Seq(Nat)
    BY <1>5
  <2>. QED BY <1>2, <1>6, <2>1, <2>2, PutLonger, Zenon
<1>8. ASSUME FilesFitInt, changed' = {}
      PROVE  file_off' = find_header_size \/ file_off' <= Len(output')
  <2>1. file_off = find_header_size \/ file_off <= Len(output)
    BY <1>2, <1>8 DEF TailInv
  <2>. QED BY <1>2, <1>6, <1>7, <2>1
<1>9. Seen # {} => \E h \in Seen : End(data, headerAt, h) = header_off
  BY DEF TailInv
<1>10. headerAt' = headerAt /\ header_off' = header_off
  BY <1>2
<1>. QED BY <1>4, <1>8, <1>9, <1>10, Zenon DEF TailInv

LEMMA NextTail ==
  ASSUME BaseInv, ImageInv, TailInv, [WNext]_allVars
  PROVE  TailInv'
<1>1. CASE Walk \/ (Unlock /\ UNCHANGED writerVars)
  <2>1. phase # "image"
    BY <1>1 DEF Walk, BuilderNext, IgnoreDot, BuildDirectory, ReportFile, BuildFile,
       SkipSeen, Refuse, Return, Unlock, NextIsOf
  <2>2. pc = "idle" /\ Seen = {}
    BY <2>1 DEF ImageInv, Progress, PcInv
  <2>3. pc' = pc /\ headerAt' = headerAt
    BY <1>1 DEF Walk, writerVars
  <2>4. pc' = "idle" /\ Seen' = {}
    BY <2>2, <2>3 DEF Seen
  <2>. QED BY <2>4, Zenon DEF TailInv
<1>2. CASE imageDFS
  <2>1. pc = "idle" /\ UNCHANGED vars /\ headerAt' = headerAt /\ file_off' = find_header_size
    BY <1>2 DEF imageDFS
  <2>2. Seen = {}
    BY <2>1 DEF ImageInv, Progress, PcInv
  <2>3. find_header_size' = find_header_size /\ Seen' = {}
    BY <2>1, <2>2, TreeFixed DEF Seen
  <2>. QED BY <2>1, <2>3, Zenon DEF TailInv
<1>3. CASE CloseImage \/ Derail \/ Ended \/ UNCHANGED allVars
  <2>1. /\ UNCHANGED vars /\ UNCHANGED <<header_off, file_off, output, headerAt, changed>>
        /\ pc = "idle" => pc' = "idle"
    BY <1>3 DEF CloseImage, Derail, Ended, allVars, writerVars
  <2>2. data' = data /\ find_header_size' = find_header_size /\ Seen' = Seen
    BY <2>1, TreeFixed DEF Seen
  <2>. QED BY <2>1, <2>2 DEF TailInv
<1>. QED
  BY <1>1, <1>2, <1>3, TailFile, TailDirectory, TailPointer, Zenon DEF WNext, Write

\* Each object hangs in the slot of its name, in the directory it lies in.
LEMMA SlotOf ==
  ASSUME BaseInv, TreeMatchesSource, EveryObjectImaged, phase = "image", NEW h \in Objects
  PROVE  /\ data[h].in \in 1..Len(data) /\ data[h].name \in Nat /\ data[h].in < h
         /\ <<data[h].in, data[h].name>> \in DOMAIN children
         /\ children[<<data[h].in, data[h].name>>] = h
         /\ data[data[h].in].type = DIRECTORY /\ data[h].name < data[data[h].in].length
<1>1. PICK s \in DOMAIN children : children[s] = h
  BY Zenon DEF EveryObjectImaged, Objects
<1>2. /\ s[1] \in 1..Len(data) /\ s[2] \in Nat /\ s = <<s[1], s[2]>>
      /\ data[s[1]].type = DIRECTORY /\ s[2] < data[s[1]].length /\ s[1] < children[s]
  BY Zenon DEF BaseInv, StackInv, SlotsOK
<1>3. data[h].in = s[1] /\ data[h].name = s[2]
  BY <1>1, Zenon DEF TreeMatchesSource
<1>. QED BY <1>1, <1>2, <1>3, Zenon

LEMMA ChildIn ==
  ASSUME BaseInv, TreeMatchesSource, NEW d, NEW k, <<d, k>> \in DOMAIN children
  PROVE  /\ children[<<d, k>>] \in Objects
         /\ data[children[<<d, k>>]].in = d /\ data[children[<<d, k>>]].name = k
<1>. DEFINE s == <<d, k>>
<1>0. s[1] = d /\ s[2] = k
  OBVIOUS
<1>. HIDE DEF s
<1>1. s \in DOMAIN children
  BY DEF s
<1>2. /\ s[1] \in 1..Len(data) /\ children[s] \in Nat /\ s[1] < children[s]
      /\ children[s] <= Len(data)
  BY <1>1, Zenon DEF BaseInv, StackInv, SlotsOK
<1>3. Len(data) \in Nat
  BY BaseFacts, Zenon
<1>4. children[s] \in Objects
  BY <1>2, <1>3 DEF Objects
<1>5. data[children[s]].in = s[1] /\ data[children[s]].name = s[2]
  BY <1>1, Zenon DEF TreeMatchesSource
<1>. QED BY <1>0, <1>4, <1>5, Zenon DEF s

LEMMA OrderOfTree ==
  ASSUME BaseInv, TreeMatchesSource, EveryObjectImaged, phase = "image"
  PROVE  TreeOrder
<1>1. data \in Seq(HeaderRec) /\ Len(data) \in Nat
  BY BaseFacts, Zenon
<1>2. ASSUME NEW h \in Objects PROVE data[h].in \in 1..(h - 1)
  <2>1. data[h].in \in 1..Len(data) /\ data[h].in < h
    BY SlotOf, Zenon
  <2>2. h \in Nat
    BY <1>1 DEF Objects
  <2>. QED BY <1>1, <2>1, <2>2
<1>3. ASSUME NEW g \in Objects, NEW h \in Objects,
             data[g].in = data[h].in, data[g].name = data[h].name
      PROVE  g = h
  <2>1. children[<<data[g].in, data[g].name>>] = g
    BY SlotOf, Zenon
  <2>2. children[<<data[h].in, data[h].name>>] = h
    BY SlotOf, Zenon
  <2>. QED BY <1>3, <2>1, <2>2, Zenon
<1>. QED BY <1>1, <1>2, <1>3, Zenon DEF TreeOrder

\* The data of an empty file lies within the image too.
LEMMA TailReached ==
  ASSUME BaseInv, ImageInv, TailInv, ImageComplete, FilesFitInt, changed = {},
         pc = "written"
  PROVE  file_off <= Len(output)
<1>1. Progress /\ Room /\ Layout
  BY DEF ImageInv
<1>2. /\ header_off = find_header_size /\ calls = <<>> /\ Seen # {}
      /\ header_off \in Nat /\ file_off \in Nat /\ output \in Seq(Nat)
  <2>1. header_off = find_header_size
    BY DEF ImageComplete
  <2>2. calls = <<>> /\ node \in Seen
    BY <1>1 DEF Progress, PcInv
  <2>3. header_off \in Nat /\ file_off \in Nat /\ output \in Seq(Nat)
    BY <1>1 DEF Room, Layout
  <2>. QED BY <2>1, <2>2, <2>3
<1>3. PICK h \in Seen : End(data, headerAt, h) = header_off
  BY <1>2, Zenon DEF TailInv
<1>4. /\ headerAt[h] \in Nat /\ headerAt[h] + 5 <= Len(output) /\ data[h].length \in Nat
      /\ Len(output) \in Nat
  BY <1>1, SeenFacts, Zenon
<1>5. header_off <= Len(output)
  <2>1. CASE Pointers(data, h) = 0
    BY <1>3, <1>4, <2>1 DEF End
  <2>2. CASE Pointers(data, h) # 0
    <3>1. data[h].type = DIRECTORY /\ Pointers(data, h) = data[h].length
      BY <2>2 DEF Pointers
    <3>. DEFINE k == data[h].length - 1
    <3>2. k \in 0..(data[h].length - 1)
      BY <1>4, <2>2, <3>1
    <3>3. Stored(calls, h, k)
      BY <1>2 DEF Stored
    <3>. HIDE DEF k
    <3>4. headerAt[h] + 5 + k < Len(output)
      BY <1>1, <3>1, <3>2, <3>3, Zenon DEF Layout, PointersIn, PointerIn, Seen
    <3>5. header_off = headerAt[h] + 5 + data[h].length
      BY <1>3, <3>1, Zenon DEF End
    <3>. QED BY <1>4, <3>4, <3>5 DEF k
  <2>. QED BY <2>1, <2>2
<1>6. file_off = find_header_size \/ file_off <= Len(output)
  BY DEF TailInv
<1>. QED BY <1>2, <1>5, <1>6, Zenon

\* A finished image of an ordinary source, in the terms of ImagedEncodes.
LEMMA FinishedImaged ==
  ASSUME BaseInv, ImageInv, TailInv, TreeMatchesSource, EverySlotFilled,
         EveryObjectImaged, ImageComplete, FilesFitInt, changed = {}, pc = "written"
  PROVE  Imaged
<1>1. Progress /\ Room /\ Layout
  BY DEF ImageInv
<1>2. /\ phase = "image" /\ calls = <<>> /\ output \in Seq(Nat)
      /\ Top(children) \in Seen /\ headerAt[Top(children)] = 0
  BY <1>1 DEF Progress, PcInv, Layout
<1>3. Seen = Objects
  BY Zenon DEF ImageComplete, Seen, Objects
<1>4. TreeOrder
  BY <1>2, OrderOfTree, Zenon
<1>5. Len(data) \in Nat /\ data[1].length = 1 /\ \A h \in Objects : h # 0 /\ h \in 1..Len(data)
  <2>1. Len(data) \in Nat /\ data[1].length = 1
    BY BaseFacts, Zenon
  <2>. QED BY <2>1 DEF Objects
<1>6. <<1, 0>> \in DOMAIN children /\ children[<<1, 0>>] = Top(children)
  BY <1>2, <1>3, <1>5, Zenon DEF Top, ChildOf, HeadNode
<1>7. \E h \in Objects : data[h].in = HeadNode
  BY <1>6, ChildIn, Zenon DEF HeadNode
<1>8. file_off <= Len(output)
  BY TailReached, Zenon
<1>9. ASSUME NEW h \in Objects
      PROVE  /\ headerAt[h] \in Nat /\ headerAt[h] + M_HDR_SIZE <= Len(output)
             /\ data[h].in = HeadNode => headerAt[h] = 0
             /\ HeaderIntact(h)
             /\ data[h].length \in Nat /\ DataAt(h) + data[h].length <= Len(output)
             /\ \/ /\ data[h].type = DIRECTORY
                   /\ {data[g].name : g \in KidsOf(h)} = 0..(data[h].length - 1)
                   /\ \A g \in KidsOf(h) : Cell(output, DataAt(h) + data[g].name) = headerAt[g]
                \/ /\ data[h].type = PLAIN_FILE
                   /\ KidsOf(h) = {}
                   /\ \A k \in 1..data[h].length :
                         Cell(output, DataAt(h) + k - 1) = Content(h, data[h].length)[k]
  <2>1. h \in Seen
    BY <1>3
  <2>2. /\ headerAt[h] \in Nat /\ headerAt[h] + 5 <= Len(output)
        /\ HeaderIn(data, output, headerAt[h], h)
        /\ data[h].length \in Nat /\ DataAt(h) \in Nat
        /\ data[h].type \in {DIRECTORY, PLAIN_FILE}
        /\ Len(output) \in Nat /\ file_off \in Nat
        /\ data[h].type = PLAIN_FILE =>
              FileIn(data, output, headerAt, changed, find_header_size, file_off, h)
    BY <1>1, <2>1, SeenFacts, Zenon DEF DataAt
  <2>3. HeaderIntact(h)
    BY <2>2, Zenon DEF HeaderIn, HeaderIntact
  <2>4. ASSUME data[h].in = HeadNode PROVE headerAt[h] = 0
    <3>1. /\ data[h].name \in Nat /\ children[<<1, data[h].name>>] = h
          /\ data[h].name < data[1].length
      BY <1>2, <2>4, SlotOf, Zenon DEF HeadNode
    <3>2. data[h].name = 0
      BY <1>5, <3>1
    <3>. QED BY <1>2, <1>6, <3>1, <3>2, Zenon
  <2>5. \A g \in KidsOf(h) : /\ g \in Objects /\ children[<<h, data[g].name>>] = g
                             /\ <<h, data[g].name>> \in DOMAIN children
                             /\ data[h].type = DIRECTORY
                             /\ data[g].name \in Nat /\ data[g].name < data[h].length
    <3>1. \A g \in KidsOf(h) : g \in Objects /\ data[g].in = h
      BY Zenon DEF KidsOf
    <3>. QED BY <1>2, <3>1, SlotOf, Zenon
  <2>6. CASE data[h].type = DIRECTORY
    <3>1. {data[g].name : g \in KidsOf(h)} = 0..(data[h].length - 1)
      <4>1. ASSUME NEW g \in KidsOf(h) PROVE data[g].name \in 0..(data[h].length - 1)
        <5>1. data[g].name \in Nat /\ data[g].name < data[h].length
          BY <2>5, Zenon
        <5>. QED BY <2>2, <5>1
      <4>2. ASSUME NEW k \in 0..(data[h].length - 1)
            PROVE  \E g \in KidsOf(h) : data[g].name = k
        <5>1. h \in DOMAIN data
          BY <1>4, <1>5 DEF TreeOrder
        <5>2. <<h, k>> \in DOMAIN children
          BY <1>2, <2>6, <5>1, Zenon DEF EverySlotFilled
        <5>3. PICK g : g = children[<<h, k>>]
          OBVIOUS
        <5>4. g \in Objects /\ data[g].in = h /\ data[g].name = k
          BY <5>2, <5>3, ChildIn, Zenon
        <5>. QED BY <5>4, ZenonT(60) DEF KidsOf
      <4>. QED BY <4>1, <4>2, ZenonT(60)
    <3>2. DataAt(h) = headerAt[h] + 5
      BY <2>2, <2>6, Zenon DEF HeaderIn, DataAt
    <3>3. ASSUME NEW k \in 0..(data[h].length - 1)
          PROVE  PointerIn(children, output, headerAt, h, k)
      <4>1. Stored(calls, h, k)
        BY <1>2 DEF Stored
      <4>. QED BY <1>1, <2>1, <2>6, <4>1, Zenon DEF Layout, PointersIn, Seen
    <3>4. ASSUME NEW g \in KidsOf(h)
          PROVE  Cell(output, DataAt(h) + data[g].name) = headerAt[g]
      <4>1. data[g].name \in 0..(data[h].length - 1)
        BY <3>1, Zenon
      <4>2. children[<<h, data[g].name>>] = g
        BY <2>5, Zenon
      <4>. QED BY <3>2, <3>3, <4>1, <4>2, Zenon DEF PointerIn
    <3>5. DataAt(h) + data[h].length <= Len(output)
      <4>1. CASE data[h].length = 0
        BY <2>2, <3>2, <4>1
      <4>2. CASE data[h].length # 0
        <5>. DEFINE k == data[h].length - 1
        <5>1. k \in 0..(data[h].length - 1)
          BY <2>2, <4>2
        <5>. HIDE DEF k
        <5>2. headerAt[h] + 5 + k < Len(output)
          BY <3>3, <5>1, Zenon DEF PointerIn
        <5>. QED BY <2>2, <3>2, <5>2 DEF k
      <4>. QED BY <4>1, <4>2
    <3>. QED BY <2>2, <2>3, <2>4, <2>6, <3>1, <3>4, <3>5, Zenon DEF M_HDR_SIZE
  <2>7. CASE data[h].type # DIRECTORY
    <3>1. data[h].type = PLAIN_FILE /\ KidsOf(h) = {}
      BY <2>2, <2>5, <2>7, ZenonT(60)
    <3>2. /\ DataAt(h) + data[h].length <= file_off
          /\ \A k \in 1..data[h].length :
                Cell(output, DataAt(h) + k - 1) = Content(h, data[h].length)[k]
      <4>1. h \notin changed
        OBVIOUS
      <4>. QED BY <2>2, <3>1, <4>1, Zenon DEF FileIn, DataAt
    <3>3. DataAt(h) + data[h].length <= Len(output)
      BY <1>8, <2>2, <3>2
    <3>. QED BY <2>2, <2>3, <2>4, <3>1, <3>2, <3>3, Zenon DEF M_HDR_SIZE
  <2>. QED BY <2>6, <2>7, Zenon
<1>. QED BY <1>2, <1>4, <1>7, <1>9, Zenon DEF Imaged

NoneChanged == changed = {}

\* The image, when it is closed, holds the source directory.
HoldsSource == pc = "written" => Encodes(output, SourceTree, ByPath(headerAt))

\* The contract between master and the programs that read its images, for
\* ordinary sources of any size and shape whose files keep their sizes and fit an
\* int: when imageDFS has closed the image, the names, times, sizes and bytes of
\* all objects are in it, and every directory leads to all its children.
THEOREM OrdinarySourceHeld ==
  ASSUME OrdinarySource, ~FilesChange, FilesFitInt
  PROVE  WSpec => []HoldsSource
<1>1. WInit => TailInv /\ NoneChanged
  <2>. SUFFICES ASSUME WInit PROVE TailInv /\ NoneChanged
    OBVIOUS
  <2>1. pc = "idle" /\ headerAt = <<>> /\ changed = {}
    BY DEF WInit
  <2>2. Seen = {}
    BY <2>1 DEF Seen
  <2>. QED BY <2>1, <2>2, Zenon DEF TailInv, NoneChanged
<1>2. BaseInv /\ ImageInv /\ TailInv /\ [WNext]_allVars => TailInv'
  BY NextTail, ZenonT(60)
<1>3. NoneChanged /\ [WNext]_allVars => NoneChanged'
  BY ZenonT(60) DEF NoneChanged, WNext, Write, Walk, writerVars, allVars, imageDFS, WriteFile, WriteDirectory,
     StorePointer, CloseImage, Derail, Ended
<1>4. /\ BaseInv /\ ImageInv /\ TailInv /\ NoneChanged /\ ImageComplete
      /\ TreeMatchesSource /\ EverySlotFilled /\ EveryObjectImaged
      => HoldsSource
  BY FinishedImaged, ImagedEncodes, Zenon DEF HoldsSource, NoneChanged
<1>5. Spec => [](TreeMatchesSource /\ EverySlotFilled /\ EveryObjectImaged)
  BY OrdinarySourceImaged, Zenon
<1>6. WSpec => []ImageComplete
  BY OrdinaryImageComplete, Zenon
<1>. QED
  BY <1>1, <1>2, <1>3, <1>4, <1>5, <1>6, ImageInvariantHolds, MasterImplementsWalk, PTL
     DEF WSpec
=============================================================================
