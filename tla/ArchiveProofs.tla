--------------------------- MODULE ArchiveProofs ----------------------------
(***************************************************************************)
(* From the source directory to the answers of the kernel: what is proved  *)
(* of master, of mounter and of tree, joined into statements about images  *)
(* that one program writes and the others read.                            *)
(*                                                                         *)
(* The invariant is Sound: a finished image fulfils the contract Encodes,  *)
(* with room behind each header for the padding that tree reads along.     *)
(* Sealing makes it true, by the last theorem of MasterProofs (W), with    *)
(* the digests behind the image (EncodesLonger). The readers never write   *)
(* to the image, so it stays true, and each of them needs it: the          *)
(* invariant of the mounter (MP) and that of tree (ToolInv) start from it. *)
(*                                                                         *)
(* A reader is proved correct in its own module, for its own variables.    *)
(* The lemmas Same... say that its actions here are the ones there.        *)
(***************************************************************************)
EXTENDS Archive, TLAPS

\* The provers that a step is given to, in this order, when it names none.
USE SMTT(15), Zenon, SMTT(60), ZenonT(60)

----------------------------------------------------------------------------
(* The contract *)

\* What the contract says of the object at p.
LEMMA ObjectOf ==
  ASSUME NEW I, NEW F, NEW A, Encodes(I, F, A), NEW p \in DOMAIN F
  PROVE  /\ I \in Seq(Nat) /\ Len(I) \in Nat /\ DOMAIN A = DOMAIN F
         /\ p \in Seq(Nat) /\ p # <<>>
         /\ F[p].kids \in Seq(Nat) /\ F[p].bytes \in Seq(Nat)
         /\ \A n \in 1..Len(p) : SubSeq(p, 1, n) \in DOMAIN F
         /\ Len(p) = 1 => A[p] = 0
         /\ F[p].type \in {DIRECTORY, PLAIN_FILE}
         /\ HeaderEncodes(I, A[p], Last(p), F[p])
         /\ Len(p) > 1 => \E k \in DOMAIN F[Front(p)].kids : F[Front(p)].kids[k] = Last(p)
<1>1. I \in Seq(Nat) => Len(I) \in Nat
  OBVIOUS
<1>. QED BY <1>1, Zenon DEF Encodes

\* What it says of the header at A[p] and the cells it leads to.
LEMMA HeaderOf ==
  ASSUME NEW I, NEW F, NEW A, Encodes(I, F, A), NEW p \in DOMAIN F
  PROVE  /\ A[p] \in Nat /\ A[p] + 5 <= Len(I) /\ Size(F[p]) \in Nat
         /\ Cell(I, A[p] + OFFSET) \in Nat
         /\ Cell(I, A[p] + OFFSET) + Size(F[p]) <= Len(I)
         /\ Cell(I, A[p] + LENGTH) = Size(F[p])
         /\ Cell(I, A[p] + TYPE) = F[p].type
<1>1. HeaderEncodes(I, A[p], Last(p), F[p]) /\ I \in Seq(Nat)
  BY ObjectOf, Zenon
<1>2. A[p] \in Nat /\ A[p] + 5 <= Len(I)
  BY <1>1, Zenon DEF HeaderEncodes, M_HDR_SIZE
<1>3. \A o \in Nat : o + 5 <= Len(I) => I[o + OFFSET + 1] \in Nat
  BY <1>1 DEF OFFSET
<1>4. F[p].kids \in Seq(Nat) /\ F[p].bytes \in Seq(Nat)
  BY ObjectOf, Zenon
<1>5. \A s \in Seq(Nat) : Len(s) \in Nat
  OBVIOUS
<1>. QED BY <1>1, <1>2, <1>3, <1>4, <1>5, Zenon DEF HeaderEncodes, Size, Cell

LEMMA KidOf ==
  ASSUME NEW I, NEW F, NEW A, Encodes(I, F, A), NEW p \in DOMAIN F, F[p].type = DIRECTORY,
         NEW k \in 1..Len(F[p].kids)
  PROVE  /\ Append(p, F[p].kids[k]) \in DOMAIN F
         /\ Cell(I, Cell(I, A[p] + OFFSET) + (k - 1) * PTR_SIZE) = A[Append(p, F[p].kids[k])]
<1>1. k \in DOMAIN F[p].kids /\ DIRECTORY # PLAIN_FILE
  BY ObjectOf DEF DIRECTORY, PLAIN_FILE
<1>. QED BY <1>1, Zenon DEF Encodes

LEMMA ByteOf ==
  ASSUME NEW I, NEW F, NEW A, Encodes(I, F, A), NEW p \in DOMAIN F, F[p].type = PLAIN_FILE,
         NEW k \in 1..Len(F[p].bytes)
  PROVE  Cell(I, Cell(I, A[p] + OFFSET) + k - 1) = F[p].bytes[k]
<1>1. k \in DOMAIN F[p].bytes /\ DIRECTORY # PLAIN_FILE
  BY ObjectOf DEF DIRECTORY, PLAIN_FILE
<1>. QED BY <1>1, Zenon DEF Encodes

\* The digests behind an image do not disturb it.
LEMMA EncodesLonger ==
  ASSUME NEW I, NEW F, NEW A, Encodes(I, F, A), NEW T0 \in Seq(Nat)
  PROVE  Encodes(I \o T0, F, A)
<1>. DEFINE J == I \o T0
<1>1. I \in Seq(Nat) /\ DOMAIN A = DOMAIN F /\ <<Cell(I, NAME)>> \in DOMAIN F
  BY Zenon DEF Encodes
<1>2. /\ J \in Seq(Nat) /\ Len(I) \in Nat /\ Len(J) \in Nat /\ Len(I) <= Len(J)
      /\ \A o \in Nat : o + 1 <= Len(I) => J[o + 1] = I[o + 1]
  BY <1>1
<1>. HIDE DEF J
<1>2a. Len(I) \in Nat /\ Len(J) \in Nat /\ Len(I) <= Len(J)
  BY <1>2, Zenon
<1>3. \A o \in Nat : o + 1 <= Len(I) => Cell(J, o) = Cell(I, o)
  BY <1>2, Zenon DEF Cell
<1>4. ASSUME NEW p \in DOMAIN F, NEW f \in 0..4 PROVE Cell(J, A[p] + f) = Cell(I, A[p] + f)
  <2>1. A[p] \in Nat /\ A[p] + 5 <= Len(I)
    BY HeaderOf, Zenon
  <2>2. A[p] + f \in Nat /\ A[p] + f + 1 <= Len(I)
    <3>1. \A n, l \in Nat : n + 5 <= l => n + f \in Nat /\ n + f + 1 <= l
      OBVIOUS
    <3>. QED BY <1>2a, <2>1, <3>1, Zenon
  <2>. QED BY <1>3, <2>2, Zenon
<1>5. Cell(J, NAME) = Cell(I, NAME)
  <2>1. PICK p \in DOMAIN F : p = <<Cell(I, NAME)>>
    BY <1>1
  <2>2. 1 <= Len(I)
    <3>1. A[p] \in Nat /\ A[p] + 5 <= Len(I)
      BY HeaderOf, Zenon
    <3>. QED BY <1>2a, <3>1
  <2>3. 0 \in Nat /\ 0 + 1 <= Len(I)
    BY <1>2a, <2>2
  <2>. QED BY <1>3, <2>3, Zenon DEF NAME
<1>6. ASSUME NEW p \in DOMAIN F PROVE HeaderEncodes(J, A[p], Last(p), F[p])
  <2>1. HeaderEncodes(I, A[p], Last(p), F[p])
    BY ObjectOf, Zenon
  <2>2. A[p] \in Nat /\ A[p] + 5 <= Len(I) /\ Cell(I, A[p] + OFFSET) + Size(F[p]) <= Len(I)
        /\ Cell(I, A[p] + OFFSET) \in Nat /\ Size(F[p]) \in Nat
    BY HeaderOf, Zenon
  <2>3. A[p] + 5 <= Len(J) /\ Cell(I, A[p] + OFFSET) + Size(F[p]) <= Len(J)
    BY <1>2a, <2>2
  <2>4. /\ Cell(J, A[p] + NAME) = Cell(I, A[p] + NAME)
        /\ Cell(J, A[p] + LENGTH) = Cell(I, A[p] + LENGTH)
        /\ Cell(J, A[p] + TIME) = Cell(I, A[p] + TIME)
        /\ Cell(J, A[p] + OFFSET) = Cell(I, A[p] + OFFSET)
        /\ Cell(J, A[p] + TYPE) = Cell(I, A[p] + TYPE)
    BY <1>4 DEF NAME, LENGTH, TIME, OFFSET, TYPE
  <2>. QED BY <2>1, <2>2, <2>3, <2>4, Zenon DEF HeaderEncodes, M_HDR_SIZE
<1>7. ASSUME NEW p \in DOMAIN F PROVE Cell(J, A[p] + OFFSET) = Cell(I, A[p] + OFFSET)
  BY <1>4 DEF OFFSET
<1>8. ASSUME NEW p \in DOMAIN F, NEW k \in 1..Size(F[p])
      PROVE  /\ Cell(J, Cell(I, A[p] + OFFSET) + (k - 1) * PTR_SIZE) =
                  Cell(I, Cell(I, A[p] + OFFSET) + (k - 1) * PTR_SIZE)
             /\ Cell(J, Cell(I, A[p] + OFFSET) + k - 1) = Cell(I, Cell(I, A[p] + OFFSET) + k - 1)
  <2>1. PICK d \in Nat : d = Cell(I, A[p] + OFFSET)
    BY HeaderOf, Zenon
  <2>2. PICK n \in Nat : n = Size(F[p])
    BY HeaderOf, Zenon
  <2>3. d + n <= Len(I)
    BY <2>1, <2>2, HeaderOf, Zenon
  <2>4. k \in 1..n
    BY <2>2, Zenon
  <2>5. /\ d + k - 1 \in Nat /\ (d + k - 1) + 1 <= Len(I)
        /\ d + (k - 1) * PTR_SIZE = d + k - 1
    BY <1>2a, <2>3, <2>4 DEF PTR_SIZE
  <2>6. Cell(J, d + k - 1) = Cell(I, d + k - 1)
    BY <1>3, <2>5, Zenon
  <2>. QED BY <2>1, <2>5, <2>6, Zenon
<1>9. ASSUME NEW p \in DOMAIN F
      PROVE  \/ /\ F[p].type = DIRECTORY
                /\ \A k \in DOMAIN F[p].kids :
                     /\ Append(p, F[p].kids[k]) \in DOMAIN F
                     /\ Cell(J, Cell(J, A[p] + OFFSET) + (k - 1) * PTR_SIZE) =
                          A[Append(p, F[p].kids[k])]
             \/ /\ F[p].type = PLAIN_FILE
                /\ \A k \in DOMAIN F[p].bytes :
                     Cell(J, Cell(J, A[p] + OFFSET) + k - 1) = F[p].bytes[k]
  <2>0. DOMAIN F[p].kids = 1..Len(F[p].kids) /\ DOMAIN F[p].bytes = 1..Len(F[p].bytes)
        /\ DIRECTORY # PLAIN_FILE
    BY ObjectOf DEF DIRECTORY, PLAIN_FILE
  <2>1. CASE F[p].type = DIRECTORY
    <3>1. Size(F[p]) = Len(F[p].kids)
      BY <2>1, Zenon DEF Size
    <3>2. ASSUME NEW k \in DOMAIN F[p].kids
          PROVE  /\ Append(p, F[p].kids[k]) \in DOMAIN F
                 /\ Cell(J, Cell(J, A[p] + OFFSET) + (k - 1) * PTR_SIZE) =
                      A[Append(p, F[p].kids[k])]
      <4>1. k \in 1..Len(F[p].kids) /\ k \in 1..Size(F[p])
        BY <2>0, <3>1, Zenon
      <4>2. /\ Append(p, F[p].kids[k]) \in DOMAIN F
            /\ Cell(I, Cell(I, A[p] + OFFSET) + (k - 1) * PTR_SIZE) =
                 A[Append(p, F[p].kids[k])]
        BY <2>1, <4>1, KidOf
      <4>3. Cell(J, Cell(I, A[p] + OFFSET) + (k - 1) * PTR_SIZE) =
              Cell(I, Cell(I, A[p] + OFFSET) + (k - 1) * PTR_SIZE)
        BY <1>8, <4>1, Zenon
      <4>4. Cell(J, A[p] + OFFSET) = Cell(I, A[p] + OFFSET)
        BY <1>7, Zenon
      <4>. QED BY <4>2, <4>3, <4>4, Zenon
    <3>. QED BY <2>1, <3>2, Zenon
  <2>2. CASE F[p].type = PLAIN_FILE
    <3>1. Size(F[p]) = Len(F[p].bytes)
      BY <2>0, <2>2, Zenon DEF Size
    <3>2. ASSUME NEW k \in DOMAIN F[p].bytes
          PROVE  Cell(J, Cell(J, A[p] + OFFSET) + k - 1) = F[p].bytes[k]
      <4>1. k \in 1..Len(F[p].bytes) /\ k \in 1..Size(F[p])
        BY <2>0, <3>1, Zenon
      <4>2. Cell(I, Cell(I, A[p] + OFFSET) + k - 1) = F[p].bytes[k]
        BY <2>2, <4>1, ByteOf
      <4>3. Cell(J, Cell(I, A[p] + OFFSET) + k - 1) = Cell(I, Cell(I, A[p] + OFFSET) + k - 1)
        BY <1>8, <4>1, Zenon
      <4>4. Cell(J, A[p] + OFFSET) = Cell(I, A[p] + OFFSET)
        BY <1>7, Zenon
      <4>. QED BY <4>2, <4>3, <4>4, Zenon
    <3>. QED BY <2>2, <3>2, Zenon
  <2>3. F[p].type = DIRECTORY \/ F[p].type = PLAIN_FILE
    BY ObjectOf
  <2>. QED BY <2>1, <2>2, <2>3, Zenon
<1>10. Encodes(J, F, A)
  BY <1>1, <1>2, <1>5, <1>6, <1>9, ObjectOf, Zenon DEF Encodes
<1>. QED BY <1>10 DEF J

----------------------------------------------------------------------------
(* The listing.  The stream of tree cannot fail because readHeader() is    *)
(* only called with the offset of a header, and the loops of               *)
(* print_metadata() only read the pointers of directories.                 *)

\* The finished image fulfils the contract, and behind each header there is room
\* for the padding that readHeader() of tree reads as well.
Sound ==
  disk # NoDisk =>
    /\ Encodes(disk.image, disk.fs, disk.at)
    /\ \A p \in DOMAIN disk.fs : disk.at[p] + T!SIZEOF_M_HDR <= Len(disk.image)

Frames == [offset : Nat, left : Nat]

\* A loop over the children of a directory, some of them still to come.
LoopOf(e) ==
  \E p \in DOMAIN disk.fs :
    /\ disk.fs[p].type = DIRECTORY
    /\ e.left <= Len(disk.fs[p].kids)
    /\ e.offset = Cell(disk.image, disk.at[p] + OFFSET) + (Len(disk.fs[p].kids) - e.left)

LoopsOf(s) == \A k \in 1..Len(s) : LoopOf(s[k])

ToolInv ==
  /\ good = TRUE /\ tpc # "undefined"
  /\ disk = NoDisk => tpc = "off"
  /\ tpc = "off" => from = 0 /\ stack = <<>>
  /\ tpc = "header" => \E p \in DOMAIN disk.fs : from = disk.at[p]
  /\ tpc = "print" => \E p \in DOMAIN disk.fs : \A f \in 0..4 :
                        header[f + 1] = Cell(disk.image, disk.at[p] + f)
  /\ stack \in Seq(Frames)
  /\ LoopsOf(stack)

LEMMA FrontFacts ==
  ASSUME NEW X, NEW s \in Seq(X), s # <<>>
  PROVE  /\ T!Last(s) \in X /\ T!Front(s) \in Seq(X)
         /\ \E k \in 1..Len(s) : T!Last(s) = s[k]
         /\ \A k \in 1..Len(T!Front(s)) : k \in 1..Len(s) /\ T!Front(s)[k] = s[k]
<1>1. Len(s) \in 1..Len(s) /\ s[Len(s)] \in X
  OBVIOUS
<1>2. /\ SubSeq(s, 1, Len(s) - 1) \in Seq(X)
      /\ \A k \in 1..Len(SubSeq(s, 1, Len(s) - 1)) :
           k \in 1..Len(s) /\ SubSeq(s, 1, Len(s) - 1)[k] = s[k]
  BY <1>1
<1>. QED BY <1>1, <1>2, Zenon DEF T!Last, T!Front

LEMMA PushFacts ==
  ASSUME NEW X, NEW s \in Seq(X), NEW e \in X
  PROVE  /\ Append(s, e) \in Seq(X)
         /\ \A k \in 1..Len(Append(s, e)) :
              Append(s, e)[k] = e \/ (k \in 1..Len(s) /\ Append(s, e)[k] = s[k])
OBVIOUS

LEMMA PushLoops ==
  ASSUME NEW s \in Seq(Frames), LoopsOf(s), NEW e \in Frames, LoopOf(e),
         NEW u, u = Append(s, e)
  PROVE  u \in Seq(Frames) /\ LoopsOf(u)
<1>1. /\ Append(s, e) \in Seq(Frames)
      /\ \A k \in 1..Len(Append(s, e)) :
           Append(s, e)[k] = e \/ (k \in 1..Len(s) /\ Append(s, e)[k] = s[k])
  BY PushFacts
<1>. QED BY <1>1, Zenon DEF LoopsOf

LEMMA PopLoops ==
  ASSUME NEW s \in Seq(Frames), LoopsOf(s), s # <<>>
  PROVE  /\ T!Last(s) \in Frames /\ LoopOf(T!Last(s))
         /\ T!Front(s) \in Seq(Frames) /\ LoopsOf(T!Front(s))
<1>1. /\ T!Last(s) \in Frames /\ T!Front(s) \in Seq(Frames)
      /\ \E k \in 1..Len(s) : T!Last(s) = s[k]
      /\ \A k \in 1..Len(T!Front(s)) : k \in 1..Len(s) /\ T!Front(s)[k] = s[k]
  BY FrontFacts, Zenon
<1>. QED BY <1>1, Zenon DEF LoopsOf

LEMMA LongerFacts ==
  ASSUME NEW s \in Seq(Nat), NEW u \in Seq(Nat)
  PROVE  Len(s \o u) = Len(s) + Len(u) /\ Len(s) \in Nat
OBVIOUS

LEMMA CutFacts ==
  ASSUME NEW s \in Seq(Nat), NEW o \in Nat, o + 5 <= Len(s), NEW f \in 0..4
  PROVE  SubSeq(s, o + 1, o + 5)[f + 1] = s[o + f + 1]
<1>1. \A a \in 1..(Len(s) + 1), b \in 0..Len(s) : \A k \in 1..(1 + b - a) :
        SubSeq(s, a, b)[k] = s[a + k - 1]
  OBVIOUS
<1>2. /\ o + 1 \in 1..(Len(s) + 1) /\ o + 5 \in 0..Len(s)
      /\ f + 1 \in 1..(1 + (o + 5) - (o + 1)) /\ (o + 1) + (f + 1) - 1 = o + f + 1
  OBVIOUS
<1>3. SubSeq(s, o + 1, o + 5)[f + 1] = s[(o + 1) + (f + 1) - 1]
  BY <1>1, <1>2, Zenon
<1>. QED BY <1>2, <1>3, Zenon

\* The contract for the finished image.
LEMMA DiskFacts ==
  ASSUME Sound, disk # NoDisk
  PROVE  /\ Encodes(disk.image, disk.fs, disk.at)
         /\ disk.image \in Seq(Nat) /\ Len(disk.image) \in Nat
         /\ \E p \in DOMAIN disk.fs : disk.at[p] = 0
<1>1. Encodes(disk.image, disk.fs, disk.at)
  BY Zenon DEF Sound
<1>2. PICK p \in DOMAIN disk.fs : p = <<Cell(disk.image, NAME)>>
  BY <1>1 DEF Encodes
<1>3. Len(p) = 1
  BY <1>2
<1>. QED BY <1>1, <1>3, ObjectOf

LEMMA DiskHeader ==
  ASSUME Sound, disk # NoDisk, NEW p \in DOMAIN disk.fs
  PROVE  /\ disk.at[p] \in Nat /\ disk.at[p] + 6 <= Len(disk.image)
         /\ Size(disk.fs[p]) \in Nat
         /\ Cell(disk.image, disk.at[p] + OFFSET) \in Nat
         /\ Cell(disk.image, disk.at[p] + OFFSET) + Size(disk.fs[p]) <= Len(disk.image)
         /\ Cell(disk.image, disk.at[p] + LENGTH) = Size(disk.fs[p])
         /\ Cell(disk.image, disk.at[p] + TYPE) = disk.fs[p].type
<1>1. Encodes(disk.image, disk.fs, disk.at)
  BY Zenon DEF Sound
<1>2. disk.at[p] + 6 <= Len(disk.image)
  BY DEF Sound, T!SIZEOF_M_HDR, T!M_HDR_SIZE
<1>. QED BY <1>1, <1>2, HeaderOf

\* What the steps of tree have in common.
LEMMA ToolKeeps ==
  ASSUME ToolInv, disk # NoDisk, disk' = disk, good' = TRUE, tpc' \notin {"off", "undefined"},
         stack' \in Seq(Frames), LoopsOf(stack'),
         tpc' = "header" => \E p \in DOMAIN disk.fs : from' = disk.at[p],
         tpc' = "print" => \E p \in DOMAIN disk.fs : \A f \in 0..4 :
                             header'[f + 1] = Cell(disk.image, disk.at[p] + f)
  PROVE  ToolInv'
<1>1. LoopsOf(stack)'
  BY Zenon DEF LoopsOf, LoopOf
<1>. QED BY <1>1, Zenon DEF ToolInv

LEMMA OpenStep ==
  ASSUME Sound, ToolInv, disk # NoDisk, disk' = disk, T!Open
  PROVE  ToolInv'
<1>1. tpc = "off" /\ tpc' = "header" /\ UNCHANGED <<good, from, header, stack>>
  BY DEF T!Open
<1>2. from = 0 /\ stack = <<>> /\ stack \in Seq(Frames) /\ LoopsOf(stack) /\ good = TRUE
  BY <1>1, Zenon DEF ToolInv
<1>3. \E p \in DOMAIN disk.fs : from' = disk.at[p]
  BY <1>1, <1>2, DiskFacts, Zenon
<1>4. tpc' \notin {"off", "undefined", "print"}
  BY <1>1
<1>. QED BY <1>1, <1>2, <1>3, <1>4, ToolKeeps, Zenon

LEMMA ReadHeaderStep ==
  ASSUME Sound, ToolInv, disk # NoDisk, disk' = disk, T!readHeader
  PROVE  ToolInv'
<1>1. tpc = "header" /\ UNCHANGED <<from, stack>>
  BY DEF T!readHeader
<1>2. PICK p \in DOMAIN disk.fs : from = disk.at[p]
  BY <1>1, Zenon DEF ToolInv
<1>3. from \in Nat /\ from + 6 <= Len(disk.image)
  BY <1>2, DiskHeader, Zenon
<1>4. disk.image \in Seq(Nat) /\ Len(disk.image) \in Nat
  BY DiskFacts, Zenon
<1>5. good = TRUE /\ stack \in Seq(Frames) /\ LoopsOf(stack)
  BY Zenon DEF ToolInv
<1>6. T!Readable(from, T!SIZEOF_M_HDR) = TRUE /\ T!Readable(from, T!M_HDR_SIZE) = TRUE
  BY <1>3, <1>4, <1>5 DEF T!Readable, T!SIZEOF_M_HDR, T!M_HDR_SIZE
<1>7. good' = TRUE /\ tpc' = "print" /\ header' = SubSeq(disk.image, from + 1, from + 5)
  BY <1>6, Zenon DEF T!readHeader, T!M_HDR_SIZE
<1>8. \A f \in 0..4 : SubSeq(disk.image, from + 1, from + 5)[f + 1] = disk.image[from + f + 1]
  <2>1. from + 5 <= Len(disk.image)
    BY <1>3, <1>4
  <2>. QED BY <1>3, <1>4, <2>1, CutFacts, Zenon
<1>9. \A f \in 0..4 : header'[f + 1] = Cell(disk.image, disk.at[p] + f)
  BY <1>2, <1>7, <1>8, Zenon DEF Cell
<1>10. tpc' \notin {"off", "undefined"} /\ tpc' # "header"
  BY <1>7
<1>. QED BY <1>1, <1>5, <1>7, <1>9, <1>10, ToolKeeps, Zenon

LEMMA PrintStep ==
  ASSUME Sound, ToolInv, disk # NoDisk, disk' = disk, T!print_metadata
  PROVE  ToolInv'
<1>1. tpc = "print" /\ tpc' = "next"
  BY DEF T!print_metadata
<1>2. PICK p \in DOMAIN disk.fs : \A f \in 0..4 :
        header[f + 1] = Cell(disk.image, disk.at[p] + f)
  BY <1>1, Zenon DEF ToolInv
<1>4. good = TRUE /\ stack \in Seq(Frames) /\ LoopsOf(stack)
  BY Zenon DEF ToolInv
<1>5. /\ T!Field(T!OFFSET) = Cell(disk.image, disk.at[p] + OFFSET)
      /\ T!Field(T!LENGTH) = Cell(disk.image, disk.at[p] + LENGTH)
      /\ T!Field(T!TYPE) = Cell(disk.image, disk.at[p] + TYPE)
  BY <1>2 DEF T!Field, T!OFFSET, T!LENGTH, T!TYPE, OFFSET, LENGTH, TYPE
<1>6. /\ T!Field(T!OFFSET) \in Nat /\ T!Field(T!LENGTH) = Size(disk.fs[p])
      /\ Size(disk.fs[p]) \in Nat /\ T!Field(T!TYPE) = disk.fs[p].type
      /\ T!Field(T!OFFSET) + T!Field(T!LENGTH) <= Len(disk.image)
  BY <1>5, DiskHeader, Zenon
<1>7. good' = TRUE
  BY <1>4, <1>6, Zenon DEF T!print_metadata, T!Readable
<1>8. stack' \in Seq(Frames) /\ LoopsOf(stack')
  <2>1. CASE disk.fs[p].type = DIRECTORY
    <3>. DEFINE e == [offset |-> T!Field(T!OFFSET), left |-> T!Field(T!LENGTH)]
    <3>1. stack' = Append(stack, e)
      BY <1>6, <2>1, Zenon DEF T!print_metadata, T!DIRECTORY, DIRECTORY
    <3>2. e \in Frames /\ e.left = Size(disk.fs[p]) /\ e.offset = T!Field(T!OFFSET)
      BY <1>6 DEF Frames
    <3>3. Size(disk.fs[p]) = Len(disk.fs[p].kids)
      BY <2>1, Zenon DEF Size
    <3>. HIDE DEF e
    <3>4. /\ e.left <= Len(disk.fs[p].kids)
          /\ T!Field(T!OFFSET) = T!Field(T!OFFSET) + (Len(disk.fs[p].kids) - e.left)
      BY <1>6, <3>2, <3>3
    <3>5. LoopOf(e)
      BY <1>5, <2>1, <3>2, <3>4, Zenon DEF LoopOf
    <3>. QED BY <1>4, <3>1, <3>2, <3>5, PushLoops, Zenon
  <2>2. CASE disk.fs[p].type # DIRECTORY
    <3>1. stack' = stack
      BY <1>6, <2>2, Zenon DEF T!print_metadata, T!DIRECTORY, DIRECTORY
    <3>. QED BY <1>4, <3>1, Zenon
  <2>. QED BY <2>1, <2>2
<1>9. tpc' \notin {"off", "undefined", "header", "print"}
  BY <1>1
<1>. QED BY <1>7, <1>8, <1>9, ToolKeeps, Zenon

LEMMA NextChildStep ==
  ASSUME Sound, ToolInv, disk # NoDisk, disk' = disk, T!NextChild
  PROVE  ToolInv'
<1>1. tpc = "next" /\ stack # <<>> /\ T!Last(stack).left > 0
  BY DEF T!NextChild
<1>2. Encodes(disk.image, disk.fs, disk.at)
  BY Zenon DEF Sound
<1>3. good = TRUE /\ stack \in Seq(Frames) /\ LoopsOf(stack)
  BY Zenon DEF ToolInv
<1>. DEFINE top == T!Last(stack)
            e == [offset |-> top.offset + T!PTR_SIZE, left |-> top.left - 1]
<1>4. stack' = Append(T!Front(stack), e)
  BY Zenon DEF T!NextChild
<1>5. top \in Frames /\ LoopOf(top) /\ T!Front(stack) \in Seq(Frames) /\ LoopsOf(T!Front(stack))
  BY <1>1, <1>3, PopLoops, Zenon
<1>6. PICK p \in DOMAIN disk.fs :
        /\ disk.fs[p].type = DIRECTORY
        /\ top.left <= Len(disk.fs[p].kids)
        /\ top.offset = Cell(disk.image, disk.at[p] + OFFSET) + (Len(disk.fs[p].kids) - top.left)
  BY <1>5, Zenon DEF LoopOf
<1>7. PICK d \in Nat : d = Cell(disk.image, disk.at[p] + OFFSET)
  BY DiskHeader, Zenon
<1>8. Size(disk.fs[p]) = Len(disk.fs[p].kids)
  BY <1>6, Zenon DEF Size
<1>9. PICK n \in Nat : n = Len(disk.fs[p].kids)
  BY <1>8, DiskHeader, Zenon
<1>10. d + n <= Len(disk.image) /\ Len(disk.image) \in Nat
  BY <1>7, <1>8, <1>9, DiskHeader, DiskFacts, Zenon
<1>11. top.left \in Nat /\ top.offset \in Nat
  BY <1>5, Zenon DEF Frames
<1>12. PICK l \in Nat : l = top.left
  BY <1>11, Zenon
<1>13. l > 0 /\ l <= n /\ top.offset = d + (n - l)
  BY <1>1, <1>6, <1>7, <1>9, <1>12, Zenon
<1>14. e \in Frames /\ e.left = l - 1 /\ e.offset = d + (n - l) + 1
  BY <1>12, <1>13 DEF Frames, T!PTR_SIZE
<1>15. LoopOf(e)
  <2>1. l - 1 <= n /\ d + (n - l) + 1 = d + (n - (l - 1))
    BY <1>13
  <2>. HIDE DEF e
  <2>. QED BY <1>6, <1>7, <1>9, <1>14, <2>1, Zenon DEF LoopOf
<1>16. stack' \in Seq(Frames) /\ LoopsOf(stack')
  <2>. HIDE DEF e
  <2>. QED BY <1>4, <1>5, <1>14, <1>15, PushLoops, Zenon
<1>17. T!Readable(top.offset, T!PTR_SIZE) = TRUE
  BY <1>3, <1>10, <1>13 DEF T!Readable, T!PTR_SIZE
<1>18. good' = TRUE /\ tpc' = "header" /\ from' = Cell(disk.image, top.offset)
  BY <1>17, Zenon DEF T!NextChild, T!Cell, Cell
<1>19. \E q \in DOMAIN disk.fs : from' = disk.at[q]
  <2>1. PICK k \in 1..n : k = n - l + 1 /\ d + (k - 1) * PTR_SIZE = d + (n - l)
    BY <1>13 DEF PTR_SIZE
  <2>2. k \in 1..Len(disk.fs[p].kids)
    BY <1>9, Zenon
  <2>3. /\ Append(p, disk.fs[p].kids[k]) \in DOMAIN disk.fs
        /\ Cell(disk.image, Cell(disk.image, disk.at[p] + OFFSET) + (k - 1) * PTR_SIZE) =
             disk.at[Append(p, disk.fs[p].kids[k])]
    BY <1>2, <1>6, <2>2, KidOf
  <2>. QED BY <1>7, <1>13, <1>18, <2>1, <2>3, Zenon
<1>20. tpc' \notin {"off", "undefined", "print"}
  BY <1>18
<1>. QED BY <1>16, <1>18, <1>19, <1>20, ToolKeeps, Zenon

LEMMA ReturnStep ==
  ASSUME ToolInv, disk # NoDisk, disk' = disk, T!ReturnToParent \/ T!Exit
  PROVE  ToolInv'
<1>1. good = TRUE /\ stack \in Seq(Frames) /\ LoopsOf(stack)
  BY Zenon DEF ToolInv
<1>2. good' = TRUE /\ tpc' \in {"next", "done"}
  BY <1>1, Zenon DEF T!ReturnToParent, T!Exit
<1>3. stack' = stack \/ (stack # <<>> /\ stack' = T!Front(stack))
  BY Zenon DEF T!ReturnToParent, T!Exit
<1>4. stack' \in Seq(Frames) /\ LoopsOf(stack')
  <2>1. CASE stack # <<>> /\ stack' = T!Front(stack)
    BY <1>1, <2>1, PopLoops, Zenon
  <2>. QED BY <1>1, <1>3, <2>1, Zenon
<1>5. tpc' \notin {"off", "undefined", "header", "print"}
  BY <1>2
<1>. QED BY <1>2, <1>4, <1>5, ToolKeeps, Zenon

LEMMA ToolIdle ==
  ASSUME good' = TRUE, tpc' = "off", from' = 0, stack' = <<>>
  PROVE  ToolInv'
<1>1. <<>> \in Seq(Frames) /\ 1..Len(<<>>) = {}
  OBVIOUS
<1>2. LoopsOf(stack)'
  BY <1>1, Zenon DEF LoopsOf
<1>3. tpc' # "undefined" /\ tpc' # "header" /\ tpc' # "print"
  OBVIOUS
<1>. QED BY <1>1, <1>2, <1>3, Zenon DEF ToolInv

LEMMA ToolStutters ==
  ASSUME ToolInv, disk' = disk, UNCHANGED toolVars
  PROVE  ToolInv'
<1>1. UNCHANGED <<tpc, good, from, header, stack>>
  BY DEF toolVars
<1>2. LoopsOf(stack)'
  BY <1>1, Zenon DEF ToolInv, LoopsOf, LoopOf
<1>. QED BY <1>1, <1>2, Zenon DEF ToolInv

LEMMA ToolStep ==
  ASSUME Sound, ToolInv, disk # NoDisk, disk' = disk, T!Open \/ T!Step
  PROVE  ToolInv'
BY OpenStep, ReadHeaderStep, PrintStep, NextChildStep, ReturnStep, Zenon DEF T!Step

LEMMA ListingInit == AInit => ToolInv
<1>. SUFFICES ASSUME AInit PROVE ToolInv
  OBVIOUS
<1>1. good = TRUE /\ tpc = "off" /\ from = 0 /\ stack = <<>>
  BY Zenon DEF AInit, T!Off
<1>2. <<>> \in Seq(Frames) /\ 1..Len(<<>>) = {}
  OBVIOUS
<1>3. tpc # "undefined" /\ tpc # "header" /\ tpc # "print"
  BY <1>1
<1>. QED BY <1>1, <1>2, <1>3, Zenon DEF ToolInv, LoopsOf

LEMMA ListingSafe == ToolInv => StreamNeverFails
BY Zenon DEF ToolInv, StreamNeverFails

----------------------------------------------------------------------------
(* The images *)

\* Every image of generate fulfils the contract and leaves room behind its headers.
GeneratedSound ==
  \A g \in Generated :
    /\ Encodes(g.image, g.fs, g.at)
    /\ \A p \in DOMAIN g.fs : g.at[p] + T!SIZEOF_M_HDR <= Len(g.image)

\* The image, when imageDFS closes it, holds the source directory.
SourceHeld == pc = "written" => Encodes(output, SourceTree, ByPath(headerAt))

LEMMA SoundInit == AInit => Sound
BY Zenon DEF AInit, Sound

LEMMA SoundKept == Sound => ContractKept
BY Zenon DEF Sound, ContractKept

LEMMA SealSound ==
  ASSUME SourceHeld, Seal
  PROVE  Sound'
<1>1. Encodes(output, SourceTree, ByPath(headerAt))
  BY Zenon DEF SourceHeld, Seal
<1>2. /\ disk'.image = output \o Trailer
      /\ disk'.fs = SourceTree /\ disk'.at = ByPath(headerAt)
  BY DEF Seal
<1>3. Trailer \in Seq(Nat) /\ Len(Trailer) = 2
  BY DEF Trailer
<1>4. Encodes(output \o Trailer, SourceTree, ByPath(headerAt))
  BY <1>1, <1>3, EncodesLonger, Zenon
<1>5. ASSUME NEW p \in DOMAIN SourceTree
      PROVE  ByPath(headerAt)[p] + T!SIZEOF_M_HDR <= Len(output \o Trailer)
  <2>1. PICK o \in Nat : o = ByPath(headerAt)[p] /\ o + 5 <= Len(output)
    BY <1>1, HeaderOf, Zenon
  <2>2. output \in Seq(Nat)
    BY <1>1 DEF Encodes
  <2>3. Len(output \o Trailer) = Len(output) + 2 /\ Len(output) \in Nat
    <3>1. Len(output \o Trailer) = Len(output) + Len(Trailer) /\ Len(output) \in Nat
      BY <1>3, <2>2, LongerFacts, Zenon
    <3>. QED BY <1>3, <3>1, Zenon
  <2>4. o + 6 <= Len(output \o Trailer)
    BY <2>1, <2>3
  <2>. QED BY <2>1, <2>4 DEF T!SIZEOF_M_HDR, T!M_HDR_SIZE
<1>. QED BY <1>2, <1>4, <1>5, Zenon DEF Sound

\* The programs together include all that master does.
LEMMA RunsMaster == ASpec => WSpec
<1>1. AInit => WInit
  BY DEF AInit
<1>2. [ANext]_everything => [WNext]_allVars
  <2>. SUFFICES ASSUME [ANext]_everything PROVE [WNext]_allVars
    OBVIOUS
  <2>1. CASE Mastering
    BY <2>1 DEF Mastering
  <2>2. CASE ~Mastering
    <3>1. UNCHANGED allVars
      BY <2>2 DEF ANext, Seal, GenerateImage, Mount, Tree, Listed, everything
    <3>. QED BY <3>1
  <2>. QED BY <2>1, <2>2
<1>. QED BY <1>1, <1>2, PTL DEF ASpec, WSpec

----------------------------------------------------------------------------
(* The mounter.  MP is what is proved of it, for the image that is finished. *)

MP == INSTANCE MounterProofs WITH pc <- mpc, Archives <- {}

LEMMA SameStep == M!Next => MP!Next
BY ZenonT(60) DEF M!Next, M!Begin, M!Finish, M!Work, M!StatRoot, M!ListRoot, M!FirstToken, M!SeekHeader,
  M!ReadField, M!GotTop, M!GotCurrent, M!SkipChild, M!ListChild, M!Mismatch, M!NextToken,
  M!SeekPointer, M!ReadPointer, M!NotFound, M!AllListed, M!mount_getattr, M!mount_readdir,
  M!mount_open, M!mount_read, M!ReadData, M!FreadField, M!KernelAsks, M!Answer, M!Go, M!Reply,
  M!ReadHeader, M!Fread, M!FreadBlock, M!After, M!Found, M!Slice, M!Token, M!Rest, M!NoToken,
  M!NoHeader, M!NoRequest, M!Cell, M!NAME, M!LENGTH, M!TIME, M!OFFSET, M!TYPE, M!DIRECTORY,
  M!PLAIN_FILE, M!PTR_SIZE,
  MP!Next, MP!Begin, MP!Finish, MP!Work, MP!StatRoot, MP!ListRoot, MP!FirstToken, MP!SeekHeader,
  MP!ReadField, MP!GotTop, MP!GotCurrent, MP!SkipChild, MP!ListChild, MP!Mismatch, MP!NextToken,
  MP!SeekPointer, MP!ReadPointer, MP!NotFound, MP!AllListed, MP!mount_getattr, MP!mount_readdir,
  MP!mount_open, MP!mount_read, MP!ReadData, MP!FreadField, MP!KernelAsks, MP!Answer, MP!Go, MP!Reply,
  MP!ReadHeader, MP!Fread, MP!FreadBlock, MP!After, MP!Found, MP!Slice, MP!Token, MP!Rest, MP!NoToken,
  MP!NoHeader, MP!NoRequest, MP!Cell, MP!NAME, MP!LENGTH, MP!TIME, MP!OFFSET, MP!TYPE, MP!DIRECTORY,
  MP!PLAIN_FILE, MP!PTR_SIZE

LEMMA SameContract ==
  ASSUME NEW I, NEW F, NEW A
  PROVE  MP!Encodes(I, F, A) <=> Encodes(I, F, A)
BY ZenonT(60) DEF Encodes, Cell, NAME, OFFSET, HeaderEncodes, M_HDR_SIZE, LENGTH, Size, DIRECTORY,
  TIME, TYPE, Last, PTR_SIZE, PLAIN_FILE, Front,
  MP!Encodes, MP!Cell, MP!NAME, MP!OFFSET, MP!HeaderEncodes, MP!M_HDR_SIZE, MP!LENGTH, MP!Size,
  MP!DIRECTORY, MP!TIME, MP!TYPE, MP!Last, MP!PTR_SIZE, MP!PLAIN_FILE, MP!Front

LEMMA SameReady == M!Ready => MP!Ready
BY ZenonT(60) DEF M!Ready, M!NoRequest, M!NoToken, M!NoHeader, M!Reply,
   MP!Ready, MP!NoRequest, MP!NoToken, MP!NoHeader, MP!Reply


LEMMA MountKeepsDisk == M!Next => disk' = disk
BY SameStep, MP!DiskKept, RequestAssumption, ZenonT(60)

\* The steps of the programs as the readers see them.
LEMMA DiskStep ==
  ASSUME [ANext]_everything
  PROVE  \/ (Seal \/ GenerateImage) /\ disk = NoDisk /\ UNCHANGED <<mountVars, toolVars>>
         \/ Mastering /\ disk = NoDisk /\ UNCHANGED <<disk, mountVars, toolVars>>
         \/ disk # NoDisk /\ tpc = "off" /\ M!Next /\ UNCHANGED <<disk, toolVars>>
         \/ disk # NoDisk /\ (T!Open \/ T!Step) /\ UNCHANGED <<disk, mountVars>>
         \/ UNCHANGED <<disk, mountVars, toolVars>>
<1>1. CASE Mastering
  BY <1>1, ZenonT(60) DEF Mastering
<1>2. CASE Seal
  <2>1. disk = NoDisk /\ UNCHANGED <<mountVars, toolVars>>
    BY <1>2 DEF Seal
  <2>. QED BY <1>2, <2>1
<1>3. CASE GenerateImage
  <2>1. disk = NoDisk /\ UNCHANGED <<mountVars, toolVars>>
    BY <1>3 DEF GenerateImage
  <2>. QED BY <1>3, <2>1
<1>4. CASE Mount
  <2>1. disk # NoDisk /\ tpc = "off" /\ M!Next /\ UNCHANGED toolVars
    BY <1>4 DEF Mount
  <2>. QED BY <2>1, MountKeepsDisk
<1>5. CASE Tree
  <2>1. disk # NoDisk /\ (T!Open \/ T!Step) /\ UNCHANGED <<disk, mountVars>>
    BY <1>5 DEF Tree
  <2>. QED BY <2>1
<1>6. CASE Listed \/ UNCHANGED everything
  <2>1. UNCHANGED <<disk, mountVars, toolVars>>
    BY <1>6 DEF Listed, everything
  <2>. QED BY <2>1
<1>. QED BY <1>1, <1>2, <1>3, <1>4, <1>5, <1>6, ZenonT(60) DEF ANext

LEMMA SoundStep ==
  ASSUME GeneratedSound, SourceHeld, Sound, [ANext]_everything
  PROVE  Sound'
<1>1. CASE Seal
  BY <1>1, SealSound
<1>2. CASE GenerateImage
  <2>1. disk' \in Generated
    BY <1>2 DEF GenerateImage
  <2>. QED BY <2>1, ZenonT(60) DEF Sound, GeneratedSound
<1>3. CASE disk' = disk
  BY <1>3, ZenonT(60) DEF Sound
<1>. QED BY <1>1, <1>2, <1>3, DiskStep

LEMMA ListingStep == Sound /\ ToolInv /\ [ANext]_everything => ToolInv'
<1>. SUFFICES ASSUME Sound, ToolInv, [ANext]_everything PROVE ToolInv'
  OBVIOUS
<1>1. CASE disk = NoDisk /\ UNCHANGED <<mountVars, toolVars>>
  <2>1. good = TRUE /\ tpc = "off" /\ from = 0 /\ stack = <<>>
    BY <1>1, ZenonT(60) DEF ToolInv
  <2>2. UNCHANGED <<good, tpc, from, stack>>
    BY <1>1 DEF toolVars
  <2>. QED BY <2>1, <2>2, ToolIdle
<1>2. CASE UNCHANGED <<disk, toolVars>>
  BY <1>2, ToolStutters
<1>3. CASE disk # NoDisk /\ (T!Open \/ T!Step) /\ UNCHANGED <<disk, mountVars>>
  BY <1>3, ToolStep
<1>. QED BY <1>1, <1>2, <1>3, DiskStep

\* The threads of the mounter wait for an image, then they serve it.
Serving ==
  /\ disk = NoDisk => MP!Ready
  /\ disk # NoDisk => MP!TypeOK /\ MP!MountInv

\* The mounter as it starts on a new image.
LEMMA ReadyServes == (MP!Genuine /\ MP!Ready => MP!TypeOK /\ MP!MountInv)'
<1>1. MP!Genuine /\ MP!Ready => MP!TypeOK /\ MP!MountInv
  BY MP!MountInit, RequestAssumption, ZenonT(60)
<1>. QED BY <1>1, PTL

LEMMA ReadyStays ==
  ASSUME MP!Ready, UNCHANGED mountVars
  PROVE  MP!Ready'
<1>1. UNCHANGED <<pos, rest, mpc, req, caller, token, current, hdr, at, i, reply>>
  BY DEF mountVars
<1>. QED BY <1>1, ZenonT(60) DEF MP!Ready

LEMMA MountServes ==
  ASSUME NEW t, Threads = {t}, MP!TypeOK, MP!MountInv, [MP!Next]_(MP!vars)
  PROVE  MP!TypeOK' /\ MP!MountInv'
BY MP!MountStep, RequestAssumption, ZenonT(60)

LEMMA ServingStep ==
  ASSUME NEW t, Threads = {t}, Sound', Serving, [ANext]_everything
  PROVE  Serving'
<1>1. CASE disk = NoDisk /\ UNCHANGED mountVars
  <2>1. MP!Ready'
    BY <1>1, ReadyStays, ZenonT(60) DEF Serving
  <2>2. disk' # NoDisk => MP!Genuine'
    BY SameContract, ZenonT(60) DEF Sound, MP!Genuine
  <2>3. disk' # NoDisk => MP!TypeOK' /\ MP!MountInv'
    BY <2>1, <2>2, ReadyServes, ZenonT(60)
  <2>. QED BY <2>1, <2>3, ZenonT(60) DEF Serving
<1>2. CASE disk # NoDisk /\ M!Next /\ disk' = disk
  <2>1. MP!TypeOK /\ MP!MountInv /\ MP!Next
    BY <1>2, SameStep, ZenonT(60) DEF Serving
  <2>2. MP!TypeOK' /\ MP!MountInv'
    BY <2>1, MountServes, ZenonT(60)
  <2>. QED BY <1>2, <2>2, ZenonT(60) DEF Serving
<1>3. CASE disk # NoDisk /\ UNCHANGED <<disk, mountVars>>
  <2>1. MP!TypeOK /\ MP!MountInv
    BY <1>3, ZenonT(60) DEF Serving
  <2>2. UNCHANGED MP!vars
    BY <1>3 DEF mountVars, MP!vars
  <2>3. MP!TypeOK' /\ MP!MountInv'
    BY <2>1, <2>2, MountServes, ZenonT(60)
  <2>. QED BY <1>3, <2>3, ZenonT(60) DEF Serving
<1>. QED BY <1>1, <1>2, <1>3, DiskStep

----------------------------------------------------------------------------
(* Refinement *)

LEMMA SameServe ==
  ASSUME NEW t \in Threads
  PROVE  MP!Service!Serve(t) => System!Serve(t)
BY ZenonT(60) DEF MP!Service!Serve, MP!Service!Update, MP!Service!Pending, MP!Service!Answered, MP!Service!Call, 
  MP!Service!Quiet, MP!Service!NoRequest, MP!Service!Promised, MP!Service!Part, MP!Service!Reply, MP!Service!Size,
  MP!Service!Blank, MP!Service!DIRECTORY, MP!Service!PLAIN_FILE, MP!Shown,
  System!Serve, System!Update, System!Pending, System!Answered, System!Call, 
  System!Quiet, System!NoRequest, System!Promised, System!Part, System!Reply, System!Size,
  System!Blank, System!DIRECTORY, System!PLAIN_FILE, M!Shown

Shows == [t \in Threads |-> M!Shown(t)]

LEMMA ShowsStay ==
  ASSUME UNCHANGED mountVars
  PROVE  Shows' = Shows
<1>1. UNCHANGED <<mpc, req, reply>>
  BY DEF mountVars
<1>. QED BY <1>1, ZenonT(60) DEF Shows, M!Shown

LEMMA SameShows == Shows = MP!Calls /\ Shows' = MP!Calls'
BY ZenonT(60) DEF Shows, MP!Calls, M!Shown, MP!Shown

LEMMA NotBlank ==
  ASSUME NEW I, NEW F, NEW A, Encodes(I, F, A)
  PROVE  F # <<>>
<1>1. DOMAIN F # {}
  BY ZenonT(60) DEF Encodes
<1>2. DOMAIN <<>> = {}
  OBVIOUS
<1>. QED BY <1>1, <1>2, ZenonT(60)

\* Every step of the programs is a step of the write-once file system or none.
LEMMA SystemStep ==
  ASSUME NEW t, Threads = {t}, Sound, Sound', Serving, Serving', [ANext]_everything
  PROVE  System!Master \/ (\E u \in Threads : System!Serve(u)) \/ UNCHANGED <<disk.fs, Shows>>
<1>1. CASE disk = NoDisk /\ UNCHANGED mountVars
  <2>1. Shows' = Shows
    BY <1>1, ShowsStay
  <2>2. CASE disk' = NoDisk
    BY <1>1, <2>1, <2>2
  <2>3. CASE disk' # NoDisk
    <3>1. disk'.fs # <<>>
      BY <2>3, NotBlank, ZenonT(60) DEF Sound
    <3>2. disk.fs = <<>>
      BY <1>1 DEF NoDisk
    <3>. QED BY <2>1, <3>1, <3>2, ZenonT(60) DEF System!Master, System!Blank, Shows
  <2>. QED BY <2>2, <2>3
<1>2. CASE disk # NoDisk /\ M!Next /\ disk' = disk
  <2>1. MP!TypeOK /\ MP!MountInv /\ MP!MountInv' /\ MP!Next
    BY <1>2, SameStep, ZenonT(60) DEF Serving
  <2>2. MP!Service!Serve(t) \/ UNCHANGED <<disk.fs, MP!Calls>>
    BY <2>1, MP!ServiceStep, RequestAssumption, ZenonT(60)
  <2>3. t \in Threads
    OBVIOUS
  <2>. QED BY <2>2, <2>3, SameServe, SameShows, ZenonT(60)
<1>3. CASE UNCHANGED <<disk, mountVars>>
  BY <1>3, ShowsStay
<1>. QED BY <1>1, <1>2, <1>3, DiskStep

LEMMA SystemInit == AInit => disk.fs = System!Blank /\ System!NobodyAsks
<1>. SUFFICES ASSUME AInit PROVE disk.fs = System!Blank /\ System!NobodyAsks
  OBVIOUS
<1>1. disk.fs = <<>> /\ \A t \in Threads : mpc[t] = "idle" /\ req[t] = M!NoRequest
  BY DEF AInit, NoDisk, M!Ready
<1>2. \A t \in Threads : M!Shown(t) = System!Quiet
  BY <1>1, ZenonT(60) DEF M!Shown, System!Quiet, System!Call, System!NoRequest, M!NoRequest
<1>. QED BY <1>1, <1>2, ZenonT(60) DEF System!Blank, System!NobodyAsks

\* One thread refines the file system as long as the images are sound.
LEMMA ServingRefines ==
  ASSUME NEW CONSTANT one, Threads = {one}
  PROVE  ASpec /\ []Sound => ImplementsWriteOnceFS
<1>1. AInit => Serving
  BY SameReady, ZenonT(60) DEF AInit, Serving
<1>2. Serving /\ Sound' /\ [ANext]_everything => Serving'
  BY ServingStep, ZenonT(60)
<1>3. Sound /\ Sound' /\ Serving /\ Serving' /\ [ANext]_everything =>
        [System!Master \/ \E t \in Threads : System!Serve(t)]_<<disk.fs,
           [t \in Threads |-> M!Shown(t)]>>
  <2>. SUFFICES ASSUME Sound, Sound', Serving, Serving', [ANext]_everything
                PROVE  \/ System!Master \/ \E t \in Threads : System!Serve(t)
                       \/ UNCHANGED <<disk.fs, Shows>>
    BY DEF Shows
  <2>. QED BY SystemStep, ZenonT(60)
<1>. QED BY <1>1, <1>2, <1>3, SystemInit, PTL
            DEF ASpec, ImplementsWriteOnceFS, System!Spec

----------------------------------------------------------------------------
(* master.  W is what is proved of it. *)

W == INSTANCE MasterProofs

LEMMA SameMaster == (WInit => W!WInit) /\ ([WNext]_allVars => [W!WNext]_(W!allVars))
BY ZenonT(60) DEF
   WInit, WNext, allVars, Init, Uninitialised, Walk, Unlock, writerVars,
   Write, Derail, Ended, vars, Frame, HeadNode, Header, DIRECTORY, NoDir,
   Entry, BuilderNext, imageDFS, WriteFile, WriteDirectory, StorePointer,
   CloseImage, PLAIN_FILE, IgnoreDot, BuildDirectory, ReportFile, BuildFile,
   SkipSeen, Refuse, Return, find_header_size, Child, Put, HeaderCells,
   MTime, Copied, M_HDR_SIZE, Recorded, PTR_SIZE, Call, Last, PointerAt,
   HasNextChild, Front, NextIsOf, Listings, Entered, DirLength, WithChild,
   WithoutSlot, Consumed, ToInt, Content, W!WInit, W!WNext, W!allVars,
   W!Init, W!Uninitialised, W!Walk, W!Unlock, W!writerVars, W!Write,
   W!Derail, W!Ended, W!vars, W!Frame, W!HeadNode, W!Header, W!DIRECTORY,
   W!NoDir, W!Entry, W!BuilderNext, W!imageDFS, W!WriteFile,
   W!WriteDirectory, W!StorePointer, W!CloseImage, W!PLAIN_FILE,
   W!IgnoreDot, W!BuildDirectory, W!ReportFile, W!BuildFile, W!SkipSeen,
   W!Refuse, W!Return, W!find_header_size, W!Child, W!Put, W!HeaderCells,
   W!MTime, W!Copied, W!M_HDR_SIZE, W!Recorded, W!PTR_SIZE, W!Call, W!Last,
   W!PointerAt, W!HasNextChild, W!Front, W!NextIsOf, W!Listings, W!Entered,
   W!DirLength, W!WithChild, W!WithoutSlot, W!Consumed, W!ToInt, W!Content

LEMMA SameSource == W!HoldsSource => SourceHeld
BY ZenonT(60) DEF SourceHeld, W!HoldsSource,
   SourceTree, ByPath, Encodes, Objects, Object, PathOf, Cell, NAME, OFFSET,
   HeaderEncodes, Last, DIRECTORY, PTR_SIZE, PLAIN_FILE, Front, MTime,
   Sorted, Content, Route, M_HDR_SIZE, LENGTH, Size, TIME, TYPE, IsRoute,
   HeadNode, W!SourceTree, W!ByPath, W!Encodes, W!Objects, W!Object,
   W!PathOf, W!Cell, W!NAME, W!OFFSET, W!HeaderEncodes, W!Last, W!DIRECTORY,
   W!PTR_SIZE, W!PLAIN_FILE, W!Front, W!MTime, W!Sorted, W!Content, W!Route,
   W!M_HDR_SIZE, W!LENGTH, W!Size, W!TIME, W!TYPE, W!IsRoute, W!HeadNode

LEMMA MasterHolds ==
  ASSUME W!OrdinarySource, ~FilesChange, W!FilesFitInt
  PROVE  ASpec => []SourceHeld
<1>1. W!WSpec => []W!HoldsSource
  BY W!OrdinarySourceHeld, BuilderAssumption, WriterAssumption DEF AllKinds, W!AllKinds
<1>. QED BY <1>1, SameMaster, SameSource, RunsMaster, PTL DEF WSpec, W!WSpec

----------------------------------------------------------------------------
(* Theorems *)

LEMMA ArchiveSound ==
  ASSUME W!OrdinarySource, ~FilesChange, W!FilesFitInt, GeneratedSound
  PROVE  ASpec => []Sound
<1>1. SourceHeld /\ Sound /\ [ANext]_everything => Sound'
  BY SoundStep, ZenonT(60)
<1>. QED BY <1>1, SoundInit, MasterHolds, PTL DEF ASpec

\* The images that the programs leave behind fulfil the contract that mounter and
\* tree rely on: those of master for every ordinary source, of any size and shape,
\* whose files keep their sizes and fit an int, with the digests of
\* hashAndAppend() behind them; those of generate when its offsets are right
\* (GeneratedSound), which are numbers in its source.
THEOREM OrdinaryContractKept ==
  ASSUME W!OrdinarySource, ~FilesChange, W!FilesFitInt, GeneratedSound
  PROVE  ASpec => []ContractKept
BY SoundKept, ArchiveSound, PTL

\* The stream of tree never fails on such an image, with any of the options: no
\* header, no pointer and no file is read beyond the end, the padding that
\* readHeader() reads along included.
THEOREM OrdinaryStreamNeverFails ==
  ASSUME W!OrdinarySource, ~FilesChange, W!FilesFitInt, GeneratedSound
  PROVE  ASpec => []StreamNeverFails
BY ListingInit, ListingStep, ListingSafe, ArchiveSound, PTL DEF ASpec

\* From the source directory to the answers of the kernel: master and a mounter
\* with one thread implement a write-once file system.  An ordinary source becomes
\* visible at once and complete, every getattr, readdir, open and read is answered
\* with what the source held, once and in one step, and nothing changes it.
THEOREM OneThreadImplementsWriteOnceFS ==
  ASSUME W!OrdinarySource, ~FilesChange, W!FilesFitInt, GeneratedSound,
         NEW CONSTANT one, Threads = {one}
  PROVE  ASpec => ImplementsWriteOnceFS
BY ServingRefines, ArchiveSound, PTL
=============================================================================
