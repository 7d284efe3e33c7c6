----------------------------- MODULE SealProofs -----------------------------
(***************************************************************************)
(* hashAndAppend() and checkHash() agree, for images, blocks and digests   *)
(* of any size.  An intact image passes the check with the key it was      *)
(* mastered with, as long as the offsets of its blocks fit an int; and an  *)
(* image that passes it is intact, whatever happened to the file.          *)
(*                                                                         *)
(* The first invariant relates each digest to the block it was computed    *)
(* from and counts, in both programs, the blocks that are done.  The       *)
(* second one tells the cells of a damaged file apart, and what the        *)
(* digests that matched say about them.                                    *)
(***************************************************************************)
EXTENDS HashSeal, TLAPS

\* The provers that a step is given to, in this order, when it names none.
USE SMTT(15), Zenon, SMTT(60), ZenonT(60)

Limit == 2^(IntBits - 1)

----------------------------------------------------------------------------
(* Arithmetic *)

LEMMA LimitFacts == Limit \in Nat /\ 2^IntBits = 2 * Limit /\ hash_size <= Limit
BY WidthAssumption DEF Limit

LEMMA Modulo ==
  ASSUME NEW n \in Nat, NEW m \in Nat, n < m
  PROVE  n % m = n
OBVIOUS

LEMMA ToIntFits ==
  ASSUME NEW n \in Nat, n < Limit
  PROVE  ToInt(n, IntBits) = n
<1>1. Limit \in Nat /\ 2^IntBits = 2 * Limit
  BY LimitFacts
<1>2. n % (2^IntBits) = n
  BY <1>1, Modulo
<1> QED BY <1>1, <1>2 DEF ToInt, Limit

LEMMA Multiples ==
  ASSUME NEW a \in Nat, NEW b \in Nat, NEW c \in Nat, a < b
  PROVE  a * c + c <= b * c
OBVIOUS

LEMMA Divides ==
  ASSUME NEW a \in Nat, NEW c \in Nat \ {0}, NEW n \in Nat, a * c <= n
  PROVE  a * c <= (n \div c) * c
<1>1. PICK q \in Nat : q = n \div c
  OBVIOUS
<1>2. n < q * c + c
  BY <1>1
<1>3. ~(q < a)
  BY <1>2, Multiples
<1>4. a = q \/ a < q
  BY <1>3
<1>5. a * c <= q * c
  BY <1>4, Multiples
<1> QED BY <1>1, <1>5

----------------------------------------------------------------------------
(* The invariant *)

\* The cells of a file that was not damaged.
Cells ==
  Residue \cup {Count(n) : n \in Nat} \cup
  {<<"digest", k, msg, j>> : k \in Keys, msg \in Seq(Residue), j \in 1..hash_size}

BlockLength(rem) == Clip(HASH_BLOCK_SIZE, rem)

\* Block number b, from 0, of the image.
BlockOf(b) ==
  SubSeq(file, b * HASH_BLOCK_SIZE + 1,
         b * HASH_BLOCK_SIZE + BlockLength(size - b * HASH_BLOCK_SIZE))

\* n blocks are all of the image.
AllBlocks(n) == n \in Nat /\ n > 0 /\ (n - 1) * HASH_BLOCK_SIZE < size /\ size <= n * HASH_BLOCK_SIZE

\* The loops: count blocks are done.
LoopInv ==
  /\ remaining \in 0..size
  /\ block_size = BlockLength(remaining)
  /\ remaining > 0 => remaining = size - count * HASH_BLOCK_SIZE
  /\ remaining = 0 => AllBlocks(count)

\* The file has the image, then n digests.
FileInv(n) ==
  /\ file \in Seq(Cells)
  /\ Len(file) >= size + n * hash_size
  /\ \A p \in 1..size : file[p] \in Residue
  /\ \A b \in 0..(n - 1) :
       /\ b * HASH_BLOCK_SIZE < size
       /\ \A j \in 1..hash_size :
            file[size + b * hash_size + j] = HMAC(key, BlockOf(b))[j]

\* ... and their number.
SealedInv(n) ==
  /\ FileInv(n) /\ AllBlocks(n)
  /\ Len(file) = size + n * hash_size + 1
  /\ file[Len(file)] = Count(n)

Fine == OffsetsFit /\ damage = "none" /\ mountKey = key

SealInv ==
  /\ pc \in {"seal", "sealed", "open", "check", "accepted", "rejected"}
  /\ count \in Nat /\ size \in Nat \ {0} /\ key \in Keys
  /\ pc \in {"seal", "sealed"} => damage = "none" /\ mountKey = key
  /\ Fine =>
       /\ pc # "rejected"
       /\ HASH_BLOCK_SIZE = Clip(DEF_HASH_BLOCK_SIZE, size)
       /\ pc = "seal" => /\ FileInv(count) /\ LoopInv
                         /\ Len(file) = size + count * hash_size
       /\ pc \in {"sealed", "open"} => SealedInv(count)
       /\ pc = "check" => /\ \E n \in Nat : SealedInv(n)
                          /\ LoopInv
                          /\ hashes_offset = size + count * hash_size

----------------------------------------------------------------------------
(* Sequences *)

LEMMA Kept ==
  ASSUME NEW S, NEW s \in Seq(S), NEW u \in Seq(S)
  PROVE  /\ s \o u \in Seq(S) /\ Len(s \o u) = Len(s) + Len(u)
         /\ \A p \in 1..Len(s) : (s \o u)[p] = s[p]
         /\ \A p \in 1..Len(u) : (s \o u)[Len(s) + p] = u[p]
OBVIOUS

LEMMA PartFacts ==
  ASSUME NEW S, NEW s \in Seq(S), NEW p \in Nat, NEW n \in Nat, p + n <= Len(s)
  PROVE  /\ SubSeq(s, p + 1, p + n) \in Seq(S)
         /\ Len(SubSeq(s, p + 1, p + n)) = n
         /\ SubSeq(s, p + 1, p + n) = [k \in 1..n |-> s[p + k]]
OBVIOUS

LEMMA EmptyTail ==
  ASSUME NEW S, NEW s \in Seq(S), NEW T, NEW u \in [1..0 -> T]
  PROVE  s \o u = s
<1>1. u = <<>>
  OBVIOUS
<1> QED BY <1>1

\* fread() fills the buffer.
LEMMA BufferFacts ==
  ASSUME file \in Seq(Cells), NEW p \in Nat, NEW n \in Nat, p + n <= Len(file)
  PROVE  /\ Fread(p, n) = SubSeq(file, p + 1, p + n)
         /\ \A buffer \in Buffers(p, n) : buffer = SubSeq(file, p + 1, p + n)
<1>2. Fread(p, n) = SubSeq(file, p + 1, p + n)
  BY DEF Fread
<1>3. Fread(p, n) \in Seq(Cells) /\ Len(Fread(p, n)) = n
  BY <1>2, PartFacts
<1>4. n - Len(Fread(p, n)) = 0
  BY <1>3
<1>5. ASSUME NEW tail \in [1..(n - Len(Fread(p, n))) -> Residue]
      PROVE  Fread(p, n) \o tail = Fread(p, n)
  <2>1. tail \in [1..0 -> Residue]
    BY <1>4
  <2> QED BY <1>3, <2>1, EmptyTail
<1> QED BY <1>2, <1>5 DEF Buffers

----------------------------------------------------------------------------
(* Blocks *)

LEMMA BlockSizes ==
  ASSUME size \in Nat \ {0}, HASH_BLOCK_SIZE = Clip(DEF_HASH_BLOCK_SIZE, size)
  PROVE  /\ HASH_BLOCK_SIZE \in Nat \ {0} /\ HASH_BLOCK_SIZE <= size
         /\ HASH_BLOCK_SIZE = DEF_HASH_BLOCK_SIZE \/ HASH_BLOCK_SIZE = size
BY SealAssumption DEF Clip

\* The offset of a block fits.
LEMMA OffsetFits ==
  ASSUME OffsetsFit, size \in Nat \ {0}, HASH_BLOCK_SIZE = Clip(DEF_HASH_BLOCK_SIZE, size),
         NEW c \in Nat, c * HASH_BLOCK_SIZE < size
  PROVE  c * HASH_BLOCK_SIZE \in Nat /\ c * HASH_BLOCK_SIZE < Limit
<1>1. HASH_BLOCK_SIZE \in Nat \ {0} /\ DEF_HASH_BLOCK_SIZE \in Nat \ {0}
  BY BlockSizes, SealAssumption
<1>2. Limit \in Nat /\ Limit > 0
  BY LimitFacts, SealAssumption
<1>3. CASE HASH_BLOCK_SIZE = DEF_HASH_BLOCK_SIZE
  <2>1. c * DEF_HASH_BLOCK_SIZE \in Nat /\ c * DEF_HASH_BLOCK_SIZE <= size - 1 /\ size - 1 \in Nat
    BY <1>1, <1>3
  <2>2. c * DEF_HASH_BLOCK_SIZE <= ((size - 1) \div DEF_HASH_BLOCK_SIZE) * DEF_HASH_BLOCK_SIZE
    BY <1>1, <2>1, Divides, Zenon
  <2>3. ((size - 1) \div DEF_HASH_BLOCK_SIZE) * DEF_HASH_BLOCK_SIZE < Limit
    BY DEF OffsetsFit, Limit
  <2>4. (size - 1) \div DEF_HASH_BLOCK_SIZE \in Nat
    BY <1>1, <2>1
  <2>5. ((size - 1) \div DEF_HASH_BLOCK_SIZE) * DEF_HASH_BLOCK_SIZE \in Nat
    BY <1>1, <2>4
  <2> QED BY <1>2, <1>3, <2>1, <2>2, <2>3, <2>5
<1>4. CASE HASH_BLOCK_SIZE = size
  <2>1. ~(0 < c)
    BY <1>4, Multiples
  <2>2. c = 0
    BY <2>1
  <2> QED BY <1>1, <1>2, <2>2
<1> QED BY <1>3, <1>4, BlockSizes

LEMMA ClipCases ==
  ASSUME NEW h \in Nat, NEW r \in Nat
  PROVE  (h <= r => Clip(h, r) = h) /\ (~(h <= r) => Clip(h, r) = r)
BY DEF Clip

\* One round of either loop: the block, and what remains.
LEMMA RoundFacts ==
  ASSUME size \in Nat \ {0}, count \in Nat,
         HASH_BLOCK_SIZE = Clip(DEF_HASH_BLOCK_SIZE, size), LoopInv, remaining > 0
  PROVE  /\ count * HASH_BLOCK_SIZE \in Nat /\ count * HASH_BLOCK_SIZE < size
         /\ block_size = BlockLength(size - count * HASH_BLOCK_SIZE)
         /\ block_size \in Nat \ {0}
         /\ count * HASH_BLOCK_SIZE + block_size <= size
<1>1. HASH_BLOCK_SIZE \in Nat \ {0}
  BY BlockSizes
<1>2. PICK m \in Nat : m = count * HASH_BLOCK_SIZE
  BY <1>1
<1>3. remaining = size - m /\ remaining \in 0..size /\ block_size = BlockLength(remaining)
  BY <1>2 DEF LoopInv
<1> QED BY <1>1, <1>2, <1>3 DEF BlockLength, Clip

LEMMA RoundDone ==
  ASSUME size \in Nat \ {0}, count \in Nat,
         HASH_BLOCK_SIZE = Clip(DEF_HASH_BLOCK_SIZE, size), LoopInv, remaining > 0,
         count' = count + 1, remaining' = remaining - block_size,
         block_size' = Clip(block_size, remaining'), UNCHANGED <<HASH_BLOCK_SIZE, size>>
  PROVE  LoopInv'
<1>1. HASH_BLOCK_SIZE \in Nat \ {0}
  BY BlockSizes
<1>2. PICK m \in Nat : m = count * HASH_BLOCK_SIZE
  BY <1>1
<1>3. (count + 1) * HASH_BLOCK_SIZE = m + HASH_BLOCK_SIZE /\ count + 1 - 1 = count
  BY <1>1, <1>2
<1>4. remaining = size - m /\ remaining \in 0..size /\ block_size = BlockLength(remaining)
  BY <1>2 DEF LoopInv
<1>5. /\ HASH_BLOCK_SIZE <= remaining => Clip(HASH_BLOCK_SIZE, remaining) = HASH_BLOCK_SIZE
      /\ ~(HASH_BLOCK_SIZE <= remaining) => Clip(HASH_BLOCK_SIZE, remaining) = remaining
  <2>1. HASH_BLOCK_SIZE \in Nat /\ remaining \in Nat
    BY <1>1, <1>4
  <2> QED BY <2>1, ClipCases
<1>6. CASE HASH_BLOCK_SIZE <= remaining
  <2>1. block_size = HASH_BLOCK_SIZE
    BY <1>4, <1>6, <1>5 DEF BlockLength
  <2>2. remaining' = size - (m + HASH_BLOCK_SIZE) /\ remaining' \in 0..size
    BY <1>1, <1>2, <1>4, <1>6, <2>1
  <2>3. block_size' = Clip(HASH_BLOCK_SIZE, remaining')
    BY <2>1
  <2>4. remaining' = 0 => AllBlocks(count + 1)
    BY <1>1, <1>2, <1>3, <1>4, <1>6, <2>2 DEF AllBlocks
  <2> QED BY <1>3, <2>2, <2>3, <2>4 DEF LoopInv, BlockLength, AllBlocks
<1>7. CASE ~(HASH_BLOCK_SIZE <= remaining)
  <2>1. block_size = remaining
    BY <1>4, <1>7, <1>5 DEF BlockLength
  <2>2. remaining' = 0 /\ block_size' = 0
    BY <1>4, <2>1 DEF Clip
  <2>3. AllBlocks(count + 1)
    BY <1>1, <1>2, <1>3, <1>4, <1>7 DEF AllBlocks
  <2>4. Clip(HASH_BLOCK_SIZE, 0) = 0
    BY <1>1 DEF Clip
  <2> QED BY <2>2, <2>3, <2>4 DEF LoopInv, BlockLength, AllBlocks
<1> QED BY <1>6, <1>7

----------------------------------------------------------------------------
(* The file grows *)

LEMMA BlockBounds ==
  ASSUME size \in Nat \ {0}, HASH_BLOCK_SIZE \in Nat \ {0},
         NEW b \in Nat, b * HASH_BLOCK_SIZE < size
  PROVE  /\ b * HASH_BLOCK_SIZE \in Nat
         /\ BlockLength(size - b * HASH_BLOCK_SIZE) \in Nat
         /\ b * HASH_BLOCK_SIZE + BlockLength(size - b * HASH_BLOCK_SIZE) <= size
<1>1. PICK m \in Nat : m = b * HASH_BLOCK_SIZE
  OBVIOUS
<1> QED BY <1>1 DEF BlockLength, Clip

LEMMA SamePart ==
  ASSUME NEW S, NEW s \in Seq(S), NEW u \in Seq(S), NEW p \in Nat, NEW n \in Nat,
         p + n <= Len(s)
  PROVE  SubSeq(s \o u, p + 1, p + n) = SubSeq(s, p + 1, p + n)
<1>1. p + n <= Len(s \o u) /\ s \o u \in Seq(S)
  BY Kept
<1>2. SubSeq(s \o u, p + 1, p + n) = [k \in 1..n |-> (s \o u)[p + k]]
  BY <1>1, PartFacts
<1>3. SubSeq(s, p + 1, p + n) = [k \in 1..n |-> s[p + k]]
  BY PartFacts
<1>4. \A k \in 1..n : (s \o u)[p + k] = s[p + k]
  BY Kept
<1> QED BY <1>2, <1>3, <1>4

LEMMA SameBlock ==
  ASSUME size \in Nat \ {0}, HASH_BLOCK_SIZE \in Nat \ {0},
         file \in Seq(Cells), Len(file) >= size, NEW u \in Seq(Cells),
         file' = file \o u, UNCHANGED <<HASH_BLOCK_SIZE, size>>,
         NEW b \in Nat, b * HASH_BLOCK_SIZE < size
  PROVE  BlockOf(b)' = BlockOf(b)
<1> DEFINE p == b * HASH_BLOCK_SIZE
           n == BlockLength(size - b * HASH_BLOCK_SIZE)
<1>1. p \in Nat /\ n \in Nat /\ p + n <= Len(file)
  BY BlockBounds
<1>2. BlockOf(b)' = SubSeq(file \o u, p + 1, p + n)
  BY DEF BlockOf, BlockLength
<1>3. BlockOf(b) = SubSeq(file, p + 1, p + n)
  BY DEF BlockOf
<1> HIDE DEF p, n
<1> QED BY <1>1, <1>2, <1>3, SamePart

LEMMA DigestPlace ==
  ASSUME NEW s \in Nat, NEW n \in Nat, NEW h \in Nat \ {0}, NEW l \in Nat, l >= s + n * h
  PROVE  /\ l >= s
         /\ \A b \in Nat : b < n => \A j \in 1..h : s + b * h + j \in 1..l
<1>1. PICK k \in Nat : k = n * h
  OBVIOUS
<1>2. ASSUME NEW b \in Nat, b < n, NEW j \in 1..h PROVE s + b * h + j \in 1..l
  <2>1. b * h + h <= k
    BY <1>1, <1>2, Multiples
  <2>2. PICK m \in Nat : m = b * h
    OBVIOUS
  <2>3. m + h <= k /\ s + k <= l
    BY <1>1, <2>1, <2>2
  <2>4. s + m + j \in 1..l
    BY <2>3
  <2> QED BY <2>2, <2>4
<1>3. l >= s
  BY <1>1
<1> QED BY <1>2, <1>3

LEMMA FileGrows ==
  ASSUME size \in Nat \ {0}, HASH_BLOCK_SIZE \in Nat \ {0}, NEW n \in Nat, FileInv(n),
         NEW u \in Seq(Cells), file' = file \o u,
         UNCHANGED <<HASH_BLOCK_SIZE, size, key>>
  PROVE  FileInv(n)'
<1>0. hash_size \in Nat \ {0} /\ n * hash_size \in Nat
  BY SealAssumption
<1>1. file \in Seq(Cells) /\ Len(file) >= size + n * hash_size /\ Len(file) \in Nat
  BY DEF FileInv
<1>2. /\ file' \in Seq(Cells) /\ Len(file') >= size + n * hash_size
      /\ \A p \in 1..Len(file) : file'[p] = file[p]
  BY <1>0, <1>1, Kept
<1>9. Len(file) >= size
  <2>1. \A a, b, c \in Nat : a >= b + c => a >= b
    OBVIOUS
  <2>2. size \in Nat
    OBVIOUS
  <2> QED BY <1>0, <1>1, <2>1, <2>2, Zenon
<1>3. \A p \in 1..size : file'[p] \in Residue
  <2>1. \A p \in 1..size : file[p] \in Residue
    BY Zenon DEF FileInv
  <2>2. \A p \in 1..size : p \in 1..Len(file)
    BY <1>1, <1>9
  <2> QED BY <2>1, <2>2, <1>2, Zenon
<1>4. /\ Len(file) >= size
      /\ \A b \in Nat : b < n =>
           \A j \in 1..hash_size : size + b * hash_size + j \in 1..Len(file)
  BY <1>0, <1>1, DigestPlace, Zenon
<1>5. ASSUME NEW b \in 0..(n - 1)
      PROVE  /\ b * HASH_BLOCK_SIZE < size
             /\ \A j \in 1..hash_size :
                  file'[size + b * hash_size + j] = HMAC(key, BlockOf(b)')[j]
  <2>0. b \in Nat /\ b < n
    BY <1>5
  <2>1. b * HASH_BLOCK_SIZE < size
    BY <1>5, Zenon DEF FileInv
  <2>2. BlockOf(b)' = BlockOf(b)
    BY <1>1, <1>4, <2>0, <2>1, SameBlock, Zenon
  <2>4. \A j \in 1..hash_size : size + b * hash_size + j \in 1..Len(file)
    BY <1>4, <2>0, Zenon
  <2>5. \A j \in 1..hash_size : file[size + b * hash_size + j] = HMAC(key, BlockOf(b))[j]
    BY <1>5 DEF FileInv
  <2> QED BY <1>2, <2>1, <2>2, <2>4, <2>5
<1> QED BY <1>2, <1>3, <1>5, Zenon DEF FileInv, HMAC

\* A digest.
LEMMA DigestCells ==
  ASSUME NEW k \in Keys, NEW msg \in Seq(Residue)
  PROVE  HMAC(k, msg) \in Seq(Cells) /\ Len(HMAC(k, msg)) = hash_size
<1>1. hash_size \in Nat
  BY SealAssumption
<1>2. \A j \in 1..hash_size : <<"digest", k, msg, j>> \in Cells
  BY DEF Cells
<1>3. HMAC(k, msg) \in [1..hash_size -> Cells]
  BY <1>2 DEF HMAC
<1> QED BY <1>1, <1>3

\* A block is made of bytes of the image.
LEMMA BlockBytes ==
  ASSUME size \in Nat \ {0}, HASH_BLOCK_SIZE \in Nat \ {0},
         file \in Seq(Cells), Len(file) >= size, \A p \in 1..size : file[p] \in Residue,
         NEW b \in Nat, b * HASH_BLOCK_SIZE < size
  PROVE  BlockOf(b) \in Seq(Residue)
<1>1. PICK p \in Nat : p = b * HASH_BLOCK_SIZE
  BY BlockBounds
<1>2. PICK n \in Nat : n = BlockLength(size - b * HASH_BLOCK_SIZE)
  BY BlockBounds
<1>3. p + n <= size /\ p + n <= Len(file)
  BY <1>1, <1>2, BlockBounds
<1>4. BlockOf(b) = [k \in 1..n |-> file[p + k]]
  BY <1>1, <1>2, <1>3, PartFacts DEF BlockOf
<1>5. \A k \in 1..n : file[p + k] \in Residue
  BY <1>3
<1> QED BY <1>4, <1>5

----------------------------------------------------------------------------
(* The steps of hashAndAppend() *)

\* The block that is read next is the block that the count names.
LEMMA BlockRead ==
  ASSUME OffsetsFit, size \in Nat \ {0}, count \in Nat,
         HASH_BLOCK_SIZE = Clip(DEF_HASH_BLOCK_SIZE, size), LoopInv, remaining > 0,
         file \in Seq(Cells), Len(file) >= size
  PROVE  /\ ToInt(count * HASH_BLOCK_SIZE, IntBits) = count * HASH_BLOCK_SIZE
         /\ count * HASH_BLOCK_SIZE \in Nat
         /\ \A buffer \in Buffers(count * HASH_BLOCK_SIZE, block_size) : buffer = BlockOf(count)
<1>1. PICK p : p = count * HASH_BLOCK_SIZE
  OBVIOUS
<1>2. /\ p \in Nat /\ p < size /\ block_size \in Nat /\ p + block_size <= size
      /\ block_size = BlockLength(size - p)
  BY <1>1, RoundFacts
<1>3. p < Limit
  BY <1>1, <1>2, OffsetFits
<1>4. ToInt(p, IntBits) = p
  BY <1>2, <1>3, ToIntFits
<1>5. p + block_size <= Len(file)
  <2>1. Len(file) \in Nat
    OBVIOUS
  <2> QED BY <1>2, <2>1
<1>6. \A buffer \in Buffers(p, block_size) : buffer = SubSeq(file, p + 1, p + block_size)
  BY <1>2, <1>5, BufferFacts, Zenon
<1>7. SubSeq(file, p + 1, p + block_size) = BlockOf(count)
  BY <1>1, <1>2 DEF BlockOf
<1> QED BY <1>1, <1>2, <1>4, <1>6, <1>7, Zenon

LEMMA Added ==
  ASSUME file \in Seq(Cells), NEW u \in Seq(Cells), file' = file \o u
  PROVE  /\ Len(file') = Len(file) + Len(u)
         /\ \A j \in 1..Len(u) : file'[Len(file) + j] = u[j]
BY Kept

\* The digest of block n follows the others.
LEMMA DigestAppended ==
  ASSUME size \in Nat \ {0}, HASH_BLOCK_SIZE \in Nat \ {0}, key \in Keys, NEW n \in Nat,
         FileInv(n), Len(file) = size + n * hash_size, n * HASH_BLOCK_SIZE < size,
         file' = file \o HMAC(key, BlockOf(n)), UNCHANGED <<HASH_BLOCK_SIZE, size, key>>
  PROVE  FileInv(n + 1)' /\ Len(file') = size + (n + 1) * hash_size
<1>0. hash_size \in Nat \ {0}
  BY SealAssumption
<1>1. PICK m \in Nat : m = n * hash_size
  BY <1>0
<1>2. (n + 1) * hash_size = m + hash_size /\ Len(file) = size + m /\ n + 1 - 1 = n
  BY <1>0, <1>1
<1>3. file \in Seq(Cells) /\ \A p \in 1..size : file[p] \in Residue
  BY DEF FileInv
<1>4. Len(file) >= size
  BY <1>1, <1>2
<1>5. BlockOf(n) \in Seq(Residue)
  BY <1>3, <1>4, BlockBytes, Zenon
<1>6. HMAC(key, BlockOf(n)) \in Seq(Cells) /\ Len(HMAC(key, BlockOf(n))) = hash_size
  BY <1>5, DigestCells
<1>7. FileInv(n)'
  BY <1>6, FileGrows, Zenon
<1>8. BlockOf(n)' = BlockOf(n)
  BY <1>3, <1>4, <1>6, SameBlock, Zenon
<1>9. /\ Len(file') = Len(file) + hash_size
      /\ \A j \in 1..hash_size : file'[Len(file) + j] = HMAC(key, BlockOf(n))[j]
  BY <1>3, <1>6, Added, Zenon
<1>10. Len(file') = size + (n + 1) * hash_size
  BY <1>0, <1>1, <1>2, <1>9
<1>11. \A j \in 1..hash_size : file'[size + n * hash_size + j] = HMAC(key, BlockOf(n)')[j]
  BY <1>1, <1>2, <1>8, <1>9, Zenon
<1>18. PICK next \in Nat : next = n + 1
  OBVIOUS
<1>12. \A b \in 0..(next - 1) : b = n \/ b \in 0..(n - 1)
  BY <1>18
<1>13. \A b \in 0..(next - 1) :
        /\ b * HASH_BLOCK_SIZE < size
        /\ \A j \in 1..hash_size : file'[size + b * hash_size + j] = HMAC(key, BlockOf(b)')[j]
  <2>1. \A b \in 0..(n - 1) :
          /\ b * HASH_BLOCK_SIZE < size
          /\ \A j \in 1..hash_size : file'[size + b * hash_size + j] = HMAC(key, BlockOf(b)')[j]
    BY <1>7, Zenon DEF FileInv, HMAC
  <2> QED BY <1>11, <1>12, <2>1, Zenon
<1>14. Len(file') >= size + next * hash_size
  BY <1>0, <1>1, <1>2, <1>10, <1>18
<1>15. file' \in Seq(Cells) /\ \A p \in 1..size : file'[p] \in Residue
  BY <1>7, Zenon DEF FileInv
<1>16. size' = size /\ HASH_BLOCK_SIZE' = HASH_BLOCK_SIZE /\ key' = key
  OBVIOUS
<1>17. FileInv(next)'
  BY <1>13, <1>14, <1>15, <1>16, Zenon DEF FileInv, HMAC
<1> QED BY <1>10, <1>17, <1>18

LEMMA AppendHashStep ==
  ASSUME SealInv, AppendHash
  PROVE  SealInv'
<1>0. UNCHANGED <<pc, key, mountKey, HASH_BLOCK_SIZE, hashes_offset, size, damage>> /\ pc = "seal"
  BY DEF AppendHash
<1>1. count \in Nat /\ size \in Nat \ {0} /\ key \in Keys /\ count' = count + 1 /\ count' \in Nat
  BY DEF SealInv, AppendHash
<1>2. ASSUME Fine
      PROVE  /\ HASH_BLOCK_SIZE = Clip(DEF_HASH_BLOCK_SIZE, size)
             /\ FileInv(count)' /\ LoopInv' /\ Len(file') = size + (count + 1) * hash_size
  <2>1. /\ HASH_BLOCK_SIZE = Clip(DEF_HASH_BLOCK_SIZE, size)
        /\ FileInv(count) /\ LoopInv /\ Len(file) = size + count * hash_size
    BY <1>0, <1>2 DEF SealInv
  <2>2. OffsetsFit
    BY <1>2 DEF Fine
  <2>3. remaining > 0 /\ remaining' = remaining - block_size /\ block_size' = Clip(block_size, remaining')
    BY DEF AppendHash
  <2>4. LoopInv'
    BY <1>0, <1>1, <2>1, <2>3, RoundDone
  <2>5. PICK n \in Nat : n = count
    BY <1>1
  <2>6. FileInv(n) /\ Len(file) = size + n * hash_size
    BY <2>1, <2>5
  <2>7. file \in Seq(Cells) /\ Len(file) >= size
    <3>1. file \in Seq(Cells) /\ Len(file) >= size + n * hash_size /\ Len(file) \in Nat
      BY <2>6 DEF FileInv
    <3> QED BY <1>1, <3>1, DigestPlace, SealAssumption
  <2>8. /\ ToInt(count * HASH_BLOCK_SIZE, IntBits) = count * HASH_BLOCK_SIZE
        /\ count * HASH_BLOCK_SIZE \in Nat
        /\ \A buffer \in Buffers(count * HASH_BLOCK_SIZE, block_size) : buffer = BlockOf(count)
    BY <1>1, <2>1, <2>2, <2>3, <2>7, BlockRead, Zenon
  <2>9. Fseek(count * HASH_BLOCK_SIZE) = count * HASH_BLOCK_SIZE
    BY <2>8 DEF Fseek
  <2>10. file' = file \o HMAC(key, BlockOf(n))
    BY <2>5, <2>8, <2>9, Zenon DEF AppendHash
  <2>11. n * HASH_BLOCK_SIZE < size /\ HASH_BLOCK_SIZE \in Nat \ {0}
    BY <1>1, <2>1, <2>3, <2>5, RoundFacts, BlockSizes
  <2>12. FileInv(n + 1)' /\ Len(file') = size + (n + 1) * hash_size
    BY <1>0, <1>1, <2>6, <2>10, <2>11, DigestAppended, Zenon
  <2>13. FileInv(count)'
    BY <1>1, <2>5, <2>12 DEF FileInv, HMAC
  <2> QED BY <2>1, <2>4, <2>5, <2>12, <2>13
<1>3. Fine' => Fine
  BY <1>0 DEF Fine, OffsetsFit
<1> QED BY <1>0, <1>1, <1>2, <1>3 DEF SealInv

LEMMA AppendCountStep ==
  ASSUME SealInv, AppendCount
  PROVE  SealInv'
<1>0. /\ UNCHANGED <<key, mountKey, HASH_BLOCK_SIZE, count, size, damage>>
      /\ pc = "seal" /\ pc' = "sealed"
  BY DEF AppendCount
<1>1. count \in Nat /\ size \in Nat \ {0} /\ key \in Keys
  BY DEF SealInv
<1>2. ASSUME Fine
      PROVE  HASH_BLOCK_SIZE = Clip(DEF_HASH_BLOCK_SIZE, size) /\ SealedInv(count)'
  <2>1. /\ HASH_BLOCK_SIZE = Clip(DEF_HASH_BLOCK_SIZE, size)
        /\ FileInv(count) /\ LoopInv /\ Len(file) = size + count * hash_size
    BY <1>0, <1>2 DEF SealInv
  <2>2. PICK n \in Nat : n = count
    BY <1>1
  <2>3. FileInv(n) /\ Len(file) = size + n * hash_size
    BY <2>1, <2>2
  <2>4. AllBlocks(n)
    BY <2>1, <2>2 DEF LoopInv, AppendCount
  <2>5. HASH_BLOCK_SIZE \in Nat \ {0}
    BY <1>1, <2>1, BlockSizes
  <2>6. PICK u : u = <<Count(n)>>
    BY Zenon
  <2>7. u \in Seq(Cells) /\ Len(u) = 1 /\ u[1] = Count(n)
    <3>1. Count(n) \in Cells
      BY DEF Cells
    <3> QED BY <2>6, <3>1
  <2>8. file \in Seq(Cells)
    BY <2>3 DEF FileInv
  <2>9. file' = file \o u
    <3>1. file' = Append(file, Count(n))
      BY <2>2 DEF AppendCount
    <3> QED BY <2>6, <2>8, <3>1
  <2>10. FileInv(n)'
    BY <1>0, <1>1, <2>3, <2>5, <2>7, <2>9, FileGrows, Zenon
  <2>11. Len(file') = Len(file) + 1 /\ file'[Len(file) + 1] = Count(n)
    <3>1. Len(file') = Len(file) + Len(u) /\ \A j \in 1..Len(u) : file'[Len(file) + j] = u[j]
      BY <2>7, <2>8, <2>9, Added, Zenon
    <3> QED BY <2>7, <3>1
  <2>12. AllBlocks(n)'
    BY <1>0, <2>4 DEF AllBlocks
  <2>13. SealedInv(n)'
    <3>1. size' = size /\ Len(file') = size + n * hash_size + 1 /\ file'[Len(file')] = Count(n)
      BY <1>0, <2>3, <2>11
    <3> QED BY <2>10, <2>12, <3>1 DEF SealedInv
  <2>14. n = count'
    BY <1>0, <2>2
  <2> QED BY <2>1, <2>13, <2>14
<1>3. Fine' => Fine
  BY <1>0 DEF Fine, OffsetsFit
<1>4. damage = "none" /\ mountKey = key
  BY <1>0 DEF SealInv
<1> QED BY <1>0, <1>1, <1>2, <1>3, <1>4 DEF SealInv

LEMMA SameFile ==
  ASSUME NEW n \in Nat, SealedInv(n), UNCHANGED <<file, key, size, HASH_BLOCK_SIZE>>
  PROVE  SealedInv(n)'
BY DEF SealedInv, FileInv, AllBlocks, BlockOf, BlockLength, HMAC

\* Only an image that is left alone and a key that is right matter here.
LEMMA StoreStep ==
  ASSUME SealInv, Store
  PROVE  SealInv'
<1>0. /\ UNCHANGED <<key, HASH_BLOCK_SIZE, count, size>>
      /\ pc = "sealed" /\ pc' = "open" /\ (damage' = "none" => UNCHANGED file)
  BY DEF Store
<1>1. count \in Nat /\ size \in Nat \ {0} /\ key \in Keys
  BY DEF SealInv
<1>2. ASSUME Fine'
      PROVE  HASH_BLOCK_SIZE = Clip(DEF_HASH_BLOCK_SIZE, size) /\ SealedInv(count)'
  <2>1. Fine /\ UNCHANGED file
    BY <1>0, <1>2 DEF Fine, OffsetsFit, SealInv
  <2>2. HASH_BLOCK_SIZE = Clip(DEF_HASH_BLOCK_SIZE, size) /\ SealedInv(count)
    BY <1>0, <2>1 DEF SealInv
  <2>3. PICK n \in Nat : n = count /\ n = count'
    BY <1>0, <1>1
  <2>4. SealedInv(n)'
    BY <1>0, <2>1, <2>2, <2>3, SameFile
  <2> QED BY <2>2, <2>3, <2>4
<1> QED BY <1>0, <1>1, <1>2 DEF SealInv

----------------------------------------------------------------------------
(* The steps of checkHash() *)

\* The size of the digests does not wrap around.
LEMMA DigestsFit ==
  ASSUME OffsetsFit, size \in Nat \ {0}, HASH_BLOCK_SIZE = Clip(DEF_HASH_BLOCK_SIZE, size),
         NEW n \in Nat, AllBlocks(n)
  PROVE  (hash_size * n) % 2^IntBits = n * hash_size
<1>0. hash_size \in Nat \ {0} /\ DEF_HASH_BLOCK_SIZE \in Nat \ {0}
      /\ hash_size <= DEF_HASH_BLOCK_SIZE
  BY SealAssumption, WidthAssumption
<1>1. HASH_BLOCK_SIZE \in Nat \ {0}
  BY BlockSizes
<1>2. Limit \in Nat /\ 2^IntBits = 2 * Limit /\ hash_size <= Limit
  BY LimitFacts
<1>3. PICK c \in Nat : n = c + 1
  <2>1. n - 1 \in Nat /\ n = n - 1 + 1
    BY DEF AllBlocks
  <2> QED BY <2>1
<1>4. c * HASH_BLOCK_SIZE < size
  <2>1. n - 1 = c
    BY <1>3
  <2> QED BY <2>1 DEF AllBlocks
<1>5. c * HASH_BLOCK_SIZE < Limit /\ c * HASH_BLOCK_SIZE \in Nat
  BY <1>4, OffsetFits
<1>6. c * hash_size \in Nat /\ c * hash_size < Limit
  <2>1. c * hash_size \in Nat
    BY <1>0
  <2>2. CASE HASH_BLOCK_SIZE = DEF_HASH_BLOCK_SIZE
    <3>1. c * hash_size <= c * DEF_HASH_BLOCK_SIZE
      BY <1>0
    <3> QED BY <1>2, <1>5, <2>1, <2>2, <3>1
  <2>3. CASE HASH_BLOCK_SIZE = size
    <3>1. ~(0 < c)
      BY <1>4, <2>3, Multiples
    <3>2. c = 0
      BY <3>1
    <3> QED BY <1>0, <1>2, <3>2
  <2> QED BY <2>2, <2>3, BlockSizes
<1>7. PICK m \in Nat : m = c * hash_size
  BY <1>6
<1>8. hash_size * n = m + hash_size /\ n * hash_size = m + hash_size
  BY <1>0, <1>3, <1>7
<1>9. m + hash_size < 2 * Limit
  BY <1>0, <1>2, <1>6, <1>7
<1>10. (m + hash_size) % (2 * Limit) = m + hash_size
  BY <1>0, <1>2, <1>9, Modulo
<1> QED BY <1>2, <1>8, <1>10

\* The count at the end of the file is the one that was written.
LEMMA CountRead ==
  ASSUME size \in Nat \ {0}, NEW n \in Nat, SealedInv(n)
  PROVE  ShownCounts = {n}
<1>1. file \in Seq(Cells) /\ Len(file) = size + n * hash_size + 1 /\ file[Len(file)] = Count(n)
  BY DEF SealedInv, FileInv
<1>2. file # <<>>
  <2>1. PICK m \in Nat : m = n * hash_size
    BY SealAssumption
  <2>2. Len(file) # 0
    BY <1>1, <2>1
  <2> QED BY <2>2
<1>3. Last(file) = Count(n)
  BY <1>1 DEF Last
<1>4. Count(n)[1] = "count" /\ Count(n)[2] = n
  BY DEF Count
<1> QED BY <1>2, <1>3, <1>4 DEF ShownCounts

LEMMA OpenImageStep ==
  ASSUME SealInv, OpenImage
  PROVE  SealInv'
<1>0. /\ UNCHANGED <<file, key, mountKey, size, damage>>
      /\ pc = "open" /\ pc' \in {"check", "rejected"} /\ count' = 0
  BY DEF OpenImage
<1>1. count \in Nat /\ size \in Nat \ {0} /\ key \in Keys
  BY DEF SealInv
<1>2. ASSUME Fine
      PROVE  /\ pc' = "check" /\ HASH_BLOCK_SIZE' = Clip(DEF_HASH_BLOCK_SIZE, size)
             /\ (\E n \in Nat : SealedInv(n)') /\ LoopInv'
             /\ hashes_offset' = size
  <2>1. HASH_BLOCK_SIZE = Clip(DEF_HASH_BLOCK_SIZE, size) /\ OffsetsFit /\ SealedInv(count)
    BY <1>0, <1>2 DEF SealInv, Fine
  <2>2. PICK n \in Nat : n = count
    BY <1>1
  <2>3. SealedInv(n) /\ AllBlocks(n)
    BY <2>1, <2>2 DEF SealedInv
  <2>4. ShownCounts = {n}
    BY <1>1, <2>3, CountRead
  <2>5. Len(file) - 1 - ((hash_size * n) % 2^IntBits) = size
    <3>1. PICK m \in Nat : m = n * hash_size
      BY SealAssumption
    <3>2. Len(file) = size + m + 1
      BY <2>3, <3>1 DEF SealedInv
    <3>3. (hash_size * n) % 2^IntBits = m
      BY <1>1, <2>1, <2>3, <3>1, DigestsFit
    <3> QED BY <1>1, <3>2, <3>3
  <2>6. /\ hashes_offset' = size /\ remaining' = size
        /\ HASH_BLOCK_SIZE' = (IF size < 0 THEN DEF_HASH_BLOCK_SIZE
                               ELSE Clip(DEF_HASH_BLOCK_SIZE, size))
        /\ block_size' = HASH_BLOCK_SIZE'
        /\ pc' = IF size >= 0 THEN "check" ELSE "rejected"
    BY <2>4, <2>5, Zenon DEF OpenImage
  <2>7. pc' = "check" /\ HASH_BLOCK_SIZE' = Clip(DEF_HASH_BLOCK_SIZE, size)
    BY <1>1, <2>6
  <2>8. SealedInv(n)'
    BY <1>0, <2>1, <2>3, <2>7, SameFile
  <2>9. HASH_BLOCK_SIZE \in Nat \ {0} /\ HASH_BLOCK_SIZE <= size
    BY <1>1, <2>1, BlockSizes
  <2>10. Clip(HASH_BLOCK_SIZE, size) = HASH_BLOCK_SIZE /\ 0 * HASH_BLOCK_SIZE = 0
    BY <1>1, <2>9 DEF Clip
  <2>11. LoopInv'
    BY <1>0, <1>1, <2>1, <2>6, <2>7, <2>10 DEF LoopInv, BlockLength
  <2> QED BY <2>6, <2>7, <2>8, <2>11
<1>3. Fine' => Fine
  BY <1>0 DEF Fine, OffsetsFit
<1>4. size + 0 * hash_size = size
  BY <1>1, SealAssumption
<1> QED BY <1>0, <1>1, <1>2, <1>3, <1>4 DEF SealInv

\* The digest that is read next belongs to the block that the count names.
LEMMA DigestRead ==
  ASSUME size \in Nat \ {0}, HASH_BLOCK_SIZE \in Nat \ {0}, NEW n \in Nat, SealedInv(n),
         NEW b \in Nat, b * HASH_BLOCK_SIZE < size
  PROVE  Fread(size + b * hash_size, hash_size) = HMAC(key, BlockOf(b))
<1>0. hash_size \in Nat \ {0}
  BY SealAssumption
<1>1. b < n
  <2>1. SUFFICES ASSUME ~(b < n) PROVE FALSE
    OBVIOUS
  <2>2. size <= n * HASH_BLOCK_SIZE
    BY DEF SealedInv, AllBlocks
  <2>3. b = n \/ n < b
    BY <2>1
  <2>4. n * HASH_BLOCK_SIZE <= b * HASH_BLOCK_SIZE
    BY <2>3, Multiples
  <2> QED BY <2>2, <2>4
<1>2. FileInv(n)
  BY DEF SealedInv
<1>3. file \in Seq(Cells) /\ Len(file) \in Nat /\ Len(file) >= size + n * hash_size
  BY <1>2 DEF FileInv
<1>4. \A j \in 1..hash_size : size + b * hash_size + j \in 1..Len(file)
  BY <1>0, <1>1, <1>3, DigestPlace
<1>5. PICK p \in Nat : p = size + b * hash_size
  BY <1>0
<1>6. p + hash_size <= Len(file)
  BY <1>0, <1>3, <1>4, <1>5
<1>7. Fread(p, hash_size) = SubSeq(file, p + 1, p + hash_size)
  BY <1>0, <1>3, <1>6, BufferFacts
<1>8. SubSeq(file, p + 1, p + hash_size) = [j \in 1..hash_size |-> file[p + j]]
  BY <1>0, <1>3, <1>6, PartFacts
<1>9. \A j \in 1..hash_size : file[p + j] = HMAC(key, BlockOf(b))[j]
  <2>1. b \in 0..(n - 1)
    BY <1>1
  <2> QED BY <1>2, <1>5, <2>1, Zenon DEF FileInv
<1>10. \A j \in 1..hash_size : file[p + j] = <<"digest", key, BlockOf(b), j>>
  BY <1>9 DEF HMAC
<1>11. [j \in 1..hash_size |-> file[p + j]] = HMAC(key, BlockOf(b))
  BY <1>10, Zenon DEF HMAC
<1> QED BY <1>5, <1>7, <1>8, <1>11, Zenon

\* A digest that is read in full fills its buffer.
LEMMA FullRead ==
  ASSUME NEW o, NEW k, NEW msg, Fread(o, hash_size) = HMAC(k, msg),
         NEW buffer \in Buffers(o, hash_size)
  PROVE  buffer = Fread(o, hash_size)
<1>1. PICK got : got = Fread(o, hash_size) /\ got = HMAC(k, msg)
  BY Zenon
<1>2. hash_size \in Nat
  BY SealAssumption
<1>3. PICK S : S = {<<"digest", k, msg, j>> : j \in 1..hash_size}
  BY Zenon
<1>4. got \in Seq(S) /\ Len(got) = hash_size
  BY <1>1, <1>2, <1>3 DEF HMAC
<1>5. hash_size - Len(got) = 0
  BY <1>2, <1>4
<1>6. PICK tail \in [1..(hash_size - Len(got)) -> Residue] : buffer = got \o tail
  BY <1>1, Zenon DEF Buffers
<1>7. got \o tail = got
  <2>1. tail \in [1..0 -> Residue]
    BY <1>5, <1>6, Zenon
  <2> QED BY <1>4, <2>1, EmptyTail
<1> QED BY <1>1, <1>6, <1>7, Zenon

LEMMA CompareHashStep ==
  ASSUME SealInv, CompareHash
  PROVE  SealInv'
<1>0. /\ UNCHANGED <<file, key, mountKey, HASH_BLOCK_SIZE, size, damage>>
      /\ pc = "check" /\ pc' \in {"check", "rejected"} /\ count' = count + 1
      /\ hashes_offset' = hashes_offset + hash_size
  BY DEF CompareHash
<1>1. count \in Nat /\ size \in Nat \ {0} /\ key \in Keys /\ count' \in Nat
  BY <1>0 DEF SealInv
<1>2. ASSUME Fine
      PROVE  /\ pc' = "check" /\ HASH_BLOCK_SIZE = Clip(DEF_HASH_BLOCK_SIZE, size)
             /\ (\E n \in Nat : SealedInv(n)') /\ LoopInv'
             /\ hashes_offset' = size + (count + 1) * hash_size
  <2>1. /\ HASH_BLOCK_SIZE = Clip(DEF_HASH_BLOCK_SIZE, size) /\ OffsetsFit /\ mountKey = key
        /\ LoopInv /\ hashes_offset = size + count * hash_size
    BY <1>0, <1>2 DEF SealInv, Fine
  <2>2. PICK n \in Nat : SealedInv(n)
    BY <1>0, <1>2 DEF SealInv
  <2>3. remaining > 0 /\ remaining' = remaining - block_size /\ block_size' = Clip(block_size, remaining')
    BY DEF CompareHash
  <2>4. LoopInv'
    BY <1>0, <1>1, <2>1, <2>3, RoundDone
  <2>5. SealedInv(n)'
    BY <1>0, <2>2, SameFile
  <2>6. hashes_offset' = size + (count + 1) * hash_size
    BY <1>0, <1>1, <2>1, SealAssumption
  <2>7. file \in Seq(Cells) /\ Len(file) >= size
    <3>1. file \in Seq(Cells) /\ Len(file) >= size + n * hash_size /\ Len(file) \in Nat
      BY <2>2 DEF SealedInv, FileInv
    <3> QED BY <1>1, <3>1, DigestPlace, SealAssumption
  <2>8. /\ ToInt(count * HASH_BLOCK_SIZE, IntBits) = count * HASH_BLOCK_SIZE
        /\ count * HASH_BLOCK_SIZE \in Nat
        /\ \A buffer \in Buffers(count * HASH_BLOCK_SIZE, block_size) : buffer = BlockOf(count)
    BY <1>1, <2>1, <2>3, <2>7, BlockRead, Zenon
  <2>9. count * HASH_BLOCK_SIZE < size /\ HASH_BLOCK_SIZE \in Nat \ {0}
    BY <1>1, <2>1, <2>3, RoundFacts, BlockSizes
  <2>10. Fread(hashes_offset, hash_size) = HMAC(key, BlockOf(count))
    BY <1>1, <2>1, <2>2, <2>9, DigestRead
  <2>11. ToInt(count * HASH_BLOCK_SIZE, IntBits) >= 0
    BY <2>8
  <2>12. PICK mastered_hash \in Buffers(hashes_offset, hash_size),
              buffer \in Buffers(count * HASH_BLOCK_SIZE, block_size) :
           pc' = IF SameHash(mastered_hash, HMAC(mountKey, buffer)) THEN pc ELSE "rejected"
    BY <2>8, <2>11 DEF CompareHash
  <2>13. mastered_hash = Fread(hashes_offset, hash_size)
    BY <2>10, FullRead, Zenon
  <2>14. pc' = pc
    BY <2>1, <2>8, <2>10, <2>12, <2>13, Zenon DEF SameHash
  <2> QED BY <1>0, <2>1, <2>4, <2>5, <2>6, <2>14
<1>3. Fine' => Fine
  BY <1>0 DEF Fine, OffsetsFit
<1> QED BY <1>0, <1>1, <1>2, <1>3 DEF SealInv

----------------------------------------------------------------------------
(* The theorem *)

LEMMA SealInit == Init => SealInv
<1> SUFFICES ASSUME Init PROVE SealInv
  OBVIOUS
<1>1. file \in Seq(Residue) /\ file # <<>> /\ size = Len(file) /\ count = 0 /\ key \in Keys
      /\ pc = "seal" /\ damage = "none" /\ mountKey = key
  BY SealAssumption DEF Init
<1>2. size \in Nat \ {0}
  BY <1>1
<1>3. HASH_BLOCK_SIZE = Clip(DEF_HASH_BLOCK_SIZE, size) /\ block_size = HASH_BLOCK_SIZE
      /\ remaining = size
  BY DEF Init
<1>4. HASH_BLOCK_SIZE \in Nat \ {0} /\ HASH_BLOCK_SIZE <= size
  BY <1>2, <1>3, BlockSizes
<1>5. 0 * hash_size = 0 /\ 0 * HASH_BLOCK_SIZE = 0
  BY <1>4, SealAssumption
<1>6. LoopInv
  BY <1>1, <1>2, <1>3, <1>4, <1>5 DEF LoopInv, BlockLength, Clip
<1>7. file \in Seq(Cells) /\ \A p \in 1..size : file[p] \in Residue
  BY <1>1 DEF Cells
<1>8. FileInv(0)
  BY <1>1, <1>2, <1>5, <1>7 DEF FileInv
<1>9. Len(file) = size + count * hash_size
  BY <1>1, <1>2, <1>5
<1> QED BY <1>1, <1>2, <1>3, <1>6, <1>8, <1>9 DEF SealInv

LEMMA SealStep == SealInv /\ [Next]_vars => SealInv'
<1> SUFFICES ASSUME SealInv, [Next]_vars PROVE SealInv'
  OBVIOUS
<1>1. CASE AppendHash
  BY <1>1, AppendHashStep
<1>2. CASE AppendCount
  BY <1>2, AppendCountStep
<1>3. CASE Store
  BY <1>3, StoreStep
<1>4. CASE OpenImage
  BY <1>4, OpenImageStep
<1>5. CASE CompareHash
  BY <1>5, CompareHashStep
<1>6. CASE AcceptImage
  BY <1>6 DEF AcceptImage, SealInv, Fine, OffsetsFit
<1>7. CASE UNCHANGED vars
  BY <1>7, Zenon DEF vars, SealInv, Fine, OffsetsFit, FileInv, SealedInv, AllBlocks, LoopInv,
              BlockOf, BlockLength, HMAC
<1> QED BY <1>1, <1>2, <1>3, <1>4, <1>5, <1>6, <1>7 DEF Next, Work, Done

\* hashAndAppend() and checkHash() agree: an image of any size, cut into
\* blocks of any size, that was not damaged and is checked with its own key
\* is never rejected while the offsets of its blocks fit an int.
THEOREM IntactImageAccepted == Spec => []IntactAccepted
<1>1. SealInv => IntactAccepted
  BY DEF SealInv, IntactAccepted, Fine
<1> QED BY <1>1, SealInit, SealStep, PTL DEF Spec
----------------------------------------------------------------------------
(***************************************************************************)
(* What an accepted image is.  This does not depend on the offsets, on the *)
(* damage or on the key, so the second invariant follows the file through  *)
(* all of them.                                                            *)
(***************************************************************************)

\* Its own block size, which checkHash() finds again only if the count is right.
FullBlock == Clip(DEF_HASH_BLOCK_SIZE, size)

IsDigest(c) == c[1] = "digest" /\ c[2] = key /\ c[3] \in Seq(Residue)

\* The image and n digests, each of a message that is made of bytes.
Written(n) ==
  /\ file \in Seq(Cells)
  /\ \A p \in 1..size : file[p] \in Residue
  /\ \A p \in (size + 1)..(size + n * hash_size) : IsDigest(file[p])

Full(n) == n \in Nat /\ n > 0 /\ (n - 1) * FullBlock < size /\ size <= n * FullBlock

\* The file on the medium, that had n digests.
Stored(n) ==
  /\ file \in Seq(Cells \cup {Byte(2)})
  /\ Len(file) <= size + n * hash_size + 1
  /\ \A p \in 1..Len(file) :
       \/ p <= size /\ file[p][1] = "byte"
       \/ /\ size < p /\ p <= size + n * hash_size
          /\ IsDigest(file[p]) \/ file[p] = Byte(2)
       \/ /\ p = size + n * hash_size + 1
          /\ file[p][1] = "count" /\ file[p][2] \in Nat
  /\ damage = "data" => \E p \in 1..size : file[p] = Byte(2)
  /\ damage = "digest" =>
       \E p \in (size + 1)..(size + n * hash_size) : file[p] = Byte(2)
  /\ damage = "cut" => Len(file) <= size + n * hash_size

\* Where checkHash() believes the image to end.
Start == hashes_offset - count * hash_size

CheckLoop ==
  /\ Start \in Nat /\ (Len(file) - 1 - Start) % 2 = 0
  /\ HASH_BLOCK_SIZE = Clip(DEF_HASH_BLOCK_SIZE, Start)
  /\ remaining \in 0..Start /\ block_size = Clip(HASH_BLOCK_SIZE, remaining)
  /\ remaining > 0 => remaining = Start - count * HASH_BLOCK_SIZE
  /\ remaining = 0 => Start <= count * HASH_BLOCK_SIZE

\* What the digests that matched say: they are digests of this file, and the
\* blocks they belong to hold bytes.  Behind the last offset that fits an int
\* only the last digest of a file that was cut off can match.
Matched(n) ==
  count > 0 =>
    /\ mountKey = key /\ size <= Start
    /\ hashes_offset <= size + n * hash_size /\ hashes_offset <= Len(file)
    /\ \A p \in (Start + 1)..hashes_offset : file[p][1] = "digest"
    /\ \/ hashes_offset = Len(file)
       \/ /\ (count - 1) * HASH_BLOCK_SIZE < Limit
          /\ \A p \in 1..size : p <= count * HASH_BLOCK_SIZE => file[p] \in Residue

GenuineInv ==
  /\ TypeOK
  /\ size \in Nat \ {0}
  /\ pc = "seal" => /\ damage = "none" /\ mountKey = key
                    /\ HASH_BLOCK_SIZE = FullBlock /\ LoopInv
                    /\ Written(count) /\ Len(file) = size + count * hash_size
                    /\ count > 0 => pos = Len(file)
  /\ pc = "sealed" => /\ Written(count) /\ Full(count)
                      /\ Len(file) = size + count * hash_size + 1
                      /\ file[Len(file)] = Count(count)
  /\ pc = "open" => Full(count) /\ Stored(count)
  /\ pc \in {"check", "accepted"} =>
       CheckLoop /\ \E n \in Nat : Full(n) /\ Stored(n) /\ Matched(n)
  /\ pc = "accepted" => remaining = 0
----------------------------------------------------------------------------
(* Facts about cells and numbers *)

LEMMA ByteFacts ==
  /\ \A b \in Residue : b[1] = "byte" /\ b # Byte(2)
  /\ Byte(2)[1] = "byte"
BY ByteAssumption DEF Byte

LEMMA FullFacts ==
  ASSUME size \in Nat \ {0}
  PROVE  /\ FullBlock \in Nat \ {0} /\ FullBlock <= size /\ FullBlock <= DEF_HASH_BLOCK_SIZE
         /\ FullBlock = DEF_HASH_BLOCK_SIZE \/ (FullBlock = size /\ size < DEF_HASH_BLOCK_SIZE)
BY SealAssumption DEF FullBlock, Clip

\* A remainder is not larger than the number, and an even one if both are.
LEMMA Remainder ==
  ASSUME NEW n \in Nat, NEW m \in Nat \ {0}
  PROVE  n % m \in Nat /\ n % m <= n
<1>1. PICK q \in Nat : q = n \div m
  OBVIOUS
<1>2. q * m \in Nat /\ n % m \in Nat /\ n = q * m + (n % m)
  BY <1>1
<1> QED BY <1>2

LEMMA EvenRemainder ==
  ASSUME NEW n \in Nat, NEW m \in Nat \ {0}
  PROVE  (2 * n) % (2 * m) \in Nat /\ ((2 * n) % (2 * m)) % 2 = 0
<1>9. PICK x \in Nat, y \in Nat \ {0} : x = 2 * n /\ y = 2 * m
  OBVIOUS
<1>1. PICK q \in Nat : q = x \div y
  BY <1>9
<1>2. PICK k \in Nat : k = q * m
  OBVIOUS
<1>3. PICK r \in Nat : r = x % y
  BY <1>9
<1>10. x = q * y + r
  BY <1>1, <1>3
<1>4. 2 * n = q * (2 * m) + r
  BY <1>9, <1>10
<1>5. q * (2 * m) = 2 * k
  BY <1>2
<1>6. r = 2 * (n - k)
  BY <1>4, <1>5
<1>7. r % 2 = 0
  BY <1>6
<1> QED BY <1>3, <1>7, <1>9

LEMMA LimitPositive == Limit \in Nat \ {0} /\ 2^IntBits = 2 * Limit /\ DEF_HASH_BLOCK_SIZE <= Limit
BY LimitFacts, SealAssumption, CountAssumption DEF Limit

\* What an int keeps of an offset.
LEMMA ToIntCases ==
  ASSUME NEW n \in Nat
  PROVE  /\ ToInt(n, IntBits) \in Int
         /\ ToInt(n, IntBits) >= 0 => ToInt(n, IntBits) <= n
         /\ n < Limit => ToInt(n, IntBits) = n
         /\ Limit <= n /\ n < 2 * Limit => ToInt(n, IntBits) < 0
<1>1. Limit \in Nat \ {0} /\ 2^IntBits = 2 * Limit
  BY LimitPositive
<1>2. PICK r \in Nat : r = n % (2 * Limit) /\ r <= n /\ r < 2 * Limit
  BY <1>1, Remainder
<1>3. ToInt(n, IntBits) = IF r >= Limit THEN r - 2 * Limit ELSE r
  BY <1>1, <1>2 DEF ToInt, Limit
<1>4. n < 2 * Limit => r = n
  BY <1>1, <1>2, Modulo
<1> QED BY <1>1, <1>2, <1>3, <1>4

----------------------------------------------------------------------------
(* hashAndAppend(), with any offset *)

\* Where the image is not read because the offset does not fit, a buffer
\* holds what was in it.
LEMMA SealBuffer ==
  ASSUME size \in Nat \ {0}, count \in Nat, HASH_BLOCK_SIZE = FullBlock, LoopInv,
         remaining > 0, Written(count), Len(file) >= size, count > 0 => pos = Len(file),
         NEW buffer \in Buffers(Fseek(count * HASH_BLOCK_SIZE), block_size)
  PROVE  buffer \in Seq(Residue)
<1>1. PICK o \in Nat : /\ o = count * HASH_BLOCK_SIZE /\ block_size \in Nat \ {0}
                       /\ o + block_size <= size
  BY RoundFacts DEF FullBlock
<1>2. file \in Seq(Cells) /\ Len(file) \in Nat /\ \A p \in 1..size : file[p] \in Residue
  BY DEF Written
<1>3. CASE ToInt(o, IntBits) >= 0
  <2>1. PICK p \in Nat : p = ToInt(o, IntBits) /\ p + block_size <= size
    BY <1>1, <1>3, ToIntCases
  <2>2. Fseek(o) = p
    BY <1>3, <2>1 DEF Fseek
  <2>3. p + block_size <= Len(file)
    BY <1>1, <1>2, <2>1
  <2>4. buffer = SubSeq(file, p + 1, p + block_size)
    BY <1>1, <1>2, <2>2, <2>3, BufferFacts
  <2>5. buffer = [k \in 1..block_size |-> file[p + k]]
    BY <1>1, <1>2, <2>3, <2>4, PartFacts
  <2>6. \A k \in 1..block_size : file[p + k] \in Residue
    BY <1>1, <1>2, <2>1
  <2> QED BY <1>1, <2>5, <2>6
<1>4. CASE ~(ToInt(o, IntBits) >= 0)
  <2>1. count # 0
    <3>1. count = 0 => o = 0
      BY <1>1, FullFacts
    <3>2. ToInt(0, IntBits) = 0
      BY LimitPositive, ToIntCases
    <3> QED BY <1>4, <3>1, <3>2
  <2>2. Fseek(o) = Len(file)
    BY <1>4, <2>1 DEF Fseek
  <2>3. Fread(Len(file), block_size) = <<>>
    BY <1>1, <1>2 DEF Fread
  <2>6. block_size - Len(<<>>) = block_size
    BY <1>1
  <2>7. Buffers(Len(file), block_size) =
          {<<>> \o tail : tail \in [1..(block_size - Len(<<>>)) -> Residue]}
    BY <2>3, Zenon DEF Buffers
  <2>4. PICK tail \in [1..block_size -> Residue] : buffer = <<>> \o tail
    BY <1>1, <2>2, <2>6, <2>7, Zenon
  <2>5. tail \in Seq(Residue)
    BY <1>1, <2>4
  <2> QED BY <2>4, <2>5
<1> QED BY <1>3, <1>4

Joins(s, u, t) ==
  /\ Len(t) = Len(s) + Len(u)
  /\ \A p \in 1..Len(s) : t[p] = s[p]
  /\ \A p \in 1..Len(u) : t[Len(s) + p] = u[p]

LEMMA Joined ==
  ASSUME NEW S, NEW s \in Seq(S), NEW u \in Seq(S)
  PROVE  s \o u \in Seq(S) /\ Joins(s, u, s \o u)
BY Kept DEF Joins

\* Another digest.
LEMMA WrittenGrows ==
  ASSUME size \in Nat \ {0}, key \in Keys, NEW n \in Nat, Written(n),
         Len(file) = size + n * hash_size, NEW msg \in Seq(Residue),
         file' = file \o HMAC(key, msg), UNCHANGED <<size, key>>
  PROVE  Written(n + 1)' /\ Len(file') = size + (n + 1) * hash_size
<1>1. PICK m \in Nat : m = n * hash_size /\ (n + 1) * hash_size = m + hash_size
  BY SealAssumption
<1>2. file \in Seq(Cells) /\ Len(file) = size + m /\ hash_size \in Nat
  BY <1>1, SealAssumption DEF Written
<1>3. PICK u : u = HMAC(key, msg)
  BY Zenon
<1>8. u \in Seq(Cells) /\ Len(u) = hash_size
  BY <1>3, DigestCells
<1>10. file' = file \o u
  BY <1>3, Zenon
<1>9. \A j \in 1..hash_size : u[j] = <<"digest", key, msg, j>>
  BY <1>3 DEF HMAC
<1>4. /\ file' \in Seq(Cells) /\ Len(file') = size + m + hash_size
      /\ \A p \in 1..(size + m) : file'[p] = file[p]
      /\ \A j \in 1..hash_size : file'[size + m + j] = u[j]
  <2>1. file \o u \in Seq(Cells) /\ Joins(file, u, file \o u)
    BY <1>2, <1>8, Joined, Zenon
  <2> QED BY <1>2, <1>8, <1>10, <2>1, Zenon DEF Joins
<1>5. \A p \in 1..size : file'[p] \in Residue
  <2>1. \A p \in 1..size : p \in 1..(size + m)
    BY <1>1
  <2> QED BY <1>4, <2>1, Zenon DEF Written
<1>6. ASSUME NEW p \in (size + 1)..(size + m + hash_size) PROVE IsDigest(file'[p])
  <2>1. CASE p <= size + m
    <3>1. p \in 1..(size + m) /\ p \in (size + 1)..(size + m)
      BY <1>1, <2>1
    <3> QED BY <1>1, <1>4, <3>1, Zenon DEF Written
  <2>2. CASE ~(p <= size + m)
    <3>1. PICK j \in 1..hash_size : p = size + m + j
      <4>1. p - (size + m) \in 1..hash_size /\ p = size + m + (p - (size + m))
        BY <1>2, <2>2
      <4> QED BY <4>1
    <3>2. file'[p] = <<"digest", key, msg, j>>
      BY <1>4, <1>9, <3>1, Zenon
    <3> QED BY <3>2 DEF IsDigest
  <2> QED BY <2>1, <2>2, Zenon
<1>7. Written(n + 1)'
  <2>1. size' = size /\ key' = key
    OBVIOUS
  <2>2. size + (n + 1) * hash_size = size + m + hash_size
    BY <1>1, <1>2
  <2> QED BY <1>4, <1>5, <1>6, <2>1, <2>2, Zenon DEF Written, IsDigest
<1>11. Len(file') = size + (n + 1) * hash_size
  BY <1>1, <1>2, <1>4
<1> QED BY <1>7, <1>11, Zenon
LEMMA GenuineAppendHash ==
  ASSUME GenuineInv, AppendHash
  PROVE  GenuineInv'
<1>1. /\ UNCHANGED <<pc, key, mountKey, HASH_BLOCK_SIZE, hashes_offset, size, damage>>
      /\ pc = "seal" /\ remaining > 0 /\ count' = count + 1 /\ pos' = Len(file) + hash_size
      /\ remaining' = remaining - block_size /\ block_size' = Clip(block_size, remaining')
  BY DEF AppendHash
<1>2. /\ TypeOK /\ size \in Nat \ {0} /\ damage = "none" /\ mountKey = key
      /\ HASH_BLOCK_SIZE = FullBlock /\ LoopInv /\ Written(count)
      /\ Len(file) = size + count * hash_size /\ (count > 0 => pos = Len(file))
  BY <1>1 DEF GenuineInv
<1>3. count \in Nat /\ key \in Keys
  BY <1>2 DEF TypeOK
<1>4. Len(file) >= size /\ Len(file) \in Nat
  <2>1. PICK m \in Nat : m = count * hash_size
    BY <1>3, SealAssumption
  <2> QED BY <1>2, <2>1
<1>5. LoopInv'
  BY <1>1, <1>2, <1>3, RoundDone DEF FullBlock
<1>6. PICK msg \in Seq(Residue) : file' = file \o HMAC(key, msg)
  <2>1. PICK buffer \in Buffers(Fseek(count * HASH_BLOCK_SIZE), block_size) :
           file' = file \o HMAC(key, buffer)
    BY Zenon DEF AppendHash
  <2>2. buffer \in Seq(Residue)
    BY <1>1, <1>2, <1>3, <1>4, SealBuffer, Zenon
  <2> QED BY <2>1, <2>2, Zenon
<1>7. Written(count)' /\ Len(file') = size + count' * hash_size
  <2>1. PICK n \in Nat : n = count
    BY <1>3
  <2>2. Written(n) /\ Len(file) = size + n * hash_size
    BY <1>2, <2>1, Zenon
  <2>3. Written(n + 1)' /\ Len(file') = size + (n + 1) * hash_size
    BY <1>1, <1>2, <1>3, <1>6, <2>2, WrittenGrows, Zenon
  <2>4. n + 1 = count'
    BY <1>1, <2>1
  <2> QED BY <2>3, <2>4, Zenon DEF Written, IsDigest
<1>8. pos' = Len(file') /\ Len(file') \in Nat
  <2>1. PICK m \in Nat : m = count * hash_size
    BY <1>3, SealAssumption
  <2>2. count' * hash_size = m + hash_size
    BY <1>1, <1>3, <2>1, SealAssumption
  <2> QED BY <1>1, <1>2, <1>7, <2>1, <2>2, SealAssumption
<1>9. block_size' \in 0..HASH_BLOCK_SIZE /\ remaining' \in Nat
  BY <1>1, <1>2, <1>5, FullFacts DEF LoopInv, BlockLength, Clip
<1>10. TypeOK'
  BY <1>1, <1>2, <1>3, <1>8, <1>9 DEF TypeOK
<1> QED BY <1>1, <1>2, <1>5, <1>7, <1>8, <1>10, Zenon DEF GenuineInv, FullBlock

LEMMA GenuineAppendCount ==
  ASSUME GenuineInv, AppendCount
  PROVE  GenuineInv'
<1>1. /\ UNCHANGED <<pos, key, mountKey, HASH_BLOCK_SIZE, block_size, remaining, count,
                     hashes_offset, size, damage>>
      /\ pc = "seal" /\ remaining <= 0 /\ pc' = "sealed" /\ file' = Append(file, Count(count))
  BY DEF AppendCount
<1>2. /\ TypeOK /\ size \in Nat \ {0} /\ HASH_BLOCK_SIZE = FullBlock /\ LoopInv
      /\ Written(count) /\ Len(file) = size + count * hash_size
  BY <1>1 DEF GenuineInv
<1>3. PICK m \in Nat : m = count * hash_size
  BY <1>2, SealAssumption DEF TypeOK
<1>4. Full(count)
  BY <1>1, <1>2 DEF LoopInv, AllBlocks, Full
<1>5. file \in Seq(Cells) /\ Count(count) \in Cells
  BY <1>2 DEF Written, Cells, TypeOK
<1>6. /\ file' \in Seq(Cells) /\ Len(file') = size + m + 1
      /\ \A p \in 1..(size + m) : file'[p] = file[p]
      /\ file'[Len(file')] = Count(count)
  BY <1>1, <1>2, <1>3, <1>5
<1>7. Written(count)'
  <2>1. \A p \in 1..size : p \in 1..(size + m)
    BY <1>2, <1>3
  <2>2. \A p \in (size + 1)..(size + m) : p \in 1..(size + m)
    BY <1>2, <1>3
  <2> QED BY <1>1, <1>2, <1>3, <1>6, <2>1, <2>2, Zenon DEF Written, IsDigest
<1>8. TypeOK'
  BY <1>1, <1>2, <1>3, <1>6 DEF TypeOK
<1>9. Full(count)'
  BY <1>1, <1>4 DEF Full, FullBlock
<1> QED BY <1>1, <1>2, <1>3, <1>6, <1>7, <1>8, <1>9, Zenon DEF GenuineInv
\* What the medium may do.
LEMMA Damaged ==
  ASSUME NEW S, NEW s \in Seq(S), NEW x, NEW p \in 1..Len(s)
  PROVE  /\ [s EXCEPT ![p] = x] \in Seq(S \cup {x}) /\ Len([s EXCEPT ![p] = x]) = Len(s)
         /\ \A q \in 1..Len(s) : [s EXCEPT ![p] = x][q] = IF q = p THEN x ELSE s[q]
OBVIOUS

LEMMA GenuineStore ==
  ASSUME GenuineInv, Store
  PROVE  GenuineInv'
<1>1. /\ UNCHANGED <<key, HASH_BLOCK_SIZE, block_size, remaining, count, hashes_offset, size>>
      /\ pc = "sealed" /\ pc' = "open" /\ pos' = 0 /\ damage' \in Damages /\ mountKey' \in Keys
  BY DEF Store
<1>2. /\ TypeOK /\ size \in Nat \ {0} /\ Written(count) /\ Full(count)
      /\ Len(file) = size + count * hash_size + 1 /\ file[Len(file)] = Count(count)
  BY <1>1 DEF GenuineInv
<1>3. PICK m \in Nat : m = count * hash_size /\ count \in Nat
  BY <1>2, SealAssumption DEF TypeOK
<1>4. file \in Seq(Cells) /\ Len(file) = size + m + 1
  BY <1>2, <1>3 DEF Written
<1> DEFINE Cell0(p, c) ==
      \/ p <= size /\ c[1] = "byte"
      \/ size < p /\ p <= size + m /\ (IsDigest(c) \/ c = Byte(2))
      \/ p = size + m + 1 /\ c[1] = "count" /\ c[2] \in Nat
<1>5. \A p \in 1..Len(file) : Cell0(p, file[p])
  <2>1. \A p \in 1..Len(file) : p \in 1..size \/ p \in (size + 1)..(size + m) \/ p = size + m + 1
    BY <1>2, <1>3, <1>4
  <2>2. \A p \in 1..size : p <= size /\ file[p][1] = "byte"
    BY <1>2, ByteFacts DEF Written
  <2>3. \A p \in (size + 1)..(size + m) : size < p /\ p <= size + m /\ IsDigest(file[p])
    BY <1>2, <1>3 DEF Written
  <2>4. file[size + m + 1][1] = "count" /\ file[size + m + 1][2] \in Nat
    BY <1>2, <1>3, <1>4 DEF Count
  <2> QED BY <2>1, <2>2, <2>3, <2>4, Zenon
<1>6. \A p \in 1..(size + m) : Cell0(p, Byte(2))
  BY <1>2, <1>3, ByteFacts
<1>7. \A n \in Nat : Cell0(size + m + 1, Count(n))
  BY <1>2, <1>3 DEF Count
<1> HIDE DEF Cell0
<1>8. /\ file' \in Seq(Cells \cup {Byte(2)}) /\ Len(file') <= size + m + 1
      /\ \A p \in 1..Len(file') : Cell0(p, file'[p])
      /\ damage' = "data" => \E p \in 1..size : file'[p] = Byte(2)
      /\ damage' = "digest" => \E p \in (size + 1)..(size + m) : file'[p] = Byte(2)
      /\ damage' = "cut" => Len(file') <= size + m
  <2>1. CASE damage' = "none" /\ UNCHANGED file
    BY <1>4, <1>5, <2>1
  <2>2. ASSUME damage' = "data", NEW p \in 1..size, file' = [file EXCEPT ![p] = Byte(2)]
        PROVE  <1>8!:
    <3>1. p \in 1..Len(file) /\ p \in 1..(size + m)
      BY <1>2, <1>3, <1>4
    <3> QED BY <1>4, <1>5, <1>6, <2>2, <3>1, Damaged
  <2>3. ASSUME damage' = "digest", NEW p \in (size + 1)..(Len(file) - 1),
               file' = [file EXCEPT ![p] = Byte(2)]
        PROVE  <1>8!:
    <3>1. p \in 1..Len(file) /\ p \in 1..(size + m) /\ p \in (size + 1)..(size + m)
      BY <1>2, <1>3, <1>4
    <3> QED BY <1>4, <1>5, <1>6, <2>3, <3>1, Damaged
  <2>4. ASSUME damage' = "count", NEW n \in 0..MaxCount, file' = [file EXCEPT ![Len(file)] = Count(n)]
        PROVE  <1>8!:
    <3>1. n \in Nat /\ Count(n) \in Cells /\ Len(file) \in 1..Len(file)
      BY <1>2, <1>3, <1>4, SealAssumption DEF Cells
    <3> QED BY <1>4, <1>5, <1>7, <2>4, <3>1, Damaged
  <2>5. ASSUME damage' = "cut", NEW n \in 0..(Len(file) - 1), file' = SubSeq(file, 1, n)
        PROVE  <1>8!:
    <3>1. file' \in Seq(Cells) /\ Len(file') = n /\ \A p \in 1..n : file'[p] = file[p]
      BY <1>4, <2>5
    <3> QED BY <1>2, <1>3, <1>4, <1>5, <2>5, <3>1
  <2> QED BY <2>1, <2>2, <2>3, <2>4, <2>5, Zenon DEF Store
<1>9. Stored(count)'
  BY <1>1, <1>3, <1>8, Zenon DEF Stored, Cell0, IsDigest
<1>10. Full(count)'
  BY <1>1, <1>2 DEF Full, FullBlock
<1>11. TypeOK'
  BY <1>1, <1>2, <1>8 DEF TypeOK
<1> QED BY <1>1, <1>2, <1>9, <1>10, <1>11, Zenon DEF GenuineInv
----------------------------------------------------------------------------
(* checkHash(), on any file *)

LEMMA SameStored ==
  ASSUME NEW n \in Nat, Full(n), Stored(n), UNCHANGED <<file, key, size, damage>>
  PROVE  Full(n)' /\ Stored(n)'
BY Zenon DEF Full, FullBlock, Stored, IsDigest

\* Whatever count the file shows is a natural number.
LEMMA CountShown ==
  ASSUME NEW n \in Nat, size \in Nat \ {0}, Stored(n), NEW number_hashes \in ShownCounts
  PROVE  number_hashes \in Nat
<1>1. CASE file # <<>> /\ Last(file)[1] = "count"
  <2>1. number_hashes = Last(file)[2]
    BY <1>1 DEF ShownCounts
  <2>2. file \in Seq(Cells \cup {Byte(2)})
    BY DEF Stored
  <2>3. Len(file) \in 1..Len(file) /\ Last(file) = file[Len(file)]
    BY <1>1, <2>2 DEF Last
  <2>4. \/ file[Len(file)][1] = "byte"
        \/ IsDigest(file[Len(file)]) \/ file[Len(file)] = Byte(2)
        \/ file[Len(file)][2] \in Nat
    BY <2>3, Zenon DEF Stored
  <2>5. "count" # "byte" /\ "count" # "digest"
    OBVIOUS
  <2> QED BY <1>1, <2>1, <2>3, <2>4, <2>5, ByteFacts, Zenon DEF IsDigest
<1>2. CASE ~(file # <<>> /\ Last(file)[1] = "count")
  <2>1. number_hashes \in 0..MaxCount
    BY <1>2, Zenon DEF ShownCounts
  <2> QED BY <2>1, SealAssumption
<1> QED BY <1>1, <1>2

LEMMA GenuineOpenImage ==
  ASSUME GenuineInv, OpenImage
  PROVE  GenuineInv'
<1>1. /\ UNCHANGED <<file, key, mountKey, size, damage>>
      /\ pc = "open" /\ count' = 0
  BY DEF OpenImage
<1>2. TypeOK /\ size \in Nat \ {0} /\ Full(count) /\ Stored(count)
  BY <1>1 DEF GenuineInv
<1>3. PICK n \in Nat : Full(n) /\ Stored(n)
  BY <1>2, Zenon DEF Full
<1>4. file \in Seq(Cells \cup {Byte(2)}) /\ Len(file) \in Nat
  BY <1>3 DEF Stored
<1>5. PICK number_hashes \in ShownCounts :
        LET image_size == Len(file) - 1 - ((hash_size * number_hashes) % 2^IntBits)
        IN  /\ hashes_offset' = image_size /\ remaining' = image_size
            /\ HASH_BLOCK_SIZE' = IF image_size < 0 THEN DEF_HASH_BLOCK_SIZE
                                  ELSE Clip(DEF_HASH_BLOCK_SIZE, image_size)
            /\ block_size' = HASH_BLOCK_SIZE'
            /\ pc' = IF image_size >= 0 THEN "check" ELSE "rejected"
            /\ pos' = Len(file)
  BY Zenon DEF OpenImage
<1>6. number_hashes \in Nat
  BY <1>2, <1>3, CountShown, Zenon
<1>7. PICK x \in Nat : x = (hash_size * number_hashes) % 2^IntBits /\ x % 2 = 0
  <2>1. PICK half \in Nat : hash_size = 2 * half
    BY SealAssumption, CountAssumption
  <2>2. PICK k \in Nat : k = half * number_hashes
    BY <1>6
  <2>3. hash_size * number_hashes = 2 * k
    BY <1>6, <2>1, <2>2
  <2>4. Limit \in Nat \ {0} /\ 2^IntBits = 2 * Limit
    BY LimitPositive
  <2>5. (2 * k) % (2 * Limit) \in Nat /\ ((2 * k) % (2 * Limit)) % 2 = 0
    BY <2>4, EvenRemainder
  <2> QED BY <2>3, <2>4, <2>5
<1>8. PICK i \in Int : i = Len(file) - 1 - x
  BY <1>4, <1>7
<1>9. /\ hashes_offset' = i /\ remaining' = i /\ block_size' = HASH_BLOCK_SIZE' /\ pos' = Len(file)
      /\ HASH_BLOCK_SIZE' = (IF i < 0 THEN DEF_HASH_BLOCK_SIZE ELSE Clip(DEF_HASH_BLOCK_SIZE, i))
      /\ pc' = IF i >= 0 THEN "check" ELSE "rejected"
  BY <1>5, <1>7, <1>8, Zenon
<1>10. TypeOK'
  BY <1>1, <1>2, <1>4, <1>8, <1>9, SealAssumption DEF TypeOK, Clip
<1>11. ASSUME i >= 0 PROVE CheckLoop'
  <2>1. Start' = i
    BY <1>1, <1>9, SealAssumption DEF Start
  <2>2. i \in Nat /\ Len(file') = Len(file) /\ (Len(file) - 1 - i) % 2 = 0
    BY <1>1, <1>4, <1>7, <1>8, <1>11
  <2>3. HASH_BLOCK_SIZE' = Clip(DEF_HASH_BLOCK_SIZE, i)
    BY <1>9, <1>11, <2>2
  <2>4. HASH_BLOCK_SIZE' \in Nat /\ HASH_BLOCK_SIZE' <= i
    BY <2>2, <2>3, SealAssumption DEF Clip
  <2>5. count' * HASH_BLOCK_SIZE' = 0
    <3>1. \A h \in Nat : 0 * h = 0
      OBVIOUS
    <3> QED BY <1>1, <2>4, <3>1, Zenon
  <2> QED BY <1>9, <2>1, <2>2, <2>3, <2>4, <2>5 DEF CheckLoop, Clip
<1>12. Full(n)' /\ Stored(n)' /\ Matched(n)'
  BY <1>1, <1>3, SameStored DEF Matched
<1>13. pc' = "check" => i >= 0
  BY <1>9
<1>14. pc' \in {"check", "rejected"}
  BY <1>9
<1>15. pc' # "seal" /\ pc' # "sealed" /\ pc' # "open" /\ pc' # "accepted"
       /\ (pc' \in {"check", "accepted"} => pc' = "check")
  BY <1>14
<1> QED BY <1>1, <1>2, <1>10, <1>11, <1>12, <1>13, <1>15, Zenon DEF GenuineInv
WholeDigest(o, k, msg) ==
  /\ o + hash_size <= Len(file) /\ Len(Fread(o, hash_size)) = hash_size
  /\ \A j \in 1..hash_size : file[o + j] = <<"digest", k, msg, j>>

\* A digest that is read in full is a part of the file.
LEMMA WholeRead ==
  ASSUME NEW S, file \in Seq(S), NEW o \in Nat, NEW k, NEW msg,
         Fread(o, hash_size) = HMAC(k, msg)
  PROVE  WholeDigest(o, k, msg)
<1>1. hash_size \in Nat \ {0} /\ Len(file) \in Nat
  BY SealAssumption
<1>2. HMAC(k, msg) \in Seq({<<"digest", k, msg, j>> : j \in 1..hash_size})
      /\ Len(HMAC(k, msg)) = hash_size
      /\ \A j \in 1..hash_size : HMAC(k, msg)[j] = <<"digest", k, msg, j>>
  BY <1>1 DEF HMAC
<1>3. PICK u : u = Fread(o, hash_size)
  BY Zenon
<1>4. Len(u) = hash_size /\ \A j \in 1..hash_size : u[j] = <<"digest", k, msg, j>>
  BY <1>2, <1>3, Zenon
<1>5. o + hash_size <= Len(file)
  <2>1. SUFFICES ASSUME ~(o + hash_size <= Len(file)) PROVE FALSE
    OBVIOUS
  <2>2. u = SubSeq(file, o + 1, Len(file))
    BY <1>3, <2>1, Zenon DEF Fread
  <2>3. Len(SubSeq(file, o + 1, Len(file))) < hash_size
    BY <1>1, <2>1
  <2> QED BY <1>1, <1>4, <2>2, <2>3
<1>6. u = SubSeq(file, o + 1, o + hash_size)
  BY <1>3, <1>5, Zenon DEF Fread
<1>7. \A j \in 1..hash_size : SubSeq(file, o + 1, o + hash_size)[j] = file[o + j]
  BY <1>1, <1>5
<1> QED BY <1>3, <1>4, <1>5, <1>6, <1>7, Zenon DEF WholeDigest

\* The cells that a buffer gets from the file come first in it.
LEMMA BufferPart ==
  ASSUME NEW S, file \in Seq(S), NEW p \in Nat, NEW n \in Nat, NEW buffer \in Buffers(p, n),
         NEW q \in 1..n, p + q <= Len(file)
  PROVE  buffer[q] = file[p + q]
<1>1. PICK e \in Nat : /\ e = IF p + n <= Len(file) THEN p + n ELSE Len(file)
                       /\ p + q <= e /\ e <= Len(file) /\ e <= p + n
  OBVIOUS
<1>2. PICK got : got = Fread(p, n) /\ got = SubSeq(file, p + 1, e)
  BY <1>1, Zenon DEF Fread
<1>3. got \in Seq(S) /\ Len(got) = e - p /\ q \in 1..Len(got) /\ got[q] = file[p + q]
  BY <1>1, <1>2
<1>4. PICK tail \in [1..(n - Len(got)) -> Residue] : buffer = got \o tail
  BY <1>2, Zenon DEF Buffers
<1>5. tail \in Seq(Residue)
  <2>1. \A k \in Nat : \A t \in [1..k -> Residue] : t \in Seq(Residue)
    OBVIOUS
  <2>2. n - Len(got) \in Nat
    BY <1>1, <1>3
  <2> QED BY <2>1, <2>2, Zenon
<1>6. got \in Seq(S \cup Residue) /\ tail \in Seq(S \cup Residue)
  BY <1>3, <1>5
<1>7. (got \o tail)[q] = got[q]
  BY <1>3, <1>6
<1> QED BY <1>3, <1>4, <1>7, Zenon

\* A digest cell lies among the digests and is one of this file's; no cell
\* behind the image is a byte that an image may have.
LEMMA DigestCell ==
  ASSUME size \in Nat, NEW n \in Nat, Stored(n), NEW p \in 1..Len(file)
  PROVE  /\ file[p][1] = "digest" =>
              size < p /\ p <= size + n * hash_size /\ IsDigest(file[p])
         /\ size < p => file[p] \notin Residue
<1>1. \/ p <= size /\ file[p][1] = "byte"
      \/ /\ size < p /\ p <= size + n * hash_size
         /\ IsDigest(file[p]) \/ file[p] = Byte(2)
      \/ /\ p = size + n * hash_size + 1
         /\ file[p][1] = "count" /\ file[p][2] \in Nat
  BY Zenon DEF Stored
<1>2. "digest" # "byte" /\ "count" # "digest" /\ "count" # "byte"
  OBVIOUS
<1>3. file[p][1] = "digest" =>
         size < p /\ p <= size + n * hash_size /\ IsDigest(file[p])
  BY <1>1, <1>2, ByteFacts, Zenon
<1>4. ASSUME size < p PROVE file[p] \notin Residue
  <2>1. CASE p <= size
    BY <1>4, <2>1
  <2>2. CASE IsDigest(file[p])
    BY <1>2, <2>2, ByteFacts, Zenon DEF IsDigest
  <2>3. CASE file[p] = Byte(2) \/ file[p][1] = "count"
    BY <1>2, <2>3, ByteFacts, Zenon
  <2> QED BY <1>1, <2>1, <2>2, <2>3, Zenon
<1> QED BY <1>3, <1>4
\* One round of the loop, whatever is compared.
LEMMA CheckRound ==
  ASSUME CheckLoop, count \in Nat, hashes_offset \in Int, remaining > 0, count' = count + 1,
         remaining' = remaining - block_size, block_size' = Clip(block_size, remaining'),
         hashes_offset' = hashes_offset + hash_size, UNCHANGED <<file, HASH_BLOCK_SIZE>>
  PROVE  /\ CheckLoop' /\ Start' = Start /\ block_size \in Nat \ {0}
         /\ block_size' \in 0..HASH_BLOCK_SIZE /\ remaining' \in Nat
<1>1. hash_size \in Nat \ {0} /\ DEF_HASH_BLOCK_SIZE \in Nat \ {0}
  BY SealAssumption
<1>2. PICK a \in Nat : a = count * hash_size /\ (count + 1) * hash_size = a + hash_size
  BY <1>1
<1>3. PICK s \in Nat : s = Start /\ s = hashes_offset - a
  BY <1>2 DEF CheckLoop, Start
<1>4. Start' = s
  BY <1>1, <1>2, <1>3 DEF Start
<1>5. HASH_BLOCK_SIZE = Clip(DEF_HASH_BLOCK_SIZE, s) /\ remaining \in 0..s
      /\ block_size = Clip(HASH_BLOCK_SIZE, remaining)
  BY <1>3 DEF CheckLoop
<1>6. PICK h \in Nat \ {0} : h = HASH_BLOCK_SIZE /\ h <= s
  BY <1>1, <1>5 DEF Clip
<1>7. PICK c \in Nat : c = count * h /\ (count + 1) * h = c + h
  BY <1>6
<1>8. remaining = s - c
  BY <1>3, <1>6, <1>7, Zenon DEF CheckLoop
<1>9. block_size = IF h > remaining THEN remaining ELSE h
  BY <1>5, <1>6 DEF Clip
<1>10. block_size' = IF block_size > remaining' THEN remaining' ELSE block_size
  BY DEF Clip
<1>11. /\ remaining' \in 0..s
       /\ remaining' > 0 => remaining' = s - (c + h)
       /\ remaining' = 0 => s <= c + h
  BY <1>5, <1>6, <1>7, <1>8, <1>9
<1>12. block_size' = IF h > remaining' THEN remaining' ELSE h
  BY <1>5, <1>6, <1>8, <1>9, <1>10, <1>11
<1>13. block_size' = Clip(HASH_BLOCK_SIZE', remaining')
  BY <1>6, <1>12 DEF Clip
<1>14. HASH_BLOCK_SIZE' = Clip(DEF_HASH_BLOCK_SIZE, s) /\ HASH_BLOCK_SIZE' = h
  BY <1>5, <1>6
<1>15. (Len(file') - 1 - s) % 2 = 0
  BY <1>3 DEF CheckLoop
<1>16. count' * HASH_BLOCK_SIZE' = c + h
  BY <1>7, <1>14
<1>17. CheckLoop'
  BY <1>4, <1>11, <1>13, <1>14, <1>15, <1>16, Zenon DEF CheckLoop
<1>18. block_size \in Nat \ {0} /\ block_size' \in 0..h /\ remaining' \in Nat
  BY <1>5, <1>6, <1>9, <1>11, <1>12
<1> QED BY <1>3, <1>4, <1>6, <1>17, <1>18, Zenon
\* A buffer has the size that was asked for.
LEMMA BufferLength ==
  ASSUME NEW S, file \in Seq(S), NEW p \in Nat, NEW n \in Nat, NEW buffer \in Buffers(p, n)
  PROVE  Len(buffer) >= n
<1>1. PICK got : got = Fread(p, n)
  BY Zenon
<1>2. got \in Seq(S) /\ Len(got) \in Nat /\ Len(got) <= n
  BY <1>1 DEF Fread
<1>3. PICK k \in Nat : k = n - Len(got)
  BY <1>2
<1>4. PICK tail \in [1..k -> Residue] : buffer = got \o tail
  BY <1>1, <1>3, Zenon DEF Buffers
<1>5. tail \in Seq(Residue) /\ Len(tail) = k
  OBVIOUS
<1>6. got \in Seq(S \cup Residue) /\ tail \in Seq(S \cup Residue)
  BY <1>2, <1>5
<1>7. Len(got \o tail) = n
  BY <1>2, <1>3, <1>5, <1>6
<1> QED BY <1>4, <1>7
\* A buffer that holds a digest got all of it from the file.
LEMMA NoResidue ==
  ASSUME NEW S, file \in Seq(S), NEW o \in Nat, NEW k, NEW msg,
         HMAC(k, msg) \in Buffers(o, hash_size)
  PROVE  Fread(o, hash_size) = HMAC(k, msg)
<1>1. hash_size \in Nat \ {0}
  BY SealAssumption
<1>2. PICK got : got = Fread(o, hash_size)
  BY Zenon
<1>3. got \in Seq(S) /\ Len(got) \in Nat /\ Len(got) <= hash_size
  BY <1>1, <1>2 DEF Fread
<1>4. PICK t \in Nat : t = hash_size - Len(got)
  BY <1>1, <1>3
<1>5. PICK tail \in [1..t -> Residue] : HMAC(k, msg) = got \o tail
  BY <1>2, <1>4, Zenon DEF Buffers
<1>6. CASE t = 0
  <2>1. tail \in [1..0 -> Residue]
    BY <1>6
  <2>2. got \o tail = got
    BY <1>3, <2>1, EmptyTail
  <2> QED BY <1>2, <1>5, <2>2, Zenon
<1>7. CASE t # 0
  <2>1. tail \in Seq(Residue) /\ Len(tail) = t /\ tail[t] \in Residue
    BY <1>7
  <2>2. got \in Seq(S \cup Residue) /\ tail \in Seq(S \cup Residue)
    BY <1>3, <2>1
  <2>3. Len(got) + t = hash_size
    BY <1>1, <1>3, <1>4
  <2>4. (got \o tail)[hash_size] = tail[t]
    BY <1>7, <2>1, <2>2, <2>3
  <2>5. HMAC(k, msg)[hash_size] = <<"digest", k, msg, hash_size>>
    BY <1>1 DEF HMAC
  <2>6. tail[t] = <<"digest", k, msg, hash_size>>
    BY <1>5, <2>4, <2>5, Zenon
  <2>7. tail[t][1] = "byte"
    BY <2>1, ByteAssumption
  <2> QED BY <2>6, <2>7
<1> QED BY <1>6, <1>7

\* A digest matched.
LEMMA DigestMatched ==
  ASSUME size \in Nat \ {0}, count \in Nat, hashes_offset \in Int, CheckLoop, remaining > 0,
         block_size \in Nat \ {0}, NEW n \in Nat, Stored(n), Matched(n),
         NEW buffer \in Buffers(IF ToInt(count * HASH_BLOCK_SIZE, IntBits) >= 0
                                THEN ToInt(count * HASH_BLOCK_SIZE, IntBits)
                                ELSE hashes_offset + Len(Fread(hashes_offset, hash_size)),
                                block_size),
         Fread(hashes_offset, hash_size) = HMAC(mountKey, buffer),
         count' = count + 1, hashes_offset' = hashes_offset + hash_size, Start' = Start,
         UNCHANGED <<file, key, mountKey, HASH_BLOCK_SIZE, size>>
  PROVE  Matched(n)'
<1>1. hash_size \in Nat \ {0} /\ DEF_HASH_BLOCK_SIZE \in Nat \ {0}
  BY SealAssumption
<1>2. PICK a \in Nat : a = count * hash_size
  BY <1>1
<1>3. PICK s \in Nat : s = Start /\ s = hashes_offset - a
  BY <1>2 DEF CheckLoop, Start
<1>4. PICK o \in Nat : o = hashes_offset /\ o = s + a
  BY <1>2, <1>3
<1>5. PICK h \in Nat \ {0} : h = HASH_BLOCK_SIZE /\ h <= s /\ h <= DEF_HASH_BLOCK_SIZE
  <2>1. HASH_BLOCK_SIZE = Clip(DEF_HASH_BLOCK_SIZE, s) /\ remaining \in 0..s
    BY <1>3 DEF CheckLoop
  <2> QED BY <1>1, <2>1 DEF Clip
<1>6. PICK c \in Nat : c = count * h /\ (count + 1) * h = c + h
  BY <1>5
<1>7. file \in Seq(Cells \cup {Byte(2)}) /\ Len(file) \in Nat
  BY DEF Stored
<1>8. /\ o + hash_size <= Len(file) /\ Len(Fread(o, hash_size)) = hash_size
      /\ \A j \in 1..hash_size : file[o + j] = <<"digest", mountKey, buffer, j>>
  <2>1. Fread(o, hash_size) = HMAC(mountKey, buffer)
    BY <1>4, Zenon
  <2>2. WholeDigest(o, mountKey, buffer)
    BY <1>7, <2>1, WholeRead, Zenon
  <2> QED BY <2>2, Zenon DEF WholeDigest
<1>9. \A j \in 1..hash_size : file[o + j][1] = "digest" /\ o + j \in 1..Len(file)
  BY <1>1, <1>4, <1>7, <1>8
<1>10. size <= o /\ mountKey = key /\ buffer \in Seq(Residue)
  <2>1. 1 \in 1..hash_size
    BY <1>1
  <2>2. size < o + 1 /\ IsDigest(file[o + 1])
    BY <1>9, <2>1, DigestCell
  <2>3. file[o + 1] = <<"digest", mountKey, buffer, 1>>
    BY <1>8, <2>1
  <2> QED BY <1>4, <2>2, <2>3 DEF IsDigest
<1>11. o + hash_size <= size + n * hash_size
  <2>1. hash_size \in 1..hash_size
    BY <1>1
  <2> QED BY <1>9, <2>1, DigestCell
<1>12. size <= s
  <2>1. CASE count = 0
    BY <1>1, <1>2, <1>4, <1>10, <2>1
  <2>2. CASE count > 0
    BY <1>3, <2>2 DEF Matched
  <2> QED BY <2>1, <2>2
<1>13. \A p \in (s + 1)..(o + hash_size) : file[p][1] = "digest"
  <2>1. ASSUME NEW p \in (s + 1)..o PROVE file[p][1] = "digest"
    <3>1. count > 0
      BY <1>1, <1>2, <1>4, <2>1
    <3> QED BY <1>3, <1>4, <2>1, <3>1, Zenon DEF Matched
  <2>2. ASSUME NEW p \in (o + 1)..(o + hash_size) PROVE file[p][1] = "digest"
    <3>1. p - o \in 1..hash_size /\ p = o + (p - o)
      BY <1>1, <1>4, <2>2
    <3> QED BY <1>9, <3>1, Zenon
  <2>3. \A p \in (s + 1)..(o + hash_size) : p \in (s + 1)..o \/ p \in (o + 1)..(o + hash_size)
    BY <1>1, <1>4
  <2> QED BY <2>1, <2>2, <2>3, Zenon
<1>14. /\ count > 0 => (count - 1) * h < Limit
       /\ \A p \in 1..size : p <= c => file[p] \in Residue
  <2>1. CASE count = 0
    BY <1>5, <1>6, <2>1
  <2>2. CASE count > 0
    <3>1. hashes_offset # Len(file)
      BY <1>1, <1>4, <1>7, <1>8
    <3> QED BY <1>5, <1>6, <2>2, <3>1 DEF Matched
  <2> QED BY <2>1, <2>2
<1>15. c < 2 * Limit
  <2>1. Limit \in Nat \ {0} /\ h <= Limit
    BY <1>1, <1>5, LimitPositive
  <2>2. CASE count = 0
    BY <1>5, <1>6, <2>1, <2>2
  <2>3. CASE count > 0
    <3>1. PICK d \in Nat : count = d + 1
      <4>1. count - 1 \in Nat /\ count = count - 1 + 1
        BY <2>3
      <4> QED BY <4>1
    <3>2. c = d * h + h /\ d * h \in Nat /\ d = count - 1
      BY <1>5, <1>6, <3>1
    <3>3. d * h < Limit
      BY <1>14, <2>3, <3>2, Zenon
    <3> QED BY <1>5, <1>6, <2>1, <3>2, <3>3
  <2> QED BY <2>2, <2>3
<1>16. \/ o + hash_size = Len(file)
       \/ c < Limit /\ \A p \in 1..size : p <= c + h => file[p] \in Residue
  <2>1. CASE c < Limit
    <3>1. ToInt(c, IntBits) = c /\ c >= 0
      BY <1>6, <2>1, ToIntCases
    <3>2. buffer \in Buffers(c, block_size)
      BY <1>5, <1>6, <3>1, Zenon
    <3>3. ASSUME NEW p \in 1..size, p <= c + h PROVE file[p] \in Residue
      <4>1. CASE p <= c
        BY <1>14, <4>1
      <4>2. CASE ~(p <= c)
        <5>1. block_size = (IF h > remaining THEN remaining ELSE h) /\ remaining = s - c
          BY <1>3, <1>5, <1>6, Zenon DEF CheckLoop, Clip
        <5>2. PICK q \in 1..block_size : p = c + q
          <6>1. p - c \in 1..block_size /\ p = c + (p - c)
            BY <1>5, <1>6, <1>12, <3>3, <4>2, <5>1
          <6> QED BY <6>1
        <5>3. c + q <= Len(file)
          BY <1>1, <1>4, <1>7, <1>8, <1>10, <5>2
        <5>4. buffer[q] = file[c + q]
          BY <1>6, <1>7, <3>2, <5>3, BufferPart
        <5>5. buffer[q] \in Residue
          <6>1. q \in DOMAIN buffer
            <7>1. Len(buffer) >= block_size
              BY <1>6, <1>7, <1>10, <3>2, BufferLength
            <7> QED BY <1>10, <7>1
          <6> QED BY <1>10, <6>1
        <5> QED BY <5>2, <5>4, <5>5
      <4> QED BY <4>1, <4>2
    <3> QED BY <2>1, <3>3
  <2>2. CASE ~(c < Limit)
    <3>1. ToInt(c, IntBits) < 0 /\ ToInt(c, IntBits) \in Int
      BY <1>6, <1>15, <2>2, LimitPositive, ToIntCases
    <3>2. ~(ToInt(c, IntBits) >= 0)
      BY <3>1
    <3>3. buffer \in Buffers(o + hash_size, block_size)
      BY <1>4, <1>5, <1>6, <1>8, <3>2, Zenon
    <3>4. SUFFICES ASSUME o + hash_size < Len(file) PROVE FALSE
      BY <1>1, <1>4, <1>7, <1>8
    <3>5. PICK e \in Nat : e = o + hash_size
      BY <1>1, <1>4
    <3>6. 1 \in 1..block_size /\ e + 1 <= Len(file) /\ e + 1 \in 1..Len(file) /\ size < e + 1
      BY <1>1, <1>4, <1>7, <1>10, <3>4, <3>5
    <3>7. buffer[1] = file[e + 1]
      BY <1>7, <3>3, <3>5, <3>6, BufferPart
    <3>8. file[e + 1] \notin Residue
      BY <3>6, DigestCell
    <3>9. buffer[1] \in Residue
      <4>1. Len(buffer) >= block_size
        BY <1>7, <1>10, <3>3, <3>5, BufferLength
      <4> QED BY <1>10, <4>1
    <3> QED BY <3>7, <3>8, <3>9
  <2> QED BY <2>1, <2>2
<1>17. /\ count' - 1 = count /\ count * HASH_BLOCK_SIZE' = c /\ count' * HASH_BLOCK_SIZE' = c + h
       /\ Start' = s /\ hashes_offset' = o + hash_size
  BY <1>3, <1>4, <1>5, <1>6
<1> QED BY <1>7, <1>8, <1>10, <1>11, <1>12, <1>13, <1>16, <1>17, Zenon DEF Matched
LEMMA GenuineCompareHash ==
  ASSUME GenuineInv, CompareHash
  PROVE  GenuineInv'
<1>1. /\ UNCHANGED <<file, pos, key, mountKey, HASH_BLOCK_SIZE, size, damage>>
      /\ pc = "check" /\ remaining > 0 /\ count' = count + 1
      /\ remaining' = remaining - block_size /\ block_size' = Clip(block_size, remaining')
      /\ hashes_offset' = hashes_offset + hash_size /\ pc' \in {"check", "rejected"}
  BY DEF CompareHash
<1>2. TypeOK /\ size \in Nat \ {0} /\ CheckLoop
  BY <1>1 DEF GenuineInv
<1>3. PICK n \in Nat : Full(n) /\ Stored(n) /\ Matched(n)
  BY <1>1 DEF GenuineInv
<1>4. count \in Nat /\ hashes_offset \in Int
  BY <1>2 DEF TypeOK
<1>5. /\ CheckLoop' /\ Start' = Start /\ block_size \in Nat \ {0}
      /\ block_size' \in 0..HASH_BLOCK_SIZE /\ remaining' \in Nat
  BY <1>1, <1>2, <1>4, CheckRound
<1>6. TypeOK'
  BY <1>1, <1>2, <1>4, <1>5, SealAssumption DEF TypeOK
<1>7. Full(n)' /\ Stored(n)'
  BY <1>1, <1>3, SameStored
<1>8. ASSUME pc' = "check" PROVE Matched(n)'
  <2>1. PICK mastered_hash \in Buffers(hashes_offset, hash_size),
             buffer \in Buffers(IF ToInt(count * HASH_BLOCK_SIZE, IntBits) >= 0
                                THEN ToInt(count * HASH_BLOCK_SIZE, IntBits)
                                ELSE hashes_offset + Len(Fread(hashes_offset, hash_size)),
                                block_size) :
           pc' = IF SameHash(mastered_hash, HMAC(mountKey, buffer))
                 THEN pc ELSE "rejected"
    BY Zenon DEF CompareHash
  <2>2. "check" # "rejected"
    OBVIOUS
  <2>3. Fread(hashes_offset, hash_size) = HMAC(mountKey, buffer)
    <3>1. mastered_hash = HMAC(mountKey, buffer)
      BY <1>8, <2>1, <2>2, Zenon DEF SameHash
    <3>2. file \in Seq(Cells \cup {Byte(2)})
      BY <1>3 DEF Stored
    <3>3. hashes_offset \in Nat
      <4>1. PICK a \in Nat : a = count * hash_size
        BY <1>4, SealAssumption
      <4>2. hashes_offset - a \in Nat
        BY <1>2, <4>1, Zenon DEF CheckLoop, Start
      <4> QED BY <1>4, <4>1, <4>2
    <3> QED BY <3>1, <3>2, <3>3, NoResidue, Zenon
  <2> QED BY <1>1, <1>2, <1>3, <1>4, <1>5, <2>3, DigestMatched, Zenon
<1>9. pc' # "seal" /\ pc' # "sealed" /\ pc' # "open" /\ pc' # "accepted"
      /\ (pc' \in {"check", "accepted"} => pc' = "check")
  BY <1>1
<1> QED BY <1>1, <1>2, <1>5, <1>6, <1>7, <1>8, <1>9, Zenon DEF GenuineInv

LEMMA GenuineAcceptImage ==
  ASSUME GenuineInv, AcceptImage
  PROVE  GenuineInv'
<1>1. /\ UNCHANGED <<file, pos, key, mountKey, HASH_BLOCK_SIZE, block_size, remaining, count,
                     hashes_offset, size, damage>>
      /\ pc = "check" /\ pc' = "accepted" /\ remaining = 0
  BY DEF AcceptImage
<1>2. TypeOK /\ size \in Nat \ {0} /\ CheckLoop
  BY <1>1 DEF GenuineInv
<1>3. PICK n \in Nat : Full(n) /\ Stored(n) /\ Matched(n)
  BY <1>1 DEF GenuineInv
<1>4. Full(n)' /\ Stored(n)'
  BY <1>1, <1>3, SameStored
<1>5. CheckLoop' /\ Matched(n)'
  BY <1>1, <1>2, <1>3, Zenon DEF CheckLoop, Matched, Start
<1>6. TypeOK'
  BY <1>1, <1>2 DEF TypeOK
<1> QED BY <1>1, <1>2, <1>4, <1>5, <1>6, Zenon DEF GenuineInv

LEMMA GenuineInit == Init => GenuineInv
<1> SUFFICES ASSUME Init PROVE GenuineInv
  OBVIOUS
<1>1. /\ file \in Seq(Residue) /\ file # <<>> /\ size = Len(file) /\ count = 0 /\ key \in Keys
      /\ pc = "seal" /\ damage = "none" /\ mountKey = key /\ pos = 0 /\ hashes_offset = 0
      /\ HASH_BLOCK_SIZE = FullBlock /\ block_size = HASH_BLOCK_SIZE /\ remaining = size
  BY SealAssumption DEF Init, FullBlock
<1>2. size \in Nat \ {0}
  BY <1>1
<1>3. FullBlock \in Nat \ {0} /\ FullBlock <= size /\ FullBlock <= DEF_HASH_BLOCK_SIZE
  BY <1>2, FullFacts
<1>4. LoopInv
  BY <1>1, <1>2, <1>3 DEF LoopInv, BlockLength, Clip
<1>5. count * hash_size = 0
  BY <1>1, SealAssumption
<1>6. Written(count) /\ Len(file) = size + count * hash_size
  BY <1>1, <1>2, <1>5 DEF Written, Cells
<1>7. TypeOK
  BY <1>1, <1>2, <1>3, SealAssumption DEF TypeOK
<1> QED BY <1>1, <1>2, <1>4, <1>6, <1>7 DEF GenuineInv

LEMMA GenuineStep == GenuineInv /\ [Next]_vars => GenuineInv'
<1> SUFFICES ASSUME GenuineInv, [Next]_vars PROVE GenuineInv'
  OBVIOUS
<1>1. CASE UNCHANGED vars
  <2>1. /\ UNCHANGED <<pc, file, pos, key, mountKey, HASH_BLOCK_SIZE, block_size, remaining, count,
                       hashes_offset, size, damage>>
    BY <1>1 DEF vars
  <2>2. (TypeOK => TypeOK') /\ (LoopInv => LoopInv') /\ FullBlock' = FullBlock
    BY <2>1, Zenon DEF TypeOK, LoopInv, AllBlocks, BlockLength, FullBlock
  <2>3. /\ Written(count) => Written(count)'
        /\ Full(count) => Full(count)'
        /\ Stored(count) => Stored(count)'
    BY <2>1, Zenon DEF Written, IsDigest, Full, FullBlock, Stored
  <2>4. \A n \in Nat : Full(n) /\ Stored(n) => Full(n)' /\ Stored(n)'
    BY <2>1, SameStored, Zenon
  <2>5. CheckLoop => CheckLoop'
    BY <2>1, Zenon DEF CheckLoop, Start
  <2>6. \A n \in Nat : Matched(n) => Matched(n)'
    BY <2>1, Zenon DEF Matched, Start
  <2> QED BY <2>1, <2>2, <2>3, <2>4, <2>5, <2>6, Zenon DEF GenuineInv
<1> QED BY <1>1, GenuineAppendHash, GenuineAppendCount, GenuineStore, GenuineOpenImage,
       GenuineCompareHash, GenuineAcceptImage, Zenon DEF Next, Work, Done

\* An accepted image of which a block was compared: it is as long as it was,
\* all its digests were compared, and its end is there.
LEMMA AcceptedWhole ==
  ASSUME size \in Nat \ {0}, count \in Nat, count > 0, hashes_offset \in Int, CheckLoop,
         remaining = 0, NEW n \in Nat, Full(n), Stored(n), Matched(n)
  PROVE  /\ Start = size /\ size <= count * HASH_BLOCK_SIZE
         /\ count * HASH_BLOCK_SIZE <= count * DEF_HASH_BLOCK_SIZE
         /\ hashes_offset = size + n * hash_size /\ Len(file) = size + n * hash_size + 1
<1>1. PICK half \in Nat \ {0} : hash_size = 2 * half
  BY SealAssumption, CountAssumption
<1>2. DEF_HASH_BLOCK_SIZE \in Nat \ {0} /\ hash_size \in Nat \ {0}
  BY SealAssumption
<1>3. PICK a \in Nat, m \in Nat, e \in Nat : a = count * hash_size /\ m = n * hash_size /\ e = n * half
  BY <1>1, <1>2
<1>4. m = 2 * e
  BY <1>1, <1>3
<1>5. PICK s \in Nat : s = Start /\ hashes_offset = s + a
  BY <1>3 DEF CheckLoop, Start
<1>6. PICK h \in Nat : h = HASH_BLOCK_SIZE /\ h = Clip(DEF_HASH_BLOCK_SIZE, s)
  BY <1>2, <1>5 DEF CheckLoop, Clip
<1>7. s <= count * h /\ size <= s /\ s + a <= size + m
  BY <1>3, <1>5, <1>6 DEF CheckLoop, Matched
<1>8. n <= count
  <2>1. SUFFICES ASSUME count < n PROVE FALSE
    OBVIOUS
  <2>2. PICK k \in Nat : n = k + 1 /\ k = n - 1 /\ count <= k
    <3>1. n - 1 \in Nat /\ n = n - 1 + 1 /\ count <= n - 1
      BY <2>1
    <3> QED BY <3>1
  <2>3. k * FullBlock < size
    BY <2>2 DEF Full
  <2>4. FullBlock \in Nat \ {0}
    BY FullFacts
  <2>5. CASE FullBlock = DEF_HASH_BLOCK_SIZE
    <3>1. h = FullBlock
      BY <1>2, <1>5, <1>6, <1>7, <2>5, FullFacts DEF Clip
    <3>2. count * h <= k * h
      BY <1>6, <2>2
    <3> QED BY <1>5, <1>7, <2>3, <2>4, <3>1, <3>2
  <2>6. CASE FullBlock = size
    <3>1. 1 <= k
      BY <2>2
    <3>2. size <= k * size
      BY <3>1
    <3>3. k * size \in Nat
      OBVIOUS
    <3> QED BY <2>3, <2>6, <3>2, <3>3
  <2> QED BY <2>5, <2>6, FullFacts
<1>9. count = n /\ a = m /\ s = size
  <2>1. CASE n < count
    <3>1. m + hash_size <= a
      BY <1>2, <1>3, <2>1, Multiples
    <3> QED BY <1>2, <1>5, <1>7, <3>1
  <2>2. CASE n = count
    BY <1>3, <1>5, <1>7, <2>2
  <2> QED BY <1>8, <2>1, <2>2
<1>10. Len(file) \in Nat /\ Len(file) <= size + m + 1 /\ size + m <= Len(file)
       /\ (Len(file) - 1 - size) % 2 = 0
  BY <1>3, <1>5, <1>9 DEF Stored, Matched, CheckLoop
<1>11. Len(file) # size + m
  <2>1. m > 0 /\ (m - 1) % 2 = 1
    <3>1. e \in Nat /\ e > 0
      BY <1>1, <1>3 DEF Full
    <3> QED BY <1>4, <3>1
  <2>2. ASSUME Len(file) = size + m PROVE Len(file) - 1 - size = m - 1
    BY <1>3, <2>2
  <2> QED BY <1>10, <2>1, <2>2
<1>12. h <= DEF_HASH_BLOCK_SIZE
  BY <1>2, <1>5, <1>6 DEF Clip
<1>13. count * h <= count * DEF_HASH_BLOCK_SIZE
  BY <1>2, <1>6, <1>12
<1>14. Len(file) = size + m + 1
  BY <1>3, <1>10, <1>11
<1> QED BY <1>3, <1>5, <1>6, <1>7, <1>9, <1>13, <1>14

\* The steps of both programs, and whatever the medium does, leave every
\* variable in its type.
THEOREM SealTypeCorrect == Spec => []TypeOK
<1>1. GenuineInv => TypeOK
  BY DEF GenuineInv
<1> QED BY <1>1, GenuineInit, GenuineStep, PTL DEF Spec

\* An image that passes checkHash(), a block of which was compared, was
\* mastered with the key that was typed, none of its bytes and of its digests
\* is damaged and its end is not missing: for images, blocks and digests of
\* any size, also where the offsets of the blocks do not fit an int.
THEOREM AcceptedImageGenuine == Spec => []AcceptedIsGenuine
<1>1. ASSUME GenuineInv PROVE AcceptedIsGenuine
  <2>1. SUFFICES ASSUME pc = "accepted", count > 0
                 PROVE  mountKey = key /\ damage \notin {"data", "digest", "cut"}
    BY DEF AcceptedIsGenuine
  <2>2. TypeOK /\ size \in Nat \ {0} /\ CheckLoop /\ remaining = 0
    BY <1>1, <2>1 DEF GenuineInv
  <2>3. PICK n \in Nat : Full(n) /\ Stored(n) /\ Matched(n)
    BY <1>1, <2>1 DEF GenuineInv
  <2>4. count \in Nat /\ hashes_offset \in Int
    BY <2>2 DEF TypeOK
  <2>5. /\ Start = size /\ size <= count * HASH_BLOCK_SIZE
        /\ hashes_offset = size + n * hash_size /\ Len(file) = size + n * hash_size + 1
    BY <2>1, <2>2, <2>3, <2>4, AcceptedWhole
  <2>6. PICK m \in Nat, c \in Nat : m = n * hash_size /\ c = count * HASH_BLOCK_SIZE
    BY <2>2, <2>4, SealAssumption DEF TypeOK
  <2>7. mountKey = key
    BY <2>1, <2>3 DEF Matched
  <2>8. damage # "cut"
    BY <2>2, <2>3, <2>5, <2>6 DEF Stored
  <2>9. damage # "digest"
    <3>1. \A p \in (size + 1)..(size + m) : file[p][1] = "digest"
      BY <2>1, <2>3, <2>5, <2>6 DEF Matched
    <3>2. "digest" # "byte"
      OBVIOUS
    <3> QED BY <2>3, <2>6, <3>1, <3>2, ByteFacts, Zenon DEF Stored
  <2>10. damage # "data"
    <3>1. hashes_offset # Len(file)
      BY <2>2, <2>5, <2>6
    <3>2. \A p \in 1..size : p <= c
      BY <2>2, <2>5, <2>6
    <3>3. \A p \in 1..size : file[p] \in Residue
      BY <2>1, <2>3, <2>6, <3>1, <3>2, Zenon DEF Matched
    <3> QED BY <2>3, <3>3, ByteFacts, Zenon DEF Stored
  <2> QED BY <2>7, <2>8, <2>9, <2>10
<1> QED BY <1>1, GenuineInit, GenuineStep, PTL DEF Spec

\* An image that passes checkHash() was compared from its first to its last
\* byte, or nothing of it was, whatever count the file showed.
THEOREM AcceptedCheckedOrEmpty == Spec => []CheckedOrEmpty
<1>1. ASSUME GenuineInv PROVE CheckedOrEmpty
  <2>1. SUFFICES ASSUME pc = "accepted", count # 0 PROVE Checked
    BY DEF CheckedOrEmpty
  <2>2. TypeOK /\ size \in Nat \ {0} /\ CheckLoop /\ remaining = 0
    BY <1>1, <2>1 DEF GenuineInv
  <2>3. PICK n \in Nat : Full(n) /\ Stored(n) /\ Matched(n)
    BY <1>1, <2>1 DEF GenuineInv
  <2>4. count \in Nat /\ hashes_offset \in Int /\ count > 0 /\ HASH_BLOCK_SIZE \in Nat
    BY <2>1, <2>2 DEF TypeOK
  <2>5. /\ size <= count * HASH_BLOCK_SIZE
        /\ count * HASH_BLOCK_SIZE <= count * DEF_HASH_BLOCK_SIZE
        /\ hashes_offset = size + n * hash_size /\ Len(file) = size + n * hash_size + 1
    BY <2>2, <2>3, <2>4, AcceptedWhole
  <2>6. PICK m \in Nat, c \in Nat, d \in Nat :
          /\ m = n * hash_size /\ c = count * HASH_BLOCK_SIZE
          /\ d = count * DEF_HASH_BLOCK_SIZE
    BY <2>4, SealAssumption
  <2>7. hashes_offset = Len(file) - 1
    BY <2>2, <2>5, <2>6
  <2>8. d >= size
    BY <2>2, <2>5, <2>6
  <2> QED BY <2>6, <2>7, <2>8 DEF Checked
<1> QED BY <1>1, GenuineInit, GenuineStep, PTL DEF Spec
=============================================================================
