------------------------------ MODULE HashSeal ------------------------------
(***************************************************************************)
(* hashAndAppend() of master.cpp appends one HMAC per block of the image   *)
(* and the number of these; checkHash() of mounter.c recomputes them       *)
(* before the image is mounted.  In between the medium may be damaged, the  *)
(* file may be cut off (master was interrupted, or a copy was) and the     *)
(* user may type another key.                                              *)
(*                                                                         *)
(* The file is a sequence of cells: bytes of the image, cells of a digest, *)
(* and the count, which takes one cell.  The HMAC (OpenSSL) is ideal:      *)
(* different keys or different messages have different digests.            *)
(***************************************************************************)
EXTENDS OnDiskStructure

CONSTANTS
  Images,               \* the images, nonempty sequences of bytes
  DEF_HASH_BLOCK_SIZE,
  hash_size,            \* cells of a digest
  Keys,
  Damages,              \* parts of the file that may be damaged
  MaxCount,             \* bound: largest count a damaged file may show
  IntBits,              \* width of int and of unsigned int
  Residue               \* bytes a buffer may hold that fread() did not fill

ASSUME SealAssumption ==
  /\ DEF_HASH_BLOCK_SIZE \in Nat \ {0}
  /\ hash_size \in Nat \ {0}
  /\ "none" \in Damages /\ Damages \subseteq {"none", "data", "digest", "count", "cut"}
  /\ MaxCount \in Nat
  /\ Images \subseteq Seq(Residue) \ {<<>>}

\* An int is wide enough for a digest, which is no longer than a block.
ASSUME WidthAssumption ==
  /\ IntBits \in Nat \ {0}
  /\ 2^(IntBits - 1) \in Nat /\ 2^IntBits = 2 * 2^(IntBits - 1)
  /\ hash_size <= DEF_HASH_BLOCK_SIZE /\ hash_size <= 2^(IntBits - 1)

\* An int holds the size of a block.  The count is shorter than a digest, and
\* cutting it off does not move the digests by whole ones: a digest is 32 bytes
\* and the count 4 in the program, an even number of cells and one cell here.
ASSUME CountAssumption ==
  /\ DEF_HASH_BLOCK_SIZE <= 2^(IntBits - 1)
  /\ \E half \in 1..hash_size : hash_size = 2 * half

\* A damaged cell differs from every byte that it can have been before.
ASSUME ByteAssumption ==
  \A b \in Residue : b[1] = "byte" /\ b # <<"byte", 2>>

VARIABLES
  pc,                \* "seal", "sealed", "open", "check", "accepted", "rejected"
  file,
  pos,               \* position of the stream
  key, mountKey,     \* the key at mastering and at mounting
  HASH_BLOCK_SIZE,
  block_size,
  remaining,
  count,             \* number_hashes, hash_count: blocks done
  hashes_offset,
  size,              \* st_size of the image before it is sealed
  damage             \* what happened to the file

vars == <<pc, file, pos, key, mountKey, HASH_BLOCK_SIZE, block_size, remaining,
          count, hashes_offset, size, damage>>

Byte(b)  == <<"byte", b>>
Count(n) == <<"count", n>>
HMAC(k, msg) == [j \in 1..hash_size |-> <<"digest", k, msg, j>>]

\* fseek() to an int; a negative offset makes it fail.
Fseek(off) == IF ToInt(off, IntBits) >= 0 THEN ToInt(off, IntBits) ELSE pos

\* fread() of up to n cells at p, and the contents the buffer may then have.
Fread(p, n) == SubSeq(file, p + 1, IF p + n <= Len(file) THEN p + n ELSE Len(file))
Buffers(p, n) ==
  LET got == Fread(p, n)
  IN  {got \o tail : tail \in [1..(n - Len(got)) -> Residue]}

\* Mutation: the last block keeps the full size.
ClipNever(b, rem) == b

\* The last block is as long as what remains.
Clip(b, rem) == IF b > rem THEN rem ELSE b

----------------------------------------------------------------------------
(* hashAndAppend *)

\* One round of the loop.
AppendHash ==
  /\ pc = "seal"
  /\ remaining > 0
  /\ count' = count + 1
  /\ \E buffer \in Buffers(Fseek(count * HASH_BLOCK_SIZE), block_size) :
       file' = file \o HMAC(key, buffer)
  /\ pos' = Len(file) + hash_size
  /\ remaining' = remaining - block_size
  /\ block_size' = Clip(block_size, remaining')
  /\ UNCHANGED <<pc, key, mountKey, HASH_BLOCK_SIZE, hashes_offset, size, damage>>

\* Mutation: the count is one too large.
AppendCountPlusOne ==
  /\ pc = "seal"
  /\ remaining <= 0
  /\ file' = Append(file, Count(count + 1))
  /\ pc' = "sealed"
  /\ UNCHANGED <<pos, key, mountKey, HASH_BLOCK_SIZE, block_size, remaining, count,
                 hashes_offset, size, damage>>

AppendCount ==
  /\ pc = "seal"
  /\ remaining <= 0
  /\ file' = Append(file, Count(count))
  /\ pc' = "sealed"
  /\ UNCHANGED <<pos, key, mountKey, HASH_BLOCK_SIZE, block_size, remaining, count,
                 hashes_offset, size, damage>>

\* The medium, between mastering and mounting: one cell changes, or the end of
\* the file is missing.
Store ==
  /\ pc = "sealed"
  /\ pc' = "open"
  /\ damage' \in Damages
  /\ mountKey' \in Keys
  /\ \/ damage' = "none" /\ UNCHANGED file
     \/ /\ damage' = "data"
        /\ \E p \in 1..size : file' = [file EXCEPT ![p] = Byte(2)]
     \/ /\ damage' = "digest"
        /\ \E p \in (size + 1)..(Len(file) - 1) : file' = [file EXCEPT ![p] = Byte(2)]
     \/ /\ damage' = "count"
        /\ \E n \in (0..MaxCount) \ {count} :
             file' = [file EXCEPT ![Len(file)] = Count(n)]
     \/ /\ damage' = "cut"
        /\ \E n \in 0..(Len(file) - 1) : file' = SubSeq(file, 1, n)
  /\ pos' = 0
  /\ UNCHANGED <<key, HASH_BLOCK_SIZE, block_size, remaining, count,
                 hashes_offset, size>>

----------------------------------------------------------------------------
(* checkHash *)

\* What read32() may return for the last cell: anything, if it is not a count.
ShownCounts ==
  IF file # <<>> /\ Last(file)[1] = "count" THEN {Last(file)[2]} ELSE 0..MaxCount

\* Up to the loop.  hash_size * number_hashes is computed in 32 bits.  A count
\* that claims more than the file holds makes hashes_offset wrap around: nothing
\* can be read there and the first comparison fails.
OpenImage ==
  /\ pc = "open"
  /\ \E number_hashes \in ShownCounts :
     LET number_hash_location == Len(file) - 1
         image_size == number_hash_location - ((hash_size * number_hashes) % 2^IntBits)
     IN  /\ hashes_offset' = image_size
         /\ remaining' = image_size
         /\ HASH_BLOCK_SIZE' = IF image_size < 0 THEN DEF_HASH_BLOCK_SIZE
                               ELSE Clip(DEF_HASH_BLOCK_SIZE, image_size)
         /\ block_size' = HASH_BLOCK_SIZE'
         /\ pc' = IF image_size >= 0 THEN "check" ELSE "rejected"
         /\ pos' = Len(file)
  /\ count' = 0
  /\ UNCHANGED <<file, key, mountKey, size, damage>>

\* Mutation: only the first byte is compared.
SameFirstByte(mastered_hash, digest) ==
  mastered_hash[1] = digest[1]

SameHash(mastered_hash, digest) == mastered_hash = digest

\* One round of the loop.  A digest that ends beyond the file leaves a part of
\* mastered_hash as it was.  That is never a digest of the round before: the
\* array lives in the body of the loop, and the call of fseek() at the top of
\* the body runs in the memory that the array has just given back.
CompareHash ==
  /\ pc = "check"
  /\ remaining > 0
  /\ LET after == hashes_offset + Len(Fread(hashes_offset, hash_size))
         off == ToInt(count * HASH_BLOCK_SIZE, IntBits)
     IN  \E mastered_hash \in Buffers(hashes_offset, hash_size),
            buffer \in Buffers(IF off >= 0 THEN off ELSE after, block_size) :
            pc' = IF SameHash(mastered_hash, HMAC(mountKey, buffer)) THEN pc ELSE "rejected"
  /\ count' = count + 1
  /\ remaining' = remaining - block_size
  /\ block_size' = Clip(block_size, remaining')
  /\ hashes_offset' = hashes_offset + hash_size
  /\ UNCHANGED <<file, pos, key, mountKey, HASH_BLOCK_SIZE, size, damage>>

\* Mutation: a partial last block is not checked.
AcceptWithoutLastBlock ==
  /\ pc = "check"
  /\ remaining < DEF_HASH_BLOCK_SIZE
  /\ pc' = "accepted"
  /\ UNCHANGED <<file, pos, key, mountKey, HASH_BLOCK_SIZE, block_size, remaining,
                 count, hashes_offset, size, damage>>

\* Mutation: the loop does not end when nothing remains.
AcceptNever == pc = "check" /\ remaining = 0 /\ UNCHANGED vars

AcceptImage ==
  /\ pc = "check"
  /\ remaining = 0
  /\ pc' = "accepted"
  /\ UNCHANGED <<file, pos, key, mountKey, HASH_BLOCK_SIZE, block_size, remaining,
                 count, hashes_offset, size, damage>>

----------------------------------------------------------------------------
Init ==
  /\ pc = "seal"
  /\ file \in Images
  /\ key \in Keys
  /\ mountKey = key
  /\ size = Len(file)
  /\ pos = 0
  /\ HASH_BLOCK_SIZE = Clip(DEF_HASH_BLOCK_SIZE, size)
  /\ block_size = HASH_BLOCK_SIZE
  /\ remaining = size
  /\ count = 0
  /\ hashes_offset = 0
  /\ damage = "none"

Done == pc \in {"accepted", "rejected"} /\ UNCHANGED vars

Work == AppendHash \/ AppendCount \/ OpenImage \/ CompareHash \/ AcceptImage

Next == Work \/ Store \/ Done

Spec == Init /\ [][Next]_vars

\* Both programs run on; the user mounts the image some day.
FairSpec == Spec /\ WF_vars(Work \/ Store)

----------------------------------------------------------------------------
(* Properties *)

\* Type correctness.
TypeOK ==
  /\ pc \in {"seal", "sealed", "open", "check", "accepted", "rejected"}
  /\ pos \in 0..Len(file)
  /\ key \in Keys /\ mountKey \in Keys
  /\ HASH_BLOCK_SIZE \in 0..DEF_HASH_BLOCK_SIZE
  /\ block_size \in 0..HASH_BLOCK_SIZE
  /\ remaining \in Nat \/ pc = "rejected"
  /\ count \in Nat
  /\ hashes_offset \in Int
  /\ damage \in Damages

\* The offset of the last block fits an int.
OffsetsFit ==
  ((size - 1) \div DEF_HASH_BLOCK_SIZE) * DEF_HASH_BLOCK_SIZE < 2^(IntBits - 1)

\* An intact image passes the check with the key it was mastered with: both
\* programs cut the image into the same blocks, whatever its size is a
\* multiple of, up to the last block whose offset fits the int that holds it.
IntactAccepted ==
  pc = "rejected" /\ OffsetsFit => damage # "none" \/ mountKey # key

\* An image of which at least one block was compared and that passes the
\* check was mastered with this key, and neither the image nor a digest was
\* damaged nor is the end of the file missing: no byte escapes the blocks.
AcceptedIsGenuine ==
  pc = "accepted" /\ count > 0 =>
    mountKey = key /\ damage \notin {"data", "digest", "cut"}

\* The blocks that were compared are the whole image.
Checked == hashes_offset = Len(file) - 1 /\ count * DEF_HASH_BLOCK_SIZE >= size

\* An image that passes the check has been checked from its first to its last
\* byte, whatever its size and even if the count was damaged or cut off, with
\* one exception: the count that has the digests fill the file and leaves no
\* block to compare.  Any other wrong count makes checkHash() look for a digest
\* where there is none, also when its product with hash_size wraps around.
CheckedOrEmpty == pc = "accepted" => Checked \/ count = 0

\* The loops over the blocks end.
VerdictReached == <>(pc \in {"accepted", "rejected"})

=============================================================================
