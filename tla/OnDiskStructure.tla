-------------------------- MODULE OnDiskStructure --------------------------
(***************************************************************************)
(* The layout that master writes and mounter and tree read                 *)
(* (OnDiskStructure.h), and the image file itself.                         *)
(*                                                                         *)
(* An image is a sequence of cells, the cell at offset o is image[o + 1].  *)
(* A header field, a child pointer and a byte of a file take one cell      *)
(* each, so that a header is M_HDR_SIZE = 5 cells where the program has    *)
(* 256 + 8 + 8 + 8 + 4 = 284 bytes.  All cells hold natural numbers.       *)
(***************************************************************************)
EXTENDS Integers, Sequences

\* As in SequencesExt.  The proofs about this module's users are several times
\* faster without the other definitions of that module.
Front(s) == SubSeq(s, 1, Len(s) - 1)
Last(s) == s[Len(s)]

\* enum file_type
DIRECTORY  == 0
PLAIN_FILE == 1

\* Offsets of the fields in a header.
NAME   == 0
LENGTH == 1
TIME   == 2
OFFSET == 3
TYPE   == 4

M_HDR_SIZE == 5
PTR_SIZE   == 1      \* sizeof(uint64_t)

HeaderCells(name, length, time, offset, type) ==
  <<name, length, time, offset, type>>

\* fseek(f, off, SEEK_SET) and fwrite(): a write beyond the end leaves a hole
\* that reads as zeros, an empty write changes nothing.
Put(image, off, cells) ==
  IF cells = <<>> THEN image
  ELSE [i \in (1..Len(image)) \cup (1..(off + Len(cells))) |->
          IF i > off /\ i <= off + Len(cells) THEN cells[i - off]
          ELSE IF i <= Len(image) THEN image[i]
          ELSE 0]

\* fseek() and fread() of one cell that exists.
Cell(image, off) == image[off + 1]

(***************************************************************************)
(* The contract between the programs that write an image and those that    *)
(* read it.  fs is the file system that the image is meant to hold: path   *)
(* |-> [type, time, kids : names, bytes], a path being a sequence of names *)
(* that starts with the root's; at gives the offset of each header.        *)
(***************************************************************************)
Size(o) == IF o.type = DIRECTORY THEN Len(o.kids) ELSE Len(o.bytes)

HeaderEncodes(image, off, name, o) ==
  /\ off \in Nat /\ off + M_HDR_SIZE <= Len(image)
  /\ Cell(image, off + NAME) = name
  /\ Cell(image, off + LENGTH) = Size(o)
  /\ Cell(image, off + TIME) = o.time
  /\ Cell(image, off + TYPE) = o.type
  /\ Cell(image, off + OFFSET) + Size(o) <= Len(image)

Encodes(image, fs, at) ==
  /\ image \in Seq(Nat)
  /\ DOMAIN at = DOMAIN fs
  /\ <<Cell(image, NAME)>> \in DOMAIN fs
  /\ \A p \in DOMAIN fs :
       LET o == fs[p]
           data == Cell(image, at[p] + OFFSET)
       IN  /\ p \in Seq(Nat) /\ p # <<>>
           /\ o.kids \in Seq(Nat) /\ o.bytes \in Seq(Nat)
           /\ \A n \in 1..Len(p) : SubSeq(p, 1, n) \in DOMAIN fs
           /\ Len(p) = 1 => at[p] = 0
           /\ HeaderEncodes(image, at[p], Last(p), o)
           /\ \/ /\ o.type = DIRECTORY
                 /\ \A k \in DOMAIN o.kids :
                      /\ Append(p, o.kids[k]) \in DOMAIN fs
                      /\ Cell(image, data + (k - 1) * PTR_SIZE) = at[Append(p, o.kids[k])]
              \/ /\ o.type = PLAIN_FILE
                 /\ \A k \in DOMAIN o.bytes : Cell(image, data + k - 1) = o.bytes[k]
           /\ Len(p) > 1 =>
                \E k \in DOMAIN fs[Front(p)].kids : fs[Front(p)].kids[k] = Last(p)

\* The signed value that an int of the given width keeps of n.
ToInt(n, bits) ==
  LET m == n % (2 ^ bits)
  IN  IF m >= 2 ^ (bits - 1) THEN m - 2 ^ bits ELSE m
============================================================================
