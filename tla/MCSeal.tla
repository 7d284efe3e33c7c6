------------------------------- MODULE MCSeal -------------------------------
(* HashSeal on small images. *)
EXTENDS HashSeal

\* Every image of 1 to 5 bytes, each 0 or 1, and longer ones with equal and with
\* different blocks: sizes below, at and above multiples of the block size.  With
\* IntBits = 4 an int ends at 7, and the offset of the fourth block is beyond it.
SmallImages ==
  UNION {[1..n -> {Byte(0), Byte(1)}] : n \in 1..5} \cup
  UNION {{[k \in 1..n |-> Byte(0)], [k \in 1..n |-> Byte(k % 2)]} : n \in 6..11}
Bytes == {Byte(0), Byte(1)}
TwoKeys == {"k1", "k2"}
AnyDamage == {"none", "data", "digest", "count", "cut"}
=============================================================================
