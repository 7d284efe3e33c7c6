----------------------------- MODULE MCPipeline -----------------------------
(* MountPipeline on a sealed image of three blocks, the last one partial. *)
EXTENDS MountPipeline

LOCAL Ext == INSTANCE SequencesExt

\* The encoded file is the encoded blocks one after the other, for all lengths
\* up to three blocks.
ASSUME BlocksInOrder ==
  \A n \in 1..(3 * data_length) :
     LET m == [k \in 1..n |-> k]
     IN  Encoded(m) = Ext!FlattenSeq([b \in 1..Blocks(m) |->
                                        Syms(Block(m, b)) \o Parity(Block(m, b))])

CONSTANTS m1, m2

\* An image of two symbols, one digest of two, and the count.  With IntBits = 3
\* and hash_size = 2 a count of 5 wraps around to the right offset, and a count
\* of 2 leaves no image.
Bytes == {0, 1, 2, 5}
MCSealed == <<1, 0, 2, 1, 1>>
MCOld == <<0, 1, 8, 9, 1>>
OneMounter == {m1}
TwoMounters == {m1, m2}
=============================================================================
