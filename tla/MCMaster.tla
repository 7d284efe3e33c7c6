------------------------------ MODULE MCMaster ------------------------------
(* TreeBuilder and ImageWriter on small sources. *)
EXTENDS ImageWriter

Ordinary == {"file", "dir", "locked"}
AnyKind  == AllKinds
WithSeen == {"file", "dir", "seen"}
WithDangling == {"file", "dir", "dangling"}
OneSize == {1}
SmallFiles == 0..2
\* With IntBits = 3 an int ends at 3: 4 stands for 2^31 bytes.
LargeFiles == {3, 4}
=============================================================================
