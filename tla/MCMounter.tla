----------------------------- MODULE MCMounter -----------------------------
(***************************************************************************)
(* Mounter on one image, the one that master makes of                      *)
(*     R/  A (2 bytes)   D/  A (1 byte)   E/  (empty)   B (empty)          *)
(***************************************************************************)
EXTENDS Mounter, TLC

CONSTANTS t1, t2

R == 101
A == 102
D == 103
E == 104
B == 105
Other == 106

MCImage ==
  <<R, 3, 11, 5, DIRECTORY,   8, 13, 30>> \o  \* offset 0
  <<A, 2, 12, 35, PLAIN_FILE>> \o             \* 8
  <<D, 2, 13, 18, DIRECTORY,  20, 25>> \o     \* 13
  <<A, 1, 14, 37, PLAIN_FILE>> \o             \* 20
  <<E, 0, 15, 30, DIRECTORY>> \o              \* 25
  <<B, 0, 16, 38, PLAIN_FILE>> \o             \* 30
  <<201, 202, 203>>                           \* 35, 37

Dir(time, kids) == [type |-> DIRECTORY, time |-> time, kids |-> kids, bytes |-> <<>>]
File(time, bytes) == [type |-> PLAIN_FILE, time |-> time, kids |-> <<>>, bytes |-> bytes]

MCFS ==
  (<<R>> :> Dir(11, <<A, D, B>>)) @@ (<<R, A>> :> File(12, <<201, 202>>)) @@
  (<<R, D>> :> Dir(13, <<A, E>>)) @@ (<<R, D, A>> :> File(14, <<203>>)) @@
  (<<R, D, E>> :> Dir(15, <<>>)) @@ (<<R, B>> :> File(16, <<>>))

MCHeaderAt ==
  (<<R>> :> 0) @@ (<<R, A>> :> 8) @@ (<<R, D>> :> 13) @@ (<<R, D, A>> :> 20) @@
  (<<R, D, E>> :> 25) @@ (<<R, B>> :> 30)

MCArchive == [image |-> MCImage, fs |-> MCFS, at |-> MCHeaderAt]
MCArchives == {MCArchive}

Ask(op, path, write, offset, size) ==
  [op |-> op, path |-> path, write |-> write, offset |-> offset, size |-> size]

\* Every object, as what it is and as what it is not, and a missing one in each
\* directory.
MCRequests ==
  {Ask("getattr", p, FALSE, 0, 0) :
     p \in DOMAIN MCFS \cup {<<>>, <<Other>>, <<R, Other>>, <<R, D, Other>>,
                              <<R, D, E, Other>>}} \cup
  {Ask("readdir", p, FALSE, 0, 0) : p \in {<<>>, <<R>>, <<R, D>>, <<R, D, E>>, <<R, B>>}} \cup
  {Ask("open", p, w, 0, 0) : p \in {<<R, A>>, <<R, B>>, <<R, D>>}, w \in BOOLEAN} \cup
  {Ask("read", p, FALSE, o, s) :
     p \in {<<R, A>>, <<R, D, A>>, <<R, B>>, <<R, D>>}, o \in 0..2, s \in 1..3}

\* Two clients that look at different files.
FewRequests == {Ask("getattr", <<R, A>>, FALSE, 0, 0), Ask("read", <<R, D, A>>, FALSE, 0, 1)}

OneThread == {t1}
TwoThreads == {t1, t2}
SomeGarbage == {0}
============================================================================
