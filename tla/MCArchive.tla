----------------------------- MODULE MCArchive -----------------------------
(* Archive on small sources and on the images of generate.cpp. *)
EXTENDS Archive

CONSTANT t1

G == INSTANCE Generate

OneThread == {t1}
SomeGarbage == {0}
AllFlags == {"", "-v", "-vc"}
GeneratedImages == G!HandMade
SpacePadding == G!PADDING

Ordinary == {"file", "dir"}
Sizes == {0, 2}

Ask(op, path, write, offset, size) ==
  [op |-> op, path |-> path, write |-> write, offset |-> offset, size |-> size]

\* Objects of a mastered source are called 0, 1, ... in their directory.
MasteredPaths == {<<0>>} \cup {<<0>> \o s : s \in [1..1 -> 0..2] \cup [1..2 -> 0..1]}
GeneratedPaths == UNION {DOMAIN a.fs : a \in G!HandMade}
MCPaths == MasteredPaths \cup GeneratedPaths

MCRequests ==
  {Ask(op, p, FALSE, 0, 0) : op \in {"getattr", "readdir"}, p \in MCPaths \cup {<<>>}} \cup
  {Ask("open", p, FALSE, 0, 0) : p \in MCPaths} \cup
  {Ask("read", p, FALSE, o, 2) : p \in MCPaths, o \in {0, 1}}
============================================================================
