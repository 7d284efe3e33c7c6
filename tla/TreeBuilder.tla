---------------------------- MODULE TreeBuilder ----------------------------
(***************************************************************************)
(* The first stage of mastering: run() in master.cpp walks the source      *)
(* directory with nftw(), and the callback s_builder() turns the sequence  *)
(* of callbacks into an in-memory tree with the help of one explicit stack *)
(* of directories that still have unfilled slots.                          *)
(*                                                                         *)
(* The source directory is not a data structure of the model.  It is       *)
(* revealed by the walk: when a directory is reported, its listing is      *)
(* chosen, and when the walk reaches an entry, the kind of that entry is   *)
(* chosen.  `frames' is the recursion of nftw (a library, external), its   *)
(* top is the directory whose entries are being reported.                  *)
(*                                                                         *)
(* Headers (m_prs) are numbered in the order in which they are made; Head  *)
(* is the dummy node of run().  `in' and `name' of a header are where the  *)
(* object really lives: the header of the directory that lists it, and its *)
(* position in that listing (names of siblings are distinct, names in      *)
(* different directories may coincide).                                    *)
(***************************************************************************)
EXTENDS OnDiskStructure

CONSTANTS
  MaxListing,   \* bound: entries of one directory
  MaxObjects,   \* bound: entries of the whole source, its root excepted
  FileSizes,    \* the sizes a file may have
  EntryKinds,   \* the kinds of entries the source may hold
  Churn         \* entries may appear or vanish between readdir() and nftw()

(***************************************************************************)
(* file, dir    an ordinary file or directory, or a link to one            *)
(* locked       a file that fopen() refuses for the time being             *)
(* seen         a link to a directory that nftw has reported before: stat()*)
(*              succeeds, so it is counted, but nftw skips it              *)
(* unreadable   a directory that cannot be opened: counted, FTW_DNR        *)
(* dangling     a link to nothing: not counted, FTW_SLN                    *)
(* dot          an object whose name parse_name() takes for "." or "..":   *)
(*              the root given to master as such a path, or an entry with  *)
(*              a name like "x\.", which is split at the backslash         *)
(***************************************************************************)
AllKinds == {"file", "dir", "locked", "seen", "unreadable", "dangling",
             "dot"}

ASSUME BuilderAssumption ==
  /\ MaxListing \in Nat
  /\ MaxObjects \in Nat
  /\ FileSizes \subseteq Nat
  /\ EntryKinds \subseteq AllKinds
  /\ Churn \in BOOLEAN

VARIABLES
  phase,           \* "walk", "opening" a file, or "image": nftw has returned
  frames,          \* nftw: directories being read, the deepest one last
  unseen,          \* objects the source may still reveal
  openable,        \* fopen() of the file being reported would succeed
  result,          \* the value nftw() returns
  header_count,
  subitems_count,
  data,            \* the headers made so far
  children,        \* <<header, slot>> |-> header, the slots written so far
  directories      \* the stack of nodes that have unfilled slots

vars == <<phase, frames, unseen, openable, result, header_count,
          subitems_count, data, children, directories>>

HeadNode == 1   \* the dummy head of run()
NoDir == 0      \* a directory for which there is no header

Header(n, t, len, d) == [name |-> n, type |-> t, length |-> len, in |-> d]

\* Mutation: a fresh node starts one slot too early.
EntryMinusOne(node, fill) == [node |-> node, fill |-> fill - 1]

\* A node on the stack.
Entry(node, fill) == [node |-> node, fill |-> fill]

----------------------------------------------------------------------------
(* nftw *)

Frame(d, left, refused, next) ==
  [dir |-> d, left |-> left, refused |-> refused, next |-> next]

\* The walk after one more entry of the directory on top.
Consumed ==
  LET f == Last(frames)
  IN  IF f.left + f.refused = 1 THEN Front(frames)
      ELSE Append(Front(frames), Frame(f.dir, f.left - 1, f.refused, f.next + 1))

\* ... after which it descends into directory d.
Entered(d, reported, refused) ==
  IF reported + refused = 0 THEN Consumed
  ELSE Append(Consumed, Frame(d, reported, refused, 0))

\* An entry of one of these kinds is next.
NextIsOf(kinds) ==
  /\ phase = "walk"
  /\ frames # <<>>
  /\ Last(frames).left > 0
  /\ kinds \cap EntryKinds # {}

\* Listings: counted by readdir()+fstatat(), reported by nftw, refused by
\* fstatat() and reported as FTW_SLN.
Listings ==
  {l \in [counted : 0..MaxListing, reported : 0..MaxListing, refused : 0..1] :
     /\ l.reported + l.refused <= unseen
     /\ l.counted = l.reported \/ Churn
     /\ l.refused = 0 \/ "dangling" \in EntryKinds}

----------------------------------------------------------------------------
(* s_builder *)

\* Mutation: "." and ".." are counted as well.
DirLengthWithDots(l) == l.counted + 2

\* The entries that readdir() and fstatat() count, "." and ".." left out.
DirLength(l) == l.counted

\* Mutation: the index fill is not used.
WithChildInFirstSlot(id) ==
  IF directories = <<>> THEN children
  ELSE LET slot == <<Last(directories).node, 0>>
       IN  [s \in DOMAIN children \cup {slot} |->
              IF s = slot THEN id ELSE children[s]]

\* The tail both branches share: hang header id into the first free slot of
\* the directory on top of the stack, if there is one.
WithChild(id) ==
  IF directories = <<>> THEN children
  ELSE LET slot == <<Last(directories).node, Last(directories).fill>>
       IN  [s \in DOMAIN children \cup {slot} |->
              IF s = slot THEN id ELSE children[s]]

\* Mutation: the parent is compared before fill is incremented.
WithoutSlotTooLate ==
  IF directories = <<>> THEN directories
  ELSE LET parent == Last(directories)
       IN  IF parent.fill # data[parent.node].length
           THEN Append(Front(directories), Entry(parent.node, parent.fill + 1))
           ELSE Front(directories)

\* Mutation: the parent is never pushed back.
WithoutSlotNorParent ==
  IF directories = <<>> THEN directories ELSE Front(directories)

\* The stack after that: the parent goes back only if it is not full.
WithoutSlot ==
  IF directories = <<>> THEN directories
  ELSE LET parent == Last(directories)
       IN  IF parent.fill + 1 # data[parent.node].length
           THEN Append(Front(directories), Entry(parent.node, parent.fill + 1))
           ELSE Front(directories)

\* The name is "." or "..": s_builder returns before it has counted or stored
\* anything, and nftw descends if it is a directory.
IgnoreDot ==
  /\ NextIsOf({"dot"})
  /\ \E l \in Listings :
       /\ frames' = Entered(NoDir, l.reported, l.refused)
       /\ unseen' = unseen - l.reported - l.refused
  /\ UNCHANGED <<phase, openable, result, header_count, subitems_count, data,
                 children, directories>>

\* FTW_D
BuildDirectory ==
  /\ NextIsOf({"dir"})
  /\ \E l \in Listings :
       LET id == Len(data) + 1
       IN  /\ subitems_count' = subitems_count + DirLength(l)
           /\ data' = Append(data, Header(Last(frames).next, DIRECTORY,
                                          DirLength(l), Last(frames).dir))
           /\ children' = WithChild(id)
           /\ directories' = IF directories = <<>> \/ DirLength(l) = 0
                             THEN WithoutSlot
                             ELSE Append(WithoutSlot, Entry(id, 0))
           /\ frames' = Entered(id, l.reported, l.refused)
           /\ unseen' = unseen - l.reported - l.refused
  /\ header_count' = header_count + 1
  /\ UNCHANGED <<phase, openable, result>>

\* FTW_F, up to the loop that opens the file
ReportFile ==
  /\ NextIsOf({"file", "locked"})
  /\ \E size \in FileSizes :
       data' = Append(data, Header(Last(frames).next, PLAIN_FILE,
                                   size, Last(frames).dir))
  /\ header_count' = header_count + 1
  /\ openable' \in {k = "file" : k \in EntryKinds \cap {"file", "locked"}}
  /\ phase' = "opening"
  /\ UNCHANGED <<frames, unseen, result, subitems_count, children, directories>>

\* Somebody else makes the file readable.  A failed fopen() changes nothing
\* and is retried at once, it is not a step of the model.
Unlock ==
  /\ phase = "opening"
  /\ ~openable
  /\ openable' = TRUE
  /\ UNCHANGED <<phase, frames, unseen, result, header_count, subitems_count,
                 data, children, directories>>

\* Mutation: the loop around fopen() never ends.
BuildFileRetriesForever ==
  /\ phase = "opening"
  /\ UNCHANGED vars

\* FTW_F, from the successful fopen() on
BuildFile ==
  /\ phase = "opening"
  /\ openable
  /\ children' = WithChild(Len(data))
  /\ directories' = WithoutSlot
  /\ frames' = Consumed
  /\ phase' = "walk"
  /\ UNCHANGED <<unseen, openable, result, header_count, subitems_count, data>>

\* nftw does not report a directory twice when it follows links.
SkipSeen ==
  /\ NextIsOf({"seen"})
  /\ Last(frames).dir # HeadNode
  /\ frames' = Consumed
  /\ UNCHANGED <<phase, unseen, openable, result, header_count,
                 subitems_count, data, children, directories>>

\* FTW_DNR or FTW_SLN: s_builder returns 7, which ends the walk.
Refuse ==
  /\ phase = "walk"
  /\ frames # <<>>
  /\ \/ NextIsOf({"unreadable"})
     \/ Last(frames).refused > 0
  /\ header_count' = header_count + 1
  /\ result' = 7
  /\ frames' = <<>>
  /\ UNCHANGED <<phase, unseen, openable, subitems_count, data, children,
                 directories>>

\* nftw() returns, and run() goes on to write the image whatever the result.
Return ==
  /\ phase = "walk"
  /\ frames = <<>>
  /\ phase' = "image"
  /\ UNCHANGED <<frames, unseen, openable, result, header_count,
                 subitems_count, data, children, directories>>

----------------------------------------------------------------------------
Init ==
  /\ phase = "walk"
  /\ frames = <<Frame(HeadNode, 1, 0, 0)>>
  /\ unseen = MaxObjects
  /\ openable = TRUE
  /\ result = 0
  /\ header_count = 0
  /\ subitems_count = 0
  /\ data = <<Header(0, DIRECTORY, 1, NoDir)>>
  /\ children = <<>>
  /\ directories = <<Entry(HeadNode, 0)>>

BuilderNext ==
  \/ IgnoreDot
  \/ BuildDirectory
  \/ ReportFile
  \/ BuildFile
  \/ SkipSeen
  \/ Refuse
  \/ Return

Done == phase = "image" /\ UNCHANGED vars

Next == BuilderNext \/ Unlock \/ Done

Spec == Init /\ [][Next]_vars

----------------------------------------------------------------------------
(* The source, as the walk has shown it *)

Objects == 2..Len(data)

\* c leads from the root of the source down to object h.
IsRoute(c, h) ==
  /\ data[c[1]].in = HeadNode
  /\ \A k \in 2..Len(c) : data[c[k]].in = c[k - 1]
  /\ Last(c) = h

Route(h) == CHOOSE c \in UNION {[1..n -> Objects] : n \in 1..Len(data)} : IsRoute(c, h)

PathOf(h) == [k \in DOMAIN Route(h) |-> data[Route(h)[k]].name]

----------------------------------------------------------------------------
(* Properties *)

\* Type correctness.
TypeOK ==
  /\ phase \in {"walk", "opening", "image"}
  /\ frames \in Seq([dir : Nat, left : Nat, refused : Nat, next : Nat])
  /\ unseen \in Nat
  /\ openable \in BOOLEAN
  /\ result \in {0, 7}
  /\ header_count \in Nat
  /\ subitems_count \in Nat
  /\ data \in Seq([name : Nat, type : {DIRECTORY, PLAIN_FILE},
                   length : Nat, in : Nat])
  /\ children \in [DOMAIN children -> Nat]
  /\ directories \in Seq([node : Nat, fill : Nat])

\* Whatever the source does, s_builder writes no slot beyond the array that
\* new node[length] made, writes no slot twice, and hangs no header into two
\* slots or into a slot of its own subtree: the stack holds each directory
\* once, each with a free slot, and parents are older than children.
SlotsInBounds ==
  /\ \A s \in DOMAIN children :
       /\ s[1] \in DOMAIN data
       /\ data[s[1]].type = DIRECTORY
       /\ s[2] < data[s[1]].length
       /\ s[1] < children[s] /\ children[s] <= Len(data)
  /\ \A s, t \in DOMAIN children : children[s] = children[t] => s = t
  /\ \A i \in DOMAIN directories :
       /\ directories[i].fill < data[directories[i].node].length
       /\ <<directories[i].node, directories[i].fill>> \notin DOMAIN children

\* Each slot of a directory holds the object that the source has at this
\* place of this directory.
TreeMatchesSource ==
  \A s \in DOMAIN children :
     /\ data[children[s]].in = s[1]
     /\ data[children[s]].name = s[2]

\* No object hangs in a directory of the image that is not the one that lists
\* it in the source.
HungInOwnDirectory == \A s \in DOMAIN children : data[children[s]].in = s[1]

\* When writeDFS starts, every slot it will follow has been written: it never
\* dereferences the uninitialised memory of new node[length].
EverySlotFilled ==
  phase = "image" =>
    \A d \in DOMAIN data : data[d].type = DIRECTORY =>
       \A k \in 0..(data[d].length - 1) : <<d, k>> \in DOMAIN children

\* When writeDFS starts, every object that was reported has its place in the
\* tree: nothing of the source is left out of the image.
EveryObjectImaged ==
  phase = "image" =>
    /\ header_count = Len(data) - 1
    /\ \A h \in 2..Len(data) : \E s \in DOMAIN children : children[s] = h

\* find_header_size reserves exactly the room that the headers and the
\* pointers of the tree take: as many pointers as there are objects below
\* the root.
HeaderSizeExact ==
  phase = "image" => subitems_count + 1 = header_count

============================================================================
