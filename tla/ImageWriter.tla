---------------------------- MODULE ImageWriter ----------------------------
(***************************************************************************)
(* The second stage of mastering: imageDFS() and writeDFS() in master.cpp  *)
(* write the tree that s_builder left behind.  This module continues       *)
(* TreeBuilder, run() calls one after the other.                           *)
(*                                                                         *)
(* The recursion of writeDFS is an explicit stack: `calls' holds the       *)
(* directories whose loop over the children is in progress.  A file is     *)
(* opened again and copied here, possibly long after stat() told its size. *)
(***************************************************************************)
EXTENDS TreeBuilder

CONSTANTS
  FilesChange,   \* files may grow, shrink or vanish between stat() and copy
  IntBits        \* the width of int

ASSUME WriterAssumption ==
  /\ FilesChange \in BOOLEAN
  /\ IntBits \in Nat \ {0}

VARIABLES
  pc,            \* "idle", "enter" or "return" (writeDFS), "written", "undefined"
  node,          \* argument of the call, or the node that has returned
  calls,         \* callers: [node, offset of its header, child index]
  header_off,
  file_off,
  output,        \* the image
  headerAt,      \* header |-> offset it was written at (currentOffset)
  changed        \* files whose size at copy time was not st_size

writerVars == <<pc, node, calls, header_off, file_off, output, headerAt, changed>>
allVars == <<vars, writerVars>>

\* mtime and content of an object, told apart from all others.
MTime(h) == 100 + h
Content(h, size) == [k \in 1..size |-> 1000 + 10 * h + k]

\* A child that s_builder never wrote: the memory of new node[length].
Uninitialised == 0

Child(h, k) ==
  IF <<h, k>> \in DOMAIN children THEN children[<<h, k>>] ELSE Uninitialised

\* Mutation: no room for the pointers.
HeaderSizeWithoutPointers == header_count * M_HDR_SIZE
\* Mutation: the dummy head is counted too.
HeaderSizeWithHead == (header_count + 1) * M_HDR_SIZE + subitems_count * PTR_SIZE

find_header_size == header_count * M_HDR_SIZE + subitems_count * PTR_SIZE

\* A call of writeDFS for directory n, written at offset at, in its loop at i.
Call(n, at, i) == [node |-> n, at |-> at, i |-> i]

----------------------------------------------------------------------------
imageDFS ==
  /\ pc = "idle"
  /\ phase = "image"
  /\ header_off' = 0
  /\ file_off' = find_header_size
  /\ output' = <<>>
  /\ node' = Child(HeadNode, 0)
  /\ pc' = "enter"
  /\ UNCHANGED <<vars, calls, headerAt, changed>>

Recorded == [h \in DOMAIN headerAt \cup {node} |->
               IF h = node THEN header_off ELSE headerAt[h]]

\* Mutation: the last byte is not copied.
CopiedShort(h, actual) ==
  IF ToInt(data[h].length, IntBits) > 1 THEN Content(h, actual - 1) ELSE <<>>

\* What the loop in writeDFS copies of a file that now has `actual' bytes:
\* everything up to its end, provided that the int `remaining' is positive.
Copied(h, actual) ==
  IF ToInt(data[h].length, IntBits) > 0 THEN Content(h, actual) ELSE <<>>

\* writeDFS, the node is a file (fill == -1)
WriteFile ==
  /\ pc = "enter"
  /\ node # Uninitialised /\ data[node].type = PLAIN_FILE
  /\ \E actual \in IF FilesChange THEN FileSizes ELSE {data[node].length} :
       /\ output' =
            Put(Put(output, header_off,
                    HeaderCells(data[node].name, data[node].length, MTime(node),
                                file_off, PLAIN_FILE)),
                file_off, Copied(node, actual))
       /\ changed' = IF actual = data[node].length THEN changed
                     ELSE changed \cup {node}
  /\ file_off' = file_off + data[node].length
  /\ header_off' = header_off + M_HDR_SIZE
  /\ headerAt' = Recorded
  /\ pc' = "return"
  /\ UNCHANGED <<vars, node, calls>>

\* writeDFS, the node is a directory (fill == 0), up to its first child
WriteDirectory ==
  /\ pc = "enter"
  /\ node # Uninitialised /\ data[node].type = DIRECTORY
  /\ LET endOffset == header_off + M_HDR_SIZE
     IN  /\ output' = Put(output, header_off,
                          HeaderCells(data[node].name, data[node].length,
                                      MTime(node), endOffset, DIRECTORY))
         /\ header_off' = endOffset + PTR_SIZE * data[node].length
  /\ headerAt' = Recorded
  /\ IF data[node].length = 0
     THEN pc' = "return" /\ UNCHANGED <<node, calls>>
     ELSE /\ calls' = Append(calls, Call(node, header_off, 0))
          /\ node' = Child(node, 0)
          /\ pc' = "enter"
  /\ UNCHANGED <<vars, file_off, changed>>

\* Mutation: the header in front of the pointers is forgotten.
PointerInHeader(c) == c.at + c.i * PTR_SIZE

\* desiredSeekLoc: where the parent keeps the offset of the child in progress
PointerAt(c) == c.at + M_HDR_SIZE + c.i * PTR_SIZE

\* Mutation: the loop runs to i <= length.
HasNextChildOrOneMore(c) == c.i + 1 <= data[c.node].length

\* The condition of the loop over the children, after i++.
HasNextChild(c) == c.i + 1 < data[c.node].length

\* writeDFS, a child has returned to the loop of its parent: store its offset,
\* then enter the next child or return
StorePointer ==
  /\ pc = "return"
  /\ calls # <<>>
  /\ LET c == Last(calls)
     IN  /\ output' = Put(output, PointerAt(c), <<headerAt[node]>>)
         /\ IF HasNextChild(c)
            THEN /\ calls' = Append(Front(calls), Call(c.node, c.at, c.i + 1))
                 /\ node' = Child(c.node, c.i + 1)
                 /\ pc' = "enter"
            ELSE /\ calls' = Front(calls)
                 /\ node' = c.node
                 /\ UNCHANGED pc
  /\ UNCHANGED <<vars, header_off, file_off, headerAt, changed>>

\* The outermost writeDFS has returned, imageDFS closes the file.
CloseImage ==
  /\ pc = "return"
  /\ calls = <<>>
  /\ pc' = "written"
  /\ UNCHANGED <<vars, node, calls, header_off, file_off, output, headerAt, changed>>

\* writeDFS follows an uninitialised pointer, or uses the NULL that fopen()
\* returned for a file that has gone.  Mostly the program dies here; whatever
\* it does, it has no defined behaviour and the model ends.
Derail ==
  /\ pc = "enter"
  /\ \/ node = Uninitialised
     \/ /\ FilesChange
        /\ node # Uninitialised /\ data[node].type = PLAIN_FILE
  /\ pc' = "undefined"
  /\ UNCHANGED <<vars, node, calls, header_off, file_off, output, headerAt, changed>>

----------------------------------------------------------------------------
WInit ==
  /\ Init
  /\ pc = "idle"
  /\ node = Uninitialised
  /\ calls = <<>>
  /\ header_off = 0
  /\ file_off = 0
  /\ output = <<>>
  /\ headerAt = <<>>
  /\ changed = {}

Walk == BuilderNext /\ UNCHANGED writerVars

Write == imageDFS \/ WriteFile \/ WriteDirectory \/ StorePointer \/ CloseImage

Ended == pc \in {"written", "undefined"} /\ UNCHANGED allVars

WNext == Walk \/ (Unlock /\ UNCHANGED writerVars) \/ Write \/ Derail \/ Ended

WSpec == WInit /\ [][WNext]_allVars

\* The program never pauses on its own; nobody promises to unlock a file.
WFairSpec == WSpec /\ WF_allVars(Walk \/ Write)

----------------------------------------------------------------------------
(* What the image is to hold *)

\* The numbers of a set in increasing order.
Sorted(S) ==
  CHOOSE s \in UNION {[1..n -> S] : n \in {0} \cup {x + 1 : x \in S}} :
    /\ \A j, k \in DOMAIN s : j < k => s[j] < s[k]
    /\ \A x \in S : \E k \in DOMAIN s : s[k] = x

\* An object of the source, as in OnDiskStructure.
Object(h) ==
  [type |-> data[h].type, time |-> MTime(h),
   kids |-> Sorted({data[g].name : g \in {o \in Objects : data[o].in = h}}),
   bytes |-> IF data[h].type = PLAIN_FILE THEN Content(h, data[h].length) ELSE <<>>]

\* For each path of the source, f of the object there.
ByPath(f) ==
  [p \in {PathOf(h) : h \in Objects} |-> f[CHOOSE h \in Objects : PathOf(h) = p]]

SourceTree == ByPath([h \in Objects |-> Object(h)])

----------------------------------------------------------------------------
(* Properties *)

\* Type correctness.
WTypeOK ==
  /\ TypeOK
  /\ pc \in {"idle", "enter", "return", "written", "undefined"}
  /\ node \in 0..Len(data)
  /\ calls \in Seq([node : Nat, at : Nat, i : Nat])
  /\ header_off \in Nat
  /\ file_off \in Nat
  /\ output \in Seq(Nat)
  /\ headerAt \in [DOMAIN headerAt -> Nat]
  /\ changed \subseteq DOMAIN headerAt

\* The fields of the header of h are in the image where they were put.
HeaderIntact(h) ==
  /\ Cell(output, headerAt[h] + NAME) = data[h].name
  /\ Cell(output, headerAt[h] + LENGTH) = data[h].length
  /\ Cell(output, headerAt[h] + TIME) = MTime(h)
  /\ Cell(output, headerAt[h] + TYPE) = data[h].type

\* The k-th pointer of directory h leads to the header of its k-th child.
PointersIntact(h) ==
  \A k \in 0..(data[h].length - 1) :
     Cell(output, Cell(output, headerAt[h] + OFFSET) + k * PTR_SIZE)
       = headerAt[children[<<h, k>>]]

\* The data of file h is where its header says.
DataIntact(h) ==
  LET off == Cell(output, headerAt[h] + OFFSET)
  IN  \A k \in 1..data[h].length :
         /\ off + k <= Len(output)
         /\ Cell(output, off + k - 1) = Content(h, data[h].length)[k]

\* writeDFS meets nothing but nodes that s_builder has made: it follows no
\* pointer out of the memory of new node[length] and no stream that could not
\* be opened.
NeverDerails == pc # "undefined"

\* A finished image holds the tree that s_builder built: the root header at
\* offset 0, every header complete, every pointer leading to the right child.
\* Neither the order of the writes, nor the seeks back and forth, nor files
\* that grew or shrank meanwhile, leave anything overwritten.
StructureIntact ==
  pc = "written" =>
    /\ headerAt[Child(HeadNode, 0)] = 0
    /\ \A h \in DOMAIN headerAt :
         HeaderIntact(h) /\ (data[h].type = DIRECTORY => PointersIntact(h))

\* A finished image holds the bytes of every file that kept its size until it
\* was copied, even if its neighbours did not.
FilesIntact ==
  pc = "written" =>
    \A h \in DOMAIN headerAt \ changed :
       data[h].type = PLAIN_FILE => DataIntact(h)

\* The headers and pointers written so far never reach into the part of the
\* image that find_header_size() leaves to the files.
HeadersBelowData ==
  pc # "idle" => header_off <= find_header_size

\* Every object of the source has its header in a finished image, and there is
\* no gap between the headers and the file data.
ImageComplete ==
  pc = "written" =>
    /\ DOMAIN headerAt = 2..Len(data)
    /\ header_off = find_header_size

\* Mastering comes to an end unless some file stays locked for good (the loop
\* around fopen() in s_builder has no other exit).
MasterEnds == []<>openable => <>(pc \in {"written", "undefined"})

============================================================================
