------------------------------ MODULE TreeTool ------------------------------
(***************************************************************************)
(* The listing tool, tree.cpp.  print_metadata() recurses over an image    *)
(* without knowing its length.  Two things make the stream state part of   *)
(* the model: readHeader() reads a whole m_hdr, which the compiler pads    *)
(* beyond the M_HDR_SIZE bytes that a header has on disk, and a fstream    *)
(* that has once hit the end of the file ignores every later seek and      *)
(* read, so that the rest of the listing would come from uninitialised     *)
(* variables.                                                              *)
(***************************************************************************)
EXTENDS OnDiskStructure

CONSTANTS
  Padding,        \* names from here on end in spaces, see Generate
  Flags           \* the options: "" (none), "-v", "-vc"

VARIABLES
  image,          \* the file
  tpc,            \* "off", "header", "print", "next", "done" or "undefined"
  flag,           \* the option given
  good,           \* the state of the stream
  from,           \* the offset readHeader() is called with
  header,         \* the header it returns
  stack,          \* print_metadata: [offset, left], the loops in progress
  listing         \* the lines printed so far

toolVars == <<tpc, flag, good, from, header, stack, listing>>

\* sizeof(m_hdr): 288 bytes where M_HDR_SIZE is 284
SIZEOF_M_HDR == M_HDR_SIZE + 1

\* input.seekg(off); input.read(n)
Readable(off, n) == good /\ off + n <= Len(image)

trimSpaces(name) == IF name >= Padding THEN name - Padding ELSE name

\* printHeader: name and indentation; with -v or -vc the time, and the size of
\* a file.
Line(name, type, length, time, depth) ==
  [depth |-> depth, name |-> trimSpaces(name),
   details |-> IF flag = "" THEN <<>>
               ELSE IF type = PLAIN_FILE THEN <<time, length>> ELSE <<time>>]

----------------------------------------------------------------------------
\* main, up to the first readHeader.  The exits for a wrong number of arguments
\* and for a file that cannot be opened are left out: they come before anything
\* is read or printed, and Archive starts the tool on an image that exists.
Open ==
  /\ tpc = "off"
  /\ tpc' = "header"
  /\ flag' \in Flags
  /\ UNCHANGED <<good, from, header, stack, listing>>

\* If only the padding is missing, the header is complete but the stream has
\* failed.
readHeader ==
  /\ tpc = "header"
  /\ good' = Readable(from, SIZEOF_M_HDR)
  /\ IF Readable(from, M_HDR_SIZE)
     THEN tpc' = "print" /\ header' = SubSeq(image, from + 1, from + M_HDR_SIZE)
     ELSE tpc' = "undefined" /\ UNCHANGED header
  /\ UNCHANGED <<flag, from, stack, listing>>

Field(f) == header[f + 1]

\* Mutation: the line of a file is indented like its directory's.
DepthOfParent == IF Field(TYPE) = PLAIN_FILE /\ stack # <<>> THEN Len(stack) - 1 ELSE Len(stack)

Depth == Len(stack)

\* print_metadata and printHeader, up to the loop over the children.  With -vc
\* the contents of a file are read as well (what is printed of them is not
\* part of the model).
print_metadata ==
  /\ tpc = "print"
  /\ listing' = Append(listing, Line(Field(NAME), Field(TYPE), Field(LENGTH),
                                     Field(TIME), Depth))
  /\ good' = IF flag = "-vc" /\ Field(TYPE) = PLAIN_FILE
             THEN Readable(Field(OFFSET), Field(LENGTH)) ELSE good
  /\ stack' = IF Field(TYPE) = DIRECTORY
              THEN Append(stack, [offset |-> Field(OFFSET), left |-> Field(LENGTH)])
              ELSE stack
  /\ tpc' = "next"
  /\ UNCHANGED <<flag, from, header>>

\* The loop in print_metadata: readOffset() of the next child, ...
NextChild ==
  /\ tpc = "next"
  /\ stack # <<>> /\ Last(stack).left > 0
  /\ LET top == Last(stack)
     IN  /\ stack' = Append(Front(stack), [offset |-> top.offset + PTR_SIZE,
                                           left |-> top.left - 1])
         /\ good' = Readable(top.offset, PTR_SIZE)
         /\ IF Readable(top.offset, PTR_SIZE)
            THEN tpc' = "header" /\ from' = Cell(image, top.offset)
            ELSE tpc' = "undefined" /\ UNCHANGED from
  /\ UNCHANGED <<flag, header, listing>>

\* ... or the end of the loop.
ReturnToParent ==
  /\ tpc = "next"
  /\ stack # <<>> /\ Last(stack).left = 0
  /\ stack' = Front(stack)
  /\ UNCHANGED <<tpc, flag, good, from, header, listing>>

\* print_metadata of the root has returned.
Exit ==
  /\ tpc = "next"
  /\ stack = <<>>
  /\ tpc' = "done"
  /\ UNCHANGED <<flag, good, from, header, stack, listing>>

----------------------------------------------------------------------------
Off ==
  /\ tpc = "off"
  /\ flag = ""
  /\ good = TRUE
  /\ from = 0
  /\ header = <<>>
  /\ stack = <<>>
  /\ listing = <<>>

Step == readHeader \/ print_metadata \/ NextChild \/ ReturnToParent \/ Exit

\* The lines that the tool owes for the objects of fs, from the root on.
Lines(fs, root) ==
  LET lines[p \in DOMAIN fs] ==
        LET o == fs[p]
            below[k \in 0..Len(o.kids)] ==
              IF k = 0 THEN <<>> ELSE below[k - 1] \o lines[Append(p, o.kids[k])]
        IN  <<Line(Last(p), o.type, Size(o), o.time, Len(p) - 1)>> \o below[Len(o.kids)]
  IN  lines[root]
=============================================================================
