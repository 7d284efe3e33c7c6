------------------------------ MODULE Generate ------------------------------
(***************************************************************************)
(* The three hand-made images of generate.cpp, each with the file system   *)
(* it is meant to hold.  The program computes every offset by hand.        *)
(*                                                                         *)
(* createHeader() fills a name up with spaces and writeHeader() ends it    *)
(* with a NUL after 255 characters, where master puts the NUL directly     *)
(* behind the name: to strcmp() the spaces belong to the name.  A name is  *)
(* a number below PADDING, Padded(n) is the same name with the spaces.     *)
(* The texts are shorter than the program's, and the sizes that it states  *)
(* as constants are scaled with them.                                      *)
(***************************************************************************)
EXTENDS OnDiskStructure, TLC

PADDING == 1000
Padded(n) == n + PADDING

root == 11
test == 12
a == 13
b == 14
Desktop == 15
hw == 16
Text1 == <<61, 62, 63>>
Text2 == <<64, 65>>

\* Mutation: time and offset change places.
writeHeaderSwapped(name, type, length, time, offset) ==
  HeaderCells(Padded(name), length, offset, time, type)

\* createHeader and writeHeader.  The time is the one field that is not brought
\* into the byte order of the others; it is 0 in all three images.
writeHeader(name, type, length, time, offset) ==
  HeaderCells(Padded(name), length, time, offset, type)

\* The objects that the images are meant to hold, all dated 0.
Dir(kids) == [type |-> DIRECTORY, time |-> 0, kids |-> kids, bytes |-> <<>>]
File(bytes) == [type |-> PLAIN_FILE, time |-> 0, kids |-> <<>>, bytes |-> bytes]
Root == <<Padded(root)>>

createTest1 ==
  LET size == 3
      file_ptr == PTR_SIZE + M_HDR_SIZE
      file_offset == 2 * M_HDR_SIZE + PTR_SIZE
      file == Append(Root, Padded(test))
  IN  [image |-> writeHeader(root, DIRECTORY, 1, 0, M_HDR_SIZE) \o <<file_ptr>> \o
                 writeHeader(test, PLAIN_FILE, size, 0, file_offset) \o Text1,
       fs |-> (Root :> Dir(<<Padded(test)>>)) @@ (file :> File(Text1)),
       at |-> (Root :> 0) @@ (file :> file_ptr)]

createTest2 ==
  LET file1Size == 3
      file2Size == 2
      endArrayOffset == 2 * PTR_SIZE + M_HDR_SIZE
      endHeadersOffset == endArrayOffset + 2 * M_HDR_SIZE
      second == endArrayOffset + M_HDR_SIZE
  IN  [image |-> writeHeader(root, DIRECTORY, 2, 0, M_HDR_SIZE) \o
                 <<endArrayOffset, second>> \o
                 writeHeader(a, PLAIN_FILE, file1Size, 0, endHeadersOffset) \o
                 writeHeader(b, PLAIN_FILE, file2Size, 0, endHeadersOffset + file1Size) \o
                 Text1 \o Text2,
       fs |-> (Root :> Dir(<<Padded(a), Padded(b)>>)) @@
              (Append(Root, Padded(a)) :> File(Text1)) @@
              (Append(Root, Padded(b)) :> File(Text2)),
       at |-> (Root :> 0) @@ (Append(Root, Padded(a)) :> endArrayOffset) @@
              (Append(Root, Padded(b)) :> second)]

createTest3 ==
  LET file1Size == 3
      endArrayOffset == PTR_SIZE + M_HDR_SIZE
      endHeadersOffset == endArrayOffset + M_HDR_SIZE
      file_ptr == endHeadersOffset + PTR_SIZE
      file_offset == endHeadersOffset + PTR_SIZE + M_HDR_SIZE
      dir == Append(Root, Padded(Desktop))
      file == Append(dir, Padded(hw))
  IN  [image |-> writeHeader(root, DIRECTORY, 1, 0, M_HDR_SIZE) \o <<endArrayOffset>> \o
                 writeHeader(Desktop, DIRECTORY, 1, 0, endHeadersOffset) \o <<file_ptr>> \o
                 writeHeader(hw, PLAIN_FILE, file1Size, 0, file_offset) \o Text1,
       fs |-> (Root :> Dir(<<Padded(Desktop)>>)) @@ (dir :> Dir(<<Padded(hw)>>)) @@
              (file :> File(Text1)),
       at |-> (Root :> 0) @@ (dir :> endArrayOffset) @@ (file :> file_ptr)]

\* What main() leaves behind.
HandMade == {createTest1, createTest2, createTest3}
=============================================================================
