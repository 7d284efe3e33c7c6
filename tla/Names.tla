------------------------------- MODULE Names --------------------------------
(***************************************************************************)
(* The way of a file name: from the path that nftw reports, through        *)
(* parse_name() and two space_pad()s, into the image, and from there to    *)
(* the user of the mounted file system or of the listing tool.  Everywhere *)
(* else in this project a name is an opaque value; here it is a sequence   *)
(* of characters, and a buffer is a sequence of NAME_SIZE of them.  That   *)
(* holds of m_prs as well, whose name is declared with 255 characters but  *)
(* is followed by a byte of padding, and of readHeader(), whose malloc(255)*)
(* yields a block of more than 256 bytes.                                  *)
(***************************************************************************)
EXTENDS Naturals, Sequences, SequencesExt

CONSTANTS
  Chars,        \* what a name is made of
  NAME_SIZE     \* sizeof(m_hdr::name), 256: names have fewer characters

NUL == "NUL"
Space == " "
Dots == {<<".">>, <<".", ".">>}

ASSUME NameAssumption ==
  /\ NAME_SIZE \in Nat \ {0}
  /\ Space \in Chars
  /\ Chars \cap {NUL, "/"} = {}

VARIABLES
  name,         \* the last component of the path, as the directory has it
  text,         \* what has become of it
  stage         \* "path", "parsed", "ignored", "node", "image", "shown", "listed"

vars == <<name, text, stage>>

\* find_last_of: positions are from 1 to Len(s), 0 stands for npos.
LastOf(s, set) == Max({0} \cup {k \in DOMAIN s : s[k] \in set})

parse_name(path) ==
  LET pos == LastOf(path, {"\\", "/"})
  IN  IF pos = 0 THEN path ELSE SubSeq(path, pos + 1, Len(path))

\* Mutation: no terminator if the name leaves one character of the buffer.
space_pad_full(s) ==
  [k \in 1..NAME_SIZE |-> IF k \in DOMAIN s THEN s[k]
                          ELSE IF k = Len(s) + 1 /\ k < NAME_SIZE THEN NUL ELSE Space]

space_pad(s) ==
  [k \in 1..NAME_SIZE |-> IF k \in DOMAIN s THEN s[k]
                          ELSE IF k = Len(s) + 1 THEN NUL ELSE Space]

\* A char array that is read as a string, up to the first terminator.
CString(buffer) ==
  SubSeq(buffer, 1, Min({k \in DOMAIN buffer : buffer[k] = NUL} \cup {Len(buffer) + 1}) - 1)

\* strncpy(to, from, NAME_SIZE): zeros after the terminator
Strncpy(from) ==
  [k \in 1..NAME_SIZE |-> IF k \in DOMAIN CString(from) THEN from[k] ELSE NUL]

\* Mutation: only the end is trimmed.
trimEnd(s) ==
  SubSeq(s, 1, Max({0} \cup {k \in DOMAIN s : s[k] # Space}))

\* The listing tool's: without the spaces at both ends.
trimSpaces(s) ==
  LET ink == {k \in DOMAIN s : s[k] # Space}
  IN  IF ink = {} THEN <<>> ELSE SubSeq(s, Min(ink), Max(ink))

----------------------------------------------------------------------------
\* s_builder, its first lines: "." and ".." are ignored.
Parse ==
  /\ stage = "path"
  /\ text' = parse_name(text)
  /\ stage' = IF text' \in Dots THEN "ignored" ELSE "parsed"
  /\ UNCHANGED name

\* s_builder: strncpy(h->name, space_pad(...), 256)
StoreName ==
  /\ stage = "parsed"
  /\ text' = Strncpy(space_pad(text))
  /\ stage' = "node"
  /\ UNCHANGED name

\* Mutation: the padding is taken off first, and the name's own spaces with it.
WriteNameTrimmed ==
  /\ stage = "node"
  /\ text' = space_pad(trimSpaces(CString(text)))
  /\ stage' = "image"
  /\ UNCHANGED name

\* writeDFS
WriteName ==
  /\ stage = "node"
  /\ text' = space_pad(CString(text))
  /\ stage' = "image"
  /\ UNCHANGED name

\* The mounter's readHeader(), and the strcmp() or filler() that uses the name
ReadName ==
  /\ stage = "image"
  /\ text' = CString(Strncpy(text))
  /\ stage' = "shown"
  /\ UNCHANGED name

\* The listing tool's printHeader()
ListName ==
  /\ stage = "image"
  /\ text' = trimSpaces(CString(text))
  /\ stage' = "listed"
  /\ UNCHANGED name

----------------------------------------------------------------------------
AllNames == UNION {[1..n -> Chars] : n \in 1..(NAME_SIZE - 1)}

\* The path of an entry, or of a root given without a slash.
Init ==
  /\ name \in AllNames
  /\ text \in {name, <<"d", "/">> \o name}
  /\ stage = "path"

Done == stage \in {"ignored", "shown", "listed"} /\ UNCHANGED vars

Next == Parse \/ StoreName \/ WriteName \/ ReadName \/ ListName \/ Done

Spec == Init /\ [][Next]_vars

----------------------------------------------------------------------------
(* Properties *)

\* parse_name() splits at backslashes as well, although a name may have them.
Plain == "\\" \notin Range(name)

\* A name without a backslash comes out of the mounted image as it was in the
\* source: also one that fills the buffer but for the terminator, and one
\* that begins or ends with spaces, which are what the buffers are padded
\* with.  So siblings stay distinct, and the path of a request finds them.
\* Only "." and ".." are not stored.
NameKept ==
  Plain => /\ stage = "shown" => text = name
           /\ stage = "ignored" => name \in Dots

\* Every buffer on the way holds a terminator, so that no name runs into what
\* follows it in m_prs, m_hdr and the image.
AlwaysTerminated ==
  stage \in {"node", "image"} => NUL \in Range(text)

\* The listing tool prints the name but for the spaces around it: what it
\* leaves out at either end is spaces, and it leaves out all of them.
ListedTrimmed ==
  stage = "listed" /\ Plain =>
    /\ text # <<>> => text[1] # Space /\ Last(text) # Space
    /\ \E i, j \in 0..Len(name) :
         name = [k \in 1..i |-> Space] \o text \o [k \in 1..j |-> Space]
=============================================================================
