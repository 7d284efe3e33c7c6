--------------------------- MODULE MounterProofs ----------------------------
(***************************************************************************)
(* One thread (the option -s of libfuse) answers every request as the      *)
(* archive demands, for every archive that satisfies the contract Encodes, *)
(* whatever its size, depth and names.                                     *)
(*                                                                         *)
(* The invariant says where find() is, which part of the path strtok() has *)
(* given out, which object's header is being read, and which children have *)
(* been passed by.  First comes what the contract Encodes says of an       *)
(* archive and that every step keeps the types, then the invariant, action *)
(* by action, and the theorems at the end.                                 *)
(***************************************************************************)
EXTENDS Mounter, TLAPS

\* The provers that a step is given to, in this order, when it names none.
USE SMTT(15), Zenon, SMTT(60), ZenonT(60)

\* The archive that is mounted fulfils the contract.
Genuine == Encodes(disk.image, disk.fs, disk.at)

Path(t) == req[t].path

\* The components that strtok() has given out.
Given(t) == Len(Path(t)) - Len(rest)

Prefix(t, n) == SubSeq(Path(t), 1, n)

Root == <<Cell(disk.image, NAME)>>

\* Header h has the given fields of the object at p.
Holds(h, p, fields) == \A f \in fields : h[f] = Cell(disk.image, disk.at[p] + f)

Fields == 0..4
Reading == {"seek", "name", "reseek", "length", "time", "offset", "type", "got"}
Looping == Reading \cup {"scan", "pointer"}

\* The directory whose children are looked at, in find() or mount_readdir().
Folder(t) == IF caller[t] = "find" THEN Prefix(t, Given(t) - 1) ELSE Path(t)
Kids(t) == disk.fs[Folder(t)].kids

\* The object whose header readHeader() reads.
Target(t) ==
  IF caller[t] \in {"find", "list"} THEN Append(Folder(t), Kids(t)[i[t] + 1]) ELSE Root

----------------------------------------------------------------------------
(* The invariant *)

RequestInv(t) ==
  /\ pc[t] = "idle" => req[t] = NoRequest
  /\ pc[t] # "idle" => req[t] \in Requests /\ KernelAsks(req[t])

\* find() works on component number Given(t).
TokenInv(t) ==
  /\ Given(t) \in 1..Len(Path(t))
  /\ \A k \in 1..Len(rest) : rest[k] = Path(t)[Given(t) + k]
  /\ token[t] = Path(t)[Given(t)]

\* A loop over the children of Folder(t).
LoopInv(t) ==
  /\ Folder(t) \in DOMAIN disk.fs /\ disk.fs[Folder(t)].type = DIRECTORY
  /\ Holds(current[t], Folder(t), Fields)
  /\ i[t] <= Len(Kids(t))
  /\ pc[t] # "scan" => i[t] < Len(Kids(t))

TopInv(t) ==
  caller[t] = "top" =>
    /\ pc[t] \in Reading \cup {"done"}
    /\ req[t].op = "readdir" /\ Path(t) = <<>>

RootInv(t) ==
  caller[t] = "root" =>
    /\ pc[t] \notin {"scan", "pointer"}
    /\ pc[t] \in Reading \cup {"compare"} => TokenInv(t) /\ Given(t) = 1

FindInv(t) ==
  caller[t] = "find" =>
    /\ pc[t] \notin {"idle", "begin"}
    /\ pc[t] \in Looping => /\ TokenInv(t) /\ Given(t) > 1
                            /\ LoopInv(t)
                            /\ \A k \in 1..i[t] : Kids(t)[k] # token[t]

ListInv(t) ==
  caller[t] = "list" =>
    /\ pc[t] \in Looping \cup {"done"}
    /\ pc[t] \in Looping => /\ req[t].op = "readdir" /\ Path(t) # <<>>
                            /\ LoopInv(t)
                            /\ reply[t] = Reply("ok", SubSeq(Kids(t), 1, i[t]))

\* How far readHeader() is.
HeaderInv(t) ==
  /\ pc[t] \in Reading => at[t] = disk.at[Target(t)]
  /\ pc[t] = "name"   => pos = at[t] + NAME
  /\ pc[t] = "reseek" => Holds(hdr[t], Target(t), {NAME})
  /\ pc[t] = "length" => pos = at[t] + LENGTH /\ Holds(hdr[t], Target(t), {NAME})
  /\ pc[t] = "time"   => pos = at[t] + TIME /\ Holds(hdr[t], Target(t), 0..1)
  /\ pc[t] = "offset" => pos = at[t] + OFFSET /\ Holds(hdr[t], Target(t), 0..2)
  /\ pc[t] = "type"   => pos = at[t] + TYPE /\ Holds(hdr[t], Target(t), 0..3)
  /\ pc[t] = "got"    => Holds(hdr[t], Target(t), Fields)

PointerInv(t) ==
  pc[t] = "pointer" => pos = current[t][OFFSET] + i[t]

CompareInv(t) ==
  pc[t] = "compare" =>
    /\ TokenInv(t)
    /\ caller[t] = "root" => Holds(current[t], Root, Fields)
    /\ caller[t] = "find" => /\ Prefix(t, Given(t)) \in DOMAIN disk.fs
                             /\ Holds(current[t], Prefix(t, Given(t)), Fields)

FoundInv(t) ==
  pc[t] \in {"found", "data"} =>
    /\ Path(t) \in DOMAIN disk.fs
    /\ Holds(current[t], Path(t), Fields)
    /\ pc[t] = "data" => /\ req[t].op = "read"
                         /\ disk.fs[Path(t)].type = PLAIN_FILE
                         /\ pos = current[t][OFFSET]

ReplyInv(t) ==
  /\ pc[t] # "done" /\ caller[t] # "list" => reply[t] = Reply("ok", <<>>)
  /\ pc[t] = "done" => reply[t] = Service!Promised(disk.fs, req[t])

ThreadInv(t) ==
  /\ RequestInv(t) /\ TopInv(t) /\ RootInv(t) /\ FindInv(t) /\ ListInv(t)
  /\ HeaderInv(t) /\ PointerInv(t) /\ CompareInv(t) /\ FoundInv(t) /\ ReplyInv(t)

MountInv == Genuine /\ \A t \in Threads : ThreadInv(t)

----------------------------------------------------------------------------
(* Sequences *)

LEMMA PrefixFacts ==
  ASSUME NEW s \in Seq(Nat), NEW n \in 0..Len(s)
  PROVE  /\ SubSeq(s, 1, n) \in Seq(Nat)
         /\ Len(SubSeq(s, 1, n)) = n
         /\ \A k \in 1..n : SubSeq(s, 1, n)[k] = s[k]
OBVIOUS

LEMMA PrefixExtended ==
  ASSUME NEW s \in Seq(Nat), NEW n \in 0..Len(s), n # Len(s)
  PROVE  /\ Append(SubSeq(s, 1, n), s[n + 1]) = SubSeq(s, 1, n + 1)
         /\ Front(SubSeq(s, 1, n + 1)) = SubSeq(s, 1, n)
         /\ Last(SubSeq(s, 1, n + 1)) = s[n + 1]
BY DEF Front, Last

LEMMA FirstFacts ==
  ASSUME NEW s \in Seq(Nat), 1 \in 1..Len(s)
  PROVE  s[1] \in Nat /\ 1 \in 0..Len(s)
OBVIOUS

LEMMA WholePrefix ==
  ASSUME NEW s \in Seq(Nat)
  PROVE  SubSeq(s, 1, Len(s)) = s
OBVIOUS

LEMMA SameSeq ==
  ASSUME NEW s \in Seq(Nat), NEW u \in Seq(Nat), Len(s) = Len(u),
         \A k \in 1..Len(s) : s[k] = u[k]
  PROVE  s = u
OBVIOUS

LEMMA MiddleFacts ==
  ASSUME NEW s \in Seq(Nat), NEW m \in Nat, NEW n \in Nat, m + n <= Len(s)
  PROVE  SubSeq(s, m + 1, m + n) = [k \in 1..n |-> s[m + k]]
OBVIOUS

LEMMA FirstPrefix ==
  ASSUME NEW s \in Seq(Nat), 1 \in 1..Len(s)
  PROVE  SubSeq(s, 1, 1) = <<s[1]>>
<1>1. s[1] \in Nat /\ 1 \in 0..Len(s)
  OBVIOUS
<1>2. SubSeq(s, 1, 1) \in Seq(Nat) /\ Len(SubSeq(s, 1, 1)) = 1 /\ SubSeq(s, 1, 1)[1] = s[1]
  BY <1>1
<1>3. <<s[1]>> \in Seq(Nat) /\ Len(<<s[1]>>) = 1 /\ <<s[1]>>[1] = s[1]
  BY <1>1
<1>4. ASSUME NEW a \in Seq(Nat), NEW b \in Seq(Nat), Len(a) = 1, Len(b) = 1, a[1] = b[1]
      PROVE  a = b
  BY <1>4, SameSeq
<1> QED BY <1>2, <1>3, <1>4, Zenon

LEMMA NonEmpty ==
  ASSUME NEW s \in Seq(Nat), s # <<>>
  PROVE  Len(s) \in Nat /\ Len(s) >= 1
OBVIOUS

----------------------------------------------------------------------------
(* What the contract says of an archive *)

LEMMA ImageFacts ==
  ASSUME Genuine
  PROVE  /\ disk.image \in Seq(Nat)
         /\ Root \in DOMAIN disk.fs
BY DEF Genuine, Encodes, Root

LEMMA LengthNat ==
  ASSUME NEW s \in Seq(Nat)
  PROVE  Len(s) \in Nat /\ 0 <= Len(s)
OBVIOUS

LEMMA ObjectFacts ==
  ASSUME Genuine, NEW p \in DOMAIN disk.fs
  PROVE  /\ p \in Seq(Nat) /\ p # <<>>
         /\ disk.fs[p].kids \in Seq(Nat) /\ disk.fs[p].bytes \in Seq(Nat)
         /\ disk.fs[p].type \in {DIRECTORY, PLAIN_FILE}
         /\ \A n \in 1..Len(p) : SubSeq(p, 1, n) \in DOMAIN disk.fs
         /\ Len(p) = 1 => disk.at[p] = 0
         /\ Len(p) > 1 => \E k \in DOMAIN disk.fs[Front(p)].kids :
                            disk.fs[Front(p)].kids[k] = Last(p)
<1>1. Encodes(disk.image, disk.fs, disk.at)
  BY DEF Genuine
<1> QED BY <1>1, Zenon DEF Encodes

LEMMA HeaderFacts ==
  ASSUME Genuine, NEW p \in DOMAIN disk.fs
  PROVE  HeaderEncodes(disk.image, disk.at[p], Last(p), disk.fs[p])
<1>1. Encodes(disk.image, disk.fs, disk.at)
  BY DEF Genuine
<1> QED BY <1>1 DEF Encodes

LEMMA ChildFacts ==
  ASSUME Genuine, NEW p \in DOMAIN disk.fs,
         disk.fs[p].type = DIRECTORY, NEW k \in DOMAIN disk.fs[p].kids
  PROVE  /\ Append(p, disk.fs[p].kids[k]) \in DOMAIN disk.fs
         /\ Cell(disk.image, Cell(disk.image, disk.at[p] + OFFSET) + (k - 1)) =
              disk.at[Append(p, disk.fs[p].kids[k])]
<1>1. Encodes(disk.image, disk.fs, disk.at)
  BY DEF Genuine
<1>2. \A j \in DOMAIN disk.fs[p].kids :
        /\ Append(p, disk.fs[p].kids[j]) \in DOMAIN disk.fs
        /\ Cell(disk.image, Cell(disk.image, disk.at[p] + OFFSET) + (j - 1) * PTR_SIZE) =
             disk.at[Append(p, disk.fs[p].kids[j])]
  <2>1. disk.fs[p].type # PLAIN_FILE
    BY DEF DIRECTORY, PLAIN_FILE
  <2> QED BY <1>1, <2>1, Zenon DEF Encodes
<1>3. (k - 1) * PTR_SIZE = k - 1
  BY ObjectFacts DEF PTR_SIZE
<1> QED BY <1>2, <1>3, Zenon

LEMMA ByteFacts ==
  ASSUME Genuine, NEW p \in DOMAIN disk.fs,
         disk.fs[p].type = PLAIN_FILE, NEW k \in DOMAIN disk.fs[p].bytes
  PROVE  Cell(disk.image, Cell(disk.image, disk.at[p] + OFFSET) + k - 1) =
           disk.fs[p].bytes[k]
<1>1. Encodes(disk.image, disk.fs, disk.at)
  BY DEF Genuine
<1>2. disk.fs[p].type # DIRECTORY
  BY DEF DIRECTORY, PLAIN_FILE
<1> QED BY <1>1, <1>2, Zenon DEF Encodes

\* There is one root.
LEMMA OneRoot ==
  ASSUME Genuine, NEW p \in DOMAIN disk.fs, Len(p) = 1
  PROVE  p = Root
<1>1. p \in Seq(Nat) /\ disk.at[p] = 0
  BY ObjectFacts
<1>2. Cell(disk.image, NAME) = Last(p)
  BY <1>1, HeaderFacts DEF HeaderEncodes, NAME
<1>3. Last(p) = p[1]
  BY <1>1 DEF Last
<1> QED BY <1>1, <1>2, <1>3 DEF Root

----------------------------------------------------------------------------
(* Type correctness, for any number of threads *)

LEMMA FreadType ==
  ASSUME Genuine, NEW p \in Nat
  PROVE  Fread(p) \subseteq Nat
<1>1. disk.image \in Seq(Nat)
  BY ImageFacts
<1>2. p < Len(disk.image) => disk.image[p + 1] \in Nat
  BY <1>1
<1>3. Garbage \subseteq Nat
  BY RequestAssumption
<1> QED BY <1>2, <1>3, Zenon DEF Fread, Cell

LEMMA AfterType ==
  ASSUME Genuine, NEW p \in Nat, NEW n \in Nat
  PROVE  After(p, n) \in Nat
BY ImageFacts DEF After

LEMMA BlockType ==
  ASSUME Genuine, NEW p \in Nat, NEW n \in Nat, NEW b \in FreadBlock(p, n)
  PROVE  b \in Seq(Nat) /\ Len(b) = n /\ \A k \in 1..n : b[k] \in Fread(p + k - 1)
<1>1. DOMAIN b = 1..n /\ b = [k \in 1..n |-> b[k]] /\ \A k \in 1..n : b[k] \in Fread(p + k - 1)
  BY DEF FreadBlock
<1>2. \A k \in 1..n : p + k - 1 \in Nat
  OBVIOUS
<1>3. \A k \in 1..n : b[k] \in Nat
  BY <1>1, <1>2, FreadType
<1> QED BY <1>1, <1>3

LEMMA SliceType ==
  ASSUME NEW b \in Seq(Nat), NEW r, r.offset \in Nat, r.size \in Nat
  PROVE  Slice(b, r) \in Seq(Nat)
BY DEF Slice

LEMMA AnswerType ==
  ASSUME TypeOK, NEW t \in Threads, NEW err \in {"ok", "ENOENT", "EACCES"},
         NEW bytes \in Seq(Nat), Answer(t, err, bytes)
  PROVE  /\ pc' \in [Threads -> Labels]
         /\ reply' \in [Threads -> Replies]
<1>1. Reply(err, bytes) \in Replies
  BY DEF Reply, Replies
<1> QED BY <1>1, Zenon DEF Answer, Go, TypeOK, Labels

LEMMA InitType ==
  ASSUME Ready
  PROVE  TypeOK
<1>1. NoHeader \in [0..4 -> Nat] /\ Reply("ok", <<>>) \in Replies
  BY DEF NoHeader, Reply, Replies
<1>2. "idle" \in Labels /\ "root" \in Callers
  BY DEF Labels, Callers
<1> QED BY <1>1, <1>2 DEF Ready, TypeOK

LEMMA TypeStep ==
  ASSUME TypeOK, Genuine, [Next]_vars
  PROVE  TypeOK' /\ disk' = disk
<1>1. CASE UNCHANGED vars
  BY <1>1 DEF vars, TypeOK
<1>2. ASSUME NEW t \in Threads, NEW r \in Requests, Begin(t, r)
      PROVE  TypeOK' /\ disk' = disk
  BY <1>2, Zenon DEF Begin, Go, TypeOK, Labels
<1>3. ASSUME NEW t \in Threads, Finish(t)
      PROVE  TypeOK' /\ disk' = disk
  <2>1. NoHeader \in [0..4 -> Nat]
    BY DEF NoHeader
  <2>2. Reply("ok", <<>>) \in Replies
    BY DEF Reply, Replies
  <2> QED BY <1>3, <2>1, <2>2, Zenon DEF Finish, Go, TypeOK, Labels, Callers
<1>4. ASSUME NEW t \in Threads, Work(t)
      PROVE  TypeOK' /\ disk' = disk
  <2>0. \A p \in Nat, n \in Nat : After(p, n) \in Nat
    BY AfterType
  <2>0a. hdr[t] \in [0..4 -> Nat] /\ current[t] \in [0..4 -> Nat]
    BY DEF TypeOK
  <2>0b. /\ hdr[t][NAME] \in Nat
         /\ current[t][LENGTH] \in Nat /\ current[t][OFFSET] \in Nat
         /\ current[t][TIME] \in Nat /\ current[t][TYPE] \in Nat
    BY <2>0a DEF NAME, LENGTH, OFFSET, TIME, TYPE
  <2>0n. pc[t] \in Labels /\ i[t] \in Nat /\ at[t] \in Nat /\ pos \in Nat
    BY DEF TypeOK
  <2>0c. i[t] + 1 \in Nat /\ at[t] + NAME \in Nat /\ at[t] + LENGTH \in Nat
    BY <2>0n DEF NAME, LENGTH
  <2>0d. \A p \in Seq(Nat) : Rest(p) \in Seq(Nat) /\ Token(p) \in Nat \cup {NoToken}
    BY DEF Rest, Token
  <2>0e. \A v \in Fread(pos) : v \in Nat
    BY FreadType DEF TypeOK
  <2>0f. reply[t].out \in Seq(Nat)
    BY DEF TypeOK, Replies
  <2>0g. req[t] \in Requests =>
           req[t].path \in Seq(Nat) /\ req[t].offset \in Nat /\ req[t].size \in Nat
    BY RequestAssumption
  <2>0h. \A label \in Labels : Go(t, label) => pc' \in [Threads -> Labels]
    BY DEF Go, TypeOK
  <2>0i. \A off \in Nat, who \in Callers : ReadHeader(t, off, who) =>
           /\ pc' \in [Threads -> Labels]
           /\ at' \in [Threads -> Nat]
           /\ caller' \in [Threads -> Callers]
    BY DEF ReadHeader, Go, TypeOK, Labels
  <2>0l. "top" \in Callers /\ "root" \in Callers /\ "find" \in Callers /\ "list" \in Callers
    BY DEF Callers
  <2>0j. req[t].path = <<>> \/ req[t] \in Requests
    BY DEF TypeOK, NoRequest
  <2>0k. \A err \in {"ok", "ENOENT", "EACCES"}, bytes \in Seq(Nat) : Answer(t, err, bytes) =>
           pc' \in [Threads -> Labels] /\ reply' \in [Threads -> Replies]
    BY AnswerType
  <2>0m. <<>> \in Seq(Nat)
    OBVIOUS
  <2>1. CASE StatRoot(t)
    <3>1. <<DIRECTORY, 2, 0>> \in Seq(Nat)
      BY DEF DIRECTORY
    <3> QED BY <2>1, <3>1, AnswerType, Zenon DEF StatRoot, TypeOK
  <2>2. CASE ListRoot(t)
    BY <2>2, <2>0i, Zenon DEF ListRoot, TypeOK, Callers
  <2>3. CASE FirstToken(t)
    <3>1. req[t].path \in Seq(Nat)
      BY <2>0g, <2>0j, <2>0m, Zenon
    <3>2. /\ rest' \in Seq(Nat)
          /\ token' \in [Threads -> Nat \cup {NoToken}]
      BY <2>3, <3>1, <2>0d, Zenon DEF FirstToken, TypeOK
    <3> QED BY <2>3, <3>2, <2>0i, <2>0l, Zenon DEF FirstToken, TypeOK
  <2>4. CASE SeekHeader(t)
    <3>1. pos' \in Nat /\ pc' \in [Threads -> Labels]
      BY <2>4, <2>0c, <2>0h DEF SeekHeader, Labels
    <3> QED BY <2>4, <3>1, Zenon DEF SeekHeader, TypeOK
  <2>5. CASE ReadField(t)
    <3>1. ASSUME NEW label, NEW field \in 0..4, NEW next \in Labels,
                 FreadField(t, label, field, next)
          PROVE  TypeOK' /\ disk' = disk
      <4>1. PICK v \in Fread(pos) : hdr' = [hdr EXCEPT ![t] = [hdr[t] EXCEPT ![field] = v]]
        BY <3>1, Zenon DEF FreadField
      <4>2. hdr' \in [Threads -> [0..4 -> Nat]]
        BY <4>1, <2>0e, <2>0a, Zenon DEF TypeOK
      <4>3. pos' \in Nat /\ pc' \in [Threads -> Labels]
        BY <3>1, <2>0, <2>0h DEF FreadField, TypeOK
      <4> QED BY <3>1, <4>2, <4>3, Zenon DEF FreadField, TypeOK
    <3> QED BY <2>5, <3>1 DEF ReadField, NAME, LENGTH, TIME, OFFSET, TYPE, Labels
  <2>6. CASE GotTop(t)
    <3>1. <<hdr[t][NAME]>> \in Seq(Nat)
      BY <2>0b
    <3> QED BY <2>6, <3>1, <2>0k, Zenon DEF GotTop, TypeOK
  <2>7. CASE GotCurrent(t)
    BY <2>7, Zenon DEF GotCurrent, Go, TypeOK, Labels
  <2>8. CASE SkipChild(t)
    <3>1. i' \in [Threads -> Nat] /\ pc' \in [Threads -> Labels]
      BY <2>8, <2>0c, <2>0h, Zenon DEF SkipChild, TypeOK, Labels
    <3> QED BY <2>8, <3>1, Zenon DEF SkipChild, TypeOK
  <2>9. CASE ListChild(t)
    <3>1. i' \in [Threads -> Nat] /\ pc' \in [Threads -> Labels]
      BY <2>9, <2>0c, <2>0h, Zenon DEF ListChild, TypeOK, Labels
    <3>2. Append(reply[t].out, hdr[t][NAME]) \in Seq(Nat)
      BY <2>0f, <2>0b
    <3>3. reply' \in [Threads -> Replies]
      <4>1. Reply("ok", Append(reply[t].out, hdr[t][NAME])) \in Replies
        BY <3>2 DEF Reply, Replies
      <4> QED BY <2>9, <4>1 DEF ListChild, TypeOK
    <3> QED BY <2>9, <3>1, <3>3, Zenon DEF ListChild, TypeOK
  <2>10. CASE Mismatch(t)
    BY <2>10, <2>0k, <2>0m, Zenon DEF Mismatch, TypeOK
  <2>11. CASE NextToken(t)
    <3>1. /\ rest' \in Seq(Nat)
          /\ token' \in [Threads -> Nat \cup {NoToken}]
      BY <2>11, <2>0d, Zenon DEF NextToken, TypeOK
    <3>2. pc' \in [Threads -> Labels]
      BY <2>11, <2>0h DEF NextToken, Labels
    <3>3. caller' \in [Threads -> Callers] /\ i' \in [Threads -> Nat]
      <4>1. \/ caller' = caller /\ i' = i
            \/ caller' = [caller EXCEPT ![t] = "find"] /\ i' = [i EXCEPT ![t] = 0]
        BY <2>11 DEF NextToken
      <4>2. caller \in [Threads -> Callers] /\ i \in [Threads -> Nat]
        BY Zenon DEF TypeOK
      <4>3. caller' \in [Threads -> Callers]
        BY <4>1, <4>2, <2>0l
      <4>4. i' \in [Threads -> Nat]
        BY <4>1, <4>2
      <4> QED BY <4>3, <4>4
    <3> QED BY <2>11, <3>1, <3>2, <3>3, Zenon DEF NextToken, TypeOK
  <2>12. CASE SeekPointer(t)
    <3>1. pos' \in Nat
      BY <2>12, <2>0b, <2>0n DEF SeekPointer, PTR_SIZE
    <3>2. pc' \in [Threads -> Labels]
      BY <2>12, <2>0h DEF SeekPointer, Labels
    <3> QED BY <2>12, <3>1, <3>2, Zenon DEF SeekPointer, TypeOK
  <2>13. CASE ReadPointer(t)
    <3>1. caller[t] \in Callers /\ pos' \in Nat
      BY <2>13, <2>0 DEF ReadPointer, TypeOK
    <3>2. PICK v \in Nat : ReadHeader(t, v, caller[t])
      BY <2>13, <2>0e DEF ReadPointer
    <3>3. /\ pc' \in [Threads -> Labels]
          /\ at' \in [Threads -> Nat]
          /\ caller' \in [Threads -> Callers]
      BY <3>1, <3>2, <2>0i
    <3> QED BY <2>13, <3>1, <3>3, Zenon DEF ReadPointer, TypeOK
  <2>14. CASE NotFound(t)
    BY <2>14, <2>0k, <2>0m, Zenon DEF NotFound, TypeOK
  <2>15. CASE AllListed(t)
    BY <2>15, <2>0k, <2>0f, Zenon DEF AllListed, TypeOK
  <2>16. CASE mount_getattr(t)
    <3>1. <<current[t][TYPE], current[t][LENGTH], current[t][TIME]>> \in Seq(Nat)
      BY <2>0b
    <3>2. pc' \in [Threads -> Labels] /\ reply' \in [Threads -> Replies]
      BY <2>16, <3>1, <2>0k, <2>0m, Zenon DEF mount_getattr
    <3> QED BY <2>16, <3>2, Zenon DEF mount_getattr, TypeOK
  <2>17. CASE mount_readdir(t)
    <3>1. /\ pc' \in [Threads -> Labels]
          /\ reply' \in [Threads -> Replies]
      BY <2>17, <2>0h, <2>0k, <2>0m, Zenon DEF mount_readdir, Labels, TypeOK
    <3>2. caller' \in [Threads -> Callers] /\ i' \in [Threads -> Nat]
      <4>1. \/ caller' = caller /\ i' = i
            \/ caller' = [caller EXCEPT ![t] = "list"] /\ i' = [i EXCEPT ![t] = 0]
        BY <2>17 DEF mount_readdir
      <4>2. caller \in [Threads -> Callers] /\ i \in [Threads -> Nat]
        BY Zenon DEF TypeOK
      <4>3. caller' \in [Threads -> Callers]
        BY <4>1, <4>2, <2>0l
      <4>4. i' \in [Threads -> Nat]
        BY <4>1, <4>2
      <4> QED BY <4>3, <4>4
    <3> QED BY <2>17, <3>1, <3>2, Zenon DEF mount_readdir, TypeOK
  <2>18. CASE mount_open(t)
    BY <2>18, <2>0k, <2>0m, Zenon DEF mount_open, TypeOK
  <2>19. CASE mount_read(t)
    <3>1. /\ pc' \in [Threads -> Labels]
          /\ reply' \in [Threads -> Replies]
      BY <2>19, <2>0h, <2>0k, <2>0m, Zenon DEF mount_read, Labels, TypeOK
    <3>2. pos' \in Nat
      BY <2>19, <2>0b, Zenon DEF mount_read, TypeOK
    <3> QED BY <2>19, <3>1, <3>2, Zenon DEF mount_read, TypeOK
  <2>20. CASE ReadData(t)
    <3>1. PICK b \in FreadBlock(pos, current[t][LENGTH]) : Answer(t, "ok", Slice(b, req[t]))
      BY <2>20 DEF ReadData
    <3>2. b \in Seq(Nat)
      BY <2>0b, BlockType, Zenon DEF TypeOK
    <3>3. req[t].offset \in Nat /\ req[t].size \in Nat
      <4>1. req[t] \in Requests \/ req[t] = NoRequest
        BY Zenon DEF TypeOK
      <4>2. NoRequest.offset \in Nat /\ NoRequest.size \in Nat
        BY DEF NoRequest
      <4> QED BY <2>0g, <4>1, <4>2, Zenon
    <3>4. Slice(b, req[t]) \in Seq(Nat)
      BY <3>2, <3>3, SliceType
    <3>5. pos' \in Nat
      BY <2>20, <2>0, <2>0b, Zenon DEF ReadData, TypeOK
    <3> QED BY <2>20, <3>1, <3>4, <3>5, <2>0k, Zenon DEF ReadData, TypeOK
  <2> QED BY <2>1, <2>2, <2>3, <2>4, <2>5, <2>6, <2>7, <2>8, <2>9, <2>10, <2>11,
             <2>12, <2>13, <2>14, <2>15, <2>16, <2>17, <2>18, <2>19, <2>20, <1>4 DEF Work
<1> QED BY <1>1, <1>2, <1>3, <1>4 DEF Next

----------------------------------------------------------------------------
(* What WriteOnceFS promises, case by case *)

ENOENT == Reply("ENOENT", <<>>)

LEMMA PromisedTop ==
  ASSUME Genuine, NEW r, r.path = <<>>
  PROVE  /\ r.op = "getattr" =>
              Service!Promised(disk.fs, r) = Reply("ok", <<DIRECTORY, 2, 0>>)
         /\ r.op = "readdir" => Service!Promised(disk.fs, r) = Reply("ok", Root)
<1>0. r.path \notin DOMAIN disk.fs
  BY ObjectFacts, ZenonT(60)
<1>1. r.op = "getattr" =>
        Service!Promised(disk.fs, r) = Reply("ok", <<DIRECTORY, 2, 0>>)
  BY <1>0 DEF Service!Promised, Service!Reply, Reply, Service!DIRECTORY, DIRECTORY
<1>2. (CHOOSE p \in DOMAIN disk.fs : Len(p) = 1) = Root
  <2>1. Root \in DOMAIN disk.fs /\ Len(Root) = 1
    BY ImageFacts DEF Root
  <2> QED BY <2>1, OneRoot
<1>3. r.op = "readdir" => Service!Promised(disk.fs, r) = Reply("ok", Root)
  BY <1>0, <1>2, Zenon DEF Service!Promised, Service!Reply, Reply
<1> QED BY <1>1, <1>3

LEMMA PromisedNothing ==
  ASSUME NEW r, r.path # <<>>, r.path \notin DOMAIN disk.fs
  PROVE  Service!Promised(disk.fs, r) = ENOENT
BY DEF Service!Promised, Service!Reply, Reply, ENOENT

LEMMA PromisedObject ==
  ASSUME NEW r, r.path # <<>>, r.path \in DOMAIN disk.fs
  PROVE  LET o == disk.fs[r.path]
             answer == Service!Promised(disk.fs, r)
         IN  /\ r.op = "getattr" => answer = Reply("ok", <<o.type, Size(o), o.time>>)
             /\ r.op = "readdir" =>
                  answer = IF o.type = DIRECTORY THEN Reply("ok", o.kids) ELSE ENOENT
             /\ r.op = "open" =>
                  answer = IF o.type = PLAIN_FILE
                           THEN Reply(IF r.write THEN "EACCES" ELSE "ok", <<>>)
                           ELSE ENOENT
             /\ r.op = "read" =>
                  answer = IF o.type = PLAIN_FILE
                           THEN Reply("ok", Service!Part(o.bytes, r.offset, r.size))
                           ELSE ENOENT
BY DEF Service!Promised, Service!Reply, Reply, Service!DIRECTORY, DIRECTORY,
       Service!PLAIN_FILE, PLAIN_FILE, Service!Size, Size, ENOENT

----------------------------------------------------------------------------
(* Steps of a thread that answer, and what they answer *)

LEMMA AnswerKeeps ==
  ASSUME TypeOK, NEW t \in Threads, ThreadInv(t), NEW err, NEW bytes,
         pc[t] # "idle", Answer(t, err, bytes),
         Reply(err, bytes) = Service!Promised(disk.fs, req[t]),
         UNCHANGED <<disk, req, caller>>
  PROVE  ThreadInv(t)'
<1>1. pc'[t] = "done" /\ reply'[t] = Reply(err, bytes)
  BY DEF Answer, Go, TypeOK
<1>2. RequestInv(t)'
  BY <1>1 DEF ThreadInv, RequestInv, KernelAsks
<1>3. TopInv(t)' /\ RootInv(t)' /\ FindInv(t)' /\ ListInv(t)'
  BY <1>1, Zenon DEF ThreadInv, TopInv, RootInv, FindInv, ListInv, Path, Reading, Looping
<1>4. HeaderInv(t)' /\ PointerInv(t)' /\ CompareInv(t)' /\ FoundInv(t)'
  BY <1>1 DEF HeaderInv, PointerInv, CompareInv, FoundInv, Reading
<1>5. reply'[t] = Service!Promised(disk'.fs, req'[t])
  BY <1>1
<1>6. ReplyInv(t)'
  BY <1>1, <1>5 DEF ReplyInv
<1> QED BY <1>2, <1>3, <1>4, <1>6 DEF ThreadInv

\* A header that is held has the object's size, time and type.
LEMMA HeldHeader ==
  ASSUME Genuine, NEW p \in DOMAIN disk.fs, NEW h, Holds(h, p, Fields)
  PROVE  /\ h[NAME] = Last(p)
         /\ h[LENGTH] = Size(disk.fs[p])
         /\ h[TIME] = disk.fs[p].time
         /\ h[TYPE] = disk.fs[p].type
         /\ h[OFFSET] = Cell(disk.image, disk.at[p] + OFFSET)
         /\ h[OFFSET] + Size(disk.fs[p]) <= Len(disk.image)
<1>1. HeaderEncodes(disk.image, disk.at[p], Last(p), disk.fs[p])
  BY HeaderFacts
<1>2. {NAME, LENGTH, TIME, OFFSET, TYPE} \subseteq Fields
  BY DEF Fields, NAME, LENGTH, TIME, OFFSET, TYPE
<1> QED BY <1>1, <1>2, Zenon DEF HeaderEncodes, Holds

LEMMA StatRootStep ==
  ASSUME TypeOK, Genuine, NEW t \in Threads, ThreadInv(t), StatRoot(t)
  PROVE  ThreadInv(t)'
BY AnswerKeeps, PromisedTop DEF StatRoot

LEMMA GotTopStep ==
  ASSUME TypeOK, Genuine, NEW t \in Threads, ThreadInv(t), GotTop(t)
  PROVE  ThreadInv(t)'
<1>1. req[t].op = "readdir" /\ req[t].path = <<>>
  BY DEF GotTop, ThreadInv, TopInv, Path
<1>2. Holds(hdr[t], Root, Fields)
  BY DEF GotTop, ThreadInv, HeaderInv, Target
<1>3. hdr[t][NAME] = Last(Root)
  BY <1>2, ImageFacts, HeldHeader
<1>4. <<hdr[t][NAME]>> = Root
  BY <1>3 DEF Root, Last
<1>5. Reply("ok", <<hdr[t][NAME]>>) = Service!Promised(disk.fs, req[t])
  BY <1>1, <1>4, PromisedTop
<1> QED BY <1>5, AnswerKeeps DEF GotTop

\* The root is not the one asked for.
LEMMA MismatchStep ==
  ASSUME TypeOK, Genuine, NEW t \in Threads, ThreadInv(t), Mismatch(t)
  PROVE  ThreadInv(t)'
<1>1. TokenInv(t) /\ req[t] \in Requests
  BY DEF Mismatch, ThreadInv, CompareInv, RequestInv
<1>2. Path(t) \in Seq(Nat) /\ rest \in Seq(Nat)
  BY <1>1, RequestAssumption DEF Path, TypeOK
<1>3. Path(t) # <<>>
  BY <1>1, <1>2 DEF TokenInv, Given
<1>4. CASE caller[t] = "root"
  <2>1. current[t][NAME] = Last(Root) /\ Given(t) = 1
    BY <1>4, ImageFacts, HeldHeader
       DEF Mismatch, ThreadInv, CompareInv, RootInv, Reading
  <2>2. Path(t)[1] # Cell(disk.image, NAME)
    BY <2>1, <1>1 DEF Mismatch, TokenInv, Root, Last
  <2>2a. Len(SubSeq(Path(t), 1, 1)) = 1 /\ SubSeq(Path(t), 1, 1)[1] = Path(t)[1]
    BY <1>2, <1>3, NonEmpty, PrefixFacts
  <2>2b. Root[1] = Cell(disk.image, NAME)
    BY DEF Root
  <2>3. SubSeq(Path(t), 1, 1) # Root
    BY <2>2, <2>2a, <2>2b
  <2>4. SubSeq(Path(t), 1, 1) \notin DOMAIN disk.fs
    BY <2>3, <2>2a, OneRoot, Zenon
  <2>5. Path(t) \notin DOMAIN disk.fs
    BY <2>4, <1>2, <1>3, ObjectFacts
  <2>6. Service!Promised(disk.fs, req[t]) = ENOENT
    BY <2>5, <1>3, PromisedNothing DEF Path
  <2> QED BY <2>6, AnswerKeeps DEF Mismatch, ENOENT
<1>5. CASE caller[t] = "find"
  <2>1. current[t][NAME] = Last(Prefix(t, Given(t)))
    BY <1>5, HeldHeader DEF Mismatch, ThreadInv, CompareInv
  <2>2. Last(Prefix(t, Given(t))) = Path(t)[Given(t)]
    BY <1>1, <1>2 DEF TokenInv, Prefix, Last
  <2> QED BY <1>1, <2>1, <2>2, Zenon DEF Mismatch, TokenInv
<1>6. caller[t] \in {"root", "find"}
  BY DEF Mismatch, ThreadInv, TopInv, ListInv, Reading, Looping, TypeOK, Callers
<1> QED BY <1>4, <1>5, <1>6

\* No child of the directory has the name asked for.
LEMMA NotFoundStep ==
  ASSUME TypeOK, Genuine, NEW t \in Threads, ThreadInv(t), NotFound(t)
  PROVE  ThreadInv(t)'
<1> DEFINE n == Given(t)
<1>1. /\ TokenInv(t) /\ n > 1 /\ LoopInv(t)
      /\ \A k \in 1..i[t] : Kids(t)[k] # token[t]
      /\ req[t] \in Requests
  BY Zenon DEF NotFound, ThreadInv, FindInv, RequestInv, Looping
<1>2. Path(t) \in Seq(Nat) /\ rest \in Seq(Nat)
  BY <1>1, RequestAssumption DEF Path, TypeOK
<1>3. n \in 1..Len(Path(t)) /\ Path(t) # <<>>
  BY <1>1, <1>2 DEF TokenInv
<1>4. Kids(t) \in Seq(Nat) /\ i[t] \in Nat
  BY <1>1, ObjectFacts, Zenon DEF LoopInv, Kids, TypeOK
<1>5. i[t] = Len(Kids(t))
  <2>1. current[t][LENGTH] = Len(Kids(t))
    BY <1>1, HeldHeader DEF LoopInv, Kids, Size
  <2> QED BY <2>1, <1>1, <1>4 DEF NotFound, LoopInv
<1>6. Folder(t) = Prefix(t, n - 1)
  BY DEF Folder, NotFound
<1>7. Prefix(t, n) \notin DOMAIN disk.fs
  <2>1. n - 1 \in 0..Len(Path(t)) /\ n - 1 # Len(Path(t)) /\ n - 1 + 1 = n
    BY <1>2, <1>3
  <2>2. Front(Prefix(t, n)) = Folder(t) /\ Last(Prefix(t, n)) = token[t] /\ Len(Prefix(t, n)) = n
    <3>1. Front(SubSeq(Path(t), 1, n)) = SubSeq(Path(t), 1, n - 1)
      BY <2>1, <1>2, PrefixExtended
    <3>2. Last(SubSeq(Path(t), 1, n)) = Path(t)[n]
      BY <2>1, <1>2, PrefixExtended
    <3>3. Len(SubSeq(Path(t), 1, n)) = n
      BY <1>2, <1>3, PrefixFacts
    <3>4. token[t] = Path(t)[n]
      BY <1>1 DEF TokenInv
    <3> QED BY <3>1, <3>2, <3>3, <3>4, <1>6, Zenon DEF Prefix
  <2>3. SUFFICES ASSUME Prefix(t, n) \in DOMAIN disk.fs PROVE FALSE
    OBVIOUS
  <2>4. PICK k \in DOMAIN Kids(t) : Kids(t)[k] = token[t]
    <3> HIDE DEF n
    <3> QED BY <2>2, <2>3, <1>1, ObjectFacts DEF Kids
  <2>5. k \in 1..i[t]
    BY <1>4, <1>5
  <2> QED BY <2>4, <2>5, <1>1
<1>8. Path(t) \notin DOMAIN disk.fs
  BY <1>7, <1>3, ObjectFacts DEF Prefix
<1>9. Service!Promised(disk.fs, req[t]) = ENOENT
  BY <1>8, <1>3, PromisedNothing DEF Path
<1> QED BY <1>9, AnswerKeeps DEF NotFound, ENOENT

\* All children have been listed.
LEMMA AllListedStep ==
  ASSUME TypeOK, Genuine, NEW t \in Threads, ThreadInv(t), AllListed(t)
  PROVE  ThreadInv(t)'
<1>1. /\ LoopInv(t) /\ Path(t) # <<>> /\ req[t].op = "readdir"
      /\ reply[t] = Reply("ok", SubSeq(Kids(t), 1, i[t]))
  BY DEF AllListed, ThreadInv, ListInv, Looping
<1>2. Kids(t) \in Seq(Nat) /\ i[t] \in Nat
  BY <1>1, ObjectFacts, Zenon DEF LoopInv, Kids, TypeOK
<1>3. i[t] = Len(Kids(t))
  <2>1. current[t][LENGTH] = Len(Kids(t))
    BY <1>1, HeldHeader DEF LoopInv, Kids, Size
  <2> QED BY <2>1, <1>1, <1>2 DEF AllListed, LoopInv
<1>4. reply[t].out = Kids(t)
  BY <1>1, <1>2, <1>3, WholePrefix DEF Reply
<1>5. Folder(t) = req[t].path
  BY DEF Folder, Path, AllListed
<1>6. Reply("ok", reply[t].out) = Service!Promised(disk.fs, req[t])
  BY <1>1, <1>4, <1>5, PromisedObject, Zenon DEF LoopInv, Kids, Path
<1> QED BY <1>6, AnswerKeeps DEF AllListed

LEMMA FoundFacts ==
  ASSUME Genuine, NEW t \in Threads, ThreadInv(t), pc[t] \in {"found", "data"}
  PROVE  /\ req[t] \in Requests /\ req[t].path # <<>>
         /\ req[t].path \in DOMAIN disk.fs
         /\ current[t][LENGTH] = Size(disk.fs[req[t].path])
         /\ current[t][TIME] = disk.fs[req[t].path].time
         /\ current[t][TYPE] = disk.fs[req[t].path].type
         /\ current[t][OFFSET] = Cell(disk.image, disk.at[req[t].path] + OFFSET)
         /\ current[t][OFFSET] + current[t][LENGTH] <= Len(disk.image)
         /\ disk.fs[req[t].path].type \in {DIRECTORY, PLAIN_FILE}
<1>1. req[t].path \in DOMAIN disk.fs /\ Holds(current[t], req[t].path, Fields)
  BY DEF ThreadInv, FoundInv, Path
<1>2. req[t] \in Requests
  BY DEF ThreadInv, RequestInv
<1> QED BY <1>1, <1>2, HeldHeader, ObjectFacts, Zenon

LEMMA GetattrStep ==
  ASSUME TypeOK, Genuine, NEW t \in Threads, ThreadInv(t), mount_getattr(t)
  PROVE  ThreadInv(t)'
<1> DEFINE h == current[t]
<1>1. pc[t] = "found" /\ req[t].op = "getattr"
  BY DEF mount_getattr, Found
<1>2. h[TYPE] \in {DIRECTORY, PLAIN_FILE}
  BY <1>1, FoundFacts
<1>3. Answer(t, "ok", <<h[TYPE], h[LENGTH], h[TIME]>>) /\ UNCHANGED <<disk, req, caller>>
  BY <1>2 DEF mount_getattr
<1>4. Reply("ok", <<h[TYPE], h[LENGTH], h[TIME]>>) = Service!Promised(disk.fs, req[t])
  BY <1>1, FoundFacts, PromisedObject, Zenon
<1> QED BY <1>1, <1>3, <1>4, AnswerKeeps

LEMMA OpenStep ==
  ASSUME TypeOK, Genuine, NEW t \in Threads, ThreadInv(t), mount_open(t)
  PROVE  ThreadInv(t)'
<1> DEFINE err == IF current[t][TYPE] # PLAIN_FILE THEN "ENOENT"
                  ELSE IF req[t].write THEN "EACCES" ELSE "ok"
<1>1. pc[t] = "found" /\ req[t].op = "open"
  BY DEF mount_open, Found
<1>2. Answer(t, err, <<>>) /\ UNCHANGED <<disk, req, caller>>
  BY DEF mount_open
<1>3. Reply(err, <<>>) = Service!Promised(disk.fs, req[t])
  BY <1>1, FoundFacts, PromisedObject, Zenon DEF ENOENT
<1> HIDE DEF err
<1> QED BY <1>1, <1>2, <1>3, AnswerKeeps

\* mount_read() hands out the part of the file that was asked for.
LEMMA SliceIsPart ==
  ASSUME NEW b \in Seq(Nat), NEW r, r.offset \in Nat, r.size \in Nat
  PROVE  Slice(b, r) = Service!Part(b, r.offset, r.size)
<1> DEFINE least == IF r.size <= Len(b) - r.offset THEN r.size ELSE Len(b) - r.offset
           len == IF 0 >= least THEN 0 ELSE least
<1>1. {n \in 1..r.size : r.offset + n <= Len(b)} = 1..len
  OBVIOUS
<1>3. Service!Part(b, r.offset, r.size) = [k \in 1..len |-> b[r.offset + k]]
  BY <1>1, Zenon DEF Service!Part
<1>4. CASE r.offset < Len(b)
  <2>0. /\ (IF r.offset + r.size > Len(b) THEN Len(b) ELSE r.offset + r.size) = r.offset + len
        /\ len \in Nat /\ r.offset + len <= Len(b)
    BY <1>4
  <2> HIDE DEF len
  <2>1. Slice(b, r) = SubSeq(b, r.offset + 1, r.offset + len)
    BY <2>0, <1>4, Zenon DEF Slice
  <2>2. SubSeq(b, r.offset + 1, r.offset + len) = [k \in 1..len |-> b[r.offset + k]]
    BY <2>0, MiddleFacts, Zenon
  <2> QED BY <2>1, <2>2, <1>3
<1>5. CASE ~(r.offset < Len(b))
  <2>1. len = 0
    BY <1>5
  <2>2. [k \in 1..len |-> b[r.offset + k]] = <<>>
    BY <2>1
  <2> QED BY <2>2, <1>3, <1>5 DEF Slice
<1> QED BY <1>4, <1>5

LEMMA ReadDataStep ==
  ASSUME TypeOK, Genuine, NEW t \in Threads, ThreadInv(t), ReadData(t)
  PROVE  ThreadInv(t)'
<1> DEFINE o == disk.fs[req[t].path]
<1>1. pc[t] = "data" /\ req[t].op = "read" /\ o.type = PLAIN_FILE /\ pos = current[t][OFFSET]
  BY DEF ReadData, ThreadInv, FoundInv, Path
<1>2. o.bytes \in Seq(Nat) /\ current[t][LENGTH] = Len(o.bytes) /\ pos \in Nat
  <2>1. o.type # DIRECTORY
    BY <1>1 DEF DIRECTORY, PLAIN_FILE
  <2> QED BY <1>1, <2>1, FoundFacts, ObjectFacts, Zenon DEF Size, TypeOK
<1>3. PICK b \in FreadBlock(pos, Len(o.bytes)) : Answer(t, "ok", Slice(b, req[t]))
  BY <1>2 DEF ReadData
<1>4. b \in Seq(Nat) /\ Len(b) = Len(o.bytes) /\ \A k \in 1..Len(b) : b[k] \in Fread(pos + k - 1)
  BY <1>2, BlockType
<1>5. \A k \in 1..Len(b) : b[k] = o.bytes[k]
  <2> TAKE k \in 1..Len(b)
  <2>1. pos + k - 1 < Len(disk.image)
    <3>1. pos + Len(o.bytes) <= Len(disk.image)
      BY <1>1, <1>2, FoundFacts
    <3>2. Len(disk.image) \in Nat
      BY ImageFacts
    <3>3. PICK n \in Nat, m \in Nat : n = Len(o.bytes) /\ m = Len(disk.image)
      BY <1>2, <3>2, LengthNat, Zenon
    <3>4. k \in 1..n /\ pos + n <= m /\ pos \in Nat
      BY <1>2, <1>4, <3>1, <3>3, Zenon
    <3>5. pos + k - 1 < m
      BY <3>4
    <3> QED BY <3>3, <3>5, Zenon
  <2>2. b[k] = Cell(disk.image, pos + k - 1)
    BY <2>1, <1>4, Zenon DEF Fread
  <2>3. Cell(disk.image, pos + k - 1) = o.bytes[k]
    <3>1. k \in DOMAIN o.bytes
      <4> HIDE DEF o
      <4> QED BY <1>2, <1>4
    <3>2. pos = Cell(disk.image, disk.at[req[t].path] + OFFSET)
      BY <1>1, FoundFacts
    <3> QED BY <3>1, <3>2, <1>1, FoundFacts, ByteFacts, Zenon
  <2> QED BY <2>2, <2>3
<1>6. b = o.bytes
  <2> HIDE DEF o
  <2> QED BY <1>2, <1>4, <1>5, SameSeq
<1>7. req[t] \in Requests /\ req[t].offset \in Nat /\ req[t].size \in Nat
  BY <1>1, FoundFacts, RequestAssumption
<1>8. Reply("ok", Slice(b, req[t])) = Service!Promised(disk.fs, req[t])
  <2>1. Slice(b, req[t]) = Service!Part(o.bytes, req[t].offset, req[t].size)
    BY <1>2, <1>6, <1>7, SliceIsPart
  <2> QED BY <2>1, <1>1, FoundFacts, PromisedObject, Zenon
<1>9. UNCHANGED <<disk, req, caller>>
  BY DEF ReadData
<1> QED BY <1>1, <1>3, <1>8, <1>9, AnswerKeeps, Zenon

LEMMA ReadStep ==
  ASSUME TypeOK, Genuine, NEW t \in Threads, ThreadInv(t), mount_read(t)
  PROVE  ThreadInv(t)'
<1>1. pc[t] = "found" /\ req[t].op = "read" /\ UNCHANGED <<disk, req, caller, current, rest>>
  BY DEF mount_read, Found
<1>2. CASE current[t][TYPE] # PLAIN_FILE
  <2>1. Answer(t, "ENOENT", <<>>)
    BY <1>2 DEF mount_read
  <2>2. Reply("ENOENT", <<>>) = Service!Promised(disk.fs, req[t])
    BY <1>1, <1>2, FoundFacts, PromisedObject, Zenon DEF ENOENT
  <2> QED BY <1>1, <2>1, <2>2, AnswerKeeps
<1>3. CASE current[t][TYPE] = PLAIN_FILE
  <2>1. pc'[t] = "data" /\ pos' = current[t][OFFSET] /\ reply' = reply
    BY <1>3 DEF mount_read, Go, TypeOK
  <2>2. disk.fs[req[t].path].type = PLAIN_FILE
    BY <1>1, <1>3, FoundFacts, Zenon
  <2>3. FoundInv(t)'
    BY <1>1, <2>1, <2>2 DEF ThreadInv, FoundInv, Path, Holds
  <2>4. RequestInv(t)' /\ ReplyInv(t)'
    BY <1>1, <2>1, Zenon DEF ThreadInv, RequestInv, ReplyInv, KernelAsks
  <2>5. TopInv(t)' /\ RootInv(t)' /\ FindInv(t)' /\ ListInv(t)'
    BY <1>1, <2>1, Zenon DEF ThreadInv, TopInv, RootInv, FindInv, ListInv, Reading, Looping
  <2>6. HeaderInv(t)' /\ PointerInv(t)' /\ CompareInv(t)'
    BY <2>1, Zenon DEF HeaderInv, PointerInv, CompareInv, Reading
  <2> QED BY <2>3, <2>4, <2>5, <2>6 DEF ThreadInv
<1> QED BY <1>2, <1>3

----------------------------------------------------------------------------
(* Requests that come and go *)

LEMMA BeginStep ==
  ASSUME TypeOK, NEW t \in Threads, ThreadInv(t), NEW r \in Requests, Begin(t, r)
  PROVE  ThreadInv(t)'
<1>1. /\ pc[t] = "idle" /\ pc'[t] = "begin" /\ req'[t] = r
      /\ UNCHANGED <<disk, caller, reply>>
  BY DEF Begin, Go, TypeOK
<1>2. caller[t] \notin {"top", "find", "list"}
  BY <1>1, Zenon DEF ThreadInv, TopInv, FindInv, ListInv, Reading, Looping
<1>3. RequestInv(t)'
  BY <1>1, Zenon DEF RequestInv, Begin, KernelAsks
<1>4. TopInv(t)' /\ RootInv(t)' /\ FindInv(t)' /\ ListInv(t)'
  BY <1>1, <1>2, Zenon DEF TopInv, RootInv, FindInv, ListInv, Reading, Looping
<1>5. HeaderInv(t)' /\ PointerInv(t)' /\ CompareInv(t)' /\ FoundInv(t)'
  BY <1>1 DEF HeaderInv, PointerInv, CompareInv, FoundInv, Reading
<1>6. ReplyInv(t)'
  BY <1>1, <1>2, Zenon DEF ThreadInv, ReplyInv
<1> QED BY <1>3, <1>4, <1>5, <1>6 DEF ThreadInv

LEMMA FinishStep ==
  ASSUME TypeOK, NEW t \in Threads, Finish(t)
  PROVE  ThreadInv(t)'
<1>1. /\ pc'[t] = "idle" /\ req'[t] = NoRequest /\ caller'[t] = "root"
      /\ reply'[t] = Reply("ok", <<>>)
  BY DEF Finish, Go, TypeOK
<1>2. RequestInv(t)' /\ ReplyInv(t)'
  BY <1>1 DEF RequestInv, ReplyInv
<1>3. TopInv(t)' /\ RootInv(t)' /\ FindInv(t)' /\ ListInv(t)'
  BY <1>1, Zenon DEF TopInv, RootInv, FindInv, ListInv, Reading, Looping
<1>4. HeaderInv(t)' /\ PointerInv(t)' /\ CompareInv(t)' /\ FoundInv(t)'
  BY <1>1 DEF HeaderInv, PointerInv, CompareInv, FoundInv, Reading
<1> QED BY <1>2, <1>3, <1>4 DEF ThreadInv

----------------------------------------------------------------------------
(* readHeader *)

\* readHeader() is called with the offset of the header it is to read.
LEMMA ReadHeaderKeeps ==
  ASSUME TypeOK, NEW t \in Threads, NEW off, NEW who,
         ReadHeader(t, off, who), off = disk'.at[Target(t)'],
         RequestInv(t)', TopInv(t)', RootInv(t)', FindInv(t)', ListInv(t)', ReplyInv(t)'
  PROVE  ThreadInv(t)'
<1>1. pc'[t] = "seek" /\ at'[t] = off
  BY DEF ReadHeader, Go, TypeOK
<1>2. HeaderInv(t)'
  BY <1>1, Zenon DEF HeaderInv
<1>3. PointerInv(t)' /\ CompareInv(t)' /\ FoundInv(t)'
  BY <1>1, Zenon DEF PointerInv, CompareInv, FoundInv
<1> QED BY <1>2, <1>3 DEF ThreadInv

LEMMA ListRootStep ==
  ASSUME TypeOK, Genuine, NEW t \in Threads, ThreadInv(t), ListRoot(t)
  PROVE  ThreadInv(t)'
<1>1. /\ pc[t] = "begin" /\ pc'[t] = "seek" /\ caller'[t] = "top"
      /\ req[t].path = <<>> /\ req[t].op = "readdir"
      /\ ReadHeader(t, 0, "top") /\ UNCHANGED <<disk, req, reply>>
  BY DEF ListRoot, ReadHeader, Go, TypeOK
<1>2. caller[t] # "list"
  BY <1>1, Zenon DEF ThreadInv, ListInv, Reading, Looping
<1>3. RequestInv(t)' /\ ReplyInv(t)'
  BY <1>1, <1>2, Zenon DEF ThreadInv, RequestInv, ReplyInv, KernelAsks
<1>4. TopInv(t)' /\ RootInv(t)' /\ FindInv(t)' /\ ListInv(t)'
  BY <1>1, Zenon DEF TopInv, RootInv, FindInv, ListInv, Path, Reading
<1>5. disk'.at[Target(t)'] = 0
  <2>1. Target(t)' = Root
    BY <1>1 DEF Target, Root
  <2>2. Len(Root) = 1
    BY DEF Root
  <2> QED BY <1>1, <2>1, <2>2, ImageFacts, ObjectFacts, Zenon
<1> QED BY <1>1, <1>3, <1>4, <1>5, ReadHeaderKeeps

LEMMA FirstTokenStep ==
  ASSUME TypeOK, Genuine, NEW t \in Threads, ThreadInv(t), FirstToken(t)
  PROVE  ThreadInv(t)'
<1>1. /\ pc[t] = "begin" /\ pc'[t] = "seek" /\ caller'[t] = "root"
      /\ req[t].path # <<>> /\ req[t] \in Requests
      /\ rest' = Rest(req[t].path) /\ token'[t] = Token(req[t].path)
      /\ ReadHeader(t, 0, "root") /\ UNCHANGED <<disk, req, reply>>
  BY Zenon DEF FirstToken, ReadHeader, Go, TypeOK, ThreadInv, RequestInv
<1>2. caller[t] # "list"
  BY <1>1, Zenon DEF ThreadInv, ListInv, Reading, Looping
<1>3. RequestInv(t)' /\ ReplyInv(t)'
  BY <1>1, <1>2, Zenon DEF ThreadInv, RequestInv, ReplyInv, KernelAsks
<1>4. TokenInv(t)' /\ Given(t)' = 1
  <2>1. req[t].path \in Seq(Nat)
    BY <1>1, RequestAssumption
  <2>2. rest' = Tail(req[t].path) /\ token'[t] = req[t].path[1]
    BY <1>1, <2>1 DEF Rest, Token
  <2>3. Path(t)' = req[t].path
    BY <1>1, Zenon DEF Path
  <2>4. PICK p \in Seq(Nat) : p = req[t].path /\ p # <<>>
    BY <1>1, <2>1, Zenon
  <2>5. Len(p) - Len(Tail(p)) = 1 /\ Len(p) >= 1 /\ \A k \in 1..Len(Tail(p)) : Tail(p)[k] = p[1 + k]
    BY <2>4
  <2>6. Given(t)' = 1
    BY <2>2, <2>3, <2>4, <2>5, Zenon DEF Given
  <2> QED BY <2>2, <2>3, <2>4, <2>5, <2>6 DEF TokenInv
<1>5. TopInv(t)' /\ RootInv(t)' /\ FindInv(t)' /\ ListInv(t)'
  BY <1>1, <1>4, Zenon DEF TopInv, RootInv, FindInv, ListInv, Reading
<1>6. disk'.at[Target(t)'] = 0
  <2>1. Target(t)' = Root
    BY <1>1, Zenon DEF Target, Root
  <2>2. Len(Root) = 1
    BY DEF Root
  <2> QED BY <1>1, <2>1, <2>2, ImageFacts, ObjectFacts
<1> QED BY <1>1, <1>3, <1>5, <1>6, ReadHeaderKeeps

\* The steps of readHeader() change nothing but the header and the position.
LEMMA ReadingKeeps ==
  ASSUME NEW t \in Threads, ThreadInv(t), pc[t] \in Reading, pc'[t] \in Reading,
         HeaderInv(t)',
         UNCHANGED <<disk, rest, req, caller, token, current, i, reply>>
  PROVE  ThreadInv(t)'
<1>1. Folder(t)' = Folder(t) /\ Kids(t)' = Kids(t) /\ Given(t)' = Given(t) /\ Path(t)' = Path(t)
  BY DEF Folder, Kids, Prefix, Given, Path
<1>2. pc[t] \notin {"idle", "begin", "scan", "pointer", "compare", "found", "data", "done"}
  BY DEF Reading
<1>3. pc'[t] \notin {"idle", "begin", "scan", "pointer", "compare", "found", "data", "done"}
  BY DEF Reading
<1>4. pc[t] \in Looping /\ pc'[t] \in Looping
  BY DEF Looping
<1>5. RequestInv(t)' /\ ReplyInv(t)'
  BY <1>2, <1>3 DEF ThreadInv, RequestInv, ReplyInv, KernelAsks
<1>6. TopInv(t)'
  BY <1>1, Zenon DEF ThreadInv, TopInv
<1>7. TokenInv(t) => TokenInv(t)'
  BY <1>1, Zenon DEF TokenInv
<1>8. LoopInv(t) => LoopInv(t)'
  BY <1>1, <1>2, <1>3 DEF LoopInv, Holds
<1>9. RootInv(t)'
  BY <1>1, <1>3, <1>7, Zenon DEF ThreadInv, RootInv
<1>10. FindInv(t)'
  BY <1>1, <1>3, <1>4, <1>7, <1>8, Zenon DEF ThreadInv, FindInv
<1>11. ListInv(t)'
  BY <1>1, <1>4, <1>8, Zenon DEF ThreadInv, ListInv
<1>12. PointerInv(t)' /\ CompareInv(t)' /\ FoundInv(t)'
  BY <1>3, Zenon DEF PointerInv, CompareInv, FoundInv
<1> QED BY <1>5, <1>6, <1>9, <1>10, <1>11, <1>12 DEF ThreadInv

\* The header that is read is that of an object, and lies in the image.
LEMMA TargetFacts ==
  ASSUME TypeOK, Genuine, NEW t \in Threads, ThreadInv(t), pc[t] \in Reading
  PROVE  /\ Target(t) \in DOMAIN disk.fs
         /\ at[t] = disk.at[Target(t)]
         /\ at[t] \in Nat /\ at[t] + M_HDR_SIZE <= Len(disk.image)
<1>1. at[t] = disk.at[Target(t)]
  BY DEF ThreadInv, HeaderInv
<1>2. Target(t) \in DOMAIN disk.fs
  <2>1. CASE caller[t] \in {"find", "list"}
    <3>1. LoopInv(t) /\ pc[t] # "scan"
      BY <2>1 DEF ThreadInv, FindInv, ListInv, Looping, Reading
    <3>2. Kids(t) \in Seq(Nat)
      BY <3>1, ObjectFacts DEF LoopInv, Kids
    <3>3. i[t] + 1 \in DOMAIN Kids(t)
      BY <3>1, <3>2 DEF LoopInv, TypeOK
    <3> QED BY <2>1, <3>1, <3>3, ChildFacts DEF LoopInv, Kids, Target
  <2>2. CASE caller[t] \notin {"find", "list"}
    BY <2>2, ImageFacts DEF Target
  <2> QED BY <2>1, <2>2, Zenon
<1>3. at[t] \in Nat /\ at[t] + M_HDR_SIZE <= Len(disk.image)
  BY <1>1, <1>2, HeaderFacts DEF HeaderEncodes
<1> QED BY <1>1, <1>2, <1>3, Zenon

LEMMA SeekHeaderStep ==
  ASSUME TypeOK, Genuine, NEW t \in Threads, ThreadInv(t), SeekHeader(t)
  PROVE  ThreadInv(t)'
<1>1. UNCHANGED <<disk, rest, req, caller, token, current, hdr, at, i, reply>>
  BY DEF SeekHeader
<1>2. Target(t)' = Target(t) /\ pc[t] \in Reading
  BY <1>1 DEF Target, Folder, Kids, Prefix, Given, Path, Root, SeekHeader, Reading
<1>3. at[t] = disk.at[Target(t)] /\ (pc[t] = "reseek" => Holds(hdr[t], Target(t), {NAME}))
  BY <1>2, Zenon DEF ThreadInv, HeaderInv
<1>4. \/ pc'[t] = "name" /\ pos' = at[t] + NAME
      \/ pc'[t] = "length" /\ pos' = at[t] + LENGTH /\ pc[t] = "reseek"
  BY Zenon DEF SeekHeader, Go, TypeOK
<1>5. HeaderInv(t)'
  BY <1>1, <1>2, <1>3, <1>4, Zenon DEF HeaderInv, Holds
<1>6. pc'[t] \in Reading
  BY <1>4 DEF Reading
<1> QED BY <1>1, <1>2, <1>5, <1>6, ReadingKeeps

\* fread() has added one field to the header.
FieldRead(t, field, next, before) ==
  /\ pc'[t] = next
  /\ UNCHANGED <<disk, rest, req, caller, token, current, at, i, reply>>
  /\ Target(t)' = Target(t)
  /\ at'[t] = disk.at[Target(t)]
  /\ Holds(hdr'[t], Target(t), before \cup {field})
  /\ pos' = at[t] + field + 1

LEMMA FreadFieldStep ==
  ASSUME TypeOK, Genuine, NEW t \in Threads, ThreadInv(t),
         NEW label \in Reading, NEW field \in Fields, NEW next,
         NEW before, before \subseteq Fields,
         FreadField(t, label, field, next),
         pos = at[t] + field, Holds(hdr[t], Target(t), before)
  PROVE  FieldRead(t, field, next, before)
<1>1. /\ pc[t] = label /\ pc'[t] = next
      /\ UNCHANGED <<disk, rest, req, caller, token, current, at, i, reply>>
      /\ pos' = After(pos, 1)
  BY DEF FreadField, Go, TypeOK
<1>2. Target(t)' = Target(t)
  BY <1>1, Zenon DEF Target, Folder, Kids, Prefix, Given, Path, Root
<1>3. /\ at[t] = disk.at[Target(t)] /\ at[t] \in Nat
      /\ at[t] + M_HDR_SIZE <= Len(disk.image) /\ Len(disk.image) \in Nat
  <2>1. /\ at[t] = disk.at[Target(t)] /\ at[t] \in Nat
        /\ at[t] + M_HDR_SIZE <= Len(disk.image)
    BY <1>1, TargetFacts, Zenon
  <2>2. Len(disk.image) \in Nat
    BY ImageFacts, LengthNat, Zenon
  <2> QED BY <2>1, <2>2, Zenon
<1>4. field \in 0..4 /\ hdr[t] \in [0..4 -> Nat]
  BY Zenon DEF Fields, TypeOK
<1>5. pos + 1 <= Len(disk.image) /\ pos \in Nat
  <2>1. pos = at[t] + field /\ field \in Nat /\ field <= 4
    BY <1>4
  <2> QED BY <2>1, <1>3 DEF M_HDR_SIZE
<1>6. Fread(pos) = {Cell(disk.image, disk.at[Target(t)] + field)}
  BY <1>3, <1>5 DEF Fread
<1>7. hdr'[t] = [hdr[t] EXCEPT ![field] = Cell(disk.image, disk.at[Target(t)] + field)]
  <2>1. PICK v \in Fread(pos) : hdr' = [hdr EXCEPT ![t] = [hdr[t] EXCEPT ![field] = v]]
    BY Zenon DEF FreadField
  <2>2. v = Cell(disk.image, disk.at[Target(t)] + field)
    BY <1>6, Zenon
  <2> QED BY <2>1, <2>2 DEF TypeOK
<1>8. Holds(hdr'[t], Target(t), before \cup {field})
  BY <1>4, <1>7, Zenon DEF Holds, Fields
<1>9. pos' = pos + 1
  BY <1>1, <1>5, Zenon DEF After
<1>10. pos' = at[t] + field + 1
  BY <1>3, <1>4, <1>9, Zenon
<1> QED BY <1>1, <1>2, <1>3, <1>8, <1>10 DEF FieldRead

LEMMA ReadFieldStep ==
  ASSUME TypeOK, Genuine, NEW t \in Threads, ThreadInv(t), ReadField(t)
  PROVE  ThreadInv(t)'
<1>1. HeaderInv(t)
  BY DEF ThreadInv
<1>2. at[t] \in Nat
  BY DEF TypeOK
<1>0. /\ "name" \in Reading /\ "reseek" \in Reading /\ "length" \in Reading
      /\ "time" \in Reading /\ "offset" \in Reading /\ "type" \in Reading
      /\ "got" \in Reading
  BY DEF Reading
<1>0a. /\ NAME \in Fields /\ LENGTH \in Fields /\ TIME \in Fields
       /\ OFFSET \in Fields /\ TYPE \in Fields
       /\ {} \subseteq Fields /\ {NAME} \subseteq Fields /\ 0..1 \subseteq Fields
       /\ 0..2 \subseteq Fields /\ 0..3 \subseteq Fields
  BY DEF Fields, NAME, LENGTH, TIME, OFFSET, TYPE
<1>3. CASE FreadField(t, "name", NAME, "reseek")
  <2>1. pc[t] = "name" /\ pos = at[t] + NAME /\ Holds(hdr[t], Target(t), {})
    BY <1>1, <1>3 DEF FreadField, HeaderInv, Holds
  <2>1a. FieldRead(t, NAME, "reseek", {})
    BY <2>1, <1>3, <1>0, <1>0a, FreadFieldStep, Zenon
  <2>2. /\ pc'[t] = "reseek" /\ Target(t)' = Target(t) /\ at'[t] = disk.at[Target(t)]
        /\ UNCHANGED <<disk, rest, req, caller, token, current, at, i, reply>>
        /\ Holds(hdr'[t], Target(t), {} \cup {NAME})
    BY <2>1a, Zenon DEF FieldRead
  <2>3. HeaderInv(t)'
    BY <2>2, Zenon DEF HeaderInv, Holds
  <2> QED BY <2>1, <2>2, <2>3, <1>0, ReadingKeeps, ZenonT(60)
<1>4. CASE FreadField(t, "length", LENGTH, "time")
  <2>1. pc[t] = "length" /\ pos = at[t] + LENGTH /\ Holds(hdr[t], Target(t), {NAME})
    BY <1>1, <1>4 DEF FreadField, HeaderInv
  <2>1a. FieldRead(t, LENGTH, "time", {NAME})
    BY <2>1, <1>4, <1>0, <1>0a, FreadFieldStep, Zenon
  <2>2. /\ pc'[t] = "time" /\ Target(t)' = Target(t) /\ at'[t] = disk.at[Target(t)]
        /\ UNCHANGED <<disk, rest, req, caller, token, current, at, i, reply>>
        /\ Holds(hdr'[t], Target(t), {NAME} \cup {LENGTH})
        /\ pos' = at[t] + LENGTH + 1
    BY <2>1a, Zenon DEF FieldRead
  <2>3. {NAME} \cup {LENGTH} = 0..1 /\ at[t] + LENGTH + 1 = at[t] + TIME
    BY <1>2 DEF NAME, LENGTH, TIME
  <2>4. HeaderInv(t)'
    BY <2>2, <2>3, Zenon DEF HeaderInv, Holds
  <2> QED BY <2>1, <2>2, <2>4, <1>0, ReadingKeeps
<1>5. CASE FreadField(t, "time", TIME, "offset")
  <2>1. pc[t] = "time" /\ pos = at[t] + TIME /\ Holds(hdr[t], Target(t), 0..1)
    BY <1>1, <1>5 DEF FreadField, HeaderInv
  <2>1a. FieldRead(t, TIME, "offset", 0..1)
    BY <2>1, <1>5, <1>0, <1>0a, FreadFieldStep, Zenon
  <2>2. /\ pc'[t] = "offset" /\ Target(t)' = Target(t) /\ at'[t] = disk.at[Target(t)]
        /\ UNCHANGED <<disk, rest, req, caller, token, current, at, i, reply>>
        /\ Holds(hdr'[t], Target(t), (0..1) \cup {TIME})
        /\ pos' = at[t] + TIME + 1
    BY <2>1a, Zenon DEF FieldRead
  <2>3. (0..1) \cup {TIME} = 0..2 /\ at[t] + TIME + 1 = at[t] + OFFSET
    BY <1>2 DEF TIME, OFFSET
  <2>4. HeaderInv(t)'
    BY <2>2, <2>3, Zenon DEF HeaderInv, Holds
  <2> QED BY <2>1, <2>2, <2>4, <1>0, ReadingKeeps
<1>6. CASE FreadField(t, "offset", OFFSET, "type")
  <2>1. pc[t] = "offset" /\ pos = at[t] + OFFSET /\ Holds(hdr[t], Target(t), 0..2)
    BY <1>1, <1>6 DEF FreadField, HeaderInv
  <2>1a. FieldRead(t, OFFSET, "type", 0..2)
    BY <2>1, <1>6, <1>0, <1>0a, FreadFieldStep, Zenon
  <2>2. /\ pc'[t] = "type" /\ Target(t)' = Target(t) /\ at'[t] = disk.at[Target(t)]
        /\ UNCHANGED <<disk, rest, req, caller, token, current, at, i, reply>>
        /\ Holds(hdr'[t], Target(t), (0..2) \cup {OFFSET})
        /\ pos' = at[t] + OFFSET + 1
    BY <2>1a, Zenon DEF FieldRead
  <2>3. (0..2) \cup {OFFSET} = 0..3 /\ at[t] + OFFSET + 1 = at[t] + TYPE
    BY <1>2 DEF OFFSET, TYPE
  <2>4. HeaderInv(t)'
    BY <2>2, <2>3, Zenon DEF HeaderInv, Holds
  <2> QED BY <2>1, <2>2, <2>4, <1>0, ReadingKeeps
<1>7. CASE FreadField(t, "type", TYPE, "got")
  <2>1. pc[t] = "type" /\ pos = at[t] + TYPE /\ Holds(hdr[t], Target(t), 0..3)
    BY <1>1, <1>7 DEF FreadField, HeaderInv
  <2>1a. FieldRead(t, TYPE, "got", 0..3)
    BY <2>1, <1>7, <1>0, <1>0a, FreadFieldStep, Zenon
  <2>2. /\ pc'[t] = "got" /\ Target(t)' = Target(t) /\ at'[t] = disk.at[Target(t)]
        /\ UNCHANGED <<disk, rest, req, caller, token, current, at, i, reply>>
        /\ Holds(hdr'[t], Target(t), (0..3) \cup {TYPE})
    BY <2>1a, Zenon DEF FieldRead
  <2>3. (0..3) \cup {TYPE} = Fields
    BY DEF Fields, TYPE
  <2>4. HeaderInv(t)'
    BY <2>2, <2>3, Zenon DEF HeaderInv, Holds
  <2> QED BY <2>1, <2>2, <2>4, <1>0, ReadingKeeps
<1> QED BY <1>3, <1>4, <1>5, <1>6, <1>7 DEF ReadField

----------------------------------------------------------------------------
(* find and the loops over the children *)

\* The typing facts that the steps of find need.
LEMMA FindTypes ==
  ASSUME TypeOK, NEW t \in Threads, ThreadInv(t), pc[t] # "idle"
  PROVE  /\ req[t] \in Requests /\ KernelAsks(req[t])
         /\ Path(t) \in Seq(Nat) /\ rest \in Seq(Nat)
         /\ i[t] \in Nat /\ pos \in Nat
<1>1. req[t] \in Requests /\ KernelAsks(req[t])
  BY DEF ThreadInv, RequestInv
<1>2. Path(t) \in Seq(Nat)
  BY <1>1, RequestAssumption DEF Path
<1> QED BY <1>1, <1>2 DEF TypeOK

\* The child whose header has been read.
LEMMA ChildRead ==
  ASSUME TypeOK, Genuine, NEW t \in Threads, ThreadInv(t),
         pc[t] = "got", caller[t] \in {"find", "list"}
  PROVE  /\ LoopInv(t) /\ Kids(t) \in Seq(Nat) /\ i[t] + 1 \in 1..Len(Kids(t))
         /\ Target(t) = Append(Folder(t), Kids(t)[i[t] + 1])
         /\ Target(t) \in DOMAIN disk.fs /\ Holds(hdr[t], Target(t), Fields)
         /\ hdr[t][NAME] = Kids(t)[i[t] + 1]
<1>1. LoopInv(t)
  BY Zenon DEF ThreadInv, FindInv, ListInv, Looping, Reading
<1>2. Kids(t) \in Seq(Nat) /\ Folder(t) \in Seq(Nat) /\ i[t] \in Nat
  BY <1>1, ObjectFacts, Zenon DEF LoopInv, Kids, TypeOK
<1>3. i[t] + 1 \in 1..Len(Kids(t))
  BY <1>1, <1>2 DEF LoopInv
<1>4. Target(t) = Append(Folder(t), Kids(t)[i[t] + 1])
  BY DEF Target
<1>5. Target(t) \in DOMAIN disk.fs /\ Holds(hdr[t], Target(t), Fields)
  BY TargetFacts, Zenon DEF Reading, ThreadInv, HeaderInv
<1>6. hdr[t][NAME] = Last(Target(t))
  BY <1>5, HeldHeader, Zenon
<1>7. Kids(t)[i[t] + 1] \in Nat
  BY <1>2, <1>3
<1>8. Last(Append(Folder(t), Kids(t)[i[t] + 1])) = Kids(t)[i[t] + 1]
  BY <1>2, <1>7 DEF Last
<1> QED BY <1>1, <1>2, <1>3, <1>4, <1>5, <1>6, <1>8

LEMMA GotCurrentStep ==
  ASSUME TypeOK, Genuine, NEW t \in Threads, ThreadInv(t), GotCurrent(t)
  PROVE  ThreadInv(t)'
<1>1. /\ pc[t] = "got" /\ pc'[t] = "compare" /\ current'[t] = hdr[t]
      /\ caller[t] \in {"root", "find"}
      /\ UNCHANGED <<disk, pos, rest, req, caller, token, hdr, at, i, reply>>
  BY DEF GotCurrent, Go, TypeOK
<1>2. TokenInv(t) /\ (caller[t] = "root" => Given(t) = 1)
  BY <1>1, Zenon DEF ThreadInv, RootInv, FindInv, Reading, Looping
<1>3. Given(t)' = Given(t) /\ Path(t)' = Path(t) /\ TokenInv(t)'
  BY <1>1, <1>2, Zenon DEF Given, Path, TokenInv
<1>4. caller[t] = "root" => Holds(hdr[t], Root, Fields)
  BY <1>1, Zenon DEF ThreadInv, HeaderInv, Target
<1>5. ASSUME caller[t] = "find" PROVE CompareInv(t)'
  <2>1. Target(t) = Prefix(t, Given(t))
    <3>1. Target(t) = Append(Prefix(t, Given(t) - 1), token[t]) /\ Given(t) > 1
      BY <1>1, <1>5, ChildRead, Zenon DEF GotCurrent, Folder, ThreadInv, FindInv, Looping, Reading
    <3>2. Path(t) \in Seq(Nat) /\ Given(t) \in 1..Len(Path(t)) /\ token[t] = Path(t)[Given(t)]
      BY <1>1, <1>2, FindTypes, Zenon DEF TokenInv
    <3>3. /\ Given(t) - 1 \in 0..Len(Path(t)) /\ Given(t) - 1 # Len(Path(t))
          /\ Given(t) - 1 + 1 = Given(t)
      BY <3>2
    <3> QED BY <3>1, <3>2, <3>3, PrefixExtended, Zenon DEF Prefix
  <2>2. Prefix(t, Given(t)) \in DOMAIN disk.fs /\ Holds(hdr[t], Prefix(t, Given(t)), Fields)
    BY <1>1, <1>5, <2>1, ChildRead, Zenon
  <2>3. CompareInv(t)'
    BY <1>1, <1>3, <1>5, <2>2 DEF CompareInv, Prefix, Holds
  <2> QED BY <2>3
<1>6. ASSUME caller[t] = "root" PROVE CompareInv(t)'
  BY <1>1, <1>3, <1>4, <1>6, Zenon DEF CompareInv, Holds, Root
<1>7. CompareInv(t)'
  BY <1>1, <1>5, <1>6
<1>8. TopInv(t)' /\ RootInv(t)' /\ FindInv(t)' /\ ListInv(t)'
  BY <1>1, <1>2, <1>3, Zenon DEF TopInv, RootInv, FindInv, ListInv, Reading, Looping
<1>9. RequestInv(t)' /\ ReplyInv(t)'
  BY <1>1, Zenon DEF ThreadInv, RequestInv, ReplyInv, KernelAsks
<1>10. HeaderInv(t)' /\ PointerInv(t)' /\ FoundInv(t)'
  BY <1>1 DEF HeaderInv, PointerInv, FoundInv, Reading
<1> QED BY <1>7, <1>8, <1>9, <1>10 DEF ThreadInv

\* One child of the loop is done with; the same directory goes on.
LEMMA NextChildKeeps ==
  ASSUME TypeOK, Genuine, NEW t \in Threads, ThreadInv(t),
         pc[t] = "got", caller[t] \in {"find", "list"},
         pc'[t] = "scan", i'[t] = i[t] + 1,
         UNCHANGED <<disk, rest, req, caller, token, current>>
  PROVE  /\ LoopInv(t)' /\ Kids(t)' = Kids(t) /\ Path(t)' = Path(t)
         /\ Given(t)' = Given(t) /\ (TokenInv(t) => TokenInv(t)')
         /\ RequestInv(t)' /\ HeaderInv(t)' /\ PointerInv(t)' /\ CompareInv(t)' /\ FoundInv(t)'
<1>1. /\ Folder(t)' = Folder(t) /\ Kids(t)' = Kids(t) /\ Path(t)' = Path(t)
      /\ Given(t)' = Given(t) /\ (TokenInv(t) => TokenInv(t)')
  BY Zenon DEF Folder, Kids, Prefix, Given, Path, TokenInv
<1>2. LoopInv(t) /\ i[t] + 1 \in 1..Len(Kids(t)) /\ i[t] \in Nat
  BY ChildRead, Zenon DEF TypeOK
<1>3. LoopInv(t)'
  <2>1. i[t] + 1 <= Len(Kids(t))
    BY <1>2
  <2> QED BY <1>1, <1>2, <2>1, Zenon DEF LoopInv, Holds
<1>4. RequestInv(t)'
  BY Zenon DEF ThreadInv, RequestInv, KernelAsks
<1>5. HeaderInv(t)' /\ PointerInv(t)' /\ CompareInv(t)' /\ FoundInv(t)'
  BY Zenon DEF HeaderInv, PointerInv, CompareInv, FoundInv, Reading
<1> QED BY <1>1, <1>3, <1>4, <1>5, Zenon

LEMMA SkipChildStep ==
  ASSUME TypeOK, Genuine, NEW t \in Threads, ThreadInv(t), SkipChild(t)
  PROVE  ThreadInv(t)'
<1>1. /\ pc[t] = "got" /\ pc'[t] = "scan" /\ caller[t] = "find" /\ i'[t] = i[t] + 1
      /\ hdr[t][NAME] # token[t]
      /\ UNCHANGED <<disk, rest, req, caller, token, current, reply>>
  BY DEF SkipChild, Go, TypeOK
<1>2. TokenInv(t) /\ Given(t) > 1 /\ (\A k \in 1..i[t] : Kids(t)[k] # token[t])
  BY <1>1, Zenon DEF ThreadInv, FindInv, Looping, Reading
<1>3. \A k \in 1..(i[t] + 1) : Kids(t)[k] # token[t]
  <2>1. hdr[t][NAME] = Kids(t)[i[t] + 1] /\ i[t] \in Nat
    BY <1>1, ChildRead, Zenon DEF TypeOK
  <2> QED BY <1>1, <1>2, <2>1
<1>4. /\ LoopInv(t)' /\ Kids(t)' = Kids(t) /\ Given(t)' = Given(t) /\ TokenInv(t)'
      /\ RequestInv(t)' /\ HeaderInv(t)' /\ PointerInv(t)' /\ CompareInv(t)' /\ FoundInv(t)'
  BY <1>1, <1>2, NextChildKeeps, Zenon
<1>5. FindInv(t)'
  BY <1>1, <1>2, <1>3, <1>4, Zenon DEF FindInv
<1>6. TopInv(t)' /\ RootInv(t)' /\ ListInv(t)' /\ ReplyInv(t)'
  BY <1>1, Zenon DEF ThreadInv, TopInv, RootInv, ListInv, ReplyInv
<1> QED BY <1>4, <1>5, <1>6 DEF ThreadInv

LEMMA ListChildStep ==
  ASSUME TypeOK, Genuine, NEW t \in Threads, ThreadInv(t), ListChild(t)
  PROVE  ThreadInv(t)'
<1>1. /\ pc[t] = "got" /\ pc'[t] = "scan" /\ caller[t] = "list" /\ i'[t] = i[t] + 1
      /\ reply'[t] = Reply("ok", Append(reply[t].out, hdr[t][NAME]))
      /\ UNCHANGED <<disk, rest, req, caller, token, current>>
  BY DEF ListChild, Go, TypeOK
<1>2. /\ req[t].op = "readdir" /\ Path(t) # <<>>
      /\ reply[t] = Reply("ok", SubSeq(Kids(t), 1, i[t]))
  BY <1>1, Zenon DEF ThreadInv, ListInv, Looping, Reading
<1>3. Append(reply[t].out, hdr[t][NAME]) = SubSeq(Kids(t), 1, i[t] + 1)
  <2>0. \A e, b : Reply(e, b).out = b
    BY DEF Reply
  <2>1. reply[t].out = SubSeq(Kids(t), 1, i[t])
    BY <1>2, <2>0, Zenon
  <2>2. /\ Kids(t) \in Seq(Nat) /\ hdr[t][NAME] = Kids(t)[i[t] + 1]
        /\ i[t] + 1 \in 1..Len(Kids(t))
    BY <1>1, ChildRead, Zenon
  <2>3. i[t] \in 0..Len(Kids(t)) /\ i[t] # Len(Kids(t))
    <3>1. i[t] \in Nat
      BY Zenon DEF TypeOK
    <3> QED BY <3>1, <2>2
  <2> QED BY <2>1, <2>2, <2>3, PrefixExtended, Zenon
<1>4. /\ LoopInv(t)' /\ Kids(t)' = Kids(t) /\ Path(t)' = Path(t)
      /\ RequestInv(t)' /\ HeaderInv(t)' /\ PointerInv(t)' /\ CompareInv(t)' /\ FoundInv(t)'
  BY <1>1, NextChildKeeps
<1>5. ListInv(t)'
  BY <1>1, <1>2, <1>3, <1>4, Zenon DEF ListInv, Looping
<1>6. TopInv(t)' /\ RootInv(t)' /\ FindInv(t)' /\ ReplyInv(t)'
  BY <1>1 DEF TopInv, RootInv, FindInv, ReplyInv
<1> QED BY <1>4, <1>5, <1>6 DEF ThreadInv

\* The object that find() has reached, once its name has been compared.
LEMMA Compared ==
  ASSUME TypeOK, Genuine, NEW t \in Threads, ThreadInv(t),
         pc[t] = "compare", current[t][NAME] = token[t]
  PROVE  /\ TokenInv(t)
         /\ Prefix(t, Given(t)) \in DOMAIN disk.fs
         /\ Holds(current[t], Prefix(t, Given(t)), Fields)
<1>1. TokenInv(t) /\ caller[t] \in {"root", "find"}
  BY DEF ThreadInv, CompareInv, TopInv, ListInv, Reading, Looping, TypeOK, Callers
<1>2. CASE caller[t] = "find"
  BY <1>1, <1>2, Zenon DEF ThreadInv, CompareInv
<1>3. CASE caller[t] = "root"
  <2>1. Holds(current[t], Root, Fields) /\ Given(t) = 1
    BY <1>3, Zenon DEF ThreadInv, CompareInv, RootInv
  <2>2. current[t][NAME] = Last(Root)
    BY <2>1, ImageFacts, HeldHeader
  <2>3. Root = <<Path(t)[1]>>
    BY <1>1, <2>1, <2>2, Zenon DEF Root, Last, TokenInv
  <2>4. Path(t) \in Seq(Nat) /\ 1 \in 1..Len(Path(t))
    BY <1>1, <2>1, FindTypes, Zenon DEF TokenInv
  <2>5. SubSeq(Path(t), 1, 1) = <<Path(t)[1]>>
    BY <2>4, FirstPrefix, Zenon
  <2> QED BY <1>1, <2>1, <2>3, <2>5, ImageFacts, Zenon DEF Prefix
<1> QED BY <1>1, <1>2, <1>3, Zenon

\* strtok() gives out the next component, or find() is done.
LEMMA NextTokenStep ==
  ASSUME TypeOK, Genuine, NEW t \in Threads, ThreadInv(t), NextToken(t)
  PROVE  ThreadInv(t)'
<1> DEFINE n == Given(t)
<1>1. /\ pc[t] = "compare" /\ current[t][NAME] = token[t]
      /\ token'[t] = Token(rest) /\ rest' = Rest(rest)
      /\ UNCHANGED <<disk, pos, req, current, hdr, at, reply>>
  BY DEF NextToken, TypeOK
<1>2. /\ TokenInv(t) /\ Prefix(t, n) \in DOMAIN disk.fs
      /\ Holds(current[t], Prefix(t, n), Fields)
  BY <1>1, Compared, Zenon
<1>3. /\ req[t] \in Requests /\ KernelAsks(req[t])
      /\ Path(t) \in Seq(Nat) /\ rest \in Seq(Nat)
  BY <1>1, FindTypes, Zenon
<1>4. n \in 1..Len(Path(t)) /\ Len(rest) = Len(Path(t)) - n
  BY <1>2, <1>3 DEF TokenInv, Given
<1>5. current[t][TYPE] = disk.fs[Prefix(t, n)].type /\ current[t][TYPE] \in {DIRECTORY, PLAIN_FILE}
  BY <1>2, HeldHeader, ObjectFacts, Zenon
<1>6. caller[t] \in {"root", "find"}
  BY <1>1 DEF ThreadInv, TopInv, ListInv, Reading, Looping, TypeOK, Callers
<1>7. RequestInv(t)'
  <2>1. pc'[t] # "idle"
    BY <1>1, Zenon DEF NextToken, Go, TypeOK
  <2> QED BY <1>1, <1>3, <2>1, Zenon DEF RequestInv, KernelAsks
<1>8. CASE rest = <<>> \/ current[t][TYPE] = PLAIN_FILE
  <2>1. pc'[t] = "found" /\ UNCHANGED <<caller, i>>
    BY <1>8, Zenon DEF NextToken, Go, TypeOK
  <2>2. rest = <<>>
    <3> SUFFICES ASSUME rest # <<>> PROVE FALSE
      OBVIOUS
    <3>1. n \in 1..(Len(Path(t)) - 1)
      BY <1>3, <1>4
    <3>2. disk.fs[Prefix(t, n)].type = DIRECTORY
      <4> HIDE DEF n
      <4> QED BY <1>2, <1>3, <3>1 DEF KernelAsks, Prefix, Path
    <3> QED BY <1>5, <1>8, <3>2 DEF DIRECTORY, PLAIN_FILE
  <2>3. Prefix(t, n) = Path(t)
    <3>1. n = Len(Path(t))
      BY <1>3, <1>4, <2>2
    <3> QED BY <3>1, <1>3, WholePrefix DEF Prefix
  <2>4. FoundInv(t)'
    BY <1>1, <1>2, <2>1, <2>3, Zenon DEF FoundInv, Path, Holds
  <2>5. TopInv(t)' /\ RootInv(t)' /\ FindInv(t)' /\ ListInv(t)' /\ ReplyInv(t)'
    BY <1>1, <1>6, <2>1, Zenon DEF ThreadInv, TopInv, RootInv, FindInv, ListInv, ReplyInv, Reading, Looping
  <2>6. HeaderInv(t)' /\ PointerInv(t)' /\ CompareInv(t)'
    BY <2>1, Zenon DEF HeaderInv, PointerInv, CompareInv, Reading
  <2> QED BY <1>7, <2>4, <2>5, <2>6 DEF ThreadInv
<1>9. CASE ~(rest = <<>> \/ current[t][TYPE] = PLAIN_FILE)
  <2>1. pc'[t] = "scan" /\ caller'[t] = "find" /\ i'[t] = 0
    BY <1>9, Zenon DEF NextToken, Go, TypeOK
  <2>2. rest' = Tail(rest) /\ token'[t] = rest[1] /\ Len(rest) >= 1
    BY <1>1, <1>3, <1>9 DEF Rest, Token
  <2>3. Path(t)' = Path(t) /\ Given(t)' = n + 1
    <3>1. req'[t] = req[t]
      BY <1>1
    <3>2. Len(Tail(rest)) = Len(rest) - 1
      BY <1>3, <2>2
    <3>3. Len(Path(t)) - (Len(rest) - 1) = n + 1
      BY <1>3, <1>4
    <3> HIDE DEF n
    <3> QED BY <2>2, <3>1, <3>2, <3>3, Zenon DEF Path, Given
  <2>4. TokenInv(t)'
    <3>1. \A k \in 1..Len(rest) : rest[k] = Path(t)[n + k]
      BY <1>2 DEF TokenInv
    <3>2. n + 1 \in 1..Len(Path(t))
      BY <1>3, <1>4, <2>2
    <3>3. token'[t] = Path(t)[n + 1]
      BY <2>2, <3>1, <1>3
    <3>4. \A k \in 1..Len(rest') : rest'[k] = Path(t)[(n + 1) + k]
      <4> TAKE k \in 1..Len(rest')
      <4>1. k + 1 \in 1..Len(rest) /\ rest'[k] = rest[k + 1]
        BY <2>2, <1>3
      <4>2. n + (k + 1) = (n + 1) + k
        BY <1>3, <1>4
      <4> QED BY <3>1, <4>1, <4>2
    <3> HIDE DEF n
    <3> QED BY <2>3, <3>2, <3>3, <3>4, Zenon DEF TokenInv
  <2>5. Folder(t)' = Prefix(t, n)
    <3>1. \A x : x = n + 1 => x - 1 = n
      BY <1>4
    <3> HIDE DEF n
    <3>2. Folder(t)' = SubSeq(Path(t)', 1, Given(t)' - 1)
      BY <2>1 DEF Folder, Prefix
    <3>3. Given(t)' - 1 = n
      BY <2>3, <3>1, Zenon
    <3>4. Folder(t)' = SubSeq(Path(t), 1, n)
      BY <2>3, <3>2, <3>3, Zenon
    <3> QED BY <3>4, Zenon DEF Prefix
  <2>6. LoopInv(t)'
    <3>1. disk.fs[Prefix(t, n)].type = DIRECTORY
      BY <1>5, <1>9, Zenon
    <3>2. Kids(t)' = disk.fs[Prefix(t, n)].kids
      BY <1>1, <2>5, Zenon DEF Kids
    <3>3. 0 <= Len(Kids(t)')
      BY <1>2, <3>2, ObjectFacts, LengthNat, Zenon
    <3> HIDE DEF n
    <3> QED BY <1>1, <1>2, <2>1, <2>5, <3>1, <3>3, Zenon DEF LoopInv, Holds
  <2>7. FindInv(t)'
    <3>1. n + 1 > 1 /\ \A k \in 1..0 : FALSE
      BY <1>4
    <3> HIDE DEF n
    <3> QED BY <2>1, <2>3, <2>4, <2>6, <3>1 DEF FindInv
  <2>8. TopInv(t)' /\ RootInv(t)' /\ ListInv(t)' /\ ReplyInv(t)'
    BY <1>1, <1>6, <2>1, Zenon DEF ThreadInv, TopInv, RootInv, ListInv, ReplyInv
  <2>9. HeaderInv(t)' /\ PointerInv(t)' /\ CompareInv(t)' /\ FoundInv(t)'
    BY <2>1, Zenon DEF HeaderInv, PointerInv, CompareInv, FoundInv, Reading
  <2> QED BY <1>7, <2>7, <2>8, <2>9 DEF ThreadInv
<1> QED BY <1>8, <1>9

LEMMA SeekPointerStep ==
  ASSUME TypeOK, Genuine, NEW t \in Threads, ThreadInv(t), SeekPointer(t)
  PROVE  ThreadInv(t)'
<1>1. /\ pc[t] = "scan" /\ pc'[t] = "pointer" /\ i[t] < current[t][LENGTH]
      /\ pos' = current[t][OFFSET] + i[t] * PTR_SIZE
      /\ UNCHANGED <<disk, rest, req, caller, token, current, hdr, at, i, reply>>
  BY DEF SeekPointer, Go, TypeOK
<1>2. caller[t] \in {"find", "list"}
  BY <1>1 DEF ThreadInv, TopInv, RootInv, Reading, TypeOK, Callers
<1>3. LoopInv(t)
  BY <1>1, <1>2, Zenon DEF ThreadInv, FindInv, ListInv, Looping
<1>4. current[t][LENGTH] = Len(Kids(t))
  BY <1>3, HeldHeader, ObjectFacts, Zenon DEF LoopInv, Kids, Size, DIRECTORY, PLAIN_FILE
<1>5. /\ Folder(t)' = Folder(t) /\ Kids(t)' = Kids(t) /\ Path(t)' = Path(t)
      /\ Given(t)' = Given(t) /\ (TokenInv(t) => TokenInv(t)')
  BY <1>1, Zenon DEF Folder, Kids, Prefix, Given, Path, TokenInv
<1>6. LoopInv(t)'
  BY <1>1, <1>3, <1>4, <1>5, Zenon DEF LoopInv, Holds
<1>7. FindInv(t)' /\ ListInv(t)'
  BY <1>1, <1>5, <1>6, Zenon DEF ThreadInv, FindInv, ListInv, Looping
<1>8. PointerInv(t)'
  <2>1. i[t] \in Nat /\ i[t] * PTR_SIZE = i[t]
    <3>1. i[t] \in Nat
      BY Zenon DEF TypeOK
    <3> QED BY <3>1 DEF PTR_SIZE
  <2> QED BY <1>1, <2>1, Zenon DEF PointerInv
<1>9. TopInv(t)' /\ RootInv(t)'
  BY <1>1, <1>2, ZenonT(60) DEF TopInv, RootInv
<1>10. RequestInv(t)' /\ ReplyInv(t)'
  BY <1>1, Zenon DEF ThreadInv, RequestInv, ReplyInv, KernelAsks
<1>11. HeaderInv(t)' /\ CompareInv(t)' /\ FoundInv(t)'
  BY <1>1, Zenon DEF HeaderInv, CompareInv, FoundInv, Reading
<1> QED BY <1>7, <1>8, <1>9, <1>10, <1>11 DEF ThreadInv

\* The pointer that read64() reads is one of the directory's.
LEMMA PointerFacts ==
  ASSUME TypeOK, Genuine, NEW t \in Threads, ThreadInv(t), pc[t] = "pointer"
  PROVE  /\ caller[t] \in {"find", "list"} /\ LoopInv(t)
         /\ pos \in Nat /\ pos + 1 <= Len(disk.image)
         /\ Cell(disk.image, pos) = disk.at[Append(Folder(t), Kids(t)[i[t] + 1])]
<1>1. caller[t] \in {"find", "list"}
  BY Zenon DEF ThreadInv, TopInv, RootInv, Reading, TypeOK, Callers
<1>2. LoopInv(t)
  BY <1>1 DEF ThreadInv, FindInv, ListInv, Looping
<1>3. Kids(t) \in Seq(Nat) /\ i[t] \in Nat /\ pos \in Nat
  BY <1>2, ObjectFacts, Zenon DEF LoopInv, Kids, TypeOK
<1>4. i[t] + 1 \in DOMAIN Kids(t) /\ i[t] + 1 - 1 = i[t] /\ i[t] < Len(Kids(t))
  BY <1>2, <1>3 DEF LoopInv
<1>5. pos = current[t][OFFSET] + i[t]
  BY Zenon DEF ThreadInv, PointerInv
<1>6. /\ current[t][OFFSET] = Cell(disk.image, disk.at[Folder(t)] + OFFSET)
      /\ current[t][LENGTH] = Len(Kids(t))
      /\ current[t][OFFSET] + current[t][LENGTH] <= Len(disk.image)
  BY <1>2, HeldHeader, ObjectFacts
     DEF LoopInv, Kids, Size, DIRECTORY, PLAIN_FILE, Holds, Fields, OFFSET
<1>7. pos + 1 <= Len(disk.image)
  <2>1. current[t][OFFSET] \in Nat
    BY DEF TypeOK, OFFSET
  <2>2. Len(disk.image) \in Nat /\ Len(Kids(t)) \in Nat
    <3> disk.image \in Seq(Nat)
      BY ImageFacts, Zenon
    <3> QED BY <1>3
  <2> QED BY <1>3, <1>4, <1>5, <1>6, <2>1, <2>2
<1>8. Cell(disk.image, current[t][OFFSET] + i[t]) =
        disk.at[Append(Folder(t), Kids(t)[i[t] + 1])]
  <2>1. /\ Folder(t) \in DOMAIN disk.fs /\ disk.fs[Folder(t)].type = DIRECTORY
        /\ Kids(t) = disk.fs[Folder(t)].kids
    BY <1>2 DEF LoopInv, Kids
  <2>2. \A k \in DOMAIN Kids(t) :
          Cell(disk.image, Cell(disk.image, disk.at[Folder(t)] + OFFSET) + (k - 1)) =
            disk.at[Append(Folder(t), Kids(t)[k])]
    BY <2>1, ChildFacts, Zenon
  <2>3. PICK k \in DOMAIN Kids(t) : k = i[t] + 1 /\ k - 1 = i[t]
    BY <1>3, <1>4
  <2> QED BY <1>6, <2>2, <2>3, Zenon
<1> QED BY <1>1, <1>2, <1>3, <1>5, <1>7, <1>8, Zenon

LEMMA ReadPointerStep ==
  ASSUME TypeOK, Genuine, NEW t \in Threads, ThreadInv(t), ReadPointer(t)
  PROVE  ThreadInv(t)'
<1>1. /\ pc[t] = "pointer"
      /\ UNCHANGED <<disk, rest, req, token, current, hdr, i, reply>>
  BY DEF ReadPointer
<1>2. PICK v \in Fread(pos) : ReadHeader(t, v, caller[t])
  BY DEF ReadPointer
<1>3. pc'[t] = "seek" /\ caller'[t] = caller[t]
  BY <1>2, Zenon DEF ReadHeader, Go, TypeOK
<1>4. caller[t] \in {"find", "list"} /\ LoopInv(t)
  BY <1>1, PointerFacts
<1>5. v = disk.at[Append(Folder(t), Kids(t)[i[t] + 1])]
  BY <1>1, PointerFacts DEF Fread
<1>6. /\ Folder(t)' = Folder(t) /\ Kids(t)' = Kids(t) /\ Path(t)' = Path(t)
      /\ Given(t)' = Given(t) /\ (TokenInv(t) => TokenInv(t)')
  BY <1>1, <1>3 DEF Folder, Kids, Prefix, Given, Path, TokenInv
<1>7. LoopInv(t)'
  BY <1>1, <1>4, <1>6, Zenon DEF LoopInv, Holds
<1>8. FindInv(t)' /\ ListInv(t)'
  BY <1>1, <1>3, <1>6, <1>7, Zenon DEF ThreadInv, FindInv, ListInv, Looping, Reading
<1>9. TopInv(t)' /\ RootInv(t)'
  BY <1>3, <1>4, Zenon DEF TopInv, RootInv
<1>10. RequestInv(t)' /\ ReplyInv(t)'
  BY <1>1, <1>3, Zenon DEF ThreadInv, RequestInv, ReplyInv, KernelAsks
<1>11. v = disk'.at[Target(t)']
  BY <1>1, <1>3, <1>4, <1>5, <1>6 DEF Target
<1> QED BY <1>2, <1>8, <1>9, <1>10, <1>11, ReadHeaderKeeps, Zenon

LEMMA ReaddirStep ==
  ASSUME TypeOK, Genuine, NEW t \in Threads, ThreadInv(t), mount_readdir(t)
  PROVE  ThreadInv(t)'
<1>1. /\ pc[t] = "found" /\ req[t].op = "readdir"
      /\ UNCHANGED <<disk, pos, rest, req, token, current, hdr, at>>
  BY Zenon DEF mount_readdir, Found
<1>2. caller[t] \in {"root", "find"}
  BY <1>1 DEF ThreadInv, TopInv, ListInv, Reading, Looping, TypeOK, Callers
<1>3. CASE current[t][TYPE] # DIRECTORY
  <2>1. Answer(t, "ENOENT", <<>>) /\ UNCHANGED caller
    BY <1>3 DEF mount_readdir
  <2>2. Reply("ENOENT", <<>>) = Service!Promised(disk.fs, req[t])
    BY <1>1, <1>3, FoundFacts, PromisedObject, Zenon DEF ENOENT
  <2> QED BY <1>1, <2>1, <2>2, AnswerKeeps, Zenon
<1>4. CASE current[t][TYPE] = DIRECTORY
  <2>1. pc'[t] = "scan" /\ caller'[t] = "list" /\ i'[t] = 0 /\ UNCHANGED reply
    BY <1>4 DEF mount_readdir, Go, TypeOK
  <2>2. /\ Path(t) \in DOMAIN disk.fs /\ Holds(current[t], Path(t), Fields)
        /\ reply[t] = Reply("ok", <<>>)
    BY <1>1, <1>2, Zenon DEF ThreadInv, FoundInv, ReplyInv
  <2>3. /\ disk.fs[Path(t)].type = DIRECTORY /\ Path(t) # <<>>
        /\ disk.fs[Path(t)].kids \in Seq(Nat)
    BY <1>4, <2>2, HeldHeader, ObjectFacts, Zenon
  <2>4. Folder(t)' = Path(t) /\ Kids(t)' = disk.fs[Path(t)].kids /\ Path(t)' = Path(t)
    BY <1>1, <2>1, Zenon DEF Folder, Kids, Path
  <2>5. 0 <= Len(Kids(t)') /\ SubSeq(Kids(t)', 1, 0) = <<>>
    BY <2>3, <2>4
  <2>6. LoopInv(t)'
    BY <1>1, <2>1, <2>2, <2>3, <2>4, <2>5, Zenon DEF LoopInv, Holds
  <2>7. ListInv(t)'
    BY <1>1, <2>1, <2>2, <2>3, <2>4, <2>5, <2>6, Zenon DEF ListInv, Looping
  <2>8. RequestInv(t)'
    BY <1>1, <2>1, Zenon DEF ThreadInv, RequestInv, KernelAsks
  <2>9. TopInv(t)' /\ RootInv(t)' /\ FindInv(t)' /\ ReplyInv(t)'
    BY <2>1, Zenon DEF TopInv, RootInv, FindInv, ReplyInv
  <2>10. HeaderInv(t)' /\ PointerInv(t)' /\ CompareInv(t)' /\ FoundInv(t)'
    BY <2>1, Zenon DEF HeaderInv, PointerInv, CompareInv, FoundInv, Reading
  <2> QED BY <2>7, <2>8, <2>9, <2>10, Zenon DEF ThreadInv
<1> QED BY <1>3, <1>4

----------------------------------------------------------------------------
(* The invariant holds for a single thread *)

LEMMA ThreadStep ==
  ASSUME TypeOK, Genuine, NEW t \in Threads, ThreadInv(t),
         \/ \E r \in Requests : Begin(t, r)
         \/ Work(t)
         \/ Finish(t)
  PROVE  ThreadInv(t)'
<1>1. CASE \E r \in Requests : Begin(t, r)
  BY <1>1, BeginStep
<1>2. CASE Finish(t)
  BY <1>2, FinishStep
<1>3. CASE Work(t)
  <2>1. CASE StatRoot(t) \/ ListRoot(t) \/ FirstToken(t) \/ SeekHeader(t) \/ ReadField(t)
    BY <2>1, StatRootStep, ListRootStep, FirstTokenStep, SeekHeaderStep, ReadFieldStep, Zenon
  <2>2. CASE GotTop(t) \/ GotCurrent(t) \/ SkipChild(t) \/ ListChild(t)
    BY <2>2, GotTopStep, GotCurrentStep, SkipChildStep, ListChildStep, Zenon
  <2>3. CASE Mismatch(t) \/ NextToken(t) \/ SeekPointer(t) \/ ReadPointer(t)
    BY <2>3, MismatchStep, NextTokenStep, SeekPointerStep, ReadPointerStep, Zenon
  <2>4. CASE NotFound(t) \/ AllListed(t) \/ mount_getattr(t) \/ mount_readdir(t)
    BY <2>4, NotFoundStep, AllListedStep, GetattrStep, ReaddirStep, Zenon
  <2>5. CASE mount_open(t) \/ mount_read(t) \/ ReadData(t)
    BY <2>5, OpenStep, ReadStep, ReadDataStep, Zenon
  <2> QED BY <1>3, <2>1, <2>2, <2>3, <2>4, <2>5, Zenon DEF Work
<1> QED BY <1>1, <1>2, <1>3

LEMMA ThreadStutters ==
  ASSUME NEW t \in Threads, ThreadInv(t), UNCHANGED vars
  PROVE  ThreadInv(t)'
<1>1. UNCHANGED <<disk, pos, rest, pc, req, caller, token, current, hdr, at, i, reply>>
  BY DEF vars
<1>2. /\ Path(t)' = Path(t) /\ Given(t)' = Given(t) /\ Folder(t)' = Folder(t)
      /\ Kids(t)' = Kids(t) /\ Target(t)' = Target(t)
      /\ TokenInv(t)' = TokenInv(t) /\ LoopInv(t)' = LoopInv(t)
  BY <1>1, Zenon DEF Path, Given, Prefix, Folder, Kids, Target, Root, TokenInv, LoopInv, Holds
<1>3. RequestInv(t)' /\ ReplyInv(t)'
  BY <1>1, Zenon DEF ThreadInv, RequestInv, ReplyInv, KernelAsks
<1>4. TopInv(t)' /\ RootInv(t)' /\ FindInv(t)' /\ ListInv(t)'
  BY <1>1, <1>2, Zenon DEF ThreadInv, TopInv, RootInv, FindInv, ListInv
<1>5. HeaderInv(t)' /\ PointerInv(t)'
  BY <1>1, <1>2, Zenon DEF ThreadInv, HeaderInv, PointerInv, Holds
<1>6. CompareInv(t)' /\ FoundInv(t)'
  BY <1>1, <1>2, Zenon DEF ThreadInv, CompareInv, FoundInv, Holds, Root, Prefix
<1> QED BY <1>3, <1>4, <1>5, <1>6 DEF ThreadInv

LEMMA MountInit ==
  ASSUME Genuine, Ready
  PROVE  TypeOK /\ MountInv
<1>1. TypeOK
  BY InitType
<1>2. ASSUME NEW t \in Threads PROVE ThreadInv(t)
  <2>1. /\ pc[t] = "idle" /\ req[t] = NoRequest /\ caller[t] = "root"
        /\ reply[t] = Reply("ok", <<>>)
    BY DEF Ready
  <2>2. RequestInv(t) /\ ReplyInv(t)
    BY <2>1, Zenon DEF RequestInv, ReplyInv
  <2>3. TopInv(t) /\ RootInv(t) /\ FindInv(t) /\ ListInv(t)
    BY <2>1, Zenon DEF TopInv, RootInv, FindInv, ListInv, Reading, Looping
  <2>4. HeaderInv(t) /\ PointerInv(t) /\ CompareInv(t) /\ FoundInv(t)
    BY <2>1, Zenon DEF HeaderInv, PointerInv, CompareInv, FoundInv, Reading
  <2> QED BY <2>2, <2>3, <2>4 DEF ThreadInv
<1> QED BY <1>1, <1>2 DEF MountInv

LEMMA GenuineStays ==
  ASSUME Genuine, disk' = disk
  PROVE  Genuine'
BY Zenon DEF Genuine

LEMMA InitGenuine == Init => Genuine /\ Ready
BY ArchivesEncode, Zenon DEF Init, Genuine

\* Nothing writes to the image, whatever the threads do.
LEMMA DiskKept == Next => disk' = disk
<1> SUFFICES ASSUME NEW t \in Threads, (\E r \in Requests : Begin(t, r)) \/ Work(t) \/ Finish(t)
             PROVE  disk' = disk
  BY DEF Next
<1>1. CASE (\E r \in Requests : Begin(t, r)) \/ Finish(t)
  BY <1>1, Zenon DEF Begin, Finish
<1>2. CASE StatRoot(t) \/ ListRoot(t) \/ FirstToken(t) \/ SeekHeader(t) \/ ReadField(t)
  BY <1>2, Zenon DEF StatRoot, ListRoot, FirstToken, SeekHeader, ReadField, FreadField
<1>3. CASE GotTop(t) \/ GotCurrent(t) \/ SkipChild(t) \/ ListChild(t) \/ Mismatch(t)
  BY <1>3, Zenon DEF GotTop, GotCurrent, SkipChild, ListChild, Mismatch
<1>4. CASE NextToken(t) \/ SeekPointer(t) \/ ReadPointer(t) \/ NotFound(t) \/ AllListed(t)
  BY <1>4, Zenon DEF NextToken, SeekPointer, ReadPointer, NotFound, AllListed
<1>5. CASE mount_getattr(t) \/ mount_readdir(t) \/ mount_open(t) \/ mount_read(t) \/ ReadData(t)
  BY <1>5, Zenon DEF mount_getattr, mount_readdir, mount_open, mount_read, ReadData
<1> QED BY <1>1, <1>2, <1>3, <1>4, <1>5, Zenon DEF Work

LEMMA MountStep ==
  ASSUME NEW t, Threads = {t}, TypeOK, MountInv, [Next]_vars
  PROVE  (TypeOK /\ MountInv)'
<1>1. Genuine /\ t \in Threads /\ ThreadInv(t)
  BY DEF MountInv
<1>2. TypeOK' /\ Genuine'
  BY <1>1, TypeStep, GenuineStays, Zenon
<1>3. ThreadInv(t)'
  <2>1. CASE Next
    <3>1. PICK u \in Threads : (\E r \in Requests : Begin(u, r)) \/ Work(u) \/ Finish(u)
      BY <2>1 DEF Next
    <3>2. u = t
      OBVIOUS
    <3> QED BY <1>1, <3>1, <3>2, ThreadStep, Zenon
  <2>2. CASE UNCHANGED vars
    BY <1>1, <2>2, ThreadStutters
  <2> QED BY <2>1, <2>2
<1>4. \A u \in Threads : ThreadInv(u)'
  BY <1>3
<1> QED BY <1>2, <1>4 DEF MountInv

----------------------------------------------------------------------------
(* Theorems *)

\* Type correctness, for any number of threads: whatever the races between
\* fseek(), fread() and strtok() of mounter.c do to an answer, no variable
\* leaves its type.
THEOREM MounterTypeCorrect == Spec => []TypeOK
<1>1. Init => TypeOK /\ Genuine
  BY InitType, InitGenuine
<1>2. (TypeOK /\ Genuine) /\ [Next]_vars => (TypeOK /\ Genuine)'
  BY TypeStep, GenuineStays
<1> QED BY <1>1, <1>2, PTL DEF Spec

\* The invariant of a mounter with one thread (option -s).
LEMMA OneThreadInvariant ==
  ASSUME NEW CONSTANT t, Threads = {t}
  PROVE  Spec => [](TypeOK /\ MountInv)
<1>1. Init => TypeOK /\ MountInv
  BY MountInit, InitGenuine
<1>2. (TypeOK /\ MountInv) /\ [Next]_vars => (TypeOK /\ MountInv)'
  BY MountStep
<1> QED BY <1>1, <1>2, PTL DEF Spec

\* A mounter with one thread answers every getattr, readdir, open and read
\* with what the archive demands, for every archive that satisfies the contract
\* between master and mounter and every sequence of requests.
THEOREM OneThreadAnswersCorrect ==
  ASSUME NEW CONSTANT t, Threads = {t}
  PROVE  Spec => []AnswersCorrect
<1>1. MountInv => AnswersCorrect
  BY Zenon DEF MountInv, ThreadInv, ReplyInv, AnswersCorrect
<1>2. Spec => [](TypeOK /\ MountInv)
  BY OneThreadInvariant
<1> QED BY <1>1, <1>2, PTL

LEMMA InRange ==
  ASSUME TypeOK, Genuine, NEW t \in Threads, ThreadInv(t)
  PROVE  /\ pc[t] \in {"name", "length", "time", "offset", "type", "pointer"} =>
              pos < Len(disk.image)
         /\ pc[t] = "data" => pos + current[t][LENGTH] <= Len(disk.image)
<1>1. pos \in Nat /\ Len(disk.image) \in Nat
  <2>1. pos \in Nat
    BY Zenon DEF TypeOK
  <2> QED BY <2>1, ImageFacts, LengthNat, Zenon
<1>2. ASSUME pc[t] \in {"name", "length", "time", "offset", "type"}
      PROVE  pos < Len(disk.image)
  <2>1. at[t] \in Nat /\ at[t] + M_HDR_SIZE <= Len(disk.image)
    <3>1. pc[t] \in Reading
      BY <1>2, Zenon DEF Reading
    <3> QED BY <3>1, TargetFacts, Zenon
  <2>2. PICK f \in 0..4 : pos = at[t] + f
    BY <1>2 DEF ThreadInv, HeaderInv, NAME, LENGTH, TIME, OFFSET, TYPE
  <2> QED BY <1>1, <2>1, <2>2 DEF M_HDR_SIZE
<1>3. ASSUME pc[t] = "pointer" PROVE pos < Len(disk.image)
  <2>1. pos + 1 <= Len(disk.image)
    BY <1>3, PointerFacts, Zenon
  <2> QED BY <1>1, <2>1
<1>4. ASSUME pc[t] = "data" PROVE pos + current[t][LENGTH] <= Len(disk.image)
  <2>1. /\ Path(t) \in DOMAIN disk.fs /\ Holds(current[t], Path(t), Fields)
        /\ pos = current[t][OFFSET]
    BY <1>4, Zenon DEF ThreadInv, FoundInv
  <2> QED BY <2>1, HeldHeader
<1> QED BY <1>2, <1>3, <1>4

\* With one thread no fread() of mounter.c reaches beyond the end of the image:
\* headers, pointers and data are all found where the image says they are.
THEOREM OneThreadReadsInRange ==
  ASSUME NEW CONSTANT t, Threads = {t}
  PROVE  Spec => []ReadsInRange
<1>1. TypeOK /\ MountInv => ReadsInRange
  BY InRange DEF MountInv, ReadsInRange
<1>2. Spec => [](TypeOK /\ MountInv)
  BY OneThreadInvariant
<1> QED BY <1>1, <1>2, PTL

----------------------------------------------------------------------------
(* Refinement *)

Calls == [u \in Threads |-> Shown(u)]

\* What t does on its own once it has a request.
LEMMA WorkKeeps ==
  ASSUME TypeOK, NEW t \in Threads, Work(t)
  PROVE  /\ pc[t] \notin {"idle", "done"} /\ pc'[t] # "idle"
         /\ UNCHANGED <<disk, req>>
<1>1. CASE StatRoot(t) \/ ListRoot(t) \/ FirstToken(t) \/ SeekHeader(t)
  BY <1>1, Zenon DEF StatRoot, ListRoot, FirstToken, SeekHeader, ReadHeader, Answer, Go, TypeOK
<1>2. CASE ReadField(t)
  BY <1>2, Zenon DEF ReadField, FreadField, Go, TypeOK
<1>3. CASE GotTop(t) \/ GotCurrent(t) \/ SkipChild(t) \/ ListChild(t)
  BY <1>3, Zenon DEF GotTop, GotCurrent, SkipChild, ListChild, Answer, Go, TypeOK
<1>4. CASE Mismatch(t) \/ NextToken(t) \/ SeekPointer(t)
  BY <1>4, Zenon DEF Mismatch, NextToken, SeekPointer, Answer, Go, TypeOK
<1>5. CASE ReadPointer(t) \/ NotFound(t) \/ AllListed(t)
  BY <1>5, Zenon DEF ReadPointer, ReadHeader, NotFound, AllListed, Answer, Go, TypeOK
<1>6. CASE mount_getattr(t) \/ mount_open(t) \/ ReadData(t)
  BY <1>6, Zenon DEF mount_getattr, mount_open, ReadData, Found, Answer, Go, TypeOK
<1>7. CASE mount_readdir(t) \/ mount_read(t)
  BY <1>7, Zenon DEF mount_readdir, mount_read, Found, Answer, Go, TypeOK
<1> QED BY <1>1, <1>2, <1>3, <1>4, <1>5, <1>6, <1>7, Zenon DEF Work

\* A step that changes what one thread shows changes nothing else.
LEMMA OneCall ==
  ASSUME NEW t, Threads = {t}, NEW x, Shown(t)' = x
  PROVE  Calls' = [Calls EXCEPT ![t] = x]
BY DEF Calls

LEMMA ArchiveNotBlank ==
  ASSUME Genuine
  PROVE  disk.fs # Service!Blank
<1>1. Root \in DOMAIN disk.fs
  BY ImageFacts
<1>2. DOMAIN <<>> = {}
  OBVIOUS
<1> QED BY <1>1, <1>2 DEF Service!Blank

\* Every step of a single thread is a step of the service or none at all.
LEMMA ServiceStep ==
  ASSUME NEW t, Threads = {t}, TypeOK, MountInv, MountInv', Next
  PROVE  Service!Serve(t) \/ UNCHANGED <<disk.fs, Calls>>
<1>0. t \in Threads /\ Genuine /\ ThreadInv(t) /\ ThreadInv(t)'
  BY DEF MountInv
<1>1. disk.fs # Service!Blank
  BY <1>0, ArchiveNotBlank
<1>2. Calls[t] = Shown(t)
  BY <1>0 DEF Calls
<1>3. (\E r \in Requests : Begin(t, r)) \/ Work(t) \/ Finish(t)
  BY DEF Next
<1>4. ASSUME NEW r \in Requests, Begin(t, r) PROVE Service!Serve(t)
  <2>1. pc[t] = "idle" /\ pc'[t] = "begin" /\ req'[t] = r /\ disk' = disk
    BY <1>0, <1>4 DEF Begin, Go, TypeOK
  <2>2. Shown(t).state = "idle" /\ Shown(t)' = Service!Pending(r)
    BY <2>1 DEF Shown, Service!Pending, Service!Call
  <2>3. Calls' = [Calls EXCEPT ![t] = Service!Pending(r)]
    BY <2>2, OneCall
  <2> QED BY <1>1, <1>2, <2>1, <2>2, <2>3, Zenon DEF Service!Serve, Service!Update, Calls
<1>5. ASSUME Finish(t) PROVE Service!Serve(t)
  <2>1. pc[t] = "done" /\ pc'[t] = "idle" /\ req'[t] = NoRequest /\ disk' = disk
    BY <1>0, <1>5 DEF Finish, Go, TypeOK
  <2>2. Shown(t).state = "answered" /\ Shown(t)' = Service!Quiet
    BY <2>1 DEF Shown, Service!Quiet, Service!Call, Service!NoRequest, NoRequest
  <2>3. Calls' = [Calls EXCEPT ![t] = Service!Quiet]
    BY <2>2, OneCall
  <2> QED BY <1>1, <1>2, <2>1, <2>2, <2>3, Zenon DEF Service!Serve, Service!Update, Calls
<1>6. ASSUME Work(t) PROVE Service!Serve(t) \/ UNCHANGED <<disk.fs, Calls>>
  <2>1. pc[t] \notin {"idle", "done"} /\ pc'[t] # "idle" /\ disk' = disk /\ req' = req
    BY <1>0, <1>6, WorkKeeps
  <2>2. CASE pc'[t] # "done"
    <3>1. Shown(t)' = Shown(t)
      BY <2>1, <2>2 DEF Shown
    <3>2. Calls' = Calls
      BY <3>1 DEF Calls
    <3> QED BY <2>1, <3>2
  <2>3. CASE pc'[t] = "done"
    <3>1. reply'[t] = Service!Promised(disk.fs, req[t])
      BY <1>0, <2>1, <2>3, Zenon DEF ThreadInv, ReplyInv
    <3>2. Shown(t).state = "pending" /\ Shown(t).req = req[t]
      BY <2>1 DEF Shown
    <3>3. Shown(t)' = Service!Answered(req[t], Service!Promised(disk.fs, req[t]))
      BY <2>1, <2>3, <3>1 DEF Shown, Service!Answered, Service!Call
    <3>4. Calls' = [Calls EXCEPT ![t] =
                      Service!Answered(req[t], Service!Promised(disk.fs, req[t]))]
      BY <3>3, OneCall
    <3> QED BY <1>1, <1>2, <2>1, <3>2, <3>4, Zenon DEF Service!Serve, Service!Update, Calls
  <2> QED BY <2>2, <2>3
<1> QED BY <1>3, <1>4, <1>5, <1>6, Zenon

\* A mounter with one thread implements the write-once file system: hidden in
\* its seeks and reads, each request is answered exactly once, in one step and
\* as promised, and no step changes the archive.
THEOREM OneThreadImplementsService ==
  ASSUME NEW CONSTANT one, Threads = {one}
  PROVE  Spec => ImplementsService
<1>1. Init => disk.fs # Service!Blank /\ Service!NobodyAsks
  <2> SUFFICES ASSUME Init PROVE disk.fs # Service!Blank /\ Service!NobodyAsks
    OBVIOUS
  <2>1. Genuine /\ \A u \in Threads : pc[u] = "idle" /\ req[u] = NoRequest
    BY InitGenuine DEF Ready
  <2>2. \A u \in Threads : Shown(u) = Service!Quiet
    BY <2>1, Zenon DEF Shown, Service!Quiet, Service!Call, Service!NoRequest, NoRequest
  <2> QED BY <2>1, <2>2, ArchiveNotBlank DEF Service!NobodyAsks
<1>2. (TypeOK /\ MountInv) /\ (TypeOK /\ MountInv)' /\ [Next]_vars =>
        [\E t \in Threads : Service!Serve(t)]_<<disk.fs, [t \in Threads |-> Shown(t)]>>
  <2> SUFFICES ASSUME TypeOK, MountInv, MountInv', [Next]_vars
               PROVE  (\E t \in Threads : Service!Serve(t)) \/ UNCHANGED <<disk.fs, Calls>>
    BY DEF Calls
  <2>1. CASE Next
    BY <2>1, ServiceStep
  <2>2. CASE UNCHANGED vars
    BY <2>2 DEF vars, Calls, Shown
  <2> QED BY <2>1, <2>2, Zenon
<1>3. Spec => [](TypeOK /\ MountInv)
  BY OneThreadInvariant
<1> QED BY <1>1, <1>2, <1>3, PTL DEF Spec, ImplementsService, Service!ServiceSpec
=============================================================================
