------------------------------ MODULE Mounter ------------------------------
(***************************************************************************)
(* The file system operations of mounter.c, called by the threads of the   *)
(* FUSE library.  The image is read through one FILE* that all threads     *)
(* share, and paths are taken apart with strtok(), which keeps what is     *)
(* left of the path in one static variable.  A step of the model is one    *)
(* call of fseek(), fread() or strtok(), together with the computation on  *)
(* local variables up to the next such call.                               *)
(*                                                                         *)
(* Paths are sequences of names, "/" is <<>>.  An archive is an image with *)
(* the file system it is meant to hold and the places of its headers, see  *)
(* Encodes in OnDiskStructure; the program knows the image only.           *)
(***************************************************************************)
EXTENDS OnDiskStructure

CONSTANTS
  Threads,       \* the threads of the FUSE library (one with the option -s)
  Archives,      \* the archives that may be mounted: [image, fs, at]
  Requests,      \* [op, path, write, offset, size]
  Garbage        \* what a variable may hold that fread() did not fill

\* The contract between the programs that write images and this one.
ASSUME ArchivesEncode == \A a \in Archives : Encodes(a.image, a.fs, a.at)

ASSUME RequestAssumption ==
  /\ Garbage \subseteq Nat
  /\ \A r \in Requests :
       /\ r.op \in {"getattr", "readdir", "open", "read"}
       /\ r.path \in Seq(Nat) /\ r.write \in BOOLEAN
       /\ r.offset \in Nat /\ r.size \in Nat
       /\ r.op \in {"open", "read"} => r.path # <<>>   \* "/" is a directory

VARIABLES
  disk,      \* the archive behind fp
  pos,       \* position of fp, shared
  rest,      \* what strtok() has left, shared
  pc,        \* where each thread is; from here on one value per thread
  req,       \* its request
  caller,    \* "top", "root", "find" or "list": who called readHeader()
  token,     \* the component to find, NoToken for NULL
  current,   \* the header find() has reached
  hdr, at,   \* the header readHeader() is filling, and its offset
  i,         \* index into the children of current
  reply      \* the return value, and what is handed to the kernel

vars == <<disk, pos, rest, pc, req, caller, token, current, hdr, at, i, reply>>

NoToken == -1
NoHeader == [f \in 0..4 |-> 0]
NoRequest == [op |-> "none", path |-> <<>>, write |-> FALSE, offset |-> 0, size |-> 0]
Reply(err, bytes) == [status |-> err, out |-> bytes]

----------------------------------------------------------------------------
(* stdio and string.h *)

\* fread() of one cell at p: the value, or at the end of the file whatever
\* the variable held; and the position after fread() of n cells.
Fread(p) == IF p < Len(disk.image) THEN {Cell(disk.image, p)} ELSE Garbage
After(p, n) ==
  IF p + n <= Len(disk.image) THEN p + n
  ELSE IF p <= Len(disk.image) THEN Len(disk.image) ELSE p

FreadBlock(p, n) ==
  {b \in [1..n -> UNION {Fread(p + k) : k \in 0..n}] :
     \A k \in 1..n : b[k] \in Fread(p + k - 1)}

Token(s) == IF s = <<>> THEN NoToken ELSE Head(s)
Rest(s)  == IF s = <<>> THEN s ELSE Tail(s)

----------------------------------------------------------------------------
Go(t, label) == pc' = [pc EXCEPT ![t] = label]

\* The operation of t returns.
Answer(t, err, bytes) ==
  /\ Go(t, "done")
  /\ reply' = [reply EXCEPT ![t] = Reply(err, bytes)]

\* Mutation: the offset is one too small.
ReadHeaderBefore(t, off, who) ==
  /\ Go(t, "seek")
  /\ at' = [at EXCEPT ![t] = off - 1]
  /\ caller' = [caller EXCEPT ![t] = who]

\* readHeader(fp, off), called by the given code
ReadHeader(t, off, who) ==
  /\ Go(t, "seek")
  /\ at' = [at EXCEPT ![t] = off]
  /\ caller' = [caller EXCEPT ![t] = who]

\* The kernel walks a path component by component, and never beyond a file.
KernelAsks(r) ==
  \A n \in 1..(Len(r.path) - 1) :
     SubSeq(r.path, 1, n) \in DOMAIN disk.fs =>
       disk.fs[SubSeq(r.path, 1, n)].type = DIRECTORY

\* libfuse hands t a request of the kernel.
Begin(t, r) ==
  /\ pc[t] = "idle"
  /\ KernelAsks(r)
  /\ req' = [req EXCEPT ![t] = r]
  /\ Go(t, "begin")
  /\ UNCHANGED <<disk, pos, rest, caller, token, current, hdr, at, i, reply>>

\* mount_getattr, the path is "/"
StatRoot(t) ==
  /\ pc[t] = "begin" /\ req[t].path = <<>> /\ req[t].op = "getattr"
  /\ Answer(t, "ok", <<DIRECTORY, 2, 0>>)
  /\ UNCHANGED <<disk, pos, rest, req, caller, token, current, hdr, at, i>>

\* mount_readdir, the path is "/"
ListRoot(t) ==
  /\ pc[t] = "begin" /\ req[t].path = <<>> /\ req[t].op = "readdir"
  /\ ReadHeader(t, 0, "top")
  /\ UNCHANGED <<disk, pos, rest, req, token, current, hdr, i, reply>>

\* find: the first strtok()
FirstToken(t) ==
  /\ pc[t] = "begin" /\ req[t].path # <<>>
  /\ rest' = Rest(req[t].path)
  /\ token' = [token EXCEPT ![t] = Token(req[t].path)]
  /\ ReadHeader(t, 0, "root")
  /\ UNCHANGED <<disk, pos, req, current, hdr, i, reply>>

\* readHeader: the two calls of fseek()
SeekHeader(t) ==
  /\ \/ pc[t] = "seek" /\ pos' = at[t] + NAME /\ Go(t, "name")
     \/ pc[t] = "reseek" /\ pos' = at[t] + LENGTH /\ Go(t, "length")
  /\ UNCHANGED <<disk, rest, req, caller, token, current, hdr, at, i, reply>>

\* readHeader: fread() of one field
FreadField(t, label, field, next) ==
  /\ pc[t] = label
  /\ \E v \in Fread(pos) : hdr' = [hdr EXCEPT ![t] = [hdr[t] EXCEPT ![field] = v]]
  /\ pos' = After(pos, 1)
  /\ Go(t, next)
  /\ UNCHANGED <<disk, rest, req, caller, token, current, at, i, reply>>

\* Mutation: offset and time are read in the wrong order.
ReadFieldSwapped(t) ==
  \/ FreadField(t, "name", NAME, "reseek")
  \/ FreadField(t, "length", LENGTH, "offset")
  \/ FreadField(t, "offset", OFFSET, "time")
  \/ FreadField(t, "time", TIME, "type")
  \/ FreadField(t, "type", TYPE, "got")

\* readHeader: fread() of the name, read64_pure(), read32_pure()
ReadField(t) ==
  \/ FreadField(t, "name", NAME, "reseek")
  \/ FreadField(t, "length", LENGTH, "time")
  \/ FreadField(t, "time", TIME, "offset")
  \/ FreadField(t, "offset", OFFSET, "type")
  \/ FreadField(t, "type", TYPE, "got")

\* readHeader returns to mount_readdir("/")
GotTop(t) ==
  /\ pc[t] = "got" /\ caller[t] = "top"
  /\ Answer(t, "ok", <<hdr[t][NAME]>>)
  /\ UNCHANGED <<disk, pos, rest, req, caller, token, current, hdr, at, i>>

\* readHeader returns to find: the root, or the child that was looked for
GotCurrent(t) ==
  /\ pc[t] = "got"
  /\ \/ caller[t] = "root"
     \/ caller[t] = "find" /\ hdr[t][NAME] = token[t]
  /\ current' = [current EXCEPT ![t] = hdr[t]]
  /\ Go(t, "compare")
  /\ UNCHANGED <<disk, pos, rest, req, caller, token, hdr, at, i, reply>>

\* Mutation: the index of find() is not incremented.
SkipChildAgain(t) ==
  /\ pc[t] = "got" /\ caller[t] = "find" /\ hdr[t][NAME] # token[t]
  /\ Go(t, "scan")
  /\ UNCHANGED <<disk, pos, rest, req, caller, token, current, hdr, at, i, reply>>

\* readHeader returns to the loop in find, and it is not this child
SkipChild(t) ==
  /\ pc[t] = "got" /\ caller[t] = "find" /\ hdr[t][NAME] # token[t]
  /\ i' = [i EXCEPT ![t] = @ + 1]
  /\ Go(t, "scan")
  /\ UNCHANGED <<disk, pos, rest, req, caller, token, current, hdr, at, reply>>

\* readHeader returns to the loop in mount_readdir, which lists the child
ListChild(t) ==
  /\ pc[t] = "got" /\ caller[t] = "list"
  /\ reply' = [reply EXCEPT ![t] = Reply("ok", Append(reply[t].out, hdr[t][NAME]))]
  /\ i' = [i EXCEPT ![t] = @ + 1]
  /\ Go(t, "scan")
  /\ UNCHANGED <<disk, pos, rest, req, caller, token, current, hdr, at>>

\* find: the test at the head of the loop over the components (no operation
\* calls find with "/", so there is a component)
Mismatch(t) ==
  /\ pc[t] = "compare" /\ current[t][NAME] # token[t]
  /\ Answer(t, "ENOENT", <<>>)
  /\ UNCHANGED <<disk, pos, rest, req, caller, token, current, hdr, at, i>>

\* find: the component matches; the next strtok()
NextToken(t) ==
  /\ pc[t] = "compare" /\ current[t][NAME] = token[t]
  /\ token' = [token EXCEPT ![t] = Token(rest)]
  /\ rest' = Rest(rest)
  /\ \/ /\ rest = <<>> \/ current[t][TYPE] = PLAIN_FILE
        /\ Go(t, "found")
        /\ UNCHANGED <<caller, i>>
     \/ /\ rest # <<>> /\ current[t][TYPE] # PLAIN_FILE
        /\ Go(t, "scan")
        /\ caller' = [caller EXCEPT ![t] = "find"]
        /\ i' = [i EXCEPT ![t] = 0]
  /\ UNCHANGED <<disk, pos, req, current, hdr, at, reply>>

\* Mutation: the loop runs one child too far.
SeekPointerPastEnd(t) ==
  /\ pc[t] = "scan" /\ i[t] <= current[t][LENGTH]
  /\ pos' = current[t][OFFSET] + i[t] * PTR_SIZE
  /\ Go(t, "pointer")
  /\ UNCHANGED <<disk, rest, req, caller, token, current, hdr, at, i, reply>>

\* The loops over the children: read64() seeks to the next pointer.
SeekPointer(t) ==
  /\ pc[t] = "scan" /\ i[t] < current[t][LENGTH]
  /\ pos' = current[t][OFFSET] + i[t] * PTR_SIZE
  /\ Go(t, "pointer")
  /\ UNCHANGED <<disk, rest, req, caller, token, current, hdr, at, i, reply>>

\* read64() reads it, and readHeader() is called with it.  A pointer out of
\* range is only complained about.
ReadPointer(t) ==
  /\ pc[t] = "pointer"
  /\ \E v \in Fread(pos) : ReadHeader(t, v, caller[t])
  /\ pos' = After(pos, 1)
  /\ UNCHANGED <<disk, rest, req, token, current, hdr, i, reply>>

\* The loop in find ends without a match.
NotFound(t) ==
  /\ pc[t] = "scan" /\ i[t] >= current[t][LENGTH] /\ caller[t] = "find"
  /\ Answer(t, "ENOENT", <<>>)
  /\ UNCHANGED <<disk, pos, rest, req, caller, token, current, hdr, at, i>>

\* Mutation: what was listed is not returned.
AllListedEmpty(t) ==
  /\ pc[t] = "scan" /\ i[t] >= current[t][LENGTH] /\ caller[t] = "list"
  /\ Answer(t, "ok", <<>>)
  /\ UNCHANGED <<disk, pos, rest, req, caller, token, current, hdr, at, i>>

\* The loop in mount_readdir ends.
AllListed(t) ==
  /\ pc[t] = "scan" /\ i[t] >= current[t][LENGTH] /\ caller[t] = "list"
  /\ Answer(t, "ok", reply[t].out)
  /\ UNCHANGED <<disk, pos, rest, req, caller, token, current, hdr, at, i>>

----------------------------------------------------------------------------
(* The operations, once find() has returned a header *)

Found(t, op) == pc[t] = "found" /\ req[t].op = op

mount_getattr(t) ==
  /\ Found(t, "getattr")
  /\ LET h == current[t]
     IN  IF h[TYPE] \in {DIRECTORY, PLAIN_FILE}
         THEN Answer(t, "ok", <<h[TYPE], h[LENGTH], h[TIME]>>)
         ELSE Answer(t, "ENOENT", <<>>)
  /\ UNCHANGED <<disk, pos, rest, req, caller, token, current, hdr, at, i>>

\* up to the loop
mount_readdir(t) ==
  /\ Found(t, "readdir")
  /\ \/ /\ current[t][TYPE] # DIRECTORY
        /\ Answer(t, "ENOENT", <<>>)
        /\ UNCHANGED <<caller, i>>
     \/ /\ current[t][TYPE] = DIRECTORY
        /\ Go(t, "scan")
        /\ caller' = [caller EXCEPT ![t] = "list"]
        /\ i' = [i EXCEPT ![t] = 0]
        /\ UNCHANGED reply
  /\ UNCHANGED <<disk, pos, rest, req, token, current, hdr, at>>

mount_open(t) ==
  /\ Found(t, "open")
  /\ Answer(t, IF current[t][TYPE] # PLAIN_FILE THEN "ENOENT"
               ELSE IF req[t].write THEN "EACCES" ELSE "ok", <<>>)
  /\ UNCHANGED <<disk, pos, rest, req, caller, token, current, hdr, at, i>>

\* up to its fseek()
mount_read(t) ==
  /\ Found(t, "read")
  /\ \/ /\ current[t][TYPE] # PLAIN_FILE
        /\ Answer(t, "ENOENT", <<>>)
        /\ UNCHANGED pos
     \/ /\ current[t][TYPE] = PLAIN_FILE
        /\ pos' = current[t][OFFSET]
        /\ Go(t, "data")
        /\ UNCHANGED reply
  /\ UNCHANGED <<disk, rest, req, caller, token, current, hdr, at, i>>

Slice(bytes, r) ==
  IF r.offset < Len(bytes)
  THEN SubSeq(bytes, r.offset + 1,
              IF r.offset + r.size > Len(bytes) THEN Len(bytes) ELSE r.offset + r.size)
  ELSE <<>>

\* mount_read reads the whole file and hands out the part asked for
ReadData(t) ==
  /\ pc[t] = "data"
  /\ \E b \in FreadBlock(pos, current[t][LENGTH]) : Answer(t, "ok", Slice(b, req[t]))
  /\ pos' = After(pos, current[t][LENGTH])
  /\ UNCHANGED <<disk, rest, req, caller, token, current, hdr, at, i>>

\* The thread is free for another request; its local variables are gone.
Finish(t) ==
  /\ pc[t] = "done"
  /\ Go(t, "idle")
  /\ req' = [req EXCEPT ![t] = NoRequest]
  /\ reply' = [reply EXCEPT ![t] = Reply("ok", <<>>)]
  /\ caller' = [caller EXCEPT ![t] = "root"]
  /\ token' = [token EXCEPT ![t] = NoToken]
  /\ current' = [current EXCEPT ![t] = NoHeader]
  /\ hdr' = [hdr EXCEPT ![t] = NoHeader]
  /\ at' = [at EXCEPT ![t] = 0]
  /\ i' = [i EXCEPT ![t] = 0]
  /\ UNCHANGED <<disk, pos, rest>>

----------------------------------------------------------------------------
\* No request has come yet.
Ready ==
  /\ pos = 0
  /\ rest = <<>>
  /\ pc = [t \in Threads |-> "idle"]
  /\ req = [t \in Threads |-> NoRequest]
  /\ caller = [t \in Threads |-> "root"]
  /\ token = [t \in Threads |-> NoToken]
  /\ current = [t \in Threads |-> NoHeader]
  /\ hdr = [t \in Threads |-> NoHeader]
  /\ at = [t \in Threads |-> 0]
  /\ i = [t \in Threads |-> 0]
  /\ reply = [t \in Threads |-> Reply("ok", <<>>)]

Init == disk \in Archives /\ Ready

\* What t does on its own once it has a request.
Work(t) ==
  \/ StatRoot(t) \/ ListRoot(t)
  \/ FirstToken(t) \/ SeekHeader(t) \/ ReadField(t)
  \/ GotTop(t) \/ GotCurrent(t) \/ SkipChild(t) \/ ListChild(t)
  \/ Mismatch(t) \/ NextToken(t)
  \/ SeekPointer(t) \/ ReadPointer(t) \/ NotFound(t) \/ AllListed(t)
  \/ mount_getattr(t) \/ mount_readdir(t) \/ mount_open(t) \/ mount_read(t)
  \/ ReadData(t)

Next ==
  \E t \in Threads :
     \/ \E r \in Requests : Begin(t, r)
     \/ Work(t)
     \/ Finish(t)

Spec == Init /\ [][Next]_vars

\* A thread that has a request is scheduled until it has answered.
FairSpec == Spec /\ \A t \in Threads : WF_vars(Work(t))

----------------------------------------------------------------------------
(* Properties *)

Labels == {"idle", "begin", "seek", "name", "reseek", "length", "time", "offset",
           "type", "got", "compare", "scan", "pointer", "found", "data", "done"}

Callers == {"top", "root", "find", "list"}
Replies == [status : {"ok", "ENOENT", "EACCES"}, out : Seq(Nat)]

\* Type correctness.
TypeOK ==
  /\ pos \in Nat
  /\ rest \in Seq(Nat)
  /\ pc \in [Threads -> Labels]
  /\ req \in [Threads -> Requests \cup {NoRequest}]
  /\ caller \in [Threads -> Callers]
  /\ token \in [Threads -> Nat \cup {NoToken}]
  /\ current \in [Threads -> [0..4 -> Nat]]
  /\ hdr \in [Threads -> [0..4 -> Nat]]
  /\ at \in [Threads -> Nat]
  /\ i \in [Threads -> Nat]
  /\ reply \in [Threads -> Replies]

(***************************************************************************)
(* The file system that the kernel sees.  Between the arrival of a request *)
(* and its answer nothing of what a thread does shows.                     *)
(***************************************************************************)
Shown(t) ==
  [state |-> CASE pc[t] = "idle" -> "idle" [] pc[t] = "done" -> "answered"
               [] OTHER -> "pending",
   req |-> req[t],
   status |-> IF pc[t] = "done" THEN reply[t].status ELSE "ok",
   out |-> IF pc[t] = "done" THEN reply[t].out ELSE <<>>]

Service == INSTANCE WriteOnceFS WITH
             fs <- disk.fs, call <- [t \in Threads |-> Shown(t)]

\* The operations of mounter.c implement the file system that the archive
\* holds: a request is answered once, with what WriteOnceFS promises for it,
\* and nothing changes the archive.
ImplementsService == Service!ServiceSpec

\* Every answer is the one the archive demands: the shared file position and
\* the remains of earlier paths in strtok() never leak into it.
AnswersCorrect ==
  \A t \in Threads : pc[t] = "done" => reply[t] = Service!Promised(disk.fs, req[t])

\* No read goes beyond the end of the image.
ReadsInRange ==
  \A t \in Threads :
     /\ pc[t] \in {"name", "length", "time", "offset", "type", "pointer"} =>
          pos < Len(disk.image)
     /\ pc[t] = "data" => pos + current[t][LENGTH] <= Len(disk.image)

\* Every request is answered.
EveryRequestAnswered ==
  \A t \in Threads : (pc[t] # "idle") ~> (pc[t] = "done")

============================================================================
