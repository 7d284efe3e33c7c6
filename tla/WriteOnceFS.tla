---------------------------- MODULE WriteOnceFS ----------------------------
(***************************************************************************)
(* What the two programs promise together.  An archive is blank until it   *)
(* is mastered, once, and never changes afterwards; from then on every     *)
(* request for it is answered, in one step, as its contents demand.  The   *)
(* detailed specifications are shown to implement this one.                *)
(***************************************************************************)
EXTENDS OnDiskStructure

CONSTANTS
  Threads,
  Requests       \* [op, path, write, offset, size]

VARIABLES
  fs,            \* the archive: path |-> object, as in OnDiskStructure
  call           \* thread |-> [state, req, status, out]

Blank == <<>>
NoRequest == [op |-> "none", path |-> <<>>, write |-> FALSE, offset |-> 0, size |-> 0]

Call(state, req, status, out) ==
  [state |-> state, req |-> req, status |-> status, out |-> out]
Quiet == Call("idle", NoRequest, "ok", <<>>)
Pending(r) == Call("pending", r, "ok", <<>>)
Answered(r, reply) == Call("answered", r, reply.status, reply.out)

Reply(err, bytes) == [status |-> err, out |-> bytes]

\* The bytes of a file that a read may return.
Part(bytes, offset, size) ==
  [k \in {n \in 1..size : offset + n <= Len(bytes)} |-> bytes[offset + k]]

\* The answer to request r.  Above the root of the archive there is the root of
\* the mount, which holds nothing else.
Promised(archive, r) ==
  LET there(type) == r.path \in DOMAIN archive /\ archive[r.path].type = type
  IN  CASE r.op = "getattr" /\ r.path = <<>> -> Reply("ok", <<DIRECTORY, 2, 0>>)
        [] r.op = "readdir" /\ r.path = <<>> ->
             Reply("ok", CHOOSE p \in DOMAIN archive : Len(p) = 1)
        [] r.op = "getattr" /\ r.path \in DOMAIN archive ->
             LET o == archive[r.path] IN Reply("ok", <<o.type, Size(o), o.time>>)
        [] r.op = "readdir" /\ there(DIRECTORY) -> Reply("ok", archive[r.path].kids)
        [] r.op = "open" /\ there(PLAIN_FILE) ->
             Reply(IF r.write THEN "EACCES" ELSE "ok", <<>>)
        [] r.op = "read" /\ there(PLAIN_FILE) ->
             Reply("ok", Part(archive[r.path].bytes, r.offset, r.size))
        [] OTHER -> Reply("ENOENT", <<>>)

----------------------------------------------------------------------------
Master ==
  /\ fs = Blank /\ fs' # Blank
  /\ UNCHANGED call

Update(t, from, to) == call[t].state = from /\ call' = [call EXCEPT ![t] = to]

\* The kernel asks, the file system answers, the kernel takes the answer.
Serve(t) ==
  /\ fs # Blank
  /\ \/ \E r \in Requests : Update(t, "idle", Pending(r))
     \/ Update(t, "pending", Answered(call[t].req, Promised(fs, call[t].req)))
     \/ Update(t, "answered", Quiet)
  /\ UNCHANGED fs

NobodyAsks == call = [t \in Threads |-> Quiet]

\* A mounted archive.
ServiceSpec ==
  fs # Blank /\ NobodyAsks /\ [][\E t \in Threads : Serve(t)]_<<fs, call>>

\* The life of an archive.
Spec ==
  fs = Blank /\ NobodyAsks /\ [][Master \/ \E t \in Threads : Serve(t)]_<<fs, call>>
============================================================================
