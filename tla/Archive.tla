------------------------------ MODULE Archive ------------------------------
(***************************************************************************)
(* The programs together.  master or generate leaves an image behind, then *)
(* mounter serves it or tree lists it.  What hashAndAppend() adds to the   *)
(* image is a trailer here.  Reed-Solomon coding does not appear: mounter  *)
(* undoes it before it opens the image, and tree, which has no decoder, is *)
(* given the file that master leaves uncoded (".necc").  HashSeal and      *)
(* MountPipeline have the details.                                         *)
(***************************************************************************)
EXTENDS ImageWriter

CONSTANTS Threads, Requests, Garbage, Padding, Flags, Generated

VARIABLES
  disk,                                                    \* the finished image
  pos, rest, mpc, req, caller, token, current, hdr, at, i, reply,     \* mounter
  tpc, flag, good, from, header, stack, listing                          \* tree

\* As in Mounter.
ASSUME RequestAssumption ==
  /\ Garbage \subseteq Nat
  /\ \A r \in Requests :
       /\ r.op \in {"getattr", "readdir", "open", "read"}
       /\ r.path \in Seq(Nat) /\ r.write \in BOOLEAN
       /\ r.offset \in Nat /\ r.size \in Nat
       /\ r.op \in {"open", "read"} => r.path # <<>>

mountVars == <<pos, rest, mpc, req, caller, token, current, hdr, at, i, reply>>
toolVars == <<tpc, flag, good, from, header, stack, listing>>

M == INSTANCE Mounter WITH pc <- mpc, Archives <- {}
T == INSTANCE TreeTool WITH image <- disk.image

everything == <<allVars, disk, mountVars, toolVars>>

NoDisk == [image |-> <<>>, fs |-> <<>>, at |-> <<>>]

----------------------------------------------------------------------------
\* Mutation: nothing is appended.
NoTrailer == <<>>

\* One digest and the count of the digests.
Trailer == <<7, 1>>

\* master, up to the end of imageDFS
Mastering ==
  /\ disk = NoDisk /\ pc \notin {"written", "undefined"}
  /\ WNext
  /\ UNCHANGED <<disk, mountVars, toolVars>>

\* the end of run()
Seal ==
  /\ disk = NoDisk /\ pc = "written"
  /\ disk' = [image |-> output \o Trailer,
              fs |-> SourceTree, at |-> ByPath(headerAt)]
  /\ UNCHANGED <<allVars, mountVars, toolVars>>

\* The other origin of images.
GenerateImage ==
  /\ disk = NoDisk /\ header_count = 0 /\ phase = "walk"
  /\ disk' \in Generated
  /\ UNCHANGED <<allVars, mountVars, toolVars>>

\* One of the two programs that read images runs on it.  They share nothing.
Mount == disk # NoDisk /\ tpc = "off" /\ M!Next /\ UNCHANGED <<allVars, toolVars>>

Tree ==
  /\ disk # NoDisk /\ \A t \in Threads : mpc[t] = "idle"
  /\ pos = 0                         \* bound: on an image that is not mounted
  /\ T!Open \/ T!Step
  /\ UNCHANGED <<allVars, disk, mountVars>>

Listed == tpc = "done" /\ UNCHANGED everything

AInit == WInit /\ disk = NoDisk /\ M!Ready /\ T!Off

ANext == Mastering \/ Seal \/ GenerateImage \/ Mount \/ Tree \/ Listed

ASpec == AInit /\ [][ANext]_everything

----------------------------------------------------------------------------
(* Properties *)

\* Every image that is finished fulfils the contract that the readers rely on:
\* it holds the source directory, every name, time, size, byte and list of
\* children, with every header where its parent says.  For the hand-made images
\* the computed offsets fit together.
ContractKept == disk # NoDisk => Encodes(disk.image, disk.fs, disk.at)

\* The listing is complete and in order: tree prints one line for each object of
\* the source, each directory followed by its contents one level deeper.
ListingComplete ==
  tpc = "done" =>
    listing = T!Lines(disk.fs, CHOOSE p \in DOMAIN disk.fs : Len(p) = 1)

\* The stream of tree never fails, although the last header of an image may end
\* closer to its end than readHeader() reads: there is always a trailer or file
\* data behind it.
StreamNeverFails == tpc # "undefined" /\ good

System == INSTANCE WriteOnceFS WITH
            fs <- disk.fs, call <- [t \in Threads |-> M!Shown(t)]

\* Mastering and mounting together implement a write-once file system: the source
\* directory becomes visible at once and complete, every answer of the mounted
\* file system is the one the source directory demands, and nothing changes it.
ImplementsWriteOnceFS == System!Spec
============================================================================
