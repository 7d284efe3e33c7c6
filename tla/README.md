# A TLA+ model of the Write-Once File System

The repository holds two main programs. `master` walks a directory, writes it into an
image, appends keyed hashes and, unless told otherwise, Reed-Solomon parity.
`mounter` repairs the image, checks the hashes and serves it as a read-only FUSE
file system. Two small ones go with them: `tree` lists an image, `generate` writes
three images by hand. This directory models all four from the source, alone and
together, checks the models with TLC on small instances and proves, with TLAPS,
what matters most for sources, images and requests of any size.

## The system and its parts

| part | source (below `src/src/`) | modelled by |
|---|---|---|
| layout of the image | `OnDiskStructure.h`, `readFunctions.cpp` | `OnDiskStructure` |
| the walk and its callback | `master.cpp`: `run`, `s_builder` | `TreeBuilder` |
| writing the image | `master.cpp`: `imageDFS`, `writeDFS`, `find_header_size` | `ImageWriter` |
| sealing and checking | `master.cpp`: `hashAndAppend`; `mounter.c`: `checkHash` | `HashSeal` |
| error correction | `master.cpp`: `addReedSolomon`; `fileDecoder.cpp`, `ecc.cpp`; schifra's file encoder | `MountPipeline` |
| start of the mounter | `mounter.c`: `main` | `MountPipeline` |
| file system operations | `mounter.c`: `find`, `getattr`, `readdir`, `open`, `read` | `Mounter` |
| tree listing tool | `tree.cpp` | `TreeTool` |
| hand-made images | `generate.cpp` | `Generate` |
| names of files | `master.cpp`: `parse_name`, `space_pad`; `readFunctions.cpp`, `tree.cpp` | `Names` |
| the programs together | all of these | `Archive` |
| what they promise | | `WriteOnceFS` |
| start of the master, key prompt | `master.cpp`: `main`, `requestKey.cpp` | not modelled |
| Fletcher checksum | `DataCheck.cpp` | not modelled, nothing calls it |
| Galois field arithmetic, option parser | `libraries/schifra`, `cxxopts.hpp` | not modelled |

The parts follow each other: the callbacks of `nftw` build a tree in memory, the
tree is written as headers, pointers and data, the file is sealed, encoded,
possibly damaged, decoded into a second file (`.rec`), checked, and read by the
threads of the FUSE library.

## The modules

`OnDiskStructure` has the enum, the header fields and the image as a sequence of
cells. A header field, a pointer and a byte of data take one cell each, so a
header is 5 cells instead of 284 bytes. `Put` is `fseek` and `fwrite`, with the
hole that a write beyond the end leaves; `ToInt` is the conversion to a signed
`int` of a given width. `Encodes(image, fs, at)` is the contract between the
programs that write images and those that read them: `image` holds the file system
`fs`, with the header of each path `p` at `at[p]`.

`WriteOnceFS` is the abstract specification. An archive is blank until it is
mastered, in one step; from then on each thread of the kernel's side is idle, waits
for an answer or has one, and the answer to a request is `Promised(fs, r)`. It says
nothing of images.

`TreeBuilder` is the walk. The source directory is not a constant, it is revealed
step by step: reporting a directory chooses its listing, reaching an entry chooses
its kind. `frames` is the recursion of `nftw` (external); `data`, `children`,
`directories`, `header_count` and `subitems_count` are the program's. `data[h].in`
and `data[h].name` record where an object really lives; the code never stores
that, it relies on the stack. The actions are the branches of the callback:
`BuildDirectory` (FTW_D), `ReportFile` and `BuildFile` (FTW_F before and after the
loop around `fopen`), `Refuse` (`return 7`), `IgnoreDot`, and for `nftw` itself
`SkipSeen` and `Return`. `Unlock` is the environment making a file readable.

`ImageWriter` extends `TreeBuilder`, as `run` calls one after the other. The
recursion of `writeDFS` is the stack `calls`; each step is one node written
(`WriteFile`, `WriteDirectory`) or one pointer stored in the parent
(`StorePointer`). Following an uninitialised slot, or using the NULL that `fopen`
returned, has no defined behaviour: `Derail` ends the model there.

`HashSeal` is the loop of `hashAndAppend` and the loop of `checkHash`, block by
block, with damage to the data, to a digest or to the count in between, a file that
ends too early, and a second key. The HMAC is ideal. Integers have the program's
widths, scaled down.

`MountPipeline` is one `main` of `mounter.c` per process: options and key, decode
block by block into the shared `.rec` file, check, ask, mount. Encoding and the two
kinds of blocks of the decoder are modelled; the code itself by its contract: up to
`fec_length / 2` wrong symbols are corrected, beyond that decoding fails or yields
data that was never encoded. `checkHash`, which `HashSeal` has step by step, is one
step here with what it may conclude (`Verdicts`): a count that leaves no image leaves
nothing to compare, and the file is mounted "unchecked"; a file passes only if it has all
the symbols of a sealed image, up to the count itself; and an intact image may be
rejected if it is too large for an `int` (`large`). The encoded file is given position by position
(`Encoded`); `MCPipeline` evaluates that this is the sequence of the encoded blocks
(`BlocksInOrder`) for images of up to three blocks.

`Mounter` has one step per `fseek`, `fread` and `strtok`, because these are what
the threads share (`pos`, `rest`). `disk` is an archive that satisfies `Encodes`; the
program sees its image only. `Service` is the refinement mapping to `WriteOnceFS`:
what a thread does between the arrival of a request and its answer is hidden
(`Shown`).

`TreeTool` is the recursion of `print_metadata`, with `stack` for the loops in
progress. The state of the stream is part of it: `readHeader` reads a whole `m_hdr`,
which is padded beyond the size of a header on disk, and once a stream has failed it
stays so.

`Generate` has the three images of `generate.cpp` as values, offsets computed as in
the code, each with the file system it is meant to hold. Its names are padded with
spaces that count as part of the name.

`Archive` composes the programs. `ImageWriter`, or one of the hand-made images,
yields `disk`; then `Mounter` serves it or `TreeTool` lists it. The file system that
the image should hold is computed from where the objects live in the source
(`SourceTree`, from `data[h].in` and `data[h].name`), not from the `children` that the
program has linked. What `hashAndAppend` adds is a trailer of two cells here, and error
correction does not appear.

`Names` follows one name, character by character, from the path through the buffers
into the image and out again. Everywhere else a name is an opaque value.

`MC*` modules give the constants their values.

Definitions preceded by `\* Mutation:` are not part of the model. Each is a
plausible mistake in the definition after it; putting it in the place of that
definition makes the property `PROJECT.json` names fail.

## The runs

Holding:

* `master`: sources of up to 5 objects below the root, 3 per directory, files of 0
  to 2 bytes, any of them locked for a while. The tree is the source's
  (`TreeMatchesSource`), complete (`EverySlotFilled`, `EveryObjectImaged`) and of
  the reserved size (`HeaderSizeExact`); `writeDFS` meets no garbage
  (`NeverDerails`); the finished image holds every header, pointer and byte
  (`StructureIntact`, `FilesIntact`) without a gap (`ImageComplete`); and mastering
  ends unless a file stays locked (`MasterEnds`). Five objects allow three
  levels, an empty directory first, in the middle and last, and two directories
  that fill up with the same callback.
* `master_hostile`: every kind of entry, entries that come and go between the
  count and the walk, files that change size or vanish before they are copied.
  Still no slot is written out of bounds or twice (`SlotsInBounds`), headers do
  not run into the data (`HeadersBelowData`), and if an image is finished, its
  structure and its unchanged files are intact.
* `seal`: all images of 1 to 5 bytes and longer ones of up to 11, with blocks of 3,
  so 0 to 3 full blocks with and without a rest; every damaged count up to 20, the
  file cut off anywhere. An `int` of 4 bits ends at 7: the product of a count with
  `hash_size` wraps around, and the fourth block begins beyond the limit. One cell at
  most is damaged in each behaviour.
  `IntactAccepted`, `AcceptedIsGenuine`, `CheckedOrEmpty`, and every check ends
  (`VerdictReached`).
* `mount_one_thread`: any sequence of requests, on one image with nested, empty and
  equally named objects: `getattr` of each object and of a missing one in each
  directory, the other operations on a selection, the wrong type included. The mounter
  implements `WriteOnceFS` (`ImplementsService`); `AnswersCorrect`, `ReadsInRange`,
  `EveryRequestAnswered`.
* `archive`: every source of up to 3 objects below the root, with files of 0 or 2
  bytes, and the hand-made images, whose texts are shorter than the program's.
  Each finished image satisfies `Encodes` (`ContractKept`); mastering and mounting
  together implement `WriteOnceFS` with the source as its contents
  (`ImplementsWriteOnceFS`); `tree` prints every object once, at its depth and in
  order (`ListingComplete`), and its stream never fails (`StreamNeverFails`): there is
  always a trailer or data behind the last header. Three objects allow an empty
  directory between two siblings, and a file three levels below the root.
* `names`: all names of up to 4 characters out of a letter, a space, a dot and a
  backslash in buffers of 5, so names that fill the buffer, and spaces at either end.
  `NameKept`, `AlwaysTerminated`, `ListedTrimmed`.
* `mount`: one mounter, an image of two full blocks and a partial one, up to 3
  damaged symbols (the code corrects 1 per block) or a file cut off anywhere, a
  recovered file left over from an earlier image of the same length, right or wrong key,
  with and without `--necc`, `.rec` writable or not, and images whose offsets an `int`
  cannot hold. A product of count and `hash_size` has 3 bits, so that a damaged count
  may leave no image, or stand for the right one. What is mounted with its hashes
  compared and passed is what was sealed (`MountedIsGenuine`), also if decoding failed
  and the user went on; only if decoding did not begin can it be the earlier image.
  What the code can repair is repaired unasked (`DamageRepaired`), and each mounter comes
  to an end (`MountersEnd`).

Violated, each a disagreement between the code and what the repository says of it
(quoted in `PROJECT.json` under `findings`):

* `master_seen`: a link to a directory that was visited before is counted but not
  reported by `nftw`. It is the last entry of a subdirectory in the trace, and the next
  entry of the directory above ends up in the subdirectory (`HungInOwnDirectory`).
* `master_dangling`: a dangling link or an unreadable directory ends the walk, the
  result is ignored, and the image is written from uninitialised nodes.
* `master_large`: the size of a file in an `int`; from 2 to 4 GiB it comes out
  negative and the file is not copied.
* `mount_two_threads`: threads share the stream and `strtok`; answers get mixed up.
* `mount_shared`: a second mounter truncates the file behind the first one's mount.

Also met, without a run of their own; where a property of a holding run has to except
the case, it does so by name:

* A source path that ends in `.`: the callback returns before it stores the root, the
  first entry takes the root's place and the others are left out (`IgnoreDot`, part of
  `master_hostile`).
* A damaged count for which the digests seem to fill the whole file: there is nothing
  left to check and the check passes with any key (`count = 0` in `CheckedOrEmpty`,
  `"unchecked"` in `MountPipeline`).
* An image with blocks beyond 2 GiB: their offset does not fit the `int`, `fseek` fails
  and an intact image may be rejected (`OffsetsFit` in `IntactAccepted`, `~large` in
  `DamageRepaired`).
* A name with a backslash: `parse_name` keeps what follows the last one, although its
  comment says "returns final token separated by /" (`master.cpp:344`; `Plain` in
  `Names`).

Deadlock is checked in every run; finished programs stutter explicitly (`Done`,
`Ended`).

### Fairness

`WFairSpec` has weak fairness of the program's own steps: it is sequential and
never waits. `Unlock` has none, nobody promises to make a file readable, so
`MasterEnds` assumes `[]<>openable`. In `HashSeal` and `MountPipeline` the programs
run on, a sealed image is looked at some day, and the user answers a question, the one
for a key with a key that is long enough. In `Mounter` each thread goes on with a
request it has begun; no request need ever come. `Archive` and `Names` have safety
properties only and assume none.

### Bounds

`MaxListing` and `MaxObjects` bound the source, `MaxCount` a damaged count,
`MaxDamage` the damaged symbols. The proofs hold for every value of them. In `Archive`
an image is listed or mounted, not both: the programs share nothing. Widths of
integers are scaled with the sizes: `IntBits = 8` leaves room, 3 and 4 put the limit
within reach. `NAME_SIZE` is 5 instead of 256. File names are positions in a listing,
so names are distinct in a directory and coincide across directories; only `Names`
spells them out.

## What is proved

The proofs are about `TreeBuilder`, `ImageWriter`, `Names`, `HashSeal`, `MountPipeline`,
`Mounter` and `Archive` (with `TreeTool`), for any constants that satisfy the
assumptions of these modules.
`BuilderAssumption`, `WriterAssumption` and `PipelineAssumption` only state types, and
that images, blocks and parities are not empty. Each inductive invariant below was
evaluated by TLC on the instance of the run it belongs to before it was proved.

Each proof module opens with a `USE` that lists the provers for the steps that name
none: SMT, Zenon, then both again with more time. The second round is needed on large
modules, where tlapm now and then gives up translating an obligation for the SMT solver
after five seconds, whatever the step's own limit; the next attempt then takes a moment.

### The walk

`TreeBuilderProofs`, for every source, changing and unreadable ones included:

* `TypeCorrect`: the type invariant. It is inductive together with `OpeningInv`
  (while a file is being opened, the walk is at an entry).
* `SlotsAlwaysInBounds`: `SlotsInBounds`. It speaks of the first free slot of a
  stacked directory only and is not inductive; `StackOK` says that all slots from
  `fill` on are free and that no directory is stacked twice. The callback is split
  into adding a header (`GrowSlots`), hanging it (`HangSlots`) and pushing it
  (`PushSlots`).

and for files and directories that nobody changes (`OrdinarySource`), locked files
included:

* `OrdinarySourceImaged` and `OrdinarySourceFillsSlots`: `TreeMatchesSource`,
  `EveryObjectImaged` and `EverySlotFilled`. The invariant `MirrorInv` says that the program's stack and
  the recursion of `nftw` agree level by level (`LockStep`), which is what the
  code relies on without saying so; `Placed`, `Filled` and `Attached` follow along.
  `master_seen`, `master_dangling` and the change of a directory during the walk
  are the ways in which `LockStep` breaks.
* `OrdinarySourceSized`: `HeaderSizeExact`, that the two counters agree with the
  tree. Instead of a sum over the stack, which would need an induction, the slots
  are counted as a set, and `children` is shown to be a bijection onto the headers.

### The image

`MasterImplementsWalk` says that the whole of `master` implements the walk (`WSpec =>
Spec`), so that `MasterSlotsInBounds` and `MasterImagesOrdinarySource` carry the
results over to the time when the image is written. The image itself is the subject of
`ImageInvariant` (the invariant, the lemmas on one write, and the steps that write a
header) and `MasterProofs` (the pointers, and the theorems). For every
source, one with links, unreadable entries and entries that come and go included:

* `MasterTypeCorrect`: `WTypeOK`.
* `HeadersStayBelowData`: `HeadersBelowData`, so no header or pointer is written
  over a file.
* `StructureAlwaysIntact`: `StructureIntact`, all headers and pointers of a finished
  image are right.
* `FilesAlwaysIntact`: `FilesIntact`, if each size of a file fits an `int`
  (`FilesFitInt`; `master_large` shows that the condition is needed). A file that grows or
  shrinks before it is copied may spoil its own bytes, never those of another: the
  ones that follow are written later and over it.

and for an ordinary source:

* `OrdinarySourceNeverDerails`: `NeverDerails`, if files keep their sizes too.
* `OrdinaryImageComplete`: `ImageComplete`.
* `OrdinarySourceHeld`: the closed image `Encodes` the source (`HoldsSource`), if files
  keep their sizes and fit an `int`. The other theorems speak of headers and slots, this
  one of paths, as the readers see an image.

None of these is inductive: they speak of the finished image, or of two offsets. The
invariant `ImageInv` has three parts. `Progress`: the calls of `writeDFS` form a path in
the tree, and a node other than the root has been written only if its one slot has been
entered, so that none is written twice. `Room`: the headers and slots written so far are
subsets of those that `find_header_size` counts, and `header_off` is their number; no sum
over the tree is needed. `Layout`: each header with its pointers, and each file, has
cells of its own, and what was written there is still there. That every object of an
ordinary source has its header in the end is shown without induction over the tree:
a child has a greater number than the directory it is in, so of the objects
without a header there would be a least one (`LeastOf`), whose directory has one and
all its pointers, the one to the object included.

Paths need the same argument once more. `PathOf(h)` is defined by the route from the root
down to `h`, a sequence of objects, not by recursion. That each object has a route and
only one, that a route without its last step is the route to the directory, and that
different objects have different paths (`RouteExists`, `RouteUnique`, `RouteFront`,
`PathInjective` in `TreeBuilderProofs`) each follow by looking at the least object for
which it would fail. `ImagedEncodes` then turns an image with a header for every object
into one that satisfies the contract. It also needs that the image does not end before
the data of its last file, an empty one included, which is what `TailInv` adds to the
invariant.

### Names

`NamesProofs`, for any set of characters that has the space and neither NUL nor a slash
(`NameAssumption`), buffers of any size, and names of any length that leaves room for the
terminator:

* `NamesAlwaysKept`: `NameKept`, a name without a backslash is shown as it was found.
* `BuffersTerminated`: `AlwaysTerminated`.
* `ListingTrimsSpaces`: `ListedTrimmed`, what `tree` takes off a name is the spaces at its
  ends, and all of them.

`NameKept` speaks of the last step only. `NameInv` says of every buffer on the way
which string it holds (`Buffer`: the string, then a terminator; what follows is not
its business), which the lemmas `Padded`, `Copied` and `BufferString` carry through
`space_pad`, `strncpy` and the reading of a C string.

### The seal

`SealProofs`, for images, blocks and digests of any size:

* `SealTypeCorrect`: `TypeOK`, whatever number the damaged count shows.
* `IntactImageAccepted`: `IntactAccepted`. `SealInv` carries what the loop of
  `hashAndAppend` leaves over to the loop of `checkHash`: each digest in the file is that
  of the block it was computed from (`FileInv`), the count at the end is the number of
  blocks (`SealedInv`, `AllBlocks`), and in both loops `count` blocks are done (`LoopInv`).
* `AcceptedImageGenuine` and `AcceptedCheckedOrEmpty`: `AcceptedIsGenuine` and
  `CheckedOrEmpty`, without the condition on the offsets that `IntactAccepted` has.
  `GenuineInv` says what kinds of cells a damaged file has and where (`Stored`), and what
  the digests that matched say of them (`Matched`): the key is the right one, the image
  does not begin its digests too early, and the blocks compared so far hold no damaged
  byte. An offset that overflows makes the digest fail, except for the last one of a
  file that was cut off, and then the sizes do not work out (`AcceptedWhole`).

They assume that an `int` can hold the size of a digest and of a block and that a digest
is no longer than a block (`SealAssumption`, `WidthAssumption`), that a digest has an even
number of cells, as the program's 32 bytes (`CountAssumption`), and that damage shows:
a damaged byte is none of the bytes an image has (`ByteAssumption`).

### Repair

`PipelineProofs`, for images, blocks and parities of any length, damaged anywhere:

* `PipelineTypeCorrect`: `TypeOK`, for any number of mounters.
* `DamageAlwaysRepaired`: `DamageRepaired`, if there is one mounter; `mount_shared`
  shows what a second one does to the recovered file. `RepairInv` says that a mounter
  which has come to block `b` has recovered the first `b` blocks of the sealed image and
  has not been in trouble (`Recovering`). The step from `b` to `b + 1` rests on two
  lemmas. `WordIsNear`: each place where the word read differs from the code word
  written is mapped to a damaged symbol of the block, one to one, past the zeros that
  are not stored for a partial block. `NearUnique`: two code words differ in all the
  parity and in one more place, so that no word is within `fec_length / 2` of both. The
  lengths of the last block and of the file then make the loop end exactly behind
  the last block (`MoreBlocks`, `AllRecovered`). `checkHash` then has the sealed image
  before it and does not reject it (`SealedAccepted`).
* `MountedAlwaysGenuine`: `MountedIsGenuine`, if there is one mounter. A file that passes
  is the sealed image or an earlier one of the same key, so it is to be shown that the
  earlier one cannot come back. `GenuineInv` says where its digests are not: not in the
  image file, whatever the medium did to it, since a symbol of it is one of the sealed
  image or parity (`NoneForeign`, `EncodedSymbols`), and not in the recovered file once
  decoding has truncated it. If decoding did not begin, they may be there, and the
  property says so.

They assume types and positive lengths (`PipelineAssumption`), and that the HMAC is ideal:
an earlier image, if it is another, has a symbol in its digests that no decoder comes up
with by chance (`DigestAssumption`).

### The file system

`MounterProofs`, for every archive that satisfies the contract
(`ArchivesEncode`: its image `Encodes` its file system; the lemmas of the invariant
ask for that of the image at hand only, `Genuine`) and all requests that the kernel
may make (`RequestAssumption`: types, and no `open` or `read` of the mount point;
`KernelAsks`: the kernel walks a path by components and never beyond a file):

* `MounterTypeCorrect`: the type invariant, for any number of threads.
* `OneThreadAnswersCorrect`, `OneThreadReadsInRange`: `AnswersCorrect` and
  `ReadsInRange`, if there is one thread. `mount_two_threads` shows that the condition
  is needed.
* `OneThreadImplementsService`: every step of one thread is a step of `WriteOnceFS` or
  leaves its variables alone.

`AnswersCorrect` speaks of finished requests only. The invariant `MountInv` says what a
request in progress has achieved: which components of the path `strtok` has given out
(`TokenInv`), whose header is being read and that the fields read so far are those of
the image (`HeaderInv`), which children were passed by without a match (`FindInv`) or
listed (`ListInv`), and where the pointer to the next child is (`PointerInv`). There
is a lemma for each action.

### The programs together

`ArchiveProofs`, for ordinary sources of any size and shape whose files keep their sizes
and fit an `int` (`OrdinarySource`, `~FilesChange`, `FilesFitInt`), and the requests of
the mounter (`RequestAssumption`):

* `OrdinaryContractKept`: `ContractKept`, every image left behind satisfies `Encodes`,
  with the digests behind it and while it is read.
* `OrdinaryStreamNeverFails`: `StreamNeverFails`, for each option of `tree`.
* `OneThreadImplementsWriteOnceFS`: `ImplementsWriteOnceFS`, if the mounter has one
  thread. This is the sum of the development: what the kernel is told of a mounted image
  is what the source held when it was mastered.

The images of `generate` are a constant of `Archive`, and the theorems assume that they
satisfy the contract, with room for what `tree` reads beyond a header (`GeneratedSound`).
They are three fixed values, and the run `archive` checks `ContractKept` and
`StreamNeverFails` for them. The assumption says nothing about the images of `master`,
for which the same is proved.

The invariant `Sound` says of the finished image what `GeneratedSound` says of those.
`SealSound` establishes it from `OrdinarySourceHeld`: appending cells to an image
preserves the contract (`EncodesLonger`), and the trailer is the room that is needed. From
then on nothing writes to the image. The two readers build on it. For the mounter, the
invariant of `MounterProofs` holds once an image is there, and every thread rests before
that (`Serving`). For `tree`, `ToolInv` says that each offset it is about to read from is
that of a header, and that each loop on its stack belongs to a directory and has no more
children left than it has. `Archive` has its own instances of the components; the lemmas
`SameStep`, `SameContract`, `SameMaster` and so on state that their actions are those of
the modules in which the invariants are proved.

### Only model-checked

* Liveness: `MasterEnds`, `VerdictReached`, `MountersEnd`, `EveryRequestAnswered`. The
  proof system has no rules for fairness.
* `ListingComplete`: what `tree` should print is a recursive function of the file system,
  so that a proof would be an induction over it.
* That the three images of `generate` satisfy the contract (`GeneratedSound`).

## What is left out

### Not modelled

* The demonstration data (`src/final-demo/test-dirs/`), a checkout of TensorFlow that
  was used as a directory to master. It is input, not code of this system, and almost
  all the lines of the repository: what the models cover is a small share of all lines.
* The start of `master`: options and the prompt for a key, all in local variables. The
  mounter's prompt is the same loop and is part of `MountPipeline`.
* `DataCheck.cpp`, the Fletcher checksum: no program calls it.
* The stress test.
* The arithmetic of schifra, the option parser, OpenSSL, FUSE and the C library, which
  appear by what the code uses of them.

### Abstracted or excluded

* Byte order: `write64` and `read64` cancel out.
* Messages and what `tree -vc` prints of a file.
* Full disks and failing writes. The code does not check for them.
* `write`, `chmod` and the like: the program does not implement them, FUSE refuses
  them on its own.
* The page cache of the kernel (`kernel_cache`).
* A source that contains the image being written, whose copy need not end.
* The exits of `tree` before it has opened its file, and `ERR_OPEN` of the decoder, which
  needs an image that goes away between two lines.

## What remains

A proof of `ListingComplete` needs an induction over the tree that is listed. A model of
the source that contains its own output needs a bound on the image that the program does
not have.
