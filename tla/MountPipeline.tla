--------------------------- MODULE MountPipeline ---------------------------
(***************************************************************************)
(* The way from the sealed image to the mount point: addReedSolomon() of   *)
(* master.cpp encodes it, the medium damages it, and main() of mounter.c   *)
(* decodes it into a file next to it (".rec"), checks the hashes and       *)
(* mounts.  Several mounters may be started on the same image.             *)
(*                                                                         *)
(* Of the Reed-Solomon arithmetic (schifra) only the contract appears: a   *)
(* code word is the data with fec_length parity symbols that no other data *)
(* shares, and decoding finds the code word within fec_length / 2 symbols; *)
(* where there is none it fails, or returns data that was never encoded.   *)
(* The hash check is one step here; what it may conclude is what HashSeal  *)
(* shows of its loop.                                                      *)
(***************************************************************************)
EXTENDS OnDiskStructure, FiniteSets

CONSTANTS
  Mounters,       \* processes started on the image
  Sealed,         \* the image, its digests and their count, which is one symbol
  Old,            \* an earlier sealed image of the same name
  Symbols,        \* what a spoilt symbol may be read or decoded as
  data_length,
  fec_length,
  hash_size,      \* symbols of a digest
  IntBits,        \* width of unsigned int
  MaxDamage       \* bound: damaged symbols

ASSUME PipelineAssumption ==
  /\ Symbols \subseteq Nat /\ 0 \in Symbols
  /\ Sealed \in Seq(Symbols) \ {<<>>} /\ Old \in Seq(Nat) \ {<<>>}
  /\ data_length \in Nat \ {0} /\ fec_length \in Nat \ {0}
  /\ hash_size \in Nat \ {0} /\ IntBits \in Nat \ {0}
  /\ MaxDamage \in Nat

\* The HMAC is ideal: the digests of an earlier image that is not the present
\* one are nothing that damage, or a decoder that it overwhelms, comes up with.
ASSUME DigestAssumption ==
  Old # Sealed => \E k \in 1..(Len(Old) - 1) : Old[k] \notin Symbols

VARIABLES
  image,          \* the image file: symbols and parity symbols
  damaged,        \* the positions that the medium has spoilt
  encoded,        \* it was mastered with ECC
  large,          \* some of its blocks begin at an offset that fits no int
  writable,       \* files can be created next to it
  rec,            \* the file with ".rec" appended
  recExists,
  pc,             \* per mounter from here on
  necc,           \* the option --necc
  goodKey,        \* the key typed is the one used for mastering
  block,          \* current_block_index_
  status,         \* what decode() returns
  verdict         \* how checkHash() came to its result

fileVars == <<image, damaged, encoded, large, writable>>
vars == <<fileVars, rec, recExists, pc, necc, goodKey, block, status, verdict>>

code_length == data_length + fec_length

Sym(s) == <<"sym", s>>
Syms(d) == [k \in DOMAIN d |-> Sym(d[k])]
Bad == <<"bad">>

\* Zeros up to data_length, then the parity.
Pad(d) == [k \in 1..data_length |-> IF k <= Len(d) THEN d[k] ELSE 0]
Parity(d) == [k \in 1..fec_length |-> <<"fec", Pad(d), k>>]
CodeWord(d) == Syms(Pad(d)) \o Parity(d)

----------------------------------------------------------------------------
(* file_encoder *)

\* The blocks: as many full ones as there are, and what remains.
Least(a, b) == IF a <= b THEN a ELSE b

Block(m, b) == SubSeq(m, (b - 1) * data_length + 1, Least(b * data_length, Len(m)))
Blocks(m) == (Len(m) + data_length - 1) \div data_length

\* process_block, block after block: the data as it is, not padded, and its
\* parity.  Only the last block may be shorter, so symbol k is in block b.
Encoded(m) ==
  [k \in 1..(Len(m) + Blocks(m) * fec_length) |->
     LET b == (k - 1) \div code_length
         d == Block(m, b + 1)
         j == k - b * code_length
     IN  IF j <= Len(d) THEN Sym(d[j]) ELSE Parity(d)[j - Len(d)]]

----------------------------------------------------------------------------
(* file_decoder *)

Data == [1..data_length -> Symbols]

\* Mutation: a code word at the limit is not found.
NearStrictly(word) ==
  {d \in Data : 2 * Cardinality({k \in 1..code_length : CodeWord(d)[k] # word[k]}) < fec_length}

\* The data of the code words close enough to the word read, at most one.
Near(word) ==
  {d \in Data : 2 * Cardinality({k \in 1..code_length : CodeWord(d)[k] # word[k]}) <= fec_length}

\* What decoder.decode may return as the data.
Decode(word) == IF Near(word) # {} THEN Near(word) ELSE Data

\* What is left of the file when block b is read.
Remaining(b) == Len(image) - b * code_length
Chunk(b) == SubSeq(image, b * code_length + 1,
                   Least((b + 1) * code_length, Len(image)))

\* The word a chunk stands for: a partial block is filled up with zeros.
Word(chunk) ==
  LET r == Len(chunk) - fec_length
  IN  [k \in 1..code_length |->
         IF k > data_length THEN chunk[r + k - data_length]
         ELSE IF k <= r THEN chunk[k] ELSE Sym(0)]

SetPc(m, label) == pc' = [pc EXCEPT ![m] = label]

Fail(m, code) ==
  /\ status' = [status EXCEPT ![m] = code]
  /\ SetPc(m, "decode_failed")

\* decode_file, up to the loop: an empty input is reported before the output is
\* touched, and so is one that cannot be read, for which file_size() is 0 too.
\* (ERR_OPEN would need the image to go away between two lines; it stays.)
\* Otherwise the output is truncated.
StartDecode(m) ==
  /\ pc[m] = "start" /\ ~necc[m]
  /\ \/ /\ image = <<>>
        /\ Fail(m, "ZERO_SIZE")
        /\ UNCHANGED <<rec, recExists>>
     \/ /\ image # <<>> /\ ~writable
        /\ Fail(m, "ERR_CREATE")
        /\ UNCHANGED <<rec, recExists>>
     \/ /\ image # <<>> /\ writable
        /\ rec' = <<>> /\ recExists' = TRUE
        /\ SetPc(m, "decode")
        /\ UNCHANGED status
  /\ UNCHANGED <<fileVars, necc, goodKey, block, verdict>>

\* Mutation: the block is counted twice.
AdvanceTwice(m) == block' = [block EXCEPT ![m] = @ + 2]

Advance(m) == block' = [block EXCEPT ![m] = @ + 1]

\* process_complete_block, process_partial_block: what was read is more than
\* the parity.
DecodeBlock(m) ==
  /\ pc[m] = "decode" /\ Remaining(block[m]) > fec_length
  /\ LET chunk == Chunk(block[m])
         word == Word(chunk)
     IN  \/ \E d \in Decode(word) :
              /\ rec' = Put(rec, block[m] * data_length,
                            SubSeq(d, 1, Len(chunk) - fec_length))
              /\ Advance(m)
              /\ UNCHANGED <<status, pc>>
         \/ /\ Near(word) = {}
            /\ Fail(m, "ERR_DECODE")
            /\ UNCHANGED <<rec, block>>
  /\ UNCHANGED <<fileVars, recExists, necc, goodKey, verdict>>

\* The loop ends: nothing remains, or too little for a block.
EndDecode(m) ==
  /\ pc[m] = "decode" /\ Remaining(block[m]) <= fec_length
  /\ \/ Remaining(block[m]) <= 0 /\ SetPc(m, "open") /\ UNCHANGED status
     \/ Remaining(block[m]) > 0 /\ Fail(m, "ERR_DECODE")
  /\ UNCHANGED <<fileVars, rec, recExists, necc, goodKey, block, verdict>>

----------------------------------------------------------------------------
(* main of mounter.c *)

\* Up to the key: the program ends if the options make no sense, ask for help,
\* or name no image that exists.
ParseOptions(m) ==
  /\ pc[m] = "options"
  /\ \/ SetPc(m, "exit") /\ UNCHANGED necc
     \/ SetPc(m, "key") /\ \E n \in BOOLEAN : necc' = [necc EXCEPT ![m] = n]
  /\ UNCHANGED <<fileVars, rec, recExists, goodKey, block, status, verdict>>

\* The loop around get_key_from_user(), once a key is long enough; a shorter
\* one changes nothing.
EnterKey(m) ==
  /\ pc[m] = "key"
  /\ SetPc(m, "start")
  /\ \E g \in BOOLEAN : goodKey' = [goodKey EXCEPT ![m] = g]
  /\ UNCHANGED <<fileVars, rec, recExists, necc, block, status, verdict>>

SkipDecode(m) ==
  /\ pc[m] = "start" /\ necc[m]
  /\ SetPc(m, "open")
  /\ UNCHANGED <<fileVars, rec, recExists, necc, goodKey, block, status, verdict>>

\* The file that is checked and mounted.
MountedFile(m) == IF necc[m] THEN image ELSE Syms(rec)

\* It holds a sealed image with all its digests.  The count is protected by
\* nothing and may be another.
Holds(m, sealed) ==
  /\ Len(MountedFile(m)) = Len(sealed)
  /\ \A k \in 1..(Len(sealed) - 1) : MountedFile(m)[k] = Sym(sealed[k])

\* What read32() may return as the count: anything, if the last symbol is not
\* one of the image.
ShownCounts(f) ==
  IF f # <<>> /\ Last(f)[1] = "sym" THEN {Last(f)[2]} ELSE Symbols

\* image_size, for a file of len symbols that shows this count.
ImageSize(len, count) == (len - 1) - ((hash_size * count) % 2^IntBits)

\* Mutation: what checkHash() computed is not compared.
VerdictsOfKey(m, count) == {IF goodKey[m] THEN "accepted" ELSE "rejected"}

\* What checkHash() may conclude.  A count that leaves no image leaves nothing
\* to compare, and any key will do.  Otherwise the file passes only if it was
\* sealed with this key, and an intact one does not pass for sure if an int
\* cannot hold the offsets of its blocks.
Verdicts(m, count) ==
  LET f == MountedFile(m)
      genuine(s) == /\ goodKey[m] /\ Holds(m, s)
                    /\ ImageSize(Len(f), count) = ImageSize(Len(s), Last(s))
  IN  IF ImageSize(Len(f), count) = 0 THEN {"unchecked"}
      ELSE {v \in {"accepted", "rejected"} :
              /\ v = "accepted" => genuine(Sealed) \/ genuine(Old)
              /\ v = "rejected" => large \/ ~genuine(Sealed)}

\* fopen() and checkHash().  Without a file the NULL of fopen() is used.
CheckHash(m) ==
  /\ pc[m] = "open"
  /\ \/ /\ ~necc[m] /\ ~recExists
        /\ SetPc(m, "undefined")
        /\ UNCHANGED verdict
     \/ /\ necc[m] \/ recExists
        /\ \E count \in ShownCounts(MountedFile(m)) : \E v \in Verdicts(m, count) :
             /\ verdict' = [verdict EXCEPT ![m] = v]
             /\ SetPc(m, IF v = "rejected" THEN "hash_failed" ELSE "mounted")
  /\ UNCHANGED <<fileVars, rec, recExists, necc, goodKey, block, status>>

\* Mutation: the question is asked again and again.
AskAgain(m) ==
  /\ pc[m] \in {"decode_failed", "hash_failed"}
  /\ UNCHANGED vars

\* "Continue? Behavior of program may be undefined [y/n]"
AnswerPrompt(m) ==
  /\ pc[m] \in {"decode_failed", "hash_failed"}
  /\ \/ SetPc(m, IF pc[m] = "decode_failed" THEN "open" ELSE "mounted")
     \/ SetPc(m, "exit")
  /\ UNCHANGED <<fileVars, rec, recExists, necc, goodKey, block, status, verdict>>

----------------------------------------------------------------------------
\* An image as mastered, with some symbols spoilt, or cut short.
Init ==
  /\ encoded \in BOOLEAN
  /\ LET m == IF encoded THEN Encoded(Sealed) ELSE Syms(Sealed)
     IN  \/ /\ damaged \in {s \in SUBSET (1..Len(m)) : Cardinality(s) <= MaxDamage}
            /\ image = [k \in DOMAIN m |-> IF k \in damaged THEN Bad ELSE m[k]]
         \/ \E n \in 0..(Len(m) - 1) :
              damaged = (n + 1)..Len(m) /\ image = SubSeq(m, 1, n)
  /\ large \in BOOLEAN
  /\ writable \in BOOLEAN
  /\ recExists \in BOOLEAN
  /\ rec = IF recExists THEN Old ELSE <<>>
  /\ pc = [m \in Mounters |-> "options"]
  /\ necc = [m \in Mounters |-> FALSE]
  /\ goodKey = [m \in Mounters |-> FALSE]
  /\ block = [m \in Mounters |-> 0]
  /\ status = [m \in Mounters |-> "SUCCESS"]
  /\ verdict = [m \in Mounters |-> "none"]

Step(m) ==
  \/ ParseOptions(m) \/ EnterKey(m)
  \/ StartDecode(m) \/ DecodeBlock(m) \/ EndDecode(m)
  \/ SkipDecode(m) \/ CheckHash(m) \/ AnswerPrompt(m)

Final == {"mounted", "exit", "undefined"}

Done == (\A m \in Mounters : pc[m] \in Final) /\ UNCHANGED vars

Next == (\E m \in Mounters : Step(m)) \/ Done

Spec == Init /\ [][Next]_vars

\* A started process runs on, and the user answers its questions, the one for
\* a key with one that is long enough some day.
FairSpec == Spec /\ \A m \in Mounters : WF_vars(Step(m))

----------------------------------------------------------------------------
(* Properties *)

\* Type correctness.
TypeOK ==
  /\ rec \in Seq(Symbols) \cup {Old} /\ recExists \in BOOLEAN
  /\ \A m \in Mounters :
       /\ pc[m] \in {"options", "key", "start", "decode", "decode_failed", "open",
                     "hash_failed"} \cup Final
       /\ block[m] * code_length < Len(image) + code_length
       /\ status[m] \in {"SUCCESS", "ZERO_SIZE", "ERR_CREATE", "ERR_DECODE"}
       /\ verdict[m] \in {"none", "accepted", "rejected", "unchecked"}

\* As long as a file system is mounted whose hashes were compared and passed,
\* the file behind it is the sealed image, also if decoding failed and the user
\* went on.  It may be an earlier image only if decoding did not even begin and
\* so left what an earlier run had recovered.
MountedIsGenuine ==
  \A m \in Mounters :
     pc[m] = "mounted" /\ verdict[m] = "accepted" =>
       \/ Holds(m, Sealed)
       \/ status[m] \in {"ZERO_SIZE", "ERR_CREATE"} /\ Holds(m, Old)

\* The number of spoilt symbols in each block is within what the code corrects.
Correctable ==
  \A b \in 0..Blocks(Sealed) :
     2 * Cardinality(damaged \cap ((b * code_length + 1)..((b + 1) * code_length)))
       <= fec_length

\* Damage within the capacity of the code goes unnoticed: with the right key,
\* without --necc and where ".rec" can be created, the mounter of an encoded
\* image whose offsets fit an int asks nothing, and what it mounts is the sealed
\* image to the last symbol.
DamageRepaired ==
  \A m \in Mounters :
     (/\ encoded /\ Len(image) = Len(Encoded(Sealed)) /\ Correctable /\ ~large
      /\ writable /\ goodKey[m] /\ ~necc[m]) =>
       /\ pc[m] \notin {"decode_failed", "hash_failed", "exit", "undefined"}
       /\ pc[m] = "mounted" => MountedFile(m) = Syms(Sealed)

\* Every mounter that is started mounts, gives up or fails.
MountersEnd == \A m \in Mounters : <>(pc[m] \in Final)

============================================================================
