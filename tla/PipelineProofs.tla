--------------------------- MODULE PipelineProofs ---------------------------
(***************************************************************************)
(* What the mounter makes of an encoded image, for images, blocks and      *)
(* parities of any length: damage that the code can correct is repaired    *)
(* without the user noticing, and what is mounted with a digest compared   *)
(* is what was sealed, if one mounter works on it.                         *)
(***************************************************************************)
EXTENDS MountPipeline, FiniteSetTheorems, TLAPS

\* The provers that a step is given to, in this order, when it names none.
USE SMTT(15), Zenon, SMTT(60), ZenonT(60)

----------------------------------------------------------------------------
(* Numbers *)

LEMMA Lengths ==
  /\ data_length \in Nat \ {0} /\ fec_length \in Nat \ {0} /\ code_length \in Nat \ {0}
  /\ code_length = data_length + fec_length
  /\ Len(Sealed) \in Nat \ {0} /\ Sealed \in Seq(Symbols) /\ 0 \in Symbols
BY PipelineAssumption DEF code_length

LEMMA Product ==
  ASSUME NEW a \in Nat, NEW b \in Nat, NEW c \in Nat
  PROVE  /\ a * b \in Nat /\ (a + 1) * b = a * b + b
         /\ a < c => a * b + b <= c * b
         /\ a <= c => a * b <= c * b
OBVIOUS

\* Full blocks, and what remains.
LEMMA BlockCount ==
  /\ Blocks(Sealed) \in Nat \ {0}
  /\ Len(Sealed) <= Blocks(Sealed) * data_length
  /\ \A b \in Nat : b < Blocks(Sealed) => b * data_length < Len(Sealed)
<1>1. PICK x \in Nat, d \in Nat \ {0} : d = data_length /\ x = Len(Sealed) + d - 1 /\ x >= d
  BY Lengths
<1>2. PICK q \in Int : q = x \div d
  OBVIOUS
<1>3. q \in Nat /\ q * d <= x /\ x < q * d + d
  BY <1>1, <1>2
<1>4. q # 0
  BY <1>1, <1>3
<1>5. Blocks(Sealed) = q
  BY <1>1, <1>2 DEF Blocks
<1>6. Len(Sealed) <= q * d
  BY <1>1, <1>3, Lengths
<1>7. ASSUME NEW b \in Nat, b < q PROVE b * d < Len(Sealed)
  <2>1. PICK k \in Nat, l \in Nat : k = b * d /\ l = q * d
    BY <1>3, Product
  <2>2. k + d <= l
    BY <1>3, <1>7, <2>1, Product
  <2> QED BY <1>1, <1>3, <2>1, <2>2, Lengths
<1> QED BY <1>1, <1>3, <1>4, <1>5, <1>6, <1>7

\* The symbols of block b, counted from 0.
Width(b) == Least((b + 1) * data_length, Len(Sealed)) - b * data_length

EncodedLength == Len(Sealed) + Blocks(Sealed) * fec_length

LEMMA WidthFacts ==
  ASSUME NEW b \in Nat, b < Blocks(Sealed)
  PROVE  /\ Width(b) \in 1..data_length
         /\ b * data_length + Width(b) <= Len(Sealed)
         /\ b * data_length + Width(b) = Least((b + 1) * data_length, Len(Sealed))
         /\ Least((b + 1) * code_length, EncodedLength) = b * code_length + Width(b) + fec_length
         /\ EncodedLength - b * code_length > fec_length
<1>1. PICK d \in Nat \ {0}, f \in Nat \ {0}, l \in Nat \ {0}, n \in Nat :
        d = data_length /\ f = fec_length /\ l = Len(Sealed) /\ n = Blocks(Sealed)
  BY Lengths, BlockCount, Zenon
<1>2. PICK bd \in Nat, bf \in Nat, nf \in Nat, nd \in Nat :
        bd = b * d /\ bf = b * f /\ nf = n * f /\ nd = n * d
  BY <1>1, Product, Zenon
<1>3. (b + 1) * d = bd + d /\ (b + 1) * f = bf + f
  BY <1>1, <1>2
<1>4. b * code_length = bd + bf /\ (b + 1) * code_length = bd + d + bf + f
  BY <1>1, <1>2, <1>3, Lengths
<1>5. bd < l /\ l <= nd /\ bf + f <= nf
  BY <1>1, <1>2, BlockCount, Product, Zenon
<1>6. b + 1 < n => bd + d < l
  BY <1>1, <1>3, BlockCount
<1>7. ~(b + 1 < n) => nd = bd + d /\ nf = bf + f
  <2>1. ~(b + 1 < n) => b + 1 = n
    BY <1>1
  <2> QED BY <1>2, <1>3, <2>1
<1>8. PICK w \in Int : w = Least(bd + d, l) - bd
  BY DEF Least
<1>9. /\ w \in 1..d /\ bd + w <= l /\ bd + w = Least(bd + d, l)
      /\ Least(bd + d + bf + f, l + nf) = bd + bf + w + f
      /\ l + nf - (bd + bf) > f
  BY <1>5, <1>6, <1>7, <1>8 DEF Least
<1>10. Width(b) = w /\ EncodedLength = l + nf
  BY <1>1, <1>2, <1>3, <1>8, Zenon DEF Width, EncodedLength
<1>11. b * data_length = bd /\ (b + 1) * data_length = bd + d
  BY <1>1, <1>2, <1>3, Zenon
<1>12. Width(b) \in 1..data_length /\ b * data_length + Width(b) <= Len(Sealed)
  BY <1>1, <1>9, <1>10, <1>11, Zenon
<1>13. b * data_length + Width(b) = Least((b + 1) * data_length, Len(Sealed))
  BY <1>1, <1>9, <1>10, <1>11, Zenon
<1>14. Least((b + 1) * code_length, EncodedLength) = b * code_length + Width(b) + fec_length
  BY <1>1, <1>4, <1>9, <1>10, Zenon
<1>15. EncodedLength - b * code_length > fec_length
  BY <1>1, <1>4, <1>9, <1>10
<1> QED BY <1>12, <1>13, <1>14, <1>15
----------------------------------------------------------------------------
(* Type correctness *)

Labels == {"options", "key", "start", "decode", "decode_failed", "open", "hash_failed"} \cup Final
Codes == {"SUCCESS", "ZERO_SIZE", "ERR_CREATE", "ERR_DECODE"}
Results == {"none", "accepted", "rejected", "unchecked"}

\* The image file is a sequence of what is in it.
ImageFile == image \in Seq({image[k] : k \in DOMAIN image})

\* TypeOK with the functions that hold the state of the mounters, and nothing
\* left of an earlier image once somebody has begun to decode.
TypeInv ==
  /\ ImageFile
  /\ rec \in Seq(Symbols) \cup {Old} /\ recExists \in BOOLEAN
  /\ pc \in [Mounters -> Labels] /\ status \in [Mounters -> Codes]
  /\ necc \in [Mounters -> BOOLEAN] /\ goodKey \in [Mounters -> BOOLEAN]
  /\ verdict \in [Mounters -> Results] /\ block \in [Mounters -> Nat]
  /\ \A m \in Mounters : block[m] * code_length < Len(image) + code_length
  /\ \A m \in Mounters : pc[m] = "decode" => rec \in Seq(Symbols)

LEMMA Part ==
  ASSUME NEW S, NEW s \in Seq(S), NEW p \in Nat, NEW n \in Nat, p + n <= Len(s)
  PROVE  /\ SubSeq(s, p + 1, p + n) \in Seq(S)
         /\ Len(SubSeq(s, p + 1, p + n)) = n
         /\ SubSeq(s, p + 1, p + n) = [k \in 1..n |-> s[p + k]]
         /\ \A k \in 1..n : SubSeq(s, p + 1, p + n)[k] = s[p + k]
<1>1. \A k \in 1..n : (p + 1) + k - 1 = p + k /\ p + k \in 1..Len(s)
  OBVIOUS
<1>2. SubSeq(s, p + 1, p + n) = [k \in 1..n |-> s[p + k]]
  OBVIOUS
<1>3. \A k \in 1..n : s[p + k] \in S
  BY <1>1
<1>4. [k \in 1..n |-> s[p + k]] \in Seq(S) /\ Len([k \in 1..n |-> s[p + k]]) = n
  BY <1>3
<1> QED BY <1>2, <1>4

\* A chunk that decode_file() hands to a block decoder is longer than the
\* parity and not longer than a code word.
LEMMA ChunkFacts ==
  ASSUME ImageFile, NEW b \in Nat, Remaining(b) > fec_length
  PROVE  /\ Len(Chunk(b)) = Least((b + 1) * code_length, Len(image)) - b * code_length
         /\ Len(Chunk(b)) - fec_length \in 1..data_length
         /\ \A k \in 1..Len(Chunk(b)) : Chunk(b)[k] = image[b * code_length + k]
<1>1. PICK d \in Nat \ {0}, f \in Nat \ {0}, c \in Nat \ {0}, l \in Nat, bc \in Nat :
        /\ d = data_length /\ f = fec_length /\ c = code_length /\ l = Len(image)
        /\ c = d + f /\ bc = b * code_length /\ (b + 1) * code_length = bc + c
  <2>1. Len(image) \in Nat
    BY DEF ImageFile
  <2>2. b * code_length \in Nat /\ (b + 1) * code_length = b * code_length + code_length
    BY Lengths, Product
  <2> QED BY <2>1, <2>2, Lengths, Zenon
<1>2. l - bc > f
  BY <1>1 DEF Remaining
<1>3. PICK e \in Nat : e = Least(bc + c, l) /\ e <= l /\ e - bc \in (f + 1)..c
  BY <1>1, <1>2 DEF Least
<1>4. Chunk(b) = SubSeq(image, bc + 1, e)
  BY <1>1, <1>3, Zenon DEF Chunk
<1>5. /\ Len(SubSeq(image, bc + 1, e)) = e - bc
      /\ \A k \in 1..(e - bc) : SubSeq(image, bc + 1, e)[k] = image[bc + k]
  <2>1. PICK n \in Nat : n = e - bc
    BY <1>3
  <2>2. bc + n = e /\ bc + n <= Len(image)
    BY <1>1, <1>3, <2>1
  <2>3. /\ Len(SubSeq(image, bc + 1, bc + n)) = n
        /\ \A k \in 1..n : SubSeq(image, bc + 1, bc + n)[k] = image[bc + k]
    <3>1. PICK S : image \in Seq(S)
      BY Zenon DEF ImageFile
    <3>2. \A x \in Seq(S) : bc + n <= Len(x) =>
            /\ Len(SubSeq(x, bc + 1, bc + n)) = n
            /\ \A k \in 1..n : SubSeq(x, bc + 1, bc + n)[k] = x[bc + k]
      BY Part
    <3> QED BY <2>2, <3>1, <3>2, Zenon
  <2> QED BY <2>1, <2>2, <2>3, Zenon
<1>6. Len(Chunk(b)) = e - bc
  BY <1>4, <1>5, Zenon
<1>7. e - bc - f \in 1..d
  BY <1>1, <1>3
<1>8. Len(Chunk(b)) = Least((b + 1) * code_length, Len(image)) - b * code_length
  BY <1>1, <1>3, <1>6, Zenon
<1>9. Len(Chunk(b)) - fec_length \in 1..data_length
  BY <1>1, <1>6, <1>7, Zenon
<1>10. \A k \in 1..Len(Chunk(b)) : Chunk(b)[k] = image[b * code_length + k]
  BY <1>1, <1>4, <1>5, <1>6, Zenon
<1> QED BY <1>8, <1>9, <1>10

\* A write of symbols into a file of symbols; a hole reads as zeros.
LEMMA PutType ==
  ASSUME NEW file \in Seq(Symbols), NEW cells \in Seq(Symbols), NEW off \in Nat
  PROVE  Put(file, off, cells) \in Seq(Symbols)
<1>1. CASE cells = <<>>
  BY <1>1 DEF Put
<1>2. CASE cells # <<>>
  <2>1. PICK l \in Nat, c \in Nat : l = Len(file) /\ c = Len(cells)
    OBVIOUS
  <2>2. PICK n \in Nat : n = (IF l >= off + c THEN l ELSE off + c)
    OBVIOUS
  <2>3. (1..l) \cup (1..(off + c)) = 1..n
    BY <2>2
  <2>4. \A i \in 1..n :
          (IF i > off /\ i <= off + c THEN cells[i - off]
           ELSE IF i <= l THEN file[i] ELSE 0) \in Symbols
    BY <2>1, Lengths
  <2>5. Put(file, off, cells) =
          [i \in 1..n |-> IF i > off /\ i <= off + c THEN cells[i - off]
                          ELSE IF i <= l THEN file[i] ELSE 0]
    BY <1>2, <2>1, <2>3, Zenon DEF Put
  <2> QED BY <2>4, <2>5
<1> QED BY <1>1, <1>2
LEMMA DecodedType ==
  ASSUME NEW word, NEW d \in Decode(word), NEW n \in 1..data_length
  PROVE  /\ d \in Data /\ SubSeq(d, 1, n) \in Seq(Symbols)
         /\ Len(SubSeq(d, 1, n)) = n /\ \A k \in 1..n : SubSeq(d, 1, n)[k] = d[k]
<1>1. d \in Data
  BY Zenon DEF Decode, Near
<1>2. d \in Seq(Symbols) /\ Len(d) = data_length
  BY <1>1, Lengths DEF Data
<1>3. n \in Nat /\ 0 + n <= Len(d) /\ 0 + 1 = 1 /\ 0 + n = n /\ \A k \in 1..n : 0 + k = k
  BY <1>2, Lengths
<1>4. /\ SubSeq(d, 0 + 1, 0 + n) \in Seq(Symbols) /\ Len(SubSeq(d, 0 + 1, 0 + n)) = n
      /\ \A k \in 1..n : SubSeq(d, 0 + 1, 0 + n)[k] = d[0 + k]
  BY <1>2, <1>3, Part
<1> QED BY <1>1, <1>3, <1>4

LEMMA EncodedIsSeq ==
  /\ Len(Encoded(Sealed)) = EncodedLength /\ EncodedLength \in Nat
  /\ DOMAIN Encoded(Sealed) = 1..EncodedLength
<1>1. EncodedLength \in Nat
  BY Lengths, BlockCount, Product DEF EncodedLength
<1>2. DOMAIN Encoded(Sealed) = 1..EncodedLength
  BY Zenon DEF Encoded, EncodedLength
<1> QED BY <1>1, <1>2

LEMMA TypeInit == Init => TypeInv
<1> SUFFICES ASSUME Init PROVE TypeInv
  OBVIOUS
<1>0. PICK m : m = (IF encoded THEN Encoded(Sealed) ELSE Syms(Sealed))
  OBVIOUS
<1>1. PICK l \in Nat : DOMAIN m = 1..l /\ Len(m) = l
  <2>1. DOMAIN Syms(Sealed) = 1..Len(Sealed) /\ Len(Syms(Sealed)) = Len(Sealed)
    BY Lengths DEF Syms
  <2> QED BY <1>0, <2>1, EncodedIsSeq, Lengths, Zenon
<1>2. \/ image = [k \in DOMAIN m |-> IF k \in damaged THEN Bad ELSE m[k]]
      \/ \E n \in 0..(l - 1) : image = SubSeq(m, 1, n)
  BY <1>0, <1>1, Zenon DEF Init
<1>3. \E n \in Nat : image = [k \in 1..n |-> image[k]]
  <2>1. ASSUME NEW n \in 0..(l - 1), image = SubSeq(m, 1, n) PROVE image = [k \in 1..n |-> m[k]]
    <3>1. image = [k \in 1..(1 + n - 1) |-> m[1 + k - 1]]
      BY <2>1 DEF SubSeq
    <3>2. 1 + n - 1 = n /\ \A k \in 1..n : 1 + k - 1 = k
      BY <2>1
    <3> QED BY <3>1, <3>2
  <2> QED BY <1>1, <1>2, <2>1
<1>4. ImageFile
  BY <1>3 DEF ImageFile
<1>5. Len(image) \in Nat
  BY <1>4 DEF ImageFile
<1>6. rec \in Seq(Symbols) \cup {Old} /\ recExists \in BOOLEAN
  BY PipelineAssumption DEF Init
<1>7. /\ pc \in [Mounters -> Labels] /\ status \in [Mounters -> Codes]
      /\ necc \in [Mounters -> BOOLEAN] /\ goodKey \in [Mounters -> BOOLEAN]
      /\ verdict \in [Mounters -> Results] /\ block \in [Mounters -> Nat]
      /\ \A n \in Mounters : pc[n] # "decode"
  BY DEF Init, Labels, Codes, Results
<1>8. \A n \in Mounters : block[n] * code_length < Len(image) + code_length
  BY <1>5, Lengths DEF Init
<1> QED BY <1>4, <1>6, <1>7, <1>8 DEF TypeInv

LEMMA TypeStep == TypeInv /\ [Next]_vars => TypeInv'
<1> SUFFICES ASSUME TypeInv, [Next]_vars PROVE TypeInv'
  OBVIOUS
<1>0. Len(image) \in Nat
  BY DEF TypeInv, ImageFile
<1>1. CASE UNCHANGED vars
  BY <1>1 DEF TypeInv, ImageFile, vars, fileVars
<1>2. ASSUME NEW m \in Mounters, Step(m) PROVE TypeInv'
  <2>1. image' = image
    BY <1>2 DEF Step, ParseOptions, EnterKey, StartDecode, DecodeBlock, EndDecode, SkipDecode,
                CheckHash, AnswerPrompt, fileVars
  <2>2. ImageFile'
    BY <2>1 DEF TypeInv, ImageFile
  <2>3. CASE ParseOptions(m)
    <3>1. pc' \in [Mounters -> Labels] /\ \A x \in Mounters : pc'[x] = "decode" => pc[x] = "decode"
      BY <2>3 DEF TypeInv, ParseOptions, SetPc, Labels, Final
    <3>2. necc' \in [Mounters -> BOOLEAN] /\ UNCHANGED <<rec, recExists, goodKey, block, status, verdict>>
      BY <2>3, Zenon DEF TypeInv, ParseOptions
    <3> QED BY <2>1, <2>2, <3>1, <3>2 DEF TypeInv
  <2>4. CASE EnterKey(m)
    <3>1. pc' \in [Mounters -> Labels] /\ \A x \in Mounters : pc'[x] = "decode" => pc[x] = "decode"
      BY <2>4 DEF TypeInv, EnterKey, SetPc, Labels, Final
    <3>2. goodKey' \in [Mounters -> BOOLEAN] /\ UNCHANGED <<rec, recExists, necc, block, status, verdict>>
      BY <2>4, Zenon DEF TypeInv, EnterKey
    <3> QED BY <2>1, <2>2, <3>1, <3>2 DEF TypeInv
  <2>5. CASE StartDecode(m)
    <3>1. <<>> \in Seq(Symbols)
      OBVIOUS
    <3>2. /\ rec' \in Seq(Symbols) \cup {Old} /\ recExists' \in BOOLEAN
          /\ \A x \in Mounters : pc'[x] = "decode" => rec' \in Seq(Symbols)
      <4>1. CASE UNCHANGED <<rec, recExists>> /\ SetPc(m, "decode_failed")
        <5>1. \A x \in Mounters : pc'[x] = "decode" => pc[x] = "decode"
          BY <4>1 DEF TypeInv, SetPc
        <5> QED BY <4>1, <5>1 DEF TypeInv
      <4>2. CASE rec' = <<>> /\ recExists' = TRUE
        BY <3>1, <4>2, Zenon
      <4> QED BY <2>5, <4>1, <4>2 DEF StartDecode, Fail
    <3>3. status' \in [Mounters -> Codes] /\ pc' \in [Mounters -> Labels]
      BY <2>5, Zenon DEF TypeInv, StartDecode, Fail, SetPc, Labels, Codes
    <3>4. UNCHANGED <<necc, goodKey, block, verdict>>
      BY <2>5 DEF StartDecode
    <3> QED BY <2>1, <2>2, <3>2, <3>3, <3>4 DEF TypeInv
  <2>6. CASE DecodeBlock(m)
    <3>1. block[m] \in Nat /\ Remaining(block[m]) > fec_length /\ rec \in Seq(Symbols)
      BY <2>6 DEF DecodeBlock, TypeInv
    <3>2. PICK n \in 1..data_length : n = Len(Chunk(block[m])) - fec_length
      BY <3>1, ChunkFacts DEF TypeInv
    <3>3. CASE Fail(m, "ERR_DECODE") /\ UNCHANGED <<rec, block>>
      BY <2>1, <2>2, <2>6, <3>3 DEF TypeInv, DecodeBlock, Fail, SetPc, Labels, Codes
    <3>4. CASE /\ \E d \in Decode(Word(Chunk(block[m]))) :
                    rec' = Put(rec, block[m] * data_length, SubSeq(d, 1, n))
               /\ Advance(m) /\ UNCHANGED <<status, pc>>
      <4>1. rec' \in Seq(Symbols)
        <5>1. PICK d \in Decode(Word(Chunk(block[m]))) :
                rec' = Put(rec, block[m] * data_length, SubSeq(d, 1, n))
          BY <3>4
        <5>2. SubSeq(d, 1, n) \in Seq(Symbols)
          BY DecodedType
        <5>3. block[m] * data_length \in Nat
          BY <3>1, Lengths, Product
        <5> QED BY <3>1, <5>1, <5>2, <5>3, PutType, Zenon
      <4>2. block' = [block EXCEPT ![m] = @ + 1] /\ block' \in [Mounters -> Nat]
        BY <3>4 DEF Advance, TypeInv
      <4>3. (block[m] + 1) * code_length < Len(image) + code_length
        <5>1. PICK c \in Nat \ {0}, f \in Nat \ {0}, bc \in Nat, l \in Nat :
                /\ c = code_length /\ f = fec_length /\ bc = block[m] * code_length
                /\ l = Len(image) /\ (block[m] + 1) * code_length = bc + c
          <6>1. /\ block[m] * code_length \in Nat
                /\ (block[m] + 1) * code_length = block[m] * code_length + code_length
            BY <3>1, Lengths, Product
          <6> QED BY <1>0, <6>1, Lengths, Zenon
        <5>2. l - bc > f
          BY <3>1, <5>1 DEF Remaining
        <5> QED BY <5>1, <5>2
      <4>4. \A x \in Mounters : block'[x] * code_length < Len(image) + code_length
        <5> TAKE x \in Mounters
        <5>1. CASE x = m
          <6>1. block'[x] = block[m] + 1
            BY <4>2, <5>1 DEF TypeInv
          <6> QED BY <4>3, <6>1
        <5>2. CASE x # m
          <6>1. block'[x] = block[x]
            BY <4>2, <5>2 DEF TypeInv
          <6> QED BY <6>1 DEF TypeInv
        <5> QED BY <5>1, <5>2
      <4>5. UNCHANGED <<recExists, necc, goodKey, verdict, status, pc>>
        BY <2>6, <3>4 DEF DecodeBlock
      <4> QED BY <2>1, <2>2, <4>1, <4>2, <4>4, <4>5 DEF TypeInv
    <3> QED BY <2>6, <3>2, <3>3, <3>4, Zenon DEF DecodeBlock
  <2>7. CASE EndDecode(m)
    <3>1. /\ pc' \in [Mounters -> Labels] /\ status' \in [Mounters -> Codes]
          /\ \A x \in Mounters : pc'[x] = "decode" => pc[x] = "decode"
      BY <2>7 DEF TypeInv, EndDecode, Fail, SetPc, Labels, Codes
    <3>2. UNCHANGED <<rec, recExists, necc, goodKey, block, verdict>>
      BY <2>7 DEF EndDecode
    <3> QED BY <2>1, <2>2, <3>1, <3>2 DEF TypeInv
  <2>8. CASE SkipDecode(m)
    BY <2>1, <2>2, <2>8 DEF TypeInv, SkipDecode, SetPc, Labels
  <2>9. CASE CheckHash(m)
    <3>1. pc' \in [Mounters -> Labels] /\ \A x \in Mounters : pc'[x] = "decode" => pc[x] = "decode"
      BY <2>9 DEF TypeInv, CheckHash, SetPc, Labels, Final
    <3>2. verdict' \in [Mounters -> Results]
      <4>1. \A count : Verdicts(m, count) \subseteq Results
        BY Zenon DEF Verdicts, Results
      <4> QED BY <2>9, <4>1, Zenon DEF CheckHash, TypeInv
    <3>3. UNCHANGED <<rec, recExists, necc, goodKey, block, status>>
      BY <2>9 DEF CheckHash
    <3> QED BY <2>1, <2>2, <3>1, <3>2, <3>3 DEF TypeInv
  <2>10. CASE AnswerPrompt(m)
    <3>1. pc' \in [Mounters -> Labels] /\ \A x \in Mounters : pc'[x] = "decode" => pc[x] = "decode"
      BY <2>10 DEF TypeInv, AnswerPrompt, SetPc, Labels, Final
    <3>2. UNCHANGED <<rec, recExists, necc, goodKey, block, status, verdict>>
      BY <2>10 DEF AnswerPrompt
    <3> QED BY <2>1, <2>2, <3>1, <3>2 DEF TypeInv
  <2> QED BY <1>2, <2>3, <2>4, <2>5, <2>6, <2>7, <2>8, <2>9, <2>10, Zenon DEF Step
<1> QED BY <1>1, <1>2 DEF Next, Done

\* However many mounters work on an image, and whatever the medium has made of
\* it: the file they recover holds symbols only or is the earlier one, none of them reads beyond the
\* block in which the image ends, and each is at a step of main() with a status
\* that decode() knows.
THEOREM PipelineTypeCorrect == Spec => []TypeOK
<1>1. TypeInv => TypeOK
  BY DEF TypeInv, TypeOK, Labels, Codes, Results
<1> QED BY <1>1, TypeInit, TypeStep, PTL DEF Spec
----------------------------------------------------------------------------
(* Repair *)

\* What the medium has left of an encoded image that was not cut: whatever is
\* not among the damaged positions is as it was written.
Legible ==
  /\ damaged \subseteq 1..EncodedLength
  /\ \A k \in 1..EncodedLength : k \notin damaged => image[k] = Encoded(Sealed)[k]

\* The mounter's user gave it a chance: the condition of DamageRepaired.
Repairable(m) ==
  /\ encoded /\ Len(image) = Len(Encoded(Sealed)) /\ Correctable /\ ~large
  /\ writable /\ goodKey[m] /\ ~necc[m]

\* How far the mounter has come: the first block[m] blocks are recovered.
Recovering(m) ==
  /\ pc[m] \in {"start", "decode", "open", "mounted"}
  /\ pc[m] # "start" => recExists
  /\ pc[m] = "decode" =>
       /\ block[m] <= Blocks(Sealed)
       /\ rec = SubSeq(Sealed, 1, Least(block[m] * data_length, Len(Sealed)))
  /\ pc[m] \in {"open", "mounted"} => rec = Sealed

Repairing(m) ==
  /\ pc[m] \in {"options", "key"} => ~goodKey[m]
  /\ pc[m] \in {"options", "key", "start"} => block[m] = 0
  /\ Repairable(m) => Recovering(m)

RepairInv ==
  /\ TypeInv
  /\ encoded /\ Len(image) = EncodedLength => Legible
  /\ \A m \in Mounters : Repairing(m)
LEMMA Joined ==
  ASSUME NEW S, NEW s \in Seq(S), NEW u \in Seq(S)
  PROVE  /\ \A k \in 1..Len(s) : (s \o u)[k] = s[k]
         /\ \A k \in 1..Len(u) : (s \o u)[Len(s) + k] = u[k]
OBVIOUS

\* The data, and its parity after it.
LEMMA CodeWordCells ==
  ASSUME NEW d \in Data
  PROVE  /\ \A k \in 1..data_length : CodeWord(d)[k] = Sym(d[k])
         /\ \A k \in 1..fec_length : CodeWord(d)[data_length + k] = <<"fec", d, k>>
<1>1. Pad(d) = d
  BY Lengths DEF Pad, Data
<1>2. /\ Syms(d) = [k \in 1..data_length |-> Sym(d[k])]
      /\ Parity(d) = [k \in 1..fec_length |-> <<"fec", d, k>>]
  BY <1>1 DEF Syms, Parity, Data
<1>3. PICK s, p : s = Syms(d) /\ p = Parity(d)
  OBVIOUS
<1>4. Len(s) = data_length /\ Len(p) = fec_length
  BY <1>2, <1>3, Lengths
<1>5. PICK T : T = {s[k] : k \in 1..data_length} \cup {p[k] : k \in 1..fec_length}
  BY Zenon
<1>6. s \in Seq(T) /\ p \in Seq(T)
  BY <1>2, <1>3, <1>5, Lengths
<1>7. /\ \A k \in 1..data_length : (s \o p)[k] = s[k]
      /\ \A k \in 1..fec_length : (s \o p)[data_length + k] = p[k]
  BY <1>4, <1>6, Joined
<1> QED BY <1>1, <1>2, <1>3, <1>7, Zenon DEF CodeWord

Differ(d, word) == {k \in 1..code_length : CodeWord(d)[k] # word[k]}

LEMMA DifferFinite ==
  ASSUME NEW d, NEW word
  PROVE  IsFiniteSet(Differ(d, word)) /\ Cardinality(Differ(d, word)) \in Nat
<1>1. IsFiniteSet(1..code_length)
  BY Lengths, FS_Interval
<1>2. Differ(d, word) \in SUBSET (1..code_length)
  BY DEF Differ
<1>3. IsFiniteSet(Differ(d, word))
  BY <1>1, <1>2, FS_Subset, Zenon
<1> QED BY <1>3, FS_CardinalityType

\* Two code words differ in all of the parity and at least one symbol of the
\* data, so a word is close to one of them at most.
LEMMA NearUnique ==
  ASSUME NEW word, NEW d \in Near(word), NEW e \in Near(word)
  PROVE  d = e
<1> SUFFICES ASSUME d # e PROVE FALSE
  OBVIOUS
<1> DEFINE D == Differ(d, word)
           E == Differ(e, word)
           P == (data_length + 1)..code_length
<1>1. d \in Data /\ e \in Data
  BY DEF Near
<1>2. PICK x \in Nat, y \in Nat, f \in Nat :
        x = Cardinality(D) /\ y = Cardinality(E) /\ f = fec_length
  BY DifferFinite, Lengths
<1>3. 2 * x <= f /\ 2 * y <= f
  BY <1>2 DEF Near, Differ
<1>4. PICK i \in 1..data_length : d[i] # e[i]
  <2>1. d = [i \in 1..data_length |-> d[i]] /\ e = [i \in 1..data_length |-> e[i]]
    BY <1>1 DEF Data
  <2> QED BY <2>1, Zenon
<1>5. i \in D \cup E
  <2>1. i \in 1..code_length
    BY Lengths
  <2>2. CodeWord(d)[i] = <<"sym", d[i]>> /\ CodeWord(e)[i] = <<"sym", e[i]>>
    BY <1>1, CodeWordCells DEF Sym
  <2>3. CodeWord(d)[i] # CodeWord(e)[i]
    BY <1>4, <2>2
  <2> QED BY <2>1, <2>3, Zenon DEF Differ
<1>6. P \subseteq D \cup E
  <2> SUFFICES ASSUME NEW k \in P PROVE k \in D \cup E
    OBVIOUS
  <2>1. k \in 1..code_length
    BY Lengths
  <2>2. PICK j \in 1..fec_length : k = data_length + j
    <3>1. k - data_length \in 1..fec_length /\ k = data_length + (k - data_length)
      BY Lengths
    <3> QED BY <3>1
  <2>3. CodeWord(d)[k] = <<"fec", d, j>> /\ CodeWord(e)[k] = <<"fec", e, j>>
    BY <1>1, <2>2, CodeWordCells
  <2>4. CodeWord(d)[k] # CodeWord(e)[k]
    BY <2>3
  <2> QED BY <2>1, <2>4, Zenon DEF Differ
<1>7. IsFiniteSet(P) /\ Cardinality(P) = f /\ i \notin P
  <2>1. /\ IsFiniteSet(P)
        /\ Cardinality(P) = IF data_length + 1 > code_length THEN 0
                            ELSE code_length - (data_length + 1) + 1
    BY Lengths, FS_Interval
  <2> QED BY <1>2, <2>1, Lengths
<1>8. IsFiniteSet(P \cup {i}) /\ Cardinality(P \cup {i}) = f + 1
  BY <1>7, FS_AddElement, Zenon
<1>9. IsFiniteSet(D \cup E) /\ Cardinality(D \cup E) <= x + y
  <2>1. IsFiniteSet(D) /\ IsFiniteSet(E)
    BY DifferFinite
  <2>2. /\ IsFiniteSet(D \cup E)
        /\ Cardinality(D \cup E) = Cardinality(D) + Cardinality(E) - Cardinality(D \cap E)
    BY <2>1, FS_Union
  <2>3. Cardinality(D \cap E) \in Nat
    BY <2>1, FS_Intersection, FS_CardinalityType, Zenon
  <2> HIDE DEF D, E
  <2> QED BY <1>2, <2>2, <2>3
<1>10. f + 1 <= Cardinality(D \cup E)
  <2>1. (P \cup {i}) \in SUBSET (D \cup E)
    BY <1>5, <1>6
  <2>2. Cardinality(P \cup {i}) <= Cardinality(D \cup E)
    BY <1>9, <2>1, FS_Subset
  <2> QED BY <1>8, <2>2
<1>11. Cardinality(D \cup E) \in Nat
  BY <1>9, FS_CardinalityType
<1> HIDE DEF D, E
<1> QED BY <1>3, <1>9, <1>10, <1>11
\* The data of block b of the sealed image, as the encoder pads it.
Padded(b) == Pad(Block(Sealed, b + 1))

LEMMA BlockCells ==
  ASSUME NEW b \in Nat, b < Blocks(Sealed)
  PROVE  /\ Len(Block(Sealed, b + 1)) = Width(b)
         /\ \A k \in 1..Width(b) : Block(Sealed, b + 1)[k] = Sealed[b * data_length + k]
         /\ Padded(b) \in Data
         /\ \A k \in 1..Width(b) : Padded(b)[k] = Sealed[b * data_length + k]
         /\ \A k \in (Width(b) + 1)..data_length : Padded(b)[k] = 0
<1>1. PICK w \in 1..data_length, p \in Nat :
        w = Width(b) /\ p = b * data_length /\ p + w <= Len(Sealed)
        /\ p + w = Least((b + 1) * data_length, Len(Sealed))
  <2>1. b * data_length \in Nat
    BY Lengths, Product
  <2> QED BY <2>1, WidthFacts
<1>2. (b + 1) - 1 = b
  OBVIOUS
<1>3. Block(Sealed, b + 1) = SubSeq(Sealed, p + 1, p + w)
  <2>1. ((b + 1) - 1) * data_length + 1 = p + 1
    BY <1>1, <1>2
  <2>2. Least((b + 1) * data_length, Len(Sealed)) = p + w
    BY <1>1
  <2> QED BY <2>1, <2>2, Zenon DEF Block
<1>4. w \in Nat /\ data_length \in Nat
  BY Lengths
<1>5. PICK s : s = Block(Sealed, b + 1)
  OBVIOUS
<1>6. s \in Seq(Symbols) /\ Len(s) = w /\ \A k \in 1..w : s[k] = Sealed[p + k]
  <2>1. /\ SubSeq(Sealed, p + 1, p + w) \in Seq(Symbols)
        /\ Len(SubSeq(Sealed, p + 1, p + w)) = w
        /\ \A k \in 1..w : SubSeq(Sealed, p + 1, p + w)[k] = Sealed[p + k]
    BY <1>1, <1>4, Lengths, Part
  <2> QED BY <1>3, <1>5, <2>1, Zenon
<1>7. Pad(s) = [k \in 1..data_length |-> IF k <= w THEN s[k] ELSE 0]
  BY <1>6, Zenon DEF Pad
<1>8. Pad(s) \in Data
  BY <1>4, <1>6, <1>7, Lengths DEF Data
<1>9. \A k \in 1..w : Pad(s)[k] = Sealed[p + k]
  BY <1>4, <1>6, <1>7
<1>10. \A k \in (w + 1)..data_length : Pad(s)[k] = 0
  BY <1>4, <1>7
<1> QED BY <1>1, <1>5, <1>6, <1>8, <1>9, <1>10, Zenon DEF Padded

LEMMA EncodedAt ==
  ASSUME NEW i \in 1..EncodedLength, NEW b, NEW j,
         b = (i - 1) \div code_length, j = i - b * code_length
  PROVE  Encoded(Sealed)[i] =
           IF j <= Len(Block(Sealed, b + 1)) THEN Sym(Block(Sealed, b + 1)[j])
           ELSE Parity(Block(Sealed, b + 1))[j - Len(Block(Sealed, b + 1))]
BY Zenon DEF Encoded, EncodedLength

\* Where the encoder puts the symbols and the parity of block b.
LEMMA EncodedCells ==
  ASSUME NEW b \in Nat, b < Blocks(Sealed)
  PROVE  /\ \A j \in 1..(Width(b) + fec_length) : b * code_length + j \in 1..EncodedLength
         /\ \A j \in 1..Width(b) :
              Encoded(Sealed)[b * code_length + j] = Sym(Sealed[b * data_length + j])
         /\ \A j \in 1..fec_length :
              Encoded(Sealed)[b * code_length + Width(b) + j] = <<"fec", Padded(b), j>>
<1>1. PICK w \in Nat, f \in Nat, c \in Nat \ {0}, bc \in Nat, l \in Nat :
        /\ w = Width(b) /\ f = fec_length /\ c = code_length /\ bc = b * code_length
        /\ l = EncodedLength /\ w + f <= c
  <2>1. Width(b) \in Nat /\ Width(b) + fec_length <= code_length
    BY WidthFacts, Lengths
  <2>2. b * code_length \in Nat
    BY Lengths, Product
  <2> QED BY <2>1, <2>2, Lengths, EncodedIsSeq
<1>2. bc + w + f <= l
  <2>1. Least((b + 1) * code_length, l) = bc + w + f
    BY <1>1, WidthFacts
  <2>2. (b + 1) * code_length \in Int
    BY Lengths, Product
  <2> QED BY <2>1, <2>2 DEF Least
<1>3. ASSUME NEW j \in 1..(w + f)
      PROVE  /\ bc + j \in 1..l
             /\ Encoded(Sealed)[bc + j] =
                  IF j <= w THEN Sym(Block(Sealed, b + 1)[j])
                  ELSE Parity(Block(Sealed, b + 1))[j - w]
  <2>1. bc + j \in 1..l
    BY <1>1, <1>2
  <2>2. (bc + j - 1) \div c = b
    <3>1. PICK r \in 0..(c - 1) : r = j - 1
      BY <1>1
    <3>2. (b * c + r) \div c = b
      OBVIOUS
    <3>3. bc + j - 1 = b * c + r
      BY <1>1, <3>1
    <3> QED BY <3>2, <3>3
  <2>3. bc + j - b * c = j
    BY <1>1
  <2>4. Len(Block(Sealed, b + 1)) = w
    BY <1>1, BlockCells
  <2>5. PICK i \in 1..EncodedLength : i = bc + j
    BY <1>1, <2>1
  <2>6. b = (i - 1) \div code_length /\ j = i - b * code_length
    BY <1>1, <2>2, <2>3, <2>5
  <2>7. Encoded(Sealed)[i] = IF j <= w THEN Sym(Block(Sealed, b + 1)[j])
                             ELSE Parity(Block(Sealed, b + 1))[j - w]
    BY <2>4, <2>6, EncodedAt, Zenon
  <2> QED BY <2>1, <2>5, <2>7, Zenon
<1>4. ASSUME NEW j \in 1..w PROVE Encoded(Sealed)[bc + j] = Sym(Sealed[b * data_length + j])
  <2>1. j \in 1..(w + f) /\ j <= w
    BY <1>1
  <2>2. Block(Sealed, b + 1)[j] = Sealed[b * data_length + j]
    BY <1>1, BlockCells
  <2> QED BY <1>3, <2>1, <2>2, Zenon
<1>5. ASSUME NEW j \in 1..f PROVE Encoded(Sealed)[bc + w + j] = <<"fec", Padded(b), j>>
  <2>1. w + j \in 1..(w + f) /\ ~(w + j <= w) /\ (w + j) - w = j /\ bc + w + j = bc + (w + j)
    BY <1>1
  <2>2. Encoded(Sealed)[bc + w + j] = Parity(Block(Sealed, b + 1))[j]
    <3>1. PICK i \in 1..(w + f) : i = w + j
      BY <2>1
    <3>2. Encoded(Sealed)[bc + i] = Parity(Block(Sealed, b + 1))[i - w]
      BY <1>3, <2>1, <3>1, Zenon
    <3>3. i - w = j /\ bc + w + j = bc + i
      BY <2>1, <3>1
    <3> QED BY <3>2, <3>3, Zenon
  <2> QED BY <1>1, <2>2 DEF Parity, Padded
<1> QED BY <1>1, <1>3, <1>4, <1>5, Zenon
\* What decode_file() reads of block b, seen as a code word.
LEMMA WordCells ==
  ASSUME ImageFile, Len(image) = EncodedLength, NEW b \in Nat, b < Blocks(Sealed)
  PROVE  /\ Remaining(b) > fec_length
         /\ Len(Chunk(b)) - fec_length = Width(b)
         /\ \A k \in 1..Width(b) : Word(Chunk(b))[k] = image[b * code_length + k]
         /\ \A k \in (Width(b) + 1)..data_length : Word(Chunk(b))[k] = Sym(0)
         /\ \A k \in 1..fec_length :
              Word(Chunk(b))[data_length + k] = image[b * code_length + Width(b) + k]
<1>1. Remaining(b) > fec_length
  BY WidthFacts DEF Remaining
<1>0. PICK s : s = Chunk(b)
  OBVIOUS
<1>2. PICK w \in 1..data_length, d \in Nat, f \in Nat, c \in Nat, bc \in Nat :
        /\ w = Width(b) /\ d = data_length /\ f = fec_length /\ c = code_length
        /\ c = d + f /\ bc = b * code_length
  <2>1. b * code_length \in Nat
    BY Lengths, Product
  <2> QED BY <2>1, Lengths, WidthFacts
<1>3. Len(s) = w + f /\ \A k \in 1..(w + f) : s[k] = image[bc + k]
  <2>1. Len(s) = Least((b + 1) * code_length, EncodedLength) - bc
    BY <1>0, <1>1, <1>2, ChunkFacts, Zenon
  <2>2. Least((b + 1) * code_length, EncodedLength) = bc + w + f
    BY <1>2, WidthFacts, Zenon
  <2>3. Len(s) = w + f
    <3>1. (bc + w + f) - bc = w + f
      BY <1>2
    <3> QED BY <2>1, <2>2, <3>1, Zenon
  <2>4. \A k \in 1..Len(s) : s[k] = image[bc + k]
    BY <1>0, <1>1, <1>2, ChunkFacts, Zenon
  <2> QED BY <2>3, <2>4
<1>4. Len(s) - f = w
  BY <1>2, <1>3
<1>5. Word(s) = [k \in 1..c |-> IF k > d THEN s[w + k - d] ELSE IF k <= w THEN s[k] ELSE Sym(0)]
  BY <1>0, <1>2, <1>4, Zenon DEF Word
<1>6. ASSUME NEW k \in 1..w PROVE Word(s)[k] = image[bc + k]
  <2>1. k \in 1..c /\ ~(k > d) /\ k <= w /\ k \in 1..(w + f)
    BY <1>2
  <2> QED BY <1>3, <1>5, <2>1, Zenon
<1>7. \A k \in (w + 1)..d : Word(s)[k] = Sym(0)
  BY <1>2, <1>5
<1>8. ASSUME NEW k \in 1..f PROVE Word(s)[d + k] = image[bc + w + k]
  <2>1. d + k \in 1..c /\ d + k > d /\ w + (d + k) - d = w + k /\ w + k \in 1..(w + f)
        /\ bc + (w + k) = bc + w + k
    BY <1>2
  <2>2. Word(s)[d + k] = s[w + (d + k) - d]
    BY <1>5, <2>1, Zenon
  <2> QED BY <1>3, <2>1, <2>2, Zenon
<1>9. /\ \A k \in 1..Width(b) : Word(Chunk(b))[k] = image[b * code_length + k]
      /\ \A k \in (Width(b) + 1)..data_length : Word(Chunk(b))[k] = Sym(0)
      /\ \A k \in 1..fec_length :
           Word(Chunk(b))[data_length + k] = image[b * code_length + Width(b) + k]
  BY <1>0, <1>2, <1>6, <1>7, <1>8, Zenon
<1>10. Len(Chunk(b)) - fec_length = Width(b)
  BY <1>0, <1>2, <1>4
<1> QED BY <1>1, <1>9, <1>10

\* Each symbol in which the word differs from the code word written is a
\* damaged symbol of the block, so there are no more than the code corrects.
LEMMA WordIsNear ==
  ASSUME ImageFile, Len(image) = EncodedLength, Legible, Correctable,
         NEW b \in Nat, b < Blocks(Sealed)
  PROVE  Padded(b) \in Near(Word(Chunk(b)))
<1> DEFINE word == Word(Chunk(b))
           D == Differ(Padded(b), word)
           T == damaged \cap ((b * code_length + 1)..((b + 1) * code_length))
<1>1. PICK w \in 1..data_length, d \in Nat, f \in Nat, c \in Nat, bc \in Nat :
        /\ w = Width(b) /\ d = data_length /\ f = fec_length /\ c = code_length
        /\ c = d + f /\ bc = b * code_length /\ (b + 1) * code_length = bc + c
  <2>1. b * code_length \in Nat /\ (b + 1) * code_length = b * code_length + code_length
    BY Lengths, Product
  <2> QED BY <2>1, Lengths, WidthFacts
<1>2. Padded(b) \in Data
  BY BlockCells
<1>3. ASSUME NEW k \in 1..w, bc + k \notin damaged PROVE CodeWord(Padded(b))[k] = word[k]
  <2>1. k \in 1..data_length /\ k \in 1..(w + f)
    BY <1>1
  <2>2. CodeWord(Padded(b))[k] = Sym(Sealed[b * data_length + k])
    BY <1>1, <1>2, <2>1, CodeWordCells, BlockCells
  <2>3. bc + k \in 1..EncodedLength /\ Encoded(Sealed)[bc + k] = Sym(Sealed[b * data_length + k])
    BY <1>1, <2>1, EncodedCells, Zenon
  <2>4. word[k] = image[bc + k]
    BY <1>1, WordCells, Zenon
  <2> QED BY <1>3, <2>2, <2>3, <2>4, Zenon DEF Legible
<1>4. ASSUME NEW k \in (w + 1)..d PROVE CodeWord(Padded(b))[k] = word[k]
  <2>1. k \in 1..data_length
    BY <1>1
  <2>2. CodeWord(Padded(b))[k] = Sym(0)
    BY <1>1, <1>2, <2>1, CodeWordCells, BlockCells
  <2>3. word[k] = Sym(0)
    BY <1>1, WordCells, Zenon
  <2> QED BY <2>2, <2>3
<1>5. ASSUME NEW k \in 1..f, bc + w + k \notin damaged
      PROVE  CodeWord(Padded(b))[d + k] = word[d + k]
  <2>1. w + k \in 1..(w + f) /\ bc + (w + k) = bc + w + k
    BY <1>1
  <2>2. CodeWord(Padded(b))[d + k] = <<"fec", Padded(b), k>>
    BY <1>1, <1>2, CodeWordCells, Zenon
  <2>3. /\ bc + w + k \in 1..EncodedLength
        /\ Encoded(Sealed)[bc + w + k] = <<"fec", Padded(b), k>>
    BY <1>1, <2>1, EncodedCells, Zenon
  <2>4. word[d + k] = image[bc + w + k]
    BY <1>1, WordCells, Zenon
  <2> QED BY <1>5, <2>2, <2>3, <2>4, Zenon DEF Legible
<1> HIDE DEF word
<1>6. PICK place : place = [k \in D |-> IF k <= d THEN bc + k ELSE bc + w + (k - d)]
  BY Zenon
<1>7. ASSUME NEW k \in D
      PROVE  \/ k \in 1..w /\ place[k] = bc + k /\ place[k] \in T
             \/ k \in (d + 1)..c /\ place[k] = bc + w + (k - d) /\ place[k] \in T
  <2>1. k \in 1..c /\ CodeWord(Padded(b))[k] # word[k]
    BY <1>1 DEF Differ
  <2>2. CASE k <= d
    <3>1. k \in 1..w
      BY <1>1, <1>4, <2>1, <2>2
    <3>2. bc + k \in damaged
      BY <1>3, <2>1, <3>1
    <3>3. place[k] = bc + k
      BY <1>6, <2>2
    <3>4. bc + k \in (bc + 1)..(bc + c)
      BY <1>1, <3>1
    <3> QED BY <1>1, <3>1, <3>2, <3>3, <3>4, Zenon
  <2>3. CASE k > d
    <3>1. k - d \in 1..f /\ d + (k - d) = k /\ ~(k <= d) /\ k \in (d + 1)..c
      BY <1>1, <2>1, <2>3
    <3>2. bc + w + (k - d) \in damaged
      BY <1>5, <2>1, <3>1, Zenon
    <3>3. place[k] = bc + w + (k - d)
      BY <1>6, <3>1
    <3>4. bc + w + (k - d) \in (bc + 1)..(bc + c)
      BY <1>1, <3>1
    <3> QED BY <1>1, <3>1, <3>2, <3>3, <3>4, Zenon
  <2> QED BY <1>1, <2>1, <2>2, <2>3
<1>8. place \in Injection(D, T)
  <2>1. place \in [D -> T]
    BY <1>6, <1>7
  <2>2. ASSUME NEW x \in D, NEW y \in D, place[x] = place[y] PROVE x = y
    <3>1. \/ x \in 1..w /\ place[x] = bc + x
          \/ x \in (d + 1)..c /\ place[x] = bc + w + (x - d)
      BY <1>7
    <3>2. \/ y \in 1..w /\ place[y] = bc + y
          \/ y \in (d + 1)..c /\ place[y] = bc + w + (y - d)
      BY <1>7
    <3> HIDE DEF D
    <3> QED BY <1>1, <2>2, <3>1, <3>2
  <2> QED BY <2>1, <2>2 DEF Injection, IsInjective
<1>9. IsFiniteSet(T)
  <2>1. IsFiniteSet(1..EncodedLength)
    BY EncodedIsSeq, FS_Interval
  <2>2. T \in SUBSET (1..EncodedLength)
    BY DEF Legible
  <2> QED BY <2>1, <2>2, FS_Subset
<1>10. Cardinality(D) <= Cardinality(T) /\ Cardinality(D) \in Nat /\ Cardinality(T) \in Nat
  BY <1>8, <1>9, FS_Injection, FS_CardinalityType
<1>11. 2 * Cardinality(T) <= f
  <2>1. b \in 0..Blocks(Sealed)
    BY BlockCount
  <2> QED BY <1>1, <2>1 DEF Correctable
<1>12. 2 * Cardinality(D) <= fec_length
  <2> HIDE DEF D, T
  <2> QED BY <1>1, <1>10, <1>11
<1> QED BY <1>2, <1>12 DEF Near, Differ, word

\* The decoder has no choice but the data that was encoded.
LEMMA DecodedRight ==
  ASSUME ImageFile, Len(image) = EncodedLength, Legible, Correctable,
         NEW b \in Nat, b < Blocks(Sealed)
  PROVE  Near(Word(Chunk(b))) # {} /\ Decode(Word(Chunk(b))) = {Padded(b)}
<1>1. Padded(b) \in Near(Word(Chunk(b)))
  BY WordIsNear
<1>2. Near(Word(Chunk(b))) = {Padded(b)}
  BY <1>1, NearUnique, Zenon
<1> QED BY <1>2, Zenon DEF Decode

\* A block more is recovered.
LEMMA BlockRecovered ==
  ASSUME NEW b \in Nat, b < Blocks(Sealed)
  PROVE  Put(SubSeq(Sealed, 1, Least(b * data_length, Len(Sealed))), b * data_length,
             SubSeq(Padded(b), 1, Width(b)))
           = SubSeq(Sealed, 1, Least((b + 1) * data_length, Len(Sealed)))
<1>1. PICK w \in 1..data_length, d \in Nat, p \in Nat, l \in Nat :
        /\ w = Width(b) /\ d = data_length /\ p = b * data_length /\ l = Len(Sealed)
        /\ p + w <= l /\ p + w = Least((b + 1) * data_length, Len(Sealed))
  <2>1. b * data_length \in Nat
    BY Lengths, Product
  <2> QED BY <2>1, Lengths, WidthFacts, Zenon
<1>2. Least(b * data_length, Len(Sealed)) = p /\ p <= l /\ w \in Nat \ {0}
  BY <1>1 DEF Least
<1>3. SubSeq(Sealed, 1, p) = [k \in 1..p |-> Sealed[k]] /\ Len(SubSeq(Sealed, 1, p)) = p
  BY <1>1, <1>2, Lengths
<1>4. SubSeq(Sealed, 1, p + w) = [k \in 1..(p + w) |-> Sealed[k]]
  BY <1>1, <1>2, Lengths
<1>5. PICK u : u = SubSeq(Padded(b), 1, w)
  BY Zenon
<1>6. Len(u) = w /\ \A k \in 1..w : u[k] = Sealed[p + k]
  <2>1. Padded(b) \in Seq(Symbols) /\ Len(Padded(b)) = data_length
    BY BlockCells, Lengths DEF Data
  <2>2. Len(u) = w /\ \A k \in 1..w : u[k] = Padded(b)[k]
    <3>1. w \in Nat /\ w <= Len(Padded(b))
      BY <1>1, <1>2, <2>1
    <3>2. \A x \in Seq(Symbols) :
            w <= Len(x) => Len(SubSeq(x, 1, w)) = w /\ \A k \in 1..w : SubSeq(x, 1, w)[k] = x[k]
      BY <3>1
    <3>3. /\ Len(SubSeq(Padded(b), 1, w)) = w
          /\ \A k \in 1..w : SubSeq(Padded(b), 1, w)[k] = Padded(b)[k]
      BY <2>1, <3>1, <3>2, Zenon
    <3> QED BY <1>5, <3>3, Zenon
  <2> QED BY <1>1, <2>2, BlockCells, Zenon
<1>7. u # <<>>
  BY <1>2, <1>6
<1>8. PICK r : r = SubSeq(Sealed, 1, p)
  BY Zenon
<1>9. Put(r, p, u) = [i \in 1..(p + w) |-> Sealed[i]]
  <2>1. (1..p) \cup (1..(p + w)) = 1..(p + w)
    BY <1>2
  <2>2. Put(r, p, u) = [i \in 1..(p + w) |-> IF i > p /\ i <= p + w THEN u[i - p]
                                             ELSE IF i <= p THEN r[i] ELSE 0]
    BY <1>3, <1>6, <1>7, <1>8, <2>1, Zenon DEF Put
  <2>3. ASSUME NEW i \in 1..(p + w)
        PROVE  (IF i > p /\ i <= p + w THEN u[i - p] ELSE IF i <= p THEN r[i] ELSE 0) = Sealed[i]
    <3>1. CASE i > p
      <4>1. i - p \in 1..w /\ p + (i - p) = i /\ i <= p + w
        BY <1>2, <3>1
      <4>2. u[i - p] = Sealed[p + (i - p)]
        BY <1>6, <4>1, Zenon
      <4> QED BY <3>1, <4>1, <4>2, Zenon
    <3>2. CASE ~(i > p)
      <4>1. i \in 1..p /\ i <= p
        BY <1>2, <3>2
      <4>2. r[i] = Sealed[i]
        BY <1>3, <1>8, <4>1, Zenon
      <4> QED BY <3>2, <4>1, <4>2, Zenon
    <3> QED BY <3>1, <3>2
  <2> QED BY <2>2, <2>3, Zenon
<1> QED BY <1>1, <1>2, <1>4, <1>5, <1>8, <1>9, Zenon

\* After the last block nothing remains, and all is recovered.
LEMMA AllRecovered ==
  ASSUME Len(image) = EncodedLength
  PROVE  /\ Remaining(Blocks(Sealed)) <= 0
         /\ SubSeq(Sealed, 1, Least(Blocks(Sealed) * data_length, Len(Sealed))) = Sealed
<1>1. PICK n \in Nat, d \in Nat, f \in Nat, l \in Nat, nd \in Nat, nf \in Nat :
        /\ n = Blocks(Sealed) /\ d = data_length /\ f = fec_length /\ l = Len(Sealed)
        /\ nd = n * d /\ nf = n * f
  <2>1. \A n, d \in Nat : n * d \in Nat
    BY Product
  <2> QED BY <2>1, Lengths, BlockCount
<1>2. l <= nd
  BY <1>1, BlockCount
<1>3. n * code_length = nd + nf
  BY <1>1, Lengths
<1>4. EncodedLength = l + nf
  BY <1>1, Zenon DEF EncodedLength
<1>5. Remaining(n) <= 0
  <2>1. Remaining(n) = (l + nf) - (nd + nf)
    BY <1>3, <1>4, Zenon DEF Remaining
  <2> QED BY <1>2, <2>1
<1>6. Least(Blocks(Sealed) * data_length, Len(Sealed)) = Len(Sealed)
  <2>1. Least(nd, l) = l
    BY <1>2 DEF Least
  <2> QED BY <1>1, <2>1, Zenon
<1>7. SubSeq(Sealed, 1, Len(Sealed)) = Sealed
  BY Lengths
<1> QED BY <1>1, <1>5, <1>6, <1>7, Zenon
LEMMA RepairInit == Init => RepairInv
<1> SUFFICES ASSUME Init PROVE RepairInv
  OBVIOUS
<1>1. TypeInv
  BY TypeInit
<1>2. ASSUME encoded, Len(image) = EncodedLength PROVE Legible
  <2>1. PICK m : m = Encoded(Sealed) /\ DOMAIN m = 1..EncodedLength /\ Len(m) = EncodedLength
    BY EncodedIsSeq
  <2>2. \/ /\ damaged \in SUBSET (1..EncodedLength)
           /\ image = [k \in 1..EncodedLength |-> IF k \in damaged THEN Bad ELSE m[k]]
        \/ \E n \in 0..(EncodedLength - 1) : image = SubSeq(m, 1, n)
    BY <1>2, <2>1, Zenon DEF Init
  <2>3. ASSUME NEW n \in 0..(EncodedLength - 1), image = SubSeq(m, 1, n) PROVE FALSE
    <3>1. image = [k \in 1..(1 + n - 1) |-> m[1 + k - 1]]
      BY <2>3 DEF SubSeq
    <3>2. n \in Nat /\ 1 + n - 1 = n /\ n # EncodedLength
      BY <2>3, EncodedIsSeq
    <3>3. Len(image) = n
      BY <3>1, <3>2
    <3> QED BY <1>2, <3>2, <3>3
  <2> QED BY <2>1, <2>2, <2>3 DEF Legible
<1>3. ASSUME NEW m \in Mounters PROVE Repairing(m)
  BY DEF Init, Repairing, Repairable
<1> QED BY <1>1, <1>2, <1>3 DEF RepairInv

\* What the steps leave alone.
LEMMA SameMedium ==
  ASSUME UNCHANGED fileVars
  PROVE  /\ image' = image /\ Correctable' = Correctable /\ Legible' = Legible
         /\ encoded' = encoded /\ large' = large /\ writable' = writable
BY DEF fileVars, Correctable, Legible

LEMMA EncodedPositive == EncodedLength # 0
<1>1. Blocks(Sealed) * fec_length \in Nat
  BY Lengths, BlockCount, Product
<1> QED BY <1>1, Lengths DEF EncodedLength

\* A decoder that has come to block b finds one to decode if b is not the last.
LEMMA MoreBlocks ==
  ASSUME ImageFile, Len(image) = EncodedLength, NEW b \in Nat, b <= Blocks(Sealed)
  PROVE  Remaining(b) > fec_length <=> b < Blocks(Sealed)
<1>1. CASE b < Blocks(Sealed)
  BY <1>1, WordCells
<1>2. CASE b = Blocks(Sealed)
  <2>1. Remaining(b) <= 0
    BY <1>2, AllRecovered
  <2>2. Remaining(b) \in Int
    <3>1. b * code_length \in Nat
      BY Lengths, Product
    <3> QED BY <3>1, EncodedIsSeq DEF Remaining
  <2> QED BY <1>2, <2>1, <2>2, Lengths, BlockCount
<1> QED BY <1>1, <1>2, BlockCount

\* checkHash() does not reject the sealed image.
LEMMA SealedAccepted ==
  ASSUME NEW m \in Mounters, goodKey[m], ~large, MountedFile(m) = Syms(Sealed),
         NEW count \in ShownCounts(MountedFile(m))
  PROVE  "rejected" \notin Verdicts(m, count)
<1>1. PICK f : f = MountedFile(m) /\ f = Syms(Sealed)
  BY Zenon
<1>2. Len(f) = Len(Sealed) /\ f # <<>> /\ \A k \in 1..Len(Sealed) : f[k] = Sym(Sealed[k])
  BY <1>1, Lengths DEF Syms
<1>3. Last(f) = Sym(Last(Sealed))
  BY <1>2, Lengths DEF Last
<1>4. Sym(Last(Sealed))[1] = "sym" /\ Sym(Last(Sealed))[2] = Last(Sealed)
  BY DEF Sym
<1>5. count = Last(Sealed)
  BY <1>1, <1>2, <1>3, <1>4, Zenon DEF ShownCounts
<1>6. Holds(m, Sealed)
  <2>1. \A k \in 1..(Len(Sealed) - 1) : k \in 1..Len(Sealed)
    BY Lengths
  <2> QED BY <1>1, <1>2, <2>1, Zenon DEF Holds
<1>7. ImageSize(Len(f), count) = ImageSize(Len(Sealed), Last(Sealed))
  BY <1>2, <1>5, Zenon
<1>8. "rejected" # "unchecked"
  OBVIOUS
<1> QED BY <1>1, <1>6, <1>7, <1>8, Zenon DEF Verdicts

LEMMA RepairStep ==
  ASSUME \A a, b \in Mounters : a = b, RepairInv, NEW m \in Mounters, Step(m), TypeInv'
  PROVE  Repairing(m)'
<1>1. UNCHANGED fileVars
  BY Zenon DEF Step, ParseOptions, EnterKey, StartDecode, DecodeBlock, EndDecode, SkipDecode,
               CheckHash, AnswerPrompt
<1>2. /\ Repairable(m) => Recovering(m) /\ Legible /\ Len(image) = EncodedLength /\ Correctable
      /\ pc[m] \in {"options", "key"} => ~goodKey[m]
      /\ pc[m] \in {"options", "key", "start"} => block[m] = 0
  BY EncodedIsSeq DEF RepairInv, Repairing, Repairable
<1>3. goodKey' = goodKey /\ necc' = necc => (Repairable(m)' <=> Repairable(m))
  BY <1>1, SameMedium DEF Repairable
<1>4. CASE ParseOptions(m)
  <2>1. goodKey' = goodKey /\ block' = block /\ ~goodKey[m] /\ block[m] = 0
    BY <1>2, <1>4 DEF ParseOptions
  <2> QED BY <2>1 DEF Repairing, Repairable
<1>5. CASE EnterKey(m)
  <2>1. pc'[m] = "start" /\ block'[m] = 0
    BY <1>2, <1>5 DEF EnterKey, SetPc, RepairInv, TypeInv
  <2> QED BY <2>1 DEF Repairing, Recovering
<1>6. CASE StartDecode(m)
  <2>1. goodKey' = goodKey /\ necc' = necc /\ block'[m] = 0 /\ pc'[m] \in {"decode", "decode_failed"}
    BY <1>2, <1>6 DEF StartDecode, Fail, SetPc, RepairInv, TypeInv
  <2>2. ASSUME Repairable(m) PROVE Recovering(m)'
    <3>1. image # <<>> /\ writable
      BY <1>2, <2>2, EncodedPositive DEF Repairable
    <3>2. rec' = <<>> /\ recExists' = TRUE /\ pc'[m] = "decode"
      BY <1>6, <3>1 DEF StartDecode, SetPc, RepairInv, TypeInv
    <3>3. Least(0 * data_length, Len(Sealed)) = 0 /\ 0 <= Blocks(Sealed)
      BY Lengths, BlockCount DEF Least
    <3>4. SubSeq(Sealed, 1, 0) = <<>>
      BY Lengths
    <3> QED BY <2>1, <3>2, <3>3, <3>4 DEF Recovering
  <2> QED BY <1>3, <2>1, <2>2 DEF Repairing
<1>7. CASE DecodeBlock(m)
  <2>1. /\ goodKey' = goodKey /\ necc' = necc /\ recExists' = recExists
        /\ pc[m] = "decode" /\ pc'[m] \in {"decode", "decode_failed"}
    BY <1>7 DEF DecodeBlock, Fail, SetPc, RepairInv, TypeInv
  <2>2. ASSUME Repairable(m) PROVE Recovering(m)'
    <3>1. PICK b \in Nat : b = block[m] /\ b <= Blocks(Sealed)
      BY <1>2, <2>1, <2>2 DEF Recovering, RepairInv, TypeInv
    <3>2. /\ recExists
          /\ rec = SubSeq(Sealed, 1, Least(b * data_length, Len(Sealed)))
      BY <1>2, <2>1, <2>2, <3>1 DEF Recovering
    <3>3. b < Blocks(Sealed)
      BY <1>2, <1>7, <2>2, <3>1, MoreBlocks DEF DecodeBlock, RepairInv, TypeInv
    <3>4. Near(Word(Chunk(b))) # {} /\ Decode(Word(Chunk(b))) = {Padded(b)}
      BY <1>2, <2>2, <3>3, DecodedRight DEF RepairInv, TypeInv
    <3>5. Len(Chunk(b)) - fec_length = Width(b)
      BY <1>2, <2>2, <3>3, WordCells DEF RepairInv, TypeInv
    <3>6. /\ rec' = Put(rec, b * data_length, SubSeq(Padded(b), 1, Width(b)))
          /\ Advance(m) /\ pc' = pc
      BY <1>7, <3>1, <3>4, <3>5, Zenon DEF DecodeBlock
    <3>7. rec' = SubSeq(Sealed, 1, Least((b + 1) * data_length, Len(Sealed)))
      BY <3>2, <3>3, <3>6, BlockRecovered, Zenon
    <3>8. block'[m] = b + 1 /\ b + 1 <= Blocks(Sealed)
      BY <3>1, <3>3, <3>6, BlockCount DEF Advance, RepairInv, TypeInv
    <3>9. pc'[m] = "decode" /\ recExists'
      BY <2>1, <3>2, <3>6
    <3> QED BY <3>7, <3>8, <3>9 DEF Recovering
  <2> QED BY <1>3, <2>1, <2>2 DEF Repairing
<1>8. CASE EndDecode(m)
  <2>1. /\ goodKey' = goodKey /\ necc' = necc /\ recExists' = recExists /\ rec' = rec
        /\ pc[m] = "decode" /\ pc'[m] \in {"open", "decode_failed"}
    BY <1>8 DEF EndDecode, Fail, SetPc, RepairInv, TypeInv
  <2>2. ASSUME Repairable(m) PROVE Recovering(m)'
    <3>1. PICK b \in Nat : b = block[m] /\ b <= Blocks(Sealed)
      BY <1>2, <2>1, <2>2 DEF Recovering, RepairInv, TypeInv
    <3>2. /\ recExists
          /\ rec = SubSeq(Sealed, 1, Least(b * data_length, Len(Sealed)))
      BY <1>2, <2>1, <2>2, <3>1 DEF Recovering
    <3>3. b = Blocks(Sealed)
      <4>1. ~(Remaining(b) > fec_length)
        <5>1. Remaining(b) <= fec_length
          BY <1>8, <3>1 DEF EndDecode
        <5>2. Remaining(b) \in Int
          <6>1. b * code_length \in Nat
            BY Lengths, Product
          <6> QED BY <1>2, <2>2, <6>1, EncodedIsSeq DEF Remaining
        <5> QED BY <5>1, <5>2, Lengths
      <4> QED BY <1>2, <2>2, <3>1, <4>1, MoreBlocks, BlockCount DEF RepairInv, TypeInv
    <3>4. Remaining(b) <= 0 /\ rec = Sealed
      BY <1>2, <2>2, <3>2, <3>3, AllRecovered, Zenon
    <3>5. ~(Remaining(b) > 0)
      <4>1. b * code_length \in Nat
        BY Lengths, Product
      <4>2. Remaining(b) \in Int
        BY <1>2, <2>2, <4>1, EncodedIsSeq DEF Remaining
      <4> QED BY <3>4, <4>2
    <3>6. pc'[m] = "open"
      BY <1>8, <3>1, <3>5 DEF EndDecode, SetPc, RepairInv, TypeInv
    <3> QED BY <2>1, <3>2, <3>4, <3>6 DEF Recovering
  <2> QED BY <1>3, <2>1, <2>2 DEF Repairing
<1>9. CASE SkipDecode(m)
  <2>1. necc'[m] /\ pc'[m] = "open"
    BY <1>9 DEF SkipDecode, SetPc, RepairInv, TypeInv
  <2> QED BY <2>1 DEF Repairing, Repairable
<1>10. CASE CheckHash(m)
  <2>1. /\ goodKey' = goodKey /\ necc' = necc /\ recExists' = recExists /\ rec' = rec
        /\ pc[m] = "open" /\ pc'[m] \in {"undefined", "mounted", "hash_failed"}
    BY <1>10 DEF CheckHash, SetPc, RepairInv, TypeInv
  <2>2. ASSUME Repairable(m) PROVE Recovering(m)'
    <3>1. recExists /\ rec = Sealed /\ goodKey[m] /\ ~necc[m]
      BY <1>2, <2>1, <2>2 DEF Recovering, Repairable
    <3>2. MountedFile(m) = Syms(Sealed) /\ ~large
      BY <2>2, <3>1, Zenon DEF MountedFile, Repairable
    <3>3. SetPc(m, "mounted")
      <4>1. PICK count \in ShownCounts(MountedFile(m)) : \E v \in Verdicts(m, count) :
              SetPc(m, IF v = "rejected" THEN "hash_failed" ELSE "mounted")
        BY <1>10, <3>1, Zenon DEF CheckHash
      <4>2. PICK v \in Verdicts(m, count) :
              SetPc(m, IF v = "rejected" THEN "hash_failed" ELSE "mounted")
        BY <4>1, Zenon
      <4>3. v # "rejected"
        BY <3>1, <3>2, SealedAccepted, Zenon
      <4> QED BY <4>2, <4>3, Zenon
    <3>4. pc'[m] = "mounted"
      BY <3>3 DEF SetPc, RepairInv, TypeInv
    <3> QED BY <2>1, <3>1, <3>4 DEF Recovering
  <2> QED BY <1>3, <2>1, <2>2 DEF Repairing
<1>11. CASE AnswerPrompt(m)
  <2>1. /\ goodKey' = goodKey /\ necc' = necc /\ pc[m] \in {"decode_failed", "hash_failed"}
        /\ pc'[m] \in {"open", "mounted", "exit"}
    BY <1>11 DEF AnswerPrompt, SetPc, RepairInv, TypeInv
  <2>2. ~Repairable(m)
    BY <1>2, <2>1 DEF Recovering
  <2> QED BY <1>3, <2>1, <2>2 DEF Repairing
<1> QED BY <1>4, <1>5, <1>6, <1>7, <1>8, <1>9, <1>10, <1>11, Zenon DEF Step

\* One mounter alone repairs what the code can correct, for an image, blocks
\* and a parity of any length: wherever the damaged symbols of each block are,
\* with the right key and a place for the recovered file, decode(), checkHash()
\* and mounting follow each other without a question, and what is mounted is the
\* sealed image to the last symbol.
THEOREM DamageAlwaysRepaired ==
  ASSUME \A a, b \in Mounters : a = b
  PROVE  Spec => []DamageRepaired
<1>1. RepairInv /\ [Next]_vars => RepairInv'
  <2> SUFFICES ASSUME RepairInv, [Next]_vars PROVE RepairInv'
    OBVIOUS
  <2>1. TypeInv'
    BY TypeStep DEF RepairInv
  <2>2. CASE UNCHANGED vars
    <3>1. UNCHANGED fileVars /\ UNCHANGED <<rec, recExists, pc, necc, goodKey, block>>
      BY <2>2 DEF vars
    <3>2. ASSUME NEW m \in Mounters PROVE Repairing(m)'
      <4>1. Repairable(m)' <=> Repairable(m)
        BY <3>1, SameMedium DEF Repairable
      <4>2. Recovering(m)' <=> Recovering(m)
        BY <3>1 DEF Recovering
      <4> QED BY <3>1, <4>1, <4>2 DEF RepairInv, Repairing
    <3> QED BY <2>1, <3>1, <3>2, SameMedium DEF RepairInv
  <2>3. ASSUME NEW m \in Mounters, Step(m) PROVE RepairInv'
    <3>1. UNCHANGED fileVars
      BY <2>3, Zenon DEF Step, ParseOptions, EnterKey, StartDecode, DecodeBlock, EndDecode,
                         SkipDecode, CheckHash, AnswerPrompt
    <3>2. Repairing(m)'
      BY <2>1, <2>3, RepairStep
    <3>3. \A x \in Mounters : Repairing(x)'
      BY <3>2
    <3> QED BY <2>1, <3>1, <3>3, SameMedium DEF RepairInv
  <2> QED BY <2>2, <2>3 DEF Next, Done
<1>2. RepairInv => DamageRepaired
  BY DEF RepairInv, Repairing, Repairable, Recovering, DamageRepaired, MountedFile
<1> QED BY <1>1, <1>2, RepairInit, PTL DEF Spec

----------------------------------------------------------------------------
(* What is mounted.  Neither the medium nor a decoder beyond its capacity  *)
(* comes up with the digests of an earlier image.                          *)

\* A symbol of the encoded image is one of the sealed image or parity.
LEMMA EncodedSymbols ==
  ASSUME NEW i \in 1..EncodedLength, NEW s, Encoded(Sealed)[i] = Sym(s)
  PROVE  s \in Symbols
<1>1. PICK d \in Nat \ {0}, f \in Nat \ {0}, c \in Nat \ {0}, l \in Nat, n \in Nat, e \in Nat :
        /\ d = data_length /\ f = fec_length /\ c = code_length /\ c = d + f
        /\ l = Len(Sealed) /\ n = Blocks(Sealed) /\ e = EncodedLength
  BY Lengths, BlockCount, EncodedIsSeq, Zenon
<1>2. PICK b \in Nat, j \in 1..c : i = b * c + j
  <2>1. PICK q \in Int, m \in Int : q = (i - 1) \div c /\ m = (i - 1) % c
    BY <1>1
  <2>2. q \in Nat /\ m \in 0..(c - 1) /\ i - 1 = q * c + m
    BY <1>1, <2>1
  <2>3. m + 1 \in 1..c /\ i = q * c + (m + 1)
    BY <1>1, <2>2
  <2> QED BY <2>2, <2>3
<1>3. PICK bc \in Nat, nd \in Nat, nf \in Nat :
        bc = b * c /\ nd = n * d /\ nf = n * f /\ n * c = nd + nf /\ (b + 1) * c = bc + c
  <2>1. b * c \in Nat /\ (b + 1) * c = b * c + c
    BY <1>1
  <2>2. n * d \in Nat /\ n * f \in Nat /\ n * (d + f) = n * d + n * f
    BY <1>1
  <2>3. n * c = n * d + n * f
    BY <1>1, <2>2, Zenon
  <2> QED BY <2>1, <2>2, <2>3, Zenon
<1>4. e = l + nf /\ l <= nd
  BY <1>1, <1>3, BlockCount, Zenon DEF EncodedLength
<1>5. b < n
  <2>1. SUFFICES ASSUME n <= b PROVE FALSE
    BY <1>1
  <2>2. n * c <= bc
    BY <1>1, <1>3, <2>1, Product, Zenon
  <2> QED BY <1>1, <1>2, <1>3, <1>4, <2>2
<1>6. PICK w \in Nat : w = Width(b) /\ w \in 1..d /\ b * d + w <= l
  BY <1>1, <1>5, WidthFacts
<1>7. j <= w + f
  <2>1. Least((b + 1) * c, e) = bc + w + f
    BY <1>1, <1>3, <1>5, <1>6, WidthFacts, Zenon
  <2>2. i <= bc + c /\ i <= e
    BY <1>1, <1>2, <1>3
  <2>3. Least(bc + c, e) = bc + w + f
    BY <1>3, <2>1, Zenon
  <2>4. i <= bc + w + f
    BY <2>2, <2>3, <1>1, <1>3, <1>6 DEF Least
  <2> QED BY <1>1, <1>2, <1>3, <1>6, <2>4
<1>8. CASE j <= w
  <2>1. j \in 1..w
    BY <1>2, <1>6, <1>8
  <2>2. Encoded(Sealed)[b * code_length + j] = Sym(Sealed[b * data_length + j])
    BY <1>1, <1>5, <1>6, <2>1, EncodedCells, Zenon
  <2>3. Sym(s) = Sym(Sealed[b * d + j])
    BY <1>1, <1>2, <2>2, Zenon
  <2>4. s = Sealed[b * d + j]
    BY <2>3 DEF Sym
  <2>5. b * d + j \in 1..l
    BY <1>1, <1>6, <2>1
  <2> QED BY <1>1, <2>4, <2>5, Lengths
<1>9. CASE ~(j <= w)
  <2>1. PICK k \in 1..f : k = j - w
    BY <1>1, <1>2, <1>6, <1>7, <1>9
  <2>2. Encoded(Sealed)[b * code_length + Width(b) + k] = <<"fec", Padded(b), k>>
    BY <1>1, <1>5, <2>1, EncodedCells, Zenon
  <2>3. b * code_length + Width(b) + k = i
    BY <1>1, <1>2, <1>3, <1>6, <2>1
  <2>4. <<"sym", s>> = <<"fec", Padded(b), k>>
    BY <2>2, <2>3, Zenon DEF Sym
  <2> QED BY <2>4
<1> QED BY <1>8, <1>9

\* The image file has no digest of another image.
NoneForeign == \A k \in DOMAIN image : \A s : image[k] = Sym(s) => s \in Symbols

\* What a mounter has in its file: nothing foreign, unless decoding did not begin.
Genuine(m) ==
  /\ pc[m] \in {"decode_failed", "open"} /\ ~necc[m] =>
       rec \in Seq(Symbols) \/ status[m] \in {"ZERO_SIZE", "ERR_CREATE"}
  /\ pc[m] \in {"hash_failed", "mounted"} /\ verdict[m] = "accepted" =>
       \/ Holds(m, Sealed)
       \/ status[m] \in {"ZERO_SIZE", "ERR_CREATE"} /\ Holds(m, Old)

GenuineInv == TypeInv /\ NoneForeign /\ \A m \in Mounters : Genuine(m)

LEMMA NoneForeignInit ==
  ASSUME Init
  PROVE  NoneForeign
<1>1. PICK m : m = (IF encoded THEN Encoded(Sealed) ELSE Syms(Sealed))
  OBVIOUS
<1>2. PICK l \in Nat : DOMAIN m = 1..l /\ Len(m) = l
  <2>1. DOMAIN Syms(Sealed) = 1..Len(Sealed) /\ Len(Syms(Sealed)) = Len(Sealed)
    BY Lengths DEF Syms
  <2> QED BY <1>1, <2>1, EncodedIsSeq, Lengths, Zenon
<1>3. ASSUME NEW k \in 1..l, NEW s, m[k] = Sym(s) PROVE s \in Symbols
  <2>1. CASE encoded
    BY <1>1, <1>2, <1>3, <2>1, EncodedSymbols, EncodedIsSeq
  <2>2. CASE ~encoded
    <3>1. k \in 1..Len(Sealed) /\ m = Syms(Sealed)
      BY <1>1, <1>2, <2>2, Lengths DEF Syms
    <3>2. <<"sym", s>> = <<"sym", Sealed[k]>>
      BY <1>3, <3>1, Lengths DEF Syms, Sym
    <3>3. s = Sealed[k]
      BY <3>2
    <3> QED BY <3>1, <3>3, Lengths
  <2> QED BY <2>1, <2>2
<1>4. \A k \in DOMAIN image : k \in 1..l /\ (image[k] = Bad \/ image[k] = m[k])
  <2>1. \/ image = [k \in 1..l |-> IF k \in damaged THEN Bad ELSE m[k]]
        \/ \E n \in 0..(l - 1) : image = SubSeq(m, 1, n)
    BY <1>1, <1>2, Zenon DEF Init
  <2>2. CASE image = [k \in 1..l |-> IF k \in damaged THEN Bad ELSE m[k]]
    BY <2>2
  <2>3. ASSUME NEW n \in 0..(l - 1), image = SubSeq(m, 1, n)
        PROVE  \A k \in DOMAIN image : k \in 1..l /\ image[k] = m[k]
    <3>1. image = [k \in 1..(1 + n - 1) |-> m[1 + k - 1]]
      BY <2>3 DEF SubSeq
    <3>2. 1 + n - 1 = n /\ \A k \in 1..n : 1 + k - 1 = k /\ k \in 1..l
      BY <2>3
    <3> QED BY <3>1, <3>2
  <2> QED BY <2>1, <2>2, <2>3
<1>5. \A s : Bad # Sym(s)
  BY DEF Bad, Sym
<1> QED BY <1>3, <1>4, <1>5, Zenon DEF NoneForeign

LEMMA GenuineInit == Init => GenuineInv
<1> SUFFICES ASSUME Init PROVE GenuineInv
  OBVIOUS
<1>1. \A m \in Mounters : Genuine(m)
  BY DEF Init, Genuine
<1> QED BY <1>1, TypeInit, NoneForeignInit DEF GenuineInv

\* A file without foreign symbols is no earlier image.
LEMMA NotOld ==
  ASSUME Old # Sealed, NEW m \in Mounters, Holds(m, Old),
         \A k \in DOMAIN MountedFile(m) : \A s : MountedFile(m)[k] = Sym(s) => s \in Symbols,
         DOMAIN MountedFile(m) = 1..Len(MountedFile(m))
  PROVE  FALSE
<1>1. PICK k \in 1..(Len(Old) - 1) : Old[k] \notin Symbols
  BY DigestAssumption
<1>2. Len(MountedFile(m)) = Len(Old) /\ MountedFile(m)[k] = Sym(Old[k])
  BY <1>1, Zenon DEF Holds
<1>3. k \in 1..Len(Old)
  BY <1>1, PipelineAssumption
<1>4. k \in DOMAIN MountedFile(m)
  BY <1>2, <1>3, Zenon
<1> QED BY <1>1, <1>2, <1>4, Zenon

\* What the check accepts after comparing is the sealed image, or an earlier one
\* that decoding did not touch.
LEMMA CheckedGenuine ==
  ASSUME GenuineInv, NEW m \in Mounters, pc[m] = "open",
         NEW count, "accepted" \in Verdicts(m, count)
  PROVE  \/ Holds(m, Sealed)
         \/ status[m] \in {"ZERO_SIZE", "ERR_CREATE"} /\ Holds(m, Old)
<1>0. "accepted" # "unchecked"
  OBVIOUS
<1>1. Holds(m, Sealed) \/ Holds(m, Old)
  BY <1>0, Zenon DEF Verdicts
<1>2. SUFFICES ASSUME Old # Sealed, Holds(m, Old), status[m] \notin {"ZERO_SIZE", "ERR_CREATE"}
               PROVE  FALSE
  BY <1>1, Zenon
<1>3. CASE necc[m]
  <2>1. MountedFile(m) = image
    BY <1>3, Zenon DEF MountedFile
  <2>2. DOMAIN image = 1..Len(image)
    BY DEF GenuineInv, TypeInv, ImageFile
  <2> QED BY <1>2, <2>1, <2>2, NotOld, Zenon DEF GenuineInv, NoneForeign
<1>4. CASE ~necc[m]
  <2>1. MountedFile(m) = Syms(rec)
    BY <1>4, Zenon DEF MountedFile
  <2>2. rec \in Seq(Symbols)
    BY <1>2, <1>4 DEF GenuineInv, Genuine
  <2>3. /\ DOMAIN Syms(rec) = 1..Len(rec) /\ Len(Syms(rec)) = Len(rec)
        /\ \A k \in 1..Len(rec) : Syms(rec)[k] = <<"sym", rec[k]>> /\ rec[k] \in Symbols
    BY <2>2 DEF Syms, Sym
  <2>4. ASSUME NEW k \in 1..Len(rec), NEW s, Syms(rec)[k] = Sym(s) PROVE s \in Symbols
    <3>1. <<"sym", rec[k]>> = <<"sym", s>>
      BY <2>3, <2>4, Zenon DEF Sym
    <3>2. rec[k] = s
      BY <3>1
    <3> QED BY <2>3, <3>2, Zenon
  <2> QED BY <1>2, <2>1, <2>3, <2>4, NotOld, Zenon
<1> QED BY <1>3, <1>4

LEMMA GenuineStep ==
  ASSUME GenuineInv, NEW m \in Mounters, Step(m)
  PROVE  Genuine(m)'
<1>1. UNCHANGED fileVars
  BY Zenon DEF Step, ParseOptions, EnterKey, StartDecode, DecodeBlock, EndDecode, SkipDecode,
               CheckHash, AnswerPrompt
<1>2. CASE ParseOptions(m) \/ EnterKey(m)
  <2>1. pc'[m] \in {"exit", "key", "start"}
    BY <1>2 DEF ParseOptions, EnterKey, SetPc, GenuineInv, TypeInv
  <2> QED BY <2>1 DEF Genuine
<1>3. CASE StartDecode(m)
  <2>1. \/ pc'[m] = "decode_failed" /\ status'[m] \in {"ZERO_SIZE", "ERR_CREATE"}
        \/ pc'[m] = "decode"
    BY <1>3 DEF StartDecode, Fail, SetPc, GenuineInv, TypeInv
  <2> QED BY <2>1 DEF Genuine
<1>4. CASE DecodeBlock(m)
  <2>1. pc'[m] = "decode" \/ (pc'[m] = "decode_failed" /\ rec' = rec)
    BY <1>4 DEF DecodeBlock, Fail, SetPc, GenuineInv, TypeInv
  <2>2. rec \in Seq(Symbols)
    BY <1>4 DEF DecodeBlock, GenuineInv, TypeInv
  <2> QED BY <2>1, <2>2 DEF Genuine
<1>5. CASE EndDecode(m)
  <2>1. pc[m] = "decode" /\ pc'[m] \in {"open", "decode_failed"} /\ rec' = rec
    BY <1>5 DEF EndDecode, Fail, SetPc, GenuineInv, TypeInv
  <2>2. rec \in Seq(Symbols)
    BY <2>1 DEF GenuineInv, TypeInv
  <2> QED BY <2>1, <2>2 DEF Genuine
<1>6. CASE SkipDecode(m)
  <2>1. necc'[m] /\ pc'[m] = "open"
    BY <1>6 DEF SkipDecode, SetPc, GenuineInv, TypeInv
  <2> QED BY <2>1 DEF Genuine
<1>7. CASE CheckHash(m)
  <2>1. pc[m] = "open" /\ UNCHANGED <<image, rec, recExists, necc, status>>
    BY <1>1, <1>7 DEF CheckHash, fileVars
  <2>2. Holds(m, Sealed)' = Holds(m, Sealed) /\ Holds(m, Old)' = Holds(m, Old)
    BY <2>1 DEF Holds, MountedFile
  <2>3. CASE SetPc(m, "undefined")
    <3>1. pc'[m] = "undefined"
      BY <2>3 DEF SetPc, GenuineInv, TypeInv
    <3> QED BY <3>1 DEF Genuine
  <2>4. CASE \E count \in ShownCounts(MountedFile(m)) : \E v \in Verdicts(m, count) :
               /\ verdict' = [verdict EXCEPT ![m] = v]
               /\ SetPc(m, IF v = "rejected" THEN "hash_failed" ELSE "mounted")
    <3>1. PICK count, v :
            /\ v \in Verdicts(m, count)
            /\ verdict' = [verdict EXCEPT ![m] = v]
            /\ SetPc(m, IF v = "rejected" THEN "hash_failed" ELSE "mounted")
      BY <2>4, Zenon
    <3>2. verdict'[m] = v /\ pc'[m] \in {"hash_failed", "mounted"}
      BY <3>1 DEF SetPc, GenuineInv, TypeInv
    <3>3. v = "accepted" => \/ Holds(m, Sealed)
                            \/ status[m] \in {"ZERO_SIZE", "ERR_CREATE"} /\ Holds(m, Old)
      BY <2>1, <3>1, CheckedGenuine, Zenon
    <3> QED BY <2>1, <2>2, <3>2, <3>3 DEF Genuine
  <2> QED BY <1>7, <2>3, <2>4, Zenon DEF CheckHash
<1>8. CASE AnswerPrompt(m)
  <2>1. /\ UNCHANGED <<image, rec, necc, status, verdict>>
        /\ \/ pc'[m] = "exit"
           \/ pc[m] = "decode_failed" /\ pc'[m] = "open"
           \/ pc[m] = "hash_failed" /\ pc'[m] = "mounted"
    BY <1>1, <1>8 DEF AnswerPrompt, SetPc, GenuineInv, TypeInv, fileVars
  <2>2. Holds(m, Sealed)' = Holds(m, Sealed) /\ Holds(m, Old)' = Holds(m, Old)
    BY <2>1 DEF Holds, MountedFile
  <2> QED BY <2>1, <2>2 DEF GenuineInv, Genuine
<1> QED BY <1>2, <1>3, <1>4, <1>5, <1>6, <1>7, <1>8, Zenon DEF Step

\* What one mounter has mounted after its hashes were compared and passed is the
\* sealed image, whatever the medium did to it, with and without --necc, and also
\* if decoding failed half-way and the user went on.  Only if decoding did not
\* begin can it be the earlier image whose recovered file was left there.
THEOREM MountedAlwaysGenuine ==
  ASSUME \A a, b \in Mounters : a = b
  PROVE  Spec => []MountedIsGenuine
<1>1. GenuineInv /\ [Next]_vars => GenuineInv'
  <2> SUFFICES ASSUME GenuineInv, [Next]_vars PROVE GenuineInv'
    OBVIOUS
  <2>1. TypeInv'
    BY TypeStep DEF GenuineInv
  <2>2. CASE UNCHANGED vars
    <3>1. UNCHANGED <<image, rec, recExists, pc, necc, status, verdict>>
      BY <2>2 DEF vars, fileVars
    <3>2. NoneForeign' /\ \A m \in Mounters : Genuine(m)'
      BY <3>1 DEF GenuineInv, Genuine, Holds, MountedFile, NoneForeign
    <3> QED BY <2>1, <3>2 DEF GenuineInv
  <2>3. ASSUME NEW m \in Mounters, Step(m) PROVE GenuineInv'
    <3>1. image' = image
      BY <2>3, Zenon DEF Step, ParseOptions, EnterKey, StartDecode, DecodeBlock, EndDecode,
                         SkipDecode, CheckHash, AnswerPrompt, fileVars
    <3>2. NoneForeign'
      BY <3>1 DEF GenuineInv, NoneForeign
    <3>3. Genuine(m)'
      BY <2>3, GenuineStep
    <3>4. \A x \in Mounters : Genuine(x)'
      BY <3>3
    <3> QED BY <2>1, <3>2, <3>4 DEF GenuineInv
  <2> QED BY <2>2, <2>3 DEF Next, Done
<1>2. GenuineInv => MountedIsGenuine
  BY DEF GenuineInv, Genuine, MountedIsGenuine
<1> QED BY <1>1, <1>2, GenuineInit, PTL DEF Spec

=============================================================================
