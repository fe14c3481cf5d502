---------------------------- MODULE SevenZHeader ----------------------------
(***************************************************************************)
(* The bounded check of the header of a 7z archive, done before the        *)
(* library that reads it is let near it: src-tauri/src/source/archive/     *)
(* sevenz_header_precheck.rs.                                              *)
(*                                                                         *)
(* What the file says is not trusted, so the parser meets any sequence of  *)
(* declarations: each action reads one section of the header, and the      *)
(* declarations in it are chosen when they are read.  A section may also   *)
(* end too early or hold a byte that does not belong there (Damaged).      *)
(* A header may be encoded: then its outer part, which is small, says      *)
(* through which chain of coders the inner part comes.                     *)
(*                                                                         *)
(* Sound archives are those a writer made: nothing is damaged, the coders  *)
(* form one line, and decoding with the right password gives the header.   *)
(* Numbers of streams, folders, coders and files and the sizes of things   *)
(* are those of Counts and Sizes; bytes are not modelled.                  *)
(***************************************************************************)
EXTENDS Integers, Sequences, FiniteSets, FiniteSetsExt, Folds, Functions

CONSTANTS OUTER_PIPELINE_LIMIT, INNER_STREAM_LIMIT, MAX_CATALOG_ENTRIES,
          MAX_NEXT_HEADER_BYTES, MAX_ENCODED_HEADER_BYTES, MAX_HEADER_DICT_BYTES, MAX_HEADER_PACKED_BYTES,
          Counts, Sizes,       \* the numbers a header may declare
          Coders,              \* the coders a folder may declare, see CoderRefused
          BindPairs,           \* by the number of coders, the bind pairs a folder may declare
          Passwords,           \* of "none", "right", "wrong", "garbled" (not UTF-8)
          FILE_LEN

\* Assumed of the limits, by the modules that give them values.
LimitsAssumption ==
  /\ OUTER_PIPELINE_LIMIT <= INNER_STREAM_LIMIT
  /\ \A n \in {OUTER_PIPELINE_LIMIT, INNER_STREAM_LIMIT, MAX_CATALOG_ENTRIES, MAX_NEXT_HEADER_BYTES,
               MAX_ENCODED_HEADER_BYTES, MAX_HEADER_DICT_BYTES, MAX_HEADER_PACKED_BYTES, FILE_LEN} : n \in Nat
  /\ Counts \subseteq Nat /\ Sizes \subseteq Nat /\ MAX_CATALOG_ENTRIES = INNER_STREAM_LIMIT

MAX_KDF_CYCLES == 24
KDF_NO_HASH_CYCLES == 63

VARIABLES file,      \* [password, sound, start, size, kind, aligned]: see Init
          pc,
          pack_size, \* of the first packed stream of the outer header, -1 if it has none
          first,     \* the first folder of the outer header
          folders,   \* how many folders were read
          expected,  \* how many folders are declared
          coders,    \* the coders of the inner folders so far
          stages,    \* the chain of coders built so far, as indices in the first folder
          next,      \* the coder the chain goes on with
          made,      \* the largest buffer made for each use, history of the check
          decoded,   \* the header that came out of the chain: "none", "header", "other"
          told

vars == <<file, pc, pack_size, first, folders, expected, coders, stages, next, made, decoded, told>>

Limit == "ResourceLimitExceeded"
Corrupt == "CorruptArchive"
Refusals == {Limit, Corrupt, "WrongPassword", "PasswordRequired", "UnsupportedCodec", "Io"}

Sum(s) == FoldFunction(+, 0, s)
Tuples(S, n) == [1..n -> S]

Finish(answer) == told' = answer /\ pc' = "done"
Refuse(answer) == Finish(answer) /\ UNCHANGED <<file, pack_size, first, folders, expected, coders, stages, next, made, decoded>>

\* A buffer of n places (or bytes) for a use; of all of them the largest is remembered, numbers
\* beyond the inner limit as one.
Make(use, n) ==
  [made EXCEPT ![use] = Max({@, IF use = "digests" THEN Min({n, INNER_STREAM_LIMIT + 1}) ELSE n})]

-----------------------------------------------------------------------------
(* Coders: [id, dict, props, form].  props are the bytes of the properties *)
(* of AES, the first of LZMA2; dict is the dictionary LZMA declares, -1    *)
(* when there are too few bytes for it.                                    *)

Lzma2Dict(bits) == IF bits = 40 THEN MAX_HEADER_DICT_BYTES + 1 ELSE (2 + (bits % 2)) * 2^((bits \div 2) + 11)

\* Salt and initialisation vector are as long as two bits of the first byte and the halves of
\* the second say; a first byte without those bits stands alone.
AesMalformed(props) ==
  \/ props = <<>>
  \/ props[1] < 64 /\ Len(props) # 1
  \/ props[1] >= 64 /\ (\/ Len(props) < 2
                        \/ Len(props) # 2 + (props[1] \div 128) + (props[2] \div 16)
                                          + ((props[1] \div 64) % 2) + (props[2] % 16))

KdfTooLong(cycles) == cycles > MAX_KDF_CYCLES /\ cycles # KDF_NO_HASH_CYCLES

Linear == {"COPY", "DELTA", "BCJ"}

\* The compatibility matrix; "fine" lets the coder pass.
CoderRefused(c) ==
  CASE c.form = "alternative" -> Corrupt
    [] c.form = "graph" \/ c.id = "BCJ2" -> "UnsupportedCodec"
    [] c.id = "LZMA" -> IF c.dict = -1 THEN Corrupt ELSE IF c.dict > MAX_HEADER_DICT_BYTES THEN Limit ELSE "fine"
    [] c.id = "LZMA2" -> IF c.props = <<>> \/ c.props[1] > 40 THEN Corrupt
                         ELSE IF Lzma2Dict(c.props[1]) > MAX_HEADER_DICT_BYTES THEN Limit ELSE "fine"
    [] c.id = "AES" -> IF AesMalformed(c.props) THEN Corrupt
                       ELSE IF KdfTooLong(c.props[1] % 64) THEN Limit
                       ELSE IF file.password = "none" THEN "PasswordRequired" ELSE "fine"
    [] OTHER -> IF c.id \in Linear THEN "fine" ELSE "UnsupportedCodec"

-----------------------------------------------------------------------------
(* Finding the header.                                                     *)

NoFolder == [coders |-> <<>>, pairs |-> <<>>, packed |-> 0, sizes |-> <<>>, crc |-> FALSE]
Uses == {"header", "packed", "decoded", "streams", "digests"}

Init ==
  /\ file \in [password : Passwords, sound : BOOLEAN,
               \* what is wrong with the file and the start header, the size of the next one, its kind
               start : {"fine", "missing", "short", "signature", "version", "crc"},
               size : Sizes \cup {0}, range : BOOLEAN, crc : BOOLEAN, kind : {"header", "encoded", "other"},
               aligned : BOOLEAN]   \* the cipher text is a whole number of blocks
  /\ file.sound => file.start = "fine" /\ file.size > 0 /\ file.range /\ file.crc /\ file.kind # "other"
  /\ pc = "locate"
  /\ pack_size = -1 /\ first = NoFolder /\ folders = 0 /\ expected = 0 /\ coders = 0 /\ stages = <<>> /\ next = 0
  /\ made = [u \in Uses |-> 0] /\ decoded = "none" /\ told = "none"

LocateRefused ==
  CASE file.password = "garbled" -> "WrongPassword"
    [] file.start = "missing" -> "Io"
    [] file.start # "fine" -> Corrupt                 \* no search from the end of the file
    [] file.size > MAX_NEXT_HEADER_BYTES -> Limit
    [] ~file.range \/ file.size > FILE_LEN -> Corrupt
    [] OTHER -> "fine"

Precheck ==
  /\ pc = "locate"
  /\ IF LocateRefused # "fine" THEN Refuse(LocateRefused)
     ELSE /\ made' = Make("header", file.size)
          /\ IF ~file.crc \/ file.size = 0 \/ file.kind = "other" THEN Finish(Corrupt)
             ELSE pc' = (IF file.kind = "header" THEN "innerPack" ELSE "outerPack") /\ UNCHANGED told
          /\ UNCHANGED <<file, pack_size, first, folders, expected, coders, stages, next, decoded>>

Parsing == {"outerPack", "outerUnpack", "outerFolder", "outerSizes", "outerSubs",
            "innerPack", "innerUnpack", "innerFolder", "innerSubs", "files"}

Sound == file.sound /\ decoded # "other"

\* A byte is missing, or is not one that may stand here.
Damaged == pc \in Parsing /\ ~Sound /\ Refuse(Corrupt)

-----------------------------------------------------------------------------
(* The outer header: everything in it is checked before a buffer is made.  *)

\* The sizes may be left out; those after the first are only added up.
OuterPackInfo(n) ==
  /\ pc = "outerPack"
  /\ file.sound => n = 1
  /\ IF n > OUTER_PIPELINE_LIMIT THEN Refuse(Limit)
     ELSE \E size \in (IF n = 0 THEN {} ELSE Sizes) \cup {-1}, others \in (IF n > 1 THEN Sizes ELSE {0}) :
            /\ file.sound => size \in 0..FILE_LEN
            /\ IF size # -1 /\ size + others > MAX_HEADER_PACKED_BYTES THEN Refuse(Limit)
               ELSE /\ pack_size' = size /\ made' = Make("streams", n) /\ pc' = "outerUnpack"
                    /\ UNCHANGED <<file, first, folders, expected, coders, stages, next, decoded, told>>

OuterUnpackInfo(n) ==
  /\ pc = "outerUnpack"
  /\ file.sound => n = 1
  /\ IF n > OUTER_PIPELINE_LIMIT THEN Refuse(Limit)
     ELSE /\ expected' = n /\ pc' = (IF n = 0 THEN "outerSizes" ELSE "outerFolder")
          /\ UNCHANGED <<file, pack_size, first, folders, coders, stages, next, made, decoded, told>>

\* The input no bind pair gives to another coder is where the packed stream goes.
PackedStream(n, pairs) == Min({i \in 0..(n - 1) : \A k \in DOMAIN pairs : pairs[k][1] # i})

\* The pairs (input, output) that make one line of n coders.
Lines(n) ==
  {[k \in 1..(n - 1) |-> <<line[k + 1], line[k]>>] :
     line \in {f \in [1..n -> 0..(n - 1)] : IsInjective(f)}}

Pairs(n) == IF file.sound THEN Lines(n) ELSE BindPairs[n]

\* Every folder is checked, the first one is what the header is decoded with.
OuterFolder(n) ==
  /\ pc = "outerFolder"
  /\ file.sound => n > 0
  /\ IF n > OUTER_PIPELINE_LIMIT THEN Refuse(Limit)
     ELSE \/ n = 0 /\ Refuse(Corrupt)
          \/ \E c \in Coders : n > 0 /\ CoderRefused(c) # "fine" /\ (file.sound => CoderRefused(c) # Corrupt) /\ Refuse(CoderRefused(c))
          \/ \E cs \in Tuples({c \in Coders : CoderRefused(c) = "fine"}, n),
                pairs \in (IF n > 0 /\ folders = 0 THEN Pairs(n) ELSE {<<>>}) :
               /\ n > 0
               /\ first' = IF folders > 0 THEN first
                           ELSE [NoFolder EXCEPT !.coders = cs, !.pairs = pairs, !.packed = PackedStream(n, pairs)]
               /\ folders' = folders + 1 /\ made' = Make("streams", n - 1)
               /\ pc' = IF folders' = expected THEN "outerSizes" ELSE "outerFolder"
               /\ UNCHANGED <<file, pack_size, expected, coders, stages, next, decoded, told>>

\* A size for every coder of every folder, then the sums of some of the folders.
OuterSizes ==
  /\ pc = "outerSizes"
  /\ \E sizes \in Tuples(Sizes, Len(first.coders)),
        others \in (IF folders > 1 THEN Sizes ELSE {0}), crc \in BOOLEAN :
       /\ file.sound => \A i \in DOMAIN sizes : sizes[i] > 0
       /\ IF Sum(sizes) + others > MAX_ENCODED_HEADER_BYTES THEN Refuse(Limit)
          ELSE /\ first' = [first EXCEPT !.sizes = sizes, !.crc = crc]
               /\ made' = Make("streams", folders) /\ pc' = "outerSubs"
               /\ UNCHANGED <<file, pack_size, folders, expected, coders, stages, next, decoded, told>>

\* The sums that are still to come: of the streams of every folder but those whose only stream
\* is the folder, which has a sum.
Digests(counts, crc) == Sum([i \in DOMAIN counts |-> IF counts[i] # 1 \/ ~crc[i] THEN counts[i] ELSE 0])

\* What n folders, of which the first has a sum or not, can have of streams and digests.
SubStreams ==
  [n \in 0..INNER_STREAM_LIMIT, whole \in BOOLEAN |->
     {[streams |-> Sum(c), digests |-> Digests(c, x)] :
        c \in Tuples(Counts, n), x \in {y \in Tuples(BOOLEAN, n) : n > 0 => y[1] = whole}}]

\* The section may be left out; how many streams a folder has is not limited here.
OuterSubStreams ==
  /\ pc = "outerSubs"
  /\ \E subs \in SubStreams[folders, first.crc] :
       /\ file.sound => subs.streams = folders
       /\ made' = Make("digests", subs.digests)
  /\ pc' = "packed"
  /\ UNCHANGED <<file, pack_size, first, folders, expected, coders, stages, next, decoded, told>>

-----------------------------------------------------------------------------
(* Decoding the header, through the first folder and from the first packed *)
(* stream; other ones are parsed and never used.                           *)

HasAes == \E i \in DOMAIN first.coders : first.coders[i].id = "AES"

ReadPacked ==
  /\ pc = "packed"
  /\ IF folders = 0 \/ pack_size = -1 THEN Refuse(Corrupt)
     ELSE \/ /\ pack_size > FILE_LEN \/ ~file.sound       \* or begins too late in the file
             /\ Refuse(Corrupt)
          \/ /\ pack_size <= FILE_LEN
             /\ made' = Make("packed", pack_size)
             /\ next' = first.packed /\ pc' = "chain"
             /\ UNCHANGED <<file, pack_size, first, folders, expected, coders, stages, decoded, told>>

\* The pair that takes the output of a coder elsewhere, the first if there are several.
Onward(i) == {k \in DOMAIN first.pairs : first.pairs[k][2] = i}

\* Read errors that are not about a cipher text: a wrong password, if one was tried on the header.
Failed == IF HasAes /\ file.password # "none" THEN "WrongPassword" ELSE Corrupt

Ids == {first.coders[stages[k] + 1].id : k \in DOMAIN stages}
Garbled == "AES" \in Ids /\ file.password # "right"

\* What reading through the stages built so far may fail with.  A cipher text that is cut is
\* damaged, whatever the password; a stream a decoder cannot make sense of is a wrong password
\* if there is one.
\* Mutant of ReadFailures: the marker of a cut cipher text is lost on the way.
ReadFailuresUnmarked ==
  (IF "AES" \in Ids /\ ~file.aligned THEN {Failed} ELSE {})
    \cup (IF Ids \cap {"LZMA", "LZMA2"} # {} /\ (Garbled \/ ~file.sound) THEN {Failed} ELSE {})

ReadFailures ==
  (IF "AES" \in Ids /\ ~file.aligned THEN {Corrupt} ELSE {})
    \cup (IF Ids \cap {"LZMA", "LZMA2"} # {} /\ (Garbled \/ ~file.sound) THEN {Failed} ELSE {})

\* Mutant of ChainTooLong: only a coder that does not exist ends a chain that goes in circles.
ChainEndless == FALSE

ChainTooLong == Len(stages) > Len(first.coders)

BuildStage ==
  /\ pc = "chain"
  /\ IF ChainTooLong \/ next >= Len(first.coders) THEN Refuse(Corrupt)
     ELSE /\ stages' = Append(stages, next)
          /\ IF Onward(next) = {} THEN pc' = "drain" /\ UNCHANGED next
             ELSE next' = first.pairs[Min(Onward(next))][1] /\ UNCHANGED pc
          /\ UNCHANGED <<file, pack_size, first, folders, expected, coders, made, decoded, told>>

\* A decoder may read the head of its stream when it is built.
StageFails == pc \in {"chain", "drain"} /\ \E e \in ReadFailures : Refuse(e)

\* The size of the last output that no pair takes elsewhere.
Outputs == {i \in 0..(Len(first.coders) - 1) : Onward(i) = {}}

FinalSize == first.sizes[Max(Outputs) + 1]

\* The output is cut where the declared size says, a cipher text is padded to whole blocks.
Drain ==
  /\ pc = "drain"
  /\ IF Outputs = {} THEN Refuse(Corrupt)
     ELSE LET right == file.sound /\ ~Garbled /\ FinalSize = first.sizes[stages[Len(stages)] + 1]
          IN  IF FinalSize = 0 \/ (first.crc /\ ~right) THEN Refuse(Corrupt)
              ELSE /\ made' = Make("decoded", FinalSize)
                   /\ decoded' = IF right THEN "header" ELSE "other"
                   /\ \/ pc' = "innerPack" /\ UNCHANGED told
                      \/ ~right /\ Finish(Corrupt)               \* what came out does not begin as a header
                   /\ folders' = 0 /\ expected' = 0
                   /\ UNCHANGED <<file, pack_size, first, coders, stages, next>>

-----------------------------------------------------------------------------
(* The header itself, plain or decoded.  Its streams may be many, its      *)
(* limits are those of a catalog.                                          *)

NoStreams ==
  /\ pc = "innerPack" /\ pc' = "files"
  /\ UNCHANGED <<file, pack_size, first, folders, expected, coders, stages, next, made, decoded, told>>

InnerPackInfo(n) ==
  /\ pc = "innerPack"
  /\ IF n > INNER_STREAM_LIMIT THEN Refuse(Limit)
     ELSE \E sizes \in Tuples(Sizes, n) \cup {<<>>} :
            /\ Sound => Sum(sizes) <= FILE_LEN
            /\ IF Sum(sizes) > FILE_LEN THEN Refuse(Limit)
               ELSE /\ made' = Make("streams", n) /\ pc' = "innerUnpack"
                    /\ UNCHANGED <<file, pack_size, first, folders, expected, coders, stages, next, decoded, told>>

\* Mutant of InnerUnpackInfo: places for the folders are made before they are counted.
InnerUnpackInfoEager(n) ==
  /\ pc = "innerUnpack"
  /\ made' = Make("streams", n)
  /\ IF n > INNER_STREAM_LIMIT THEN Finish(Limit) /\ UNCHANGED expected
     ELSE expected' = n /\ pc' = (IF n = 0 THEN "innerSubs" ELSE "innerFolder") /\ UNCHANGED told
  /\ UNCHANGED <<file, pack_size, first, folders, coders, stages, next, decoded>>

InnerUnpackInfo(n) ==
  /\ pc = "innerUnpack"
  /\ IF n > INNER_STREAM_LIMIT THEN Refuse(Limit)
     ELSE /\ expected' = n /\ made' = Make("streams", n)
          /\ pc' = (IF n = 0 THEN "innerSubs" ELSE "innerFolder")
          /\ UNCHANGED <<file, pack_size, first, folders, coders, stages, next, decoded, told>>

\* A folder is only walked: its coders count, its streams must fit together.
InnerFolder(n) ==
  /\ pc = "innerFolder"
  /\ IF coders + n > INNER_STREAM_LIMIT THEN Refuse(Limit)
     ELSE \E ins, outs \in Counts :
            /\ n = 0 => ins = 0 /\ outs = 0
            /\ Sound => outs > 0 /\ ins >= outs - 1
            /\ IF outs = 0 \/ ins < outs - 1 THEN Refuse(Corrupt)
               ELSE /\ coders' = coders + n /\ folders' = folders + 1
                    /\ pc' = IF folders' = expected THEN "innerSubs" ELSE "innerFolder"
                    /\ UNCHANGED <<file, pack_size, first, expected, stages, next, made, decoded, told>>

InnerSubStreams ==
  /\ pc = "innerSubs"
  /\ \E whole \in BOOLEAN : \E subs \in SubStreams[folders, whole] :
       IF subs.streams > INNER_STREAM_LIMIT THEN Refuse(Limit)
       ELSE /\ made' = Make("streams", subs.digests) /\ pc' = "files"
            /\ UNCHANGED <<file, pack_size, first, folders, expected, coders, stages, next, decoded, told>>

FilesInfo(n) ==
  /\ pc = "files"
  /\ Refuse(IF n > MAX_CATALOG_ENTRIES THEN Limit ELSE "accepted")

-----------------------------------------------------------------------------
Finished == pc = "done" /\ UNCHANGED vars

Next ==
  \/ Precheck \/ Damaged \/ OuterSizes \/ OuterSubStreams \/ ReadPacked
  \/ BuildStage \/ StageFails \/ Drain \/ NoStreams \/ InnerSubStreams \/ Finished
  \/ \E n \in Counts :
       \/ OuterPackInfo(n) \/ OuterUnpackInfo(n) \/ OuterFolder(n)
       \/ InnerPackInfo(n) \/ InnerUnpackInfo(n) \/ InnerFolder(n) \/ FilesInfo(n)

Spec == Init /\ [][Next]_vars /\ WF_vars(Next)

-----------------------------------------------------------------------------
(* What the check is for, as its module says it: whatever a header         *)
(* declares, no buffer is made by a number or a size before the number was *)
(* found to be within its limit, and the chain of coders has an end even   *)
(* if its pairs go in circles.  The digests of the outer header are left   *)
(* out: see OuterDigestsBounded.                                           *)
BuffersBounded ==
  /\ made.header <= MAX_NEXT_HEADER_BYTES /\ made.packed <= MAX_HEADER_PACKED_BYTES
  /\ made.decoded <= MAX_ENCODED_HEADER_BYTES /\ made.streams <= INNER_STREAM_LIMIT
  /\ pc \in {"chain", "drain"} => Len(stages) <= Len(first.coders) + 1

\* The same of the digests of the outer header, which nothing limits.
OuterDigestsBounded == made.digests <= INNER_STREAM_LIMIT

(* An archive a writer made is not called damaged, and its right password  *)
(* not wrong: the chain decodes it in the order its pairs say and cuts it  *)
(* at the size that belongs to the end of the chain.  If its cipher text   *)
(* is cut, it is damaged, and the password is still not blamed.            *)
WriterBelieved ==
  pc = "done" /\ file.sound =>
    /\ file.password \in {"none", "right"} => told # "WrongPassword"
    /\ file.password = "right" => told # "PasswordRequired"
    /\ file.password = "right" /\ file.aligned => told # Corrupt
    /\ file.kind = "header" /\ file.password # "garbled" => told \in {Limit, "accepted"}
=============================================================================
