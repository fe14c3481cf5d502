------------------------------ MODULE MCArchives ------------------------------
(* What is read out of an archive, checked in one run: "opened" names the     *)
(* machine whose steps a behaviour takes, the others rest in a first state.  *)
(*   backends  the three backends on a container                             *)
(*   header    the check of a 7z header before its library meets it          *)
(*   filter    the branch filters of a compressed header                     *)
(*   none      nothing moves here: MCReads looks at something else           *)
EXTENDS Integers, Sequences, FiniteSets, TLC

CONSTANTS None, Archives, Coders, Bindings, Programs

VARIABLES opened,
          box, password, job, unrar, handles, fault, answers, report, listed,
          file, pc, pack_size, first, folders, expected, coders, stages, next, made, decoded, told,
          arch, clear, stream, filter, pos, held, filtered, end_reached, wanted, out

Backends == INSTANCE ArchiveFormats
              WITH Containers <- Archives, Passwords <- {<<1>>, <<2, 1>>}, MaxEntries <- 2, MaxPath <- 1,
                   MaxSize <- 2, MaxDict <- 2, Workspace <- 2, BufferCap <- 2

Header == INSTANCE SevenZHeader
            WITH OUTER_PIPELINE_LIMIT <- 3, INNER_STREAM_LIMIT <- 3, MAX_CATALOG_ENTRIES <- 3,
                 MAX_NEXT_HEADER_BYTES <- 1, MAX_ENCODED_HEADER_BYTES <- 4, MAX_HEADER_DICT_BYTES <- 2^25,
                 MAX_HEADER_PACKED_BYTES <- 2, Counts <- {0, 1, 3, 4}, Sizes <- {1, 2}, BindPairs <- Bindings,
                 Passwords <- {"none", "right", "wrong", "garbled"}, FILE_LEN <- 2

Filter == INSTANCE BranchFilter
            WITH Streams <- Programs, BCJ_FILTER_BUF_SIZE <- 8, Portions <- {1, 3, 20}

Boxes == INSTANCE MCArchiveFormats
MCShelf == Boxes!Shelf
\* Coders on both sides of lines of the compatibility matrix.
Copy == [id |-> "COPY", dict |-> 0, props |-> <<>>, form |-> "line"]
Lzma == [Copy EXCEPT !.id = "LZMA", !.dict = 2^25]
Aes == [Copy EXCEPT !.id = "AES", !.props = <<88, 3, 0, 0, 0, 0>>]
MCCoders == {Aes, [Lzma EXCEPT !.dict = @ + 1], [Lzma EXCEPT !.dict = -1],
   [Copy EXCEPT !.id = "LZMA2", !.props = <<26>>], [Copy EXCEPT !.id = "LZMA2", !.props = <<27>>],
   [Aes EXCEPT !.props = <<25>>], [Aes EXCEPT !.props = <<88, 3, 0>>],
   [Copy EXCEPT !.id = "BCJ2"], [Copy EXCEPT !.form = "graph"], [Copy EXCEPT !.form = "alternative"], [Copy EXCEPT !.id = "PPMD"]}
\* Of three coders: every line, and pairs that go in circles, take an output twice or none.
MCPairs == [n \in 1..3 |-> IF n < 3 THEN [1..(n - 1) -> (0..n) \X (0..n)]
                           ELSE {<<<<f[1], f[0]>>, <<f[2], f[1]>>>> : f \in Permutations(0..2)}
                                  \cup {<<<<1, 0>>, <<1, 1>>>>, <<<<1, 0>>, <<2, 0>>>>, <<<<2, 2>>, <<2, 1>>>>}]

\* Machine code of three pieces, branches and what looks like one among them, that ends where an
\* instruction may not.
Blocks == [X86 |-> {<<232, 0, 0, 0, 0>>, <<232, 232, 250, 255, 254, 0>>, <<7>>, <<0, 233, 0, 255, 255>>},
           Arm |-> {<<0, 0, 0, 235>>, <<255, 255, 255, 235>>, <<1, 2, 3, 4>>},
           ArmThumb |-> {<<0, 240, 1, 248>>, <<255, 247, 255, 255>>, <<9, 9>>},
           Ppc |-> {<<72, 0, 0, 1>>, <<75, 255, 255, 253>>, <<1, 2, 3, 4>>},
           Sparc |-> {<<64, 0, 0, 1>>, <<127, 255, 255, 255>>, <<1, 2, 3, 4>>}]
Strings(a) == {w \o x \o y \o z \o t : w \in Blocks[a], x \in Blocks[a], y \in Blocks[a], z \in {<<>>, <<7>>}, t \in {<<>>, <<232, 0>>}}
MCCode == [a \in DOMAIN Blocks |-> Strings(a)]

ASSUME BackendsAssumed == Backends!LimitsAssumption /\ Backends!ContainersAssumption
ASSUME HeaderAssumed == Header!LimitsAssumption
ASSUME FilterAssumed == Filter!BufferAssumption

backendVars == <<box, password, job, unrar, handles, fault, answers, report, listed>>
headerVars == <<file, pc, pack_size, first, folders, expected, coders, stages, next, made, decoded, told>>
filterVars == <<arch, clear, stream, filter, pos, held, filtered, end_reached, wanted, out>>
archiveVars == <<opened, backendVars, headerVars, filterVars>>

Resting ==
    /\ opened # "backends" => box = (CHOOSE b \in Archives : TRUE) /\ password = None
    /\ opened # "header" => file = [password |-> "none", sound |-> FALSE, start |-> "fine", size |-> 1, range |-> TRUE,
                                   crc |-> TRUE, kind |-> "header", aligned |-> TRUE]
    /\ opened # "filter" => arch = "X86" /\ clear = CHOOSE s \in Programs["X86"] : TRUE

ArchivesInit ==
    /\ opened \in {"backends", "header", "filter", "none"}
    /\ Resting
    /\ Backends!Init /\ Header!Init /\ Filter!BcjInit

BackendsStep == opened = "backends" /\ Backends!Next /\ UNCHANGED <<opened, headerVars, filterVars>>
HeaderStep == opened = "header" /\ Header!Next /\ UNCHANGED <<opened, backendVars, filterVars>>
FilterStep == opened = "filter" /\ Filter!BcjNext /\ UNCHANGED <<opened, backendVars, headerVars>>

ArchivesSteps == BackendsStep \/ HeaderStep \/ FilterStep

(* What is announced, listed, measured and read of a container agrees, a     *)
(* password is blamed when it is to blame, and what stopped a library from   *)
(* beneath is what the caller is told (ArchiveFormats: probe_impl,           *)
(* catalog_impl, stat_entry_size_impl, read_entry_impl, the fault slots of   *)
(* the readers and callbacks).                                               *)
BackendsAgree == [](Backends!ViewsAgree /\ Backends!PasswordBlamed) /\ Backends!FirstFaultTold

(* Of a 7z header no buffer is made by a number before it was checked, the   *)
(* chain of coders has an end, what a writer made is believed, and filters   *)
(* that decode it in whatever portions undo what encoded it in one piece     *)
(* (SevenZHeader: precheck_7z_header; BranchFilter: BcjReader::read).        *)
HeaderDecoded == Header!BuffersBounded /\ Header!WriterBelieved /\ Filter!InverseInAnyPortions
=============================================================================
