----------------------------- MODULE RangeBlocks -----------------------------
(* Reading a remote zip by ranges                                            *)
(* (src/src-tauri/src/source/archive/remote_zip.rs): readers with a position *)
(* over one archive, the cache of its blocks they share, one load at a time  *)
(* of a block, and the clear command's gate (cache_coordinator.rs).          *)
(*                                                                           *)
(* The archive's byte at an offset is the offset. A call of the origin is    *)
(* one of two ways to end: the bytes asked for, or no success.               *)
EXTENDS Integers, SequencesExt, Maps

CONSTANTS
    Readers,    \* each used by one thread
    Clearers,   \* clear_archive_cache commands, one after another
    FileSize,   \* origin.size()
    BlockSize,  \* BLOCK_SIZE
    CapBytes,   \* BLOCK_CACHE_BYTES
    Buffers,    \* lengths of buffers read into
    Targets,    \* offsets sought, negative ones too
    MaxClears   \* clear commands (a bound)

ASSUME ZipAssumption ==
    /\ FileSize \in Nat /\ BlockSize \in Nat \ {0} /\ CapBytes \in Nat
    /\ Buffers \subseteq Nat /\ Targets \subseteq Int

VARIABLES
    gate,    \* ArchiveCacheCoordinator: [closed, generation, active]
    cache,   \* CacheState: [blocks, order (oldest first), loading, bytes]
    reader,  \* reader -> [pos, phase, want, gen, answer]
    clear    \* clearer -> [phase, gen]

zipVars == <<gate, cache, reader, clear>>

------------------------------------------------------------------------------
(* RemoteZipReader: where a read of it falls.                                *)
BlockOf(r) == reader[r].pos \div BlockSize

(* Mutant of BlockLength: the last block is asked for whole.                 *)
WholeBlock(block) == BlockSize

BlockLength(block) ==
    IF FileSize - block * BlockSize < BlockSize THEN FileSize - block * BlockSize ELSE BlockSize

(* What the origin holds of a range: nothing past its end.                   *)
OriginRange(offset, length) ==
    [i \in 1 .. (IF offset + length > FileSize THEN FileSize - offset ELSE length) |-> offset + i - 1]

------------------------------------------------------------------------------
(* CacheState.                                                               *)
Touched(c, block) == [c EXCEPT !.order = Append(RemoveFirst(@, block), block)]

Evict(c) ==
    IF c.bytes > CapBytes /\ c.order # <<>>
    THEN [c EXCEPT !.order = Tail(@), !.blocks = Without(@, {Head(c.order)}),
                   !.bytes = @ - Len(c.blocks[Head(c.order)])]
    ELSE c

InsertLru(c, block, bytes) ==
    LET before == IF block \in DOMAIN c.blocks THEN Len(c.blocks[block]) ELSE 0
        put == [c EXCEPT !.blocks = Put(@, block, bytes), !.order = Append(RemoveFirst(@, block), block),
                         !.bytes = @ - before + Len(bytes)]
    IN FoldLeft(LAMBDA d, b : Evict(d), put, put.order)

------------------------------------------------------------------------------
(* get_or_load. A reader goes through phases: "look" with an admission,      *)
(* "load" outside the lock, "asleep" on the condition, "leave" to take the   *)
(* mark of its load away.                                                    *)

Answered(r, answer) ==
    [reader EXCEPT ![r] = [pos |-> @.pos + Len(answer.bytes), phase |-> "idle", want |-> 0, gen |-> 0,
                           answer |-> answer]]

Copied(r, block, bytes) ==
    LET skip == reader[r].pos - block * BlockSize
        left == Len(bytes) - skip
    IN [kind |-> "bytes", from |-> reader[r].pos,
        bytes |-> SubSeq(bytes, skip + 1, skip + (IF left < reader[r].want THEN left ELSE reader[r].want))]

Failure(kind) == [kind |-> kind, from |-> 0, bytes |-> <<>>]

Seek(r, target) ==
    /\ reader[r].phase = "idle"
    /\ \E base \in {0, reader[r].pos, FileSize} :
         reader' = [reader EXCEPT ![r] = [@ EXCEPT
                      !.pos = IF base + target >= 0 THEN base + target ELSE reader[r].pos,
                      !.answer = Failure("none")]]
    /\ UNCHANGED <<gate, cache, clear>>

(* An empty buffer and the end of the file read nothing; a closed gate       *)
(* refuses what is cached too.                                               *)
Read(r, n) ==
    /\ reader[r].phase = "idle" /\ n > 0 /\ reader[r].pos < FileSize
    /\ IF gate.closed
       THEN reader' = Answered(r, Failure("cancelled")) /\ UNCHANGED gate
       ELSE /\ gate' = [gate EXCEPT !.active = @ + 1]
            /\ reader' = [reader EXCEPT ![r] = [@ EXCEPT !.phase = "look", !.want = n, !.gen = gate.generation,
                                                         !.answer = Failure("none")]]
    /\ UNCHANGED <<cache, clear>>

Look(r) ==
    LET block == BlockOf(r) IN
    /\ reader[r].phase = "look"
    /\ \/ /\ block \in DOMAIN cache.blocks
          /\ cache' = Touched(cache, block)
          /\ reader' = Answered(r, Copied(r, block, cache.blocks[block]))
          /\ gate' = [gate EXCEPT !.active = @ - 1]
       \/ /\ block \notin DOMAIN cache.blocks /\ block \in cache.loading
          /\ reader' = [reader EXCEPT ![r].phase = "asleep"]
          /\ UNCHANGED <<gate, cache>>
       \/ /\ block \notin DOMAIN cache.blocks \cup cache.loading
          /\ cache' = [cache EXCEPT !.loading = @ \cup {block}]
          /\ reader' = [reader EXCEPT ![r].phase = "load"]
          /\ UNCHANGED gate
    /\ UNCHANGED clear

(* load_block brought a range; one that is too short is refused, and so is   *)
(* one that comes in another generation than the reader was let in.          *)
Loaded(r) ==
    LET block == BlockOf(r)
        bytes == OriginRange(block * BlockSize, BlockLength(block))
        whole == Len(bytes) = BlockLength(block)
    IN /\ reader[r].phase = "load"
       /\ reader' = [reader EXCEPT ![r] = [@ EXCEPT !.phase = "leave",
                        !.answer = IF ~whole THEN Failure("no range")
                                   ELSE IF gate.generation # reader[r].gen THEN Failure("cancelled")
                                   ELSE Copied(r, block, bytes)]]
       /\ cache' = IF whole /\ gate.generation = reader[r].gen THEN InsertLru(cache, block, bytes) ELSE cache
       /\ UNCHANGED <<gate, clear>>

(* The origin fails (map_origin_error), or the load does without an answer.  *)
LoadFails(r) ==
    /\ reader[r].phase = "load"
    /\ \E kind \in {"network", "cancelled", "io"} :
         reader' = [reader EXCEPT ![r] = [@ EXCEPT !.phase = "leave", !.answer = Failure(kind)]]
    /\ UNCHANGED <<gate, cache, clear>>

(* Mutant of Leave: a load that failed wakes nobody.                         *)
LeaveQuietly(r) ==
    LET woken == IF reader[r].answer.kind = "bytes" THEN {q \in Readers : reader[q].phase = "asleep"} ELSE {}
        left == Answered(r, reader[r].answer)
    IN /\ reader[r].phase = "leave"
       /\ cache' = [cache EXCEPT !.loading = @ \ {BlockOf(r)}]
       /\ gate' = [gate EXCEPT !.active = @ - 1]
       /\ reader' = [q \in Readers |-> IF q \in woken THEN [reader[q] EXCEPT !.phase = "look"] ELSE left[q]]
       /\ UNCHANGED clear

(* The guard of the load, then the admission, are dropped: all who sleep     *)
(* look again, whatever they wait for.                                       *)
Leave(r) ==
    LET woken == {q \in Readers : reader[q].phase = "asleep"}
        left == Answered(r, reader[r].answer)
    IN /\ reader[r].phase = "leave"
       /\ cache' = [cache EXCEPT !.loading = @ \ {BlockOf(r)}]
       /\ gate' = [gate EXCEPT !.active = @ - 1]
       /\ reader' = [q \in Readers |-> IF q \in woken THEN [reader[q] EXCEPT !.phase = "look"] ELSE left[q]]
       /\ UNCHANGED clear

------------------------------------------------------------------------------
(* The clear command: the gate, the wait for those within, the caches.       *)
BeginClear(c) ==
    /\ clear[c].phase = "idle" /\ gate.generation < MaxClears
    /\ gate' = [gate EXCEPT !.closed = TRUE, !.generation = @ + 1]
    /\ clear' = [clear EXCEPT ![c] = [phase |-> "drain", gen |-> gate.generation + 1]]
    /\ UNCHANGED <<cache, reader>>

Drained(c) ==
    /\ clear[c].phase = "drain" /\ gate.active = 0
    /\ clear' = [clear EXCEPT ![c].phase = "clear"]
    /\ UNCHANGED <<gate, cache, reader>>

DrainTimeout(c) ==
    /\ clear[c].phase = "drain"
    /\ clear' = [clear EXCEPT ![c].phase = "end"]
    /\ UNCHANGED <<gate, cache, reader>>

ClearWhileGated(c) ==
    /\ clear[c].phase = "clear"
    /\ cache' = IF gate.generation # clear[c].gen THEN cache
                ELSE [cache EXCEPT !.blocks = EmptyMap, !.order = <<>>, !.bytes = 0]
    /\ clear' = [clear EXCEPT ![c].phase = "end"]
    /\ UNCHANGED <<gate, reader>>

EndClear(c) ==
    /\ clear[c].phase = "end"
    /\ gate' = [gate EXCEPT !.closed = FALSE]
    /\ clear' = [clear EXCEPT ![c].phase = "idle"]
    /\ UNCHANGED <<cache, reader>>

------------------------------------------------------------------------------
ZipInit == /\ gate = [closed |-> FALSE, generation |-> 0, active |-> 0]
        /\ cache = [blocks |-> EmptyMap, order |-> <<>>, loading |-> {}, bytes |-> 0]
        /\ reader = [r \in Readers |-> [pos |-> 0, phase |-> "idle", want |-> 0, gen |-> 0,
                                        answer |-> Failure("none")]]
        /\ clear = [c \in Clearers |-> [phase |-> "idle", gen |-> 0]]

ReaderMoves(r) == Look(r) \/ Loaded(r) \/ LoadFails(r) \/ Leave(r)
Clears(c) == BeginClear(c) \/ Drained(c) \/ DrainTimeout(c) \/ ClearWhileGated(c) \/ EndClear(c)

ZipNext == \/ \E r \in Readers : ReaderMoves(r) \/ (\E n \in Buffers : Read(r, n)) \/ (\E t \in Targets : Seek(r, t))
        \/ \E c \in Clearers : Clears(c)

(* Threads run, and a range request ends: the clients of the sources limit   *)
(* it in time.                                                               *)
ZipSpec == ZipInit /\ [][ZipNext]_zipVars /\ \A r \in Readers : WF_zipVars(ReaderMoves(r))

------------------------------------------------------------------------------
(* A block that is asked for is whole, the last one too: no read is answered *)
(* with other bytes than those at the reader's position, or with none before *)
(* the end, and no read of a file that has not changed is refused for want   *)
(* of a range (RemoteZipReader::read, load_block).                           *)
ReadsExact ==
    \A r \in Readers :
      LET answer == reader[r].answer IN
      /\ answer.kind # "no range"
      /\ answer.kind = "bytes" =>
           (answer.bytes # <<>> /\ \A i \in DOMAIN answer.bytes : answer.bytes[i] = answer.from + i - 1)

(* The blocks that are kept are those used last, within the bytes, through   *)
(* loads that race and clears that run into them (touch, insert_lru, clear). *)
Kept == Reverse([i \in DOMAIN cache.order |-> [key |-> cache.order[i], item |-> cache.blocks[cache.order[i]]]])

Blocks == 0 .. (FileSize - 1) \div BlockSize

Lru == INSTANCE ByteLru
         WITH Keys <- Blocks, Items <- {OriginRange(b * BlockSize, BlockLength(b)) : b \in Blocks},
              Size <- Len, Capacity <- CapBytes, entries <- Kept, total <- cache.bytes

BlocksAreLru == Lru!Spec

(* Who sleeps for somebody's load is woken, whether it brings the block or   *)
(* not (LoadingGuard).                                                       *)
Sleeps(r) == reader[r].phase = "asleep"
SleepersWake == \A r \in Readers : Sleeps(r) ~> ~Sleeps(r)
=============================================================================
