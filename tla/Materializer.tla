---------------------------- MODULE Materializer ----------------------------
(***************************************************************************)
(* The cache of remote archives                                            *)
(* (src-tauri/src/source/archive/materializer.rs): callers ask for the     *)
(* local copy of an archive; one owner task per archive downloads it into  *)
(* a .part file beside a sidecar that records how far it got, renames it   *)
(* to the final file and registers a row in the database; the callers      *)
(* subscribe to the owner.  The clear command (commands/archive_cache.rs)  *)
(* shuts the gate of the cache coordinator (cache_coordinator.rs), waits   *)
(* for everybody admitted, and deletes.                                    *)
(*                                                                         *)
(* Callers, owners and clear commands are tasks on several threads.  A     *)
(* step ends where a task awaits the network or a lock, and where it       *)
(* reads or writes what another task may change: the database, a file, an  *)
(* atomic counter.  Aborting an owner takes effect only where it awaits:   *)
(* an owner that is running when it is aborted runs on to its next wait,   *)
(* and a wait for a lock that is free is no wait.                          *)
(*                                                                         *)
(* A chunk is the version of the archive it was read from.                 *)
(***************************************************************************)
EXTENDS Integers, Sequences, FiniteSets, Maps

CONSTANTS
  Keys,        \* cache keys: an origin and the path of an archive on it
  Callers,     \* calls of ensure_cached, reused once they have returned
  Owners,      \* owner tasks, reused once they have ended
  Clears,      \* calls of the clear command
  Size,        \* version of an archive -> its size in chunks
  Rounds,      \* rounds of a call before it gives up: 5 in the code
  MaxVersion,  \* bound: how often an archive changes on its origin
  MaxEpoch,    \* bound: the last window epoch
  MaxCrashes   \* bound: how often the program ends and is started again

Versions == 1 .. MaxVersion

\* The expected_epoch of a call no window epoch can cancel.
Forced == -1

ASSUME ConstantsAssumption ==
  /\ IsFiniteSet(Owners)
  /\ Size \in [Versions -> Nat \ {0}]
  /\ Rounds \in Nat \ {0}
  /\ MaxVersion \in Nat \ {0} /\ MaxEpoch \in Nat /\ MaxCrashes \in Nat

VARIABLES
  remote,      \* the version of every archive on its origin
  rows,        \* archive_cache table: key -> version, whose size is byte_size
  final,       \* key -> chunks of the final file
  part,        \* key -> chunks of the .part file
  sidecar,     \* key -> snapshot version and chunks accounted for
  gate,        \* coordinator: clearing
  clearing,    \* inflight state: clearing
  entries,     \* inflight state: key -> its owner and its subscribers
  epoch,
  cancel_gen,
  caller,
  owner,
  handle,      \* the file an owner's open handle writes to
  clear,       \* where every clear command is
  wiped_gen,   \* history: cancel_gen when a clear last deleted everything
  crashes

diskVars == <<rows, final, part, sidecar>>
memVars  == <<gate, clearing, entries, epoch, cancel_gen>>
taskVars == <<caller, owner, handle, clear>>
vars == <<remote, diskVars, memVars, taskVars, wiped_gen, crashes>>

-----------------------------------------------------------------------------
Epochs == 0 .. MaxEpoch

\* "ok" carries the path of the final file.
Results == {"none", "ok", "failed", "cancelled"}

Entry == [owner : Owners, subscribers : SUBSET Callers]

\* `row' and `cur' are what the call read from the table and from the origin
\* in this round; `cancelled' is the flag cancel_interactive sets; `cleared'
\* and `misled' are history: a clear began during the call; the answer came from
\* an owner other than the one the call had subscribed to.
Caller ==
  [pc : {"idle", "row", "stat", "judge", "drop", "unlink", "reread", "redrop",
         "relink", "register", "wait", "told", "detach", "done"},
   key : Keys \cup {"none"}, expected : Epochs \cup {Forced}, row : Versions \cup {0},
   cur : Versions \cup {0}, round : 0 .. Rounds, owns : BOOLEAN,
   cancelled : BOOLEAN, cleared : BOOLEAN, misled : BOOLEAN, result : Results]

Idle ==
  [pc |-> "idle", key |-> "none", expected |-> Forced, row |-> 0, cur |-> 0,
   round |-> 0, owns |-> FALSE, cancelled |-> FALSE, cleared |-> FALSE,
   misled |-> FALSE, result |-> "none"]

Owner ==
  [pc : {"none", "spawned", "stat", "open", "init", "loop", "read", "write",
         "account", "drained", "restat", "rename", "check", "upsert", "budget",
         "evict", "finish"},
   key : Keys \cup {"none"}, expected : Epochs \cup {Forced}, gen : Nat,
   attempt : 0 .. 1, snap : Versions \cup {0}, offset : Nat,
   chunk : Versions \cup {0}, aborted : BOOLEAN, protected : SUBSET Keys,
   result : Results]

NoOwner ==
  [pc |-> "none", key |-> "none", expected |-> Forced, gen |-> 0, attempt |-> 0,
   snap |-> 0, offset |-> 0, chunk |-> 0, aborted |-> FALSE,
   protected |-> {}, result |-> "none"]

\* Who holds an admission of the coordinator: its active count is their number.
Admitted ==
  {c \in Callers : caller[c].pc \notin {"idle", "detach", "done"}} \cup
  {o \in Owners : owner[o].pc \notin {"none", "spawned", "finish"}}

\* cache_file_matches: the final file exists and has the size of the row.
FileMatches(k, version) == k \in DOMAIN final /\ Len(final[k]) = Size[version]

\* The handles after the file at the place `at' of the key k was removed.
Unlinked(k, at) ==
  [o \in Owners |-> IF owner[o].key = k /\ handle[o] = at THEN "gone" ELSE handle[o]]

Init ==
  /\ remote = [k \in Keys |-> 1]
  /\ rows = EmptyMap /\ final = EmptyMap /\ part = EmptyMap /\ sidecar = EmptyMap
  /\ gate = FALSE /\ clearing = FALSE /\ entries = EmptyMap
  /\ epoch = 0 /\ cancel_gen = 0
  /\ caller = [c \in Callers |-> Idle]
  /\ owner = [o \in Owners |-> NoOwner]
  /\ handle = [o \in Owners |-> "none"]
  /\ clear = [x \in Clears |-> "idle"]
  /\ wiped_gen = 0 /\ crashes = 0

-----------------------------------------------------------------------------
(***************************************************************************)
(* A call of ensure_cached.  Its admission is held until it returns.       *)
(***************************************************************************)
Set(c, new) == caller' = [caller EXCEPT ![c] = new]
Goto(c, pc) == Set(c, [caller[c] EXCEPT !.pc = pc])

\* Of what the call was, its result and why it may have been cancelled remain.
Return(c, r) ==
  Set(c, IF r = "cancelled" /\ caller[c].expected = Forced
           THEN [Idle EXCEPT !.pc = "done", !.result = r, !.cleared = caller[c].cleared,
                   !.cancelled = caller[c].cancelled, !.misled = caller[c].misled]
           ELSE [Idle EXCEPT !.pc = "done", !.expected = caller[c].expected, !.result = r])

\* Leave the table: what was read from it is not used again.
ToRegister(c) == Set(c, [caller[c] EXCEPT !.pc = "register", !.row = 0, !.cur = 0])

\* Mutant of Outdated: a call that is forced is outdated once a window moves on.
OutdatedForced(c) == caller[c].expected # epoch /\ epoch # 0

\* The window that asked for the archive has moved on.
Outdated(c) == caller[c].expected # Forced /\ caller[c].expected # epoch

\* Mutant of NextRound: the rounds are not bounded.
NextRoundAlways(c) ==
  Set(c, [caller[c] EXCEPT !.pc = "row", !.row = 0, !.cur = 0, !.round = @ + 1,
                           !.owns = FALSE, !.result = "none"])

\* The next round of the loop, or the error after the last one.
NextRound(c) ==
  IF caller[c].round = Rounds
    THEN Return(c, "failed")
    ELSE Set(c, [caller[c] EXCEPT !.pc = "row", !.row = 0, !.cur = 0,
                                  !.round = @ + 1, !.owns = FALSE, !.result = "none"])

\* A window's prefetch passes the epoch of its batch, which may be outdated.
Call(c, k, e) ==
  /\ caller[c].pc = "idle"
  /\ e \in {Forced} \cup 0 .. epoch
  /\ Set(c, IF gate
              THEN [Idle EXCEPT !.pc = "done", !.expected = e, !.cleared = TRUE,
                                !.result = "cancelled"]
              ELSE [Idle EXCEPT !.pc = "row", !.key = k, !.expected = e,
                                !.round = 1])
  /\ UNCHANGED <<remote, diskVars, memVars, owner, handle, clear, wiped_gen, crashes>>

ReadRow(c) ==
  LET k == caller[c].key IN
  /\ caller[c].pc = "row"
  /\ IF k \in DOMAIN rows
       THEN Set(c, [caller[c] EXCEPT !.pc = "stat", !.row = rows[k]])
       ELSE ToRegister(c)
  /\ UNCHANGED <<remote, diskVars, memVars, owner, handle, clear, wiped_gen, crashes>>

Stat(c) ==
  /\ caller[c].pc = "stat"
  /\ \/ Set(c, [caller[c] EXCEPT !.pc = "judge", !.cur = remote[caller[c].key]])
     \/ Return(c, "failed")
  /\ UNCHANGED <<remote, diskVars, memVars, owner, handle, clear, wiped_gen, crashes>>

\* The row is fresh and its file is there: a hit.
Judge(c) ==
  /\ caller[c].pc = "judge"
  /\ IF caller[c].row = caller[c].cur /\ FileMatches(caller[c].key, caller[c].row)
       THEN Return(c, "ok")
       ELSE Goto(c, "drop")
  /\ UNCHANGED <<remote, diskVars, memVars, owner, handle, clear, wiped_gen, crashes>>

\* delete_if_version_match
Owned(c) == caller[c].key \in DOMAIN rows /\ rows[caller[c].key] = caller[c].row

\* Whoever deletes the row of the version it has read also deletes the file.
\* Who finds another row instead has lost the race.
DropRow(c) ==
  /\ caller[c].pc = "drop"
  /\ \/ Owned(c) /\ rows' = Without(rows, {caller[c].key}) /\ Goto(c, "unlink")
     \/ /\ ~ Owned(c) /\ UNCHANGED rows
        /\ IF caller[c].row = caller[c].cur THEN NextRound(c) ELSE Goto(c, "reread")
  /\ UNCHANGED <<remote, final, part, sidecar, memVars, owner, handle, clear,
                 wiped_gen, crashes>>

\* Only after the database was released again.
Unlink(c) ==
  /\ caller[c].pc \in {"unlink", "relink"}
  /\ final' = Without(final, {caller[c].key})
  /\ handle' = Unlinked(caller[c].key, "final")
  /\ IF caller[c].pc = "unlink" /\ caller[c].row = caller[c].cur
       THEN NextRound(c)
       ELSE ToRegister(c)
  /\ UNCHANGED <<remote, rows, part, sidecar, memVars, owner, clear, wiped_gen,
                 crashes>>

\* The row was refreshed by somebody else: reuse it if it is fresh.
Reread(c) ==
  LET k == caller[c].key IN
  /\ caller[c].pc = "reread"
  /\ IF k \in DOMAIN rows /\ rows[k] = caller[c].cur
       THEN IF FileMatches(k, rows[k])
              THEN Return(c, "ok")
              ELSE Set(c, [caller[c] EXCEPT !.pc = "redrop", !.row = rows[k]])
       ELSE ToRegister(c)
  /\ UNCHANGED <<remote, diskVars, memVars, owner, handle, clear, wiped_gen, crashes>>

RedropRow(c) ==
  /\ caller[c].pc = "redrop"
  /\ \/ Owned(c) /\ rows' = Without(rows, {caller[c].key}) /\ Goto(c, "relink")
     \/ ~ Owned(c) /\ UNCHANGED rows /\ ToRegister(c)
  /\ UNCHANGED <<remote, final, part, sidecar, memVars, owner, handle, clear,
                 wiped_gen, crashes>>

Barred(c) == clearing \/ Outdated(c)

\* One critical section: refuse, attach to the owner of the key, or register a
\* new owner with the generation of this moment.
Register(c) ==
  LET k == caller[c].key IN
  /\ caller[c].pc = "register"
  /\ \/ /\ Barred(c)
        /\ Return(c, "cancelled")
        /\ UNCHANGED <<entries, owner>>
     \/ /\ ~ Barred(c) /\ k \in DOMAIN entries
        /\ Goto(c, "wait")
        /\ entries' = [entries EXCEPT ![k].subscribers = @ \cup {c}]
        /\ UNCHANGED owner
     \/ /\ ~ Barred(c) /\ k \notin DOMAIN entries
        /\ Set(c, [caller[c] EXCEPT !.pc = "wait", !.owns = TRUE])
        /\ \E o \in Owners :
             /\ owner[o].pc = "none"
             /\ entries' = Put(entries, k, [owner |-> o, subscribers |-> {c}])
             /\ owner' = [owner EXCEPT ![o] =
                            [NoOwner EXCEPT !.pc = "spawned", !.key = k,
                               !.expected = caller[c].expected, !.gen = cancel_gen]]
  /\ UNCHANGED <<remote, diskVars, gate, clearing, epoch, cancel_gen, handle, clear,
                 wiped_gen, crashes>>

\* The result has arrived.  Whoever waited for somebody else's download takes
\* it over, unless it was cancelled or its window has moved on.
Told(c) ==
  /\ caller[c].pc = "told"
  /\ IF caller[c].result = "ok" \/ caller[c].owns \/ caller[c].cancelled
       THEN Return(c, caller[c].result)
       ELSE IF Outdated(c) THEN Return(c, "cancelled") ELSE NextRound(c)
  /\ UNCHANGED <<remote, diskVars, memVars, owner, handle, clear, wiped_gen, crashes>>

Leave(c) ==
  /\ caller[c].pc = "done"
  /\ Set(c, Idle)
  /\ UNCHANGED <<remote, diskVars, memVars, owner, handle, clear, wiped_gen, crashes>>

\* Mutant of Unsubscribe: the owner is aborted whoever else is subscribed.
UnsubscribeAll(c, k) ==
  /\ entries' = Without(entries, {k})
  /\ owner' = [owner EXCEPT ![entries[k].owner].aborted = TRUE]

\* Take the subscriber c off the entry of its key; the last one aborts the owner.
Unsubscribe(c, k) ==
  LET rest == entries[k].subscribers \ {c} IN
  IF rest = {}
    THEN /\ entries' = Without(entries, {k})
         /\ owner' = [owner EXCEPT ![entries[k].owner].aborted = TRUE]
    ELSE /\ entries' = [entries EXCEPT ![k].subscribers = rest]
         /\ UNCHANGED owner

Subscribed(c) ==
  caller[c].key \in DOMAIN entries /\ c \in entries[caller[c].key].subscribers

\* cancel_interactive: the prefetch of a window has no request id to cancel.
Cancel(c) ==
  /\ caller[c].expected = Forced
  /\ Subscribed(c)
  /\ Unsubscribe(c, caller[c].key)
  /\ Set(c, IF caller[c].pc = "wait"
              THEN [caller[c] EXCEPT !.pc = "told", !.cancelled = TRUE,
                                     !.result = "cancelled"]
              ELSE caller[c])
  /\ UNCHANGED <<remote, diskVars, gate, clearing, epoch, cancel_gen, handle, clear,
                 wiped_gen, crashes>>

\* The future of a call is dropped.  The task of a window's prefetch is never
\* aborted.  A call that was waiting leaves its subscription to DetachGuard.
DropCall(c) ==
  /\ caller[c].expected = Forced
  /\ caller[c].pc \in {"stat", "register", "wait", "told"}
  /\ Set(c, IF caller[c].pc \in {"wait", "told"}
              THEN [Idle EXCEPT !.pc = "detach", !.key = caller[c].key]
              ELSE Idle)
  /\ UNCHANGED <<remote, diskVars, memVars, owner, handle, clear, wiped_gen, crashes>>

Detach(c) ==
  /\ caller[c].pc = "detach"
  /\ Set(c, Idle)
  /\ IF Subscribed(c) THEN Unsubscribe(c, caller[c].key) ELSE UNCHANGED <<entries, owner>>
  /\ UNCHANGED <<remote, diskVars, gate, clearing, epoch, cancel_gen, handle, clear,
                 wiped_gen, crashes>>

-----------------------------------------------------------------------------
(***************************************************************************)
(* The owner task: run_owner and the download inside it.                   *)
(***************************************************************************)
Own(o, new) == owner' = [owner EXCEPT ![o] = new]
Proceed(o, pc) == Own(o, [owner[o] EXCEPT !.pc = pc])

\* download returns: its admission is released and its file is closed.
End(o, r, hd) ==
  /\ Own(o, [NoOwner EXCEPT !.pc = "finish", !.key = owner[o].key, !.result = r,
                            !.aborted = owner[o].aborted])
  /\ handle' = [hd EXCEPT ![o] = "none"]

\* A task told to abort is dropped where it awaits; it gets past a wait only if
\* it is one for a lock and the lock is free.
Dropped(o) ==
  /\ owner[o].aborted
  /\ owner[o].pc \in {"spawned", "stat", "loop", "read", "restat", "budget", "finish"}
  /\ Own(o, NoOwner)
  /\ handle' = [handle EXCEPT ![o] = "none"]
  /\ UNCHANGED <<remote, diskVars, memVars, caller, clear, wiped_gen, crashes>>

\* The network answers: an aborted owner is no longer there.
Answered(o, pc) == owner[o].pc = pc /\ ~ owner[o].aborted

StartOwner(o) ==
  /\ Answered(o, "spawned")
  /\ IF gate THEN End(o, "cancelled", handle)
             ELSE Proceed(o, "stat") /\ UNCHANGED handle
  /\ UNCHANGED <<remote, diskVars, memVars, caller, clear, wiped_gen, crashes>>

Snapshot(o) ==
  /\ Answered(o, "stat")
  /\ \/ /\ Own(o, [owner[o] EXCEPT !.pc = "open", !.snap = remote[owner[o].key]])
        /\ UNCHANGED handle
     \/ End(o, "failed", handle)
  /\ UNCHANGED <<remote, diskVars, memVars, caller, clear, wiped_gen, crashes>>

\* Mutant of Resumable: the snapshot of the sidecar is not compared.
ResumableUnversioned(k, snap) ==
  /\ k \in DOMAIN part /\ k \in DOMAIN sidecar
  /\ sidecar[k].downloaded = Len(part[k])
  /\ Len(part[k]) <= Size[snap]

\* The .part file is the beginning of the version that is to be downloaded.
Resumable(k, snap) ==
  /\ k \in DOMAIN part /\ k \in DOMAIN sidecar
  /\ sidecar[k].version = snap
  /\ sidecar[k].downloaded = Len(part[k])
  /\ Len(part[k]) <= Size[snap]

Open(o) ==
  LET k == owner[o].key
      resume == Resumable(k, owner[o].snap)
  IN
  /\ owner[o].pc = "open"
  /\ IF resume
       THEN /\ UNCHANGED <<part, sidecar>>
            /\ handle' = [handle EXCEPT ![o] = "part"]
       ELSE /\ part' = Put(part, k, <<>>)
            /\ sidecar' = IF k \in DOMAIN part THEN Without(sidecar, {k}) ELSE sidecar
            /\ handle' = [Unlinked(k, "part") EXCEPT ![o] = "part"]
  /\ Own(o, [owner[o] EXCEPT !.pc = "init",
                             !.offset = IF resume THEN Len(part[k]) ELSE 0])
  /\ UNCHANGED <<remote, rows, final, memVars, caller, clear, wiped_gen, crashes>>

\* atomic_write_sidecar, before the first chunk and after every chunk; it replaces
\* the sidecar or fails.
Account(o) ==
  /\ owner[o].pc \in {"init", "account"}
  /\ \/ /\ sidecar' = Put(sidecar, owner[o].key,
                           [version |-> owner[o].snap, downloaded |-> owner[o].offset])
        /\ Proceed(o, "loop")
        /\ UNCHANGED handle
     \/ End(o, "failed", handle) /\ UNCHANGED sidecar
  /\ UNCHANGED <<remote, rows, final, part, memVars, caller, clear, wiped_gen, crashes>>

\* Mutant of Superseded: only the window is looked at.
SupersededByWindow(o) == owner[o].expected # Forced /\ owner[o].expected # epoch

Superseded(o) ==
  \/ cancel_gen # owner[o].gen
  \/ owner[o].expected # Forced /\ owner[o].expected # epoch

\* Checkpoint 1 keeps the .part file, for the next download to resume.
Loop(o) ==
  /\ owner[o].pc = "loop"
  /\ IF owner[o].offset >= Size[owner[o].snap]
       THEN Proceed(o, "drained") /\ UNCHANGED handle
       ELSE IF Superseded(o) THEN End(o, "cancelled", handle)
                             ELSE Proceed(o, "read") /\ UNCHANGED handle
  /\ UNCHANGED <<remote, diskVars, memVars, caller, clear, wiped_gen, crashes>>

Read(o) ==
  /\ Answered(o, "read")
  /\ \/ /\ Own(o, [owner[o] EXCEPT !.pc = "write", !.chunk = remote[owner[o].key]])
        /\ UNCHANGED handle
     \/ End(o, "failed", handle)
  /\ UNCHANGED <<remote, diskVars, memVars, caller, clear, wiped_gen, crashes>>

\* The file is open for appending, wherever it has been moved since.
Write(o) ==
  LET k == owner[o].key
      more(file) == [file EXCEPT ![k] = Append(@, owner[o].chunk)]
  IN
  /\ owner[o].pc = "write"
  /\ part' = IF handle[o] = "part" THEN more(part) ELSE part
  /\ final' = IF handle[o] = "final" THEN more(final) ELSE final
  /\ Own(o, [owner[o] EXCEPT !.pc = "account", !.chunk = 0, !.offset = @ + 1])
  /\ UNCHANGED <<remote, rows, sidecar, memVars, caller, handle, clear, wiped_gen,
                 crashes>>

\* Remove the .part file and its sidecar.
Discard(k) ==
  /\ part' = Without(part, {k})
  /\ sidecar' = Without(sidecar, {k})

\* Checkpoint 2, after the file was closed.
Drained(o) ==
  LET k == owner[o].key IN
  /\ owner[o].pc = "drained"
  /\ IF cancel_gen # owner[o].gen
       THEN /\ Discard(k)
            /\ End(o, "cancelled", [Unlinked(k, "part") EXCEPT ![o] = "none"])
       ELSE /\ Proceed(o, "restat")
            /\ handle' = [handle EXCEPT ![o] = "none"]
            /\ UNCHANGED <<part, sidecar>>
  /\ UNCHANGED <<remote, rows, final, memVars, caller, clear, wiped_gen, crashes>>

Unchanged(o) == remote[owner[o].key] = owner[o].snap

\* The second stat: another version is downloaded once more.
Recheck(o) ==
  LET k == owner[o].key IN
  /\ Answered(o, "restat")
  /\ \/ /\ Unchanged(o)
        /\ Proceed(o, "rename")
        /\ UNCHANGED <<part, sidecar, handle>>
     \/ /\ ~ Unchanged(o)
        /\ Discard(k)
        /\ IF owner[o].attempt = 0
             THEN /\ Own(o, [NoOwner EXCEPT !.pc = "stat", !.key = k, !.attempt = 1,
                               !.expected = owner[o].expected, !.gen = owner[o].gen])
                  /\ handle' = Unlinked(k, "part")
             ELSE End(o, "failed", Unlinked(k, "part"))
     \/ /\ End(o, "failed", handle)
        /\ UNCHANGED <<part, sidecar>>
  /\ UNCHANGED <<remote, rows, final, memVars, caller, clear, wiped_gen, crashes>>

\* Checkpoint 3, the rename, and the check of the size.
Rename(o) ==
  LET k == owner[o].key IN
  /\ owner[o].pc = "rename"
  /\ IF cancel_gen # owner[o].gen
       THEN /\ Discard(k) /\ UNCHANGED final
            /\ End(o, "cancelled", Unlinked(k, "part"))
     ELSE IF k \notin DOMAIN part
       THEN /\ End(o, "failed", handle) /\ UNCHANGED <<part, sidecar, final>>
     ELSE IF Len(part[k]) # Size[owner[o].snap]
       THEN /\ Discard(k) /\ final' = Without(final, {k})
            /\ End(o, "failed",
                   [p \in Owners |-> IF owner[p].key = k /\ handle[p] # "none"
                                       THEN "gone" ELSE handle[p]])
       ELSE /\ Discard(k) /\ final' = Put(final, k, part[k])
            /\ handle' = [p \in Owners |->
                 CASE owner[p].key = k /\ handle[p] = "part"  -> "final"
                   [] owner[p].key = k /\ handle[p] = "final" -> "gone"
                   [] OTHER -> handle[p]]
            /\ Proceed(o, "check")
  /\ UNCHANGED <<remote, rows, memVars, caller, clear, wiped_gen, crashes>>

\* Checkpoint 4: a cache that is being cleared is not brought back.
Check(o) ==
  LET k == owner[o].key IN
  /\ owner[o].pc = "check"
  /\ IF cancel_gen # owner[o].gen
       THEN /\ final' = Without(final, {k})
            /\ End(o, "cancelled", Unlinked(k, "final"))
       ELSE /\ Proceed(o, "upsert")
            /\ UNCHANGED <<final, handle>>
  /\ UNCHANGED <<remote, rows, part, sidecar, memVars, caller, clear, wiped_gen, crashes>>

\* When the database refuses the row, the file stays without one.
Upsert(o) ==
  /\ owner[o].pc = "upsert"
  /\ \/ /\ rows' = Put(rows, owner[o].key, owner[o].snap)
        /\ Own(o, [NoOwner EXCEPT !.pc = "budget", !.key = owner[o].key,
                                  !.aborted = owner[o].aborted])
        /\ UNCHANGED handle
     \/ End(o, "failed", handle) /\ UNCHANGED rows
  /\ UNCHANGED <<remote, final, part, sidecar, memVars, caller, clear, wiped_gen, crashes>>

\* enforce_budget: .part files make room first, then rows with their files; it
\* spares the keys in P.  How much has to go depends on sizes left out here.
Evict(P, hd) ==
  \E parts \in SUBSET (DOMAIN part \ P), ready \in SUBSET (DOMAIN rows \ P) :
    /\ ready # {} => parts = DOMAIN part \ P
    /\ part' = Without(part, parts) /\ sidecar' = Without(sidecar, parts)
    /\ rows' = Without(rows, ready) /\ final' = Without(final, ready)
    /\ handle' = [o \in Owners |->
                    IF \/ owner[o].key \in parts /\ hd[o] = "part"
                       \/ owner[o].key \in ready /\ hd[o] = "final"
                      THEN "gone" ELSE hd[o]]

\* The keys in flight are collected under the lock of the table, which is released
\* before the database is locked and room is made.
Budget(o) ==
  /\ owner[o].pc = "budget"
  /\ Own(o, [owner[o] EXCEPT !.pc = "evict", !.protected = DOMAIN entries])
  /\ UNCHANGED <<remote, diskVars, memVars, caller, handle, clear, wiped_gen, crashes>>

Reclaim(o) ==
  /\ owner[o].pc = "evict"
  /\ Evict(owner[o].protected, [handle EXCEPT ![o] = "none"])
  /\ Own(o, [NoOwner EXCEPT !.pc = "finish", !.key = owner[o].key, !.result = "ok",
                            !.aborted = owner[o].aborted])
  /\ UNCHANGED <<remote, memVars, caller, clear, wiped_gen, crashes>>

\* Mutant of Deliver: only the call that registered the owner is answered.
DeliverFirst(o, r) ==
  caller' = [c \in Callers |->
               IF caller[c].pc = "wait" /\ caller[c].key = owner[o].key /\ caller[c].owns
                 THEN [caller[c] EXCEPT !.pc = "told", !.result = r]
                 ELSE caller[c]]

Deliver(o, r) ==
  LET k == owner[o].key IN
  caller' = [c \in Callers |->
               IF k \in DOMAIN entries /\ c \in entries[k].subscribers
                  /\ caller[c].pc = "wait"
                 THEN [caller[c] EXCEPT !.pc = "told", !.result = r,
                                        !.misled = @ \/ entries[k].owner # o]
                 ELSE caller[c]]

\* Under the lock: take the key off the table, whoever's entry it is by now,
\* and after an error make room.  Then answer the subscribers of that entry.
Finish(o) ==
  LET k == owner[o].key IN
  /\ owner[o].pc = "finish"
  /\ entries' = Without(entries, {k})
  /\ IF owner[o].result = "ok"
       THEN UNCHANGED <<diskVars, handle>>
       ELSE Evict(DOMAIN entries \ {k}, handle)
  /\ Deliver(o, owner[o].result)
  /\ Own(o, NoOwner)
  /\ UNCHANGED <<remote, gate, clearing, epoch, cancel_gen, clear, wiped_gen, crashes>>

-----------------------------------------------------------------------------
(***************************************************************************)
(* clear_archive_cache.                                                    *)
(***************************************************************************)
ClearTo(x, from, to) == clear[x] = from /\ clear' = [clear EXCEPT ![x] = to]

BeginClear(x) ==
  /\ ClearTo(x, "idle", "begun")
  /\ gate' = TRUE
  /\ caller' = [c \in Callers |-> [caller[c] EXCEPT
                   !.cleared = @ \/ caller[c].pc \notin {"idle", "detach", "done"}]]
  /\ UNCHANGED <<remote, diskVars, clearing, entries, epoch, cancel_gen, owner, handle,
                 wiped_gen, crashes>>

\* begin_clearing, first under the lock, then the generation.
SetClearing(x) ==
  /\ ClearTo(x, "begun", "bump")
  /\ clearing' = TRUE
  /\ UNCHANGED <<remote, diskVars, gate, entries, epoch, cancel_gen, caller, owner,
                 handle, wiped_gen, crashes>>

CancelAll(x) ==
  /\ ClearTo(x, "bump", "drain")
  /\ cancel_gen' = cancel_gen + 1
  /\ UNCHANGED <<remote, diskVars, gate, clearing, entries, epoch, caller, owner, handle,
                 wiped_gen, crashes>>

\* Nobody is registered; then, nobody is admitted.  Either wait may time out.
DrainInflight(x) ==
  /\ DOMAIN entries = {} /\ ClearTo(x, "drain", "drain2")
  /\ UNCHANGED <<remote, diskVars, memVars, caller, owner, handle, wiped_gen, crashes>>

\* Mutant of Quiet: the admissions are not waited for.
QuietTable == DOMAIN entries = {}

Quiet == Admitted = {}

DrainAdmitted(x) ==
  /\ Quiet /\ ClearTo(x, "drain2", "wipe")
  /\ UNCHANGED <<remote, diskVars, memVars, caller, owner, handle, wiped_gen, crashes>>

DrainTimeout(x) ==
  /\ ClearTo(x, "drain", "reopen") \/ ClearTo(x, "drain2", "reopen")
  /\ UNCHANGED <<remote, diskVars, memVars, caller, owner, handle, wiped_gen, crashes>>

\* The rows, the files they name and the part directory, the database being
\* locked throughout.
Wipe(x) ==
  /\ ClearTo(x, "wipe", "reopen")
  /\ rows' = EmptyMap /\ final' = Without(final, DOMAIN rows)
  /\ part' = EmptyMap /\ sidecar' = EmptyMap
  /\ handle' = [o \in Owners |->
                  CASE handle[o] = "part" -> "gone"
                    [] handle[o] = "final" /\ owner[o].key \in DOMAIN rows -> "gone"
                    [] OTHER -> handle[o]]
  /\ wiped_gen' = cancel_gen
  /\ UNCHANGED <<remote, memVars, caller, owner, crashes>>

EndClearing(x) ==
  /\ ClearTo(x, "reopen", "guard")
  /\ clearing' = FALSE
  /\ UNCHANGED <<remote, diskVars, gate, entries, epoch, cancel_gen, caller, owner, handle,
                 wiped_gen, crashes>>

\* The ClearGuard is dropped.
EndClear(x) ==
  /\ ClearTo(x, "guard", "done")
  /\ gate' = FALSE
  /\ UNCHANGED <<remote, diskVars, clearing, entries, epoch, cancel_gen, caller, owner,
                 handle, wiped_gen, crashes>>

-----------------------------------------------------------------------------
(***************************************************************************)
(* What happens around them.                                               *)
(***************************************************************************)

\* A new window: fetch_max, so a late notification changes nothing.
AdvanceEpoch(e) ==
  /\ epoch' = IF e > epoch THEN e ELSE epoch
  /\ UNCHANGED <<remote, diskVars, gate, clearing, entries, cancel_gen, taskVars,
                 wiped_gen, crashes>>

\* The archive is replaced on its origin.
Replace(k) ==
  /\ remote[k] < MaxVersion
  /\ remote' = [remote EXCEPT ![k] = @ + 1]
  /\ UNCHANGED <<diskVars, memVars, taskVars, wiped_gen, crashes>>

\* The program ends at any point; started again, startup_cleanup runs before
\* the first command: .part files nobody can resume, rows without their file,
\* files without a row, and what exceeds the budget.
Restart ==
  LET kept  == {k \in DOMAIN part : k \in DOMAIN sidecar}
      sound == {k \in DOMAIN rows : FileMatches(k, rows[k])}
  IN
  /\ crashes < MaxCrashes /\ crashes' = crashes + 1
  /\ \E parts \in SUBSET kept, ready \in SUBSET sound :
       /\ ready # sound => parts = {}
       /\ part' = [k \in parts |-> part[k]]
       /\ sidecar' = Without(sidecar, DOMAIN part \ parts)
       /\ rows' = [k \in ready |-> rows[k]]
       /\ final' = [k \in ready |-> final[k]]
  /\ gate' = FALSE /\ clearing' = FALSE /\ entries' = EmptyMap
  /\ epoch' = 0 /\ cancel_gen' = 0 /\ wiped_gen' = 0
  /\ caller' = [c \in Callers |-> Idle]
  /\ owner' = [o \in Owners |-> NoOwner]
  /\ handle' = [o \in Owners |-> "none"]
  /\ clear' = [x \in Clears |-> IF clear[x] = "idle" THEN "idle" ELSE "done"]
  /\ UNCHANGED remote

-----------------------------------------------------------------------------
CallStep(c) ==
  \/ ReadRow(c) \/ Stat(c) \/ Judge(c) \/ DropRow(c) \/ Unlink(c) \/ Reread(c)
  \/ RedropRow(c) \/ Register(c) \/ Told(c) \/ Leave(c) \/ Detach(c)

OwnerStep(o) ==
  \/ Dropped(o) \/ StartOwner(o) \/ Snapshot(o) \/ Open(o) \/ Account(o) \/ Loop(o)
  \/ Read(o) \/ Write(o) \/ Drained(o) \/ Recheck(o) \/ Rename(o) \/ Check(o)
  \/ Upsert(o) \/ Budget(o) \/ Reclaim(o) \/ Finish(o)

ClearStep(x) ==
  \/ SetClearing(x) \/ CancelAll(x) \/ DrainInflight(x) \/ DrainAdmitted(x)
  \/ DrainTimeout(x) \/ Wipe(x) \/ EndClearing(x) \/ EndClear(x)

Next ==
  \/ \E c \in Callers, k \in Keys, e \in {Forced} \cup Epochs : Call(c, k, e)
  \/ \E c \in Callers : CallStep(c) \/ Cancel(c) \/ DropCall(c)
  \/ \E o \in Owners : OwnerStep(o)
  \/ \E x \in Clears : BeginClear(x) \/ ClearStep(x)
  \/ \E e \in Epochs : AdvanceEpoch(e)
  \/ \E k \in Keys : Replace(k)
  \/ Restart

Spec == Init /\ [][Next]_vars

(***************************************************************************)
(* Fairness: every task that can run runs, the network answers or fails,   *)
(* and a drain that does not succeed times out.  The lock of the table is  *)
(* granted in turn, and the code can always spawn another owner: strong    *)
(* fairness stands for both, Owners being a bound.  Nothing is assumed of  *)
(* users, windows and origins.                                             *)
(***************************************************************************)
Fairness ==
  /\ \A c \in Callers : WF_vars(CallStep(c)) /\ SF_vars(Register(c))
  /\ \A o \in Owners : WF_vars(OwnerStep(o))
  /\ \A x \in Clears : WF_vars(ClearStep(x))

FairSpec == Spec /\ Fairness

-----------------------------------------------------------------------------
(***************************************************************************)
(* Properties.                                                             *)
(***************************************************************************)

Chunks(f) == \A k \in DOMAIN f : f[k] \in Seq(Versions)

TypeOK ==
  /\ remote \in [Keys -> Versions]
  /\ DOMAIN rows \subseteq Keys /\ rows \in [DOMAIN rows -> Versions]
  /\ DOMAIN final \subseteq Keys /\ Chunks(final)
  /\ DOMAIN part \subseteq Keys /\ Chunks(part)
  /\ DOMAIN sidecar \subseteq Keys
  /\ sidecar \in [DOMAIN sidecar -> [version : Versions, downloaded : Nat]]
  /\ gate \in BOOLEAN /\ clearing \in BOOLEAN
  /\ DOMAIN entries \subseteq Keys /\ entries \in [DOMAIN entries -> Entry]
  /\ epoch \in Epochs /\ cancel_gen \in Nat
  /\ caller \in [Callers -> Caller]
  /\ owner \in [Owners -> Owner]
  /\ handle \in [Owners -> {"none", "part", "final", "gone"}]
  /\ clear \in [Clears -> {"idle", "begun", "bump", "drain", "drain2", "wipe", "reopen",
                          "guard", "done"}]
  /\ wiped_gen \in Nat /\ crashes \in 0 .. MaxCrashes

\* Nobody reads the table, downloads or writes a file while a clear deletes.
WipeIsExclusive ==
  \A x \in Clears : clear[x] = "wipe" => Admitted = {} /\ entries = EmptyMap

\* A download that was registered before a clear adds nothing to the cache after
\* the deletion, even if it gets to run only then.
ClearIsFinal ==
  \A o \in Owners :
    owner[o].pc \in {"read", "write", "account", "restat", "rename", "check", "upsert"}
      => owner[o].gen >= wiped_gen

\* What is served as fresh is fresh: a file the table describes as the version
\* the origin has now is that version from its first chunk to its last, though
\* downloads are resumed across restarts and the origin changes meanwhile.
FreshMeansContent ==
  \A k \in DOMAIN rows :
    rows[k] = remote[k] /\ FileMatches(k, rows[k])
      => \A i \in 1 .. Len(final[k]) : final[k][i] = rows[k]

\* An archive the user opens is not given up because a window moves on, though
\* the call may wait for a prefetch which is.  What is left out: an owner that was
\* aborted after its last wait ends all the same, and answers the subscribers of
\* the owner registered after it.
ForcedOutlivesWindow ==
  \A c \in Callers :
    caller[c].pc = "done" /\ caller[c].expected = Forced /\ caller[c].result = "cancelled"
      => caller[c].cancelled \/ caller[c].cleared \/ caller[c].misled

\* A caller that waits is subscribed under the key it asked for: somebody will
\* answer it.
WaitersSubscribed ==
  \A c \in Callers : caller[c].pc = "wait" => Subscribed(c)

\* When a download has ended and makes room, the .part file of another that goes
\* on is spared, for the keys in flight are protected (run_owner's budget hook).
WritersKeepTheirFile ==
  [][\A o, p \in Owners :
       Reclaim(o) /\ o # p /\ ~ owner[p].aborted /\ handle[p] = "part"
         => handle'[p] = "part"]_vars

\* Every call returns, whatever happens to the download it waits for.
CallsReturn == \A c \in Callers : caller[c].pc # "idle" ~> caller[c].pc = "idle"
=============================================================================
