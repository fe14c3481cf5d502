--------------------------- MODULE ThumbnailCache ---------------------------
(***************************************************************************)
(* The thumbnail cache of local sources: the thumbnail service             *)
(* (src-tauri/src/thumbnail/service.rs), its index of the files            *)
(* (index.rs) and the move of the cache to another directory               *)
(* (migration.rs).                                                         *)
(*                                                                         *)
(* A step is what the code does under one hold of the database lock, or a  *)
(* group of file operations between two of them.  The scheduler is the one *)
(* of ThumbnailScheduler, seen from its clients: a table of jobs by key,   *)
(* in which queueing order, workers and memory are left to chance.         *)
(*                                                                         *)
(* A file is there or not: thumbnails are written to a .tmp file and       *)
(* renamed, and a key determines the bytes it stands for (it is a digest   *)
(* of the source's size, time and of every parameter), hence their number. *)
(***************************************************************************)
EXTENDS Integers, SequencesExt, FiniteSetsExt, Maps

CONSTANTS
  Keys,          \* cache keys, integers: rows of the same second sort by key
  Size,          \* byte_size of the thumbnail behind each key
  Roots,         \* directories that may hold the cache
  HomeRoot,      \* the one in use at first
  Cached,        \* what an earlier session left in the cache
  Receivers,     \* completion tasks, reused once they have ended
  Asks,          \* the requests the page may make: the visible keys, the items
                 \* shown as they are and the other ones
  Refreshable,   \* the images the user retries, regenerates or fails to load
  Limits,        \* cache limits the settings page may push, in bytes
  LateRollBack,  \* whether the page rolls a migration back that still runs
  MaxEpoch,      \* bound: the largest epoch the frontend allocates
  MaxSweeps,     \* bound: clears and rounds of upkeep
  MaxMigrations, \* bound: migrations started
  MaxCrashes     \* bound: restarts of the program

\* Assumed of the constants, by the modules that give them values.
CacheAssumption ==
  /\ Keys \subseteq Nat /\ IsFiniteSet(Keys)
  /\ Size \in [Keys -> Nat]
  /\ HomeRoot \in Roots /\ Cached \subseteq Keys /\ Refreshable \subseteq Keys
  /\ Limits \subseteq Nat
  /\ \A ask \in Asks : /\ ask.visible \cup ask.originals \cup ask.others \subseteq Keys
                      /\ ask.originals \cap ask.others = {}
  /\ LateRollBack \in BOOLEAN
  /\ MaxEpoch \in Nat \ {0} /\ MaxSweeps \in Nat /\ MaxMigrations \in Nat /\ MaxCrashes \in Nat

VARIABLES
  rows,            \* the index table, in the order of last_accessed_at, key
  total,           \* thumbnail_cache_total_bytes in maintenance_state
  files,           \* root -> keys with a non-empty file under it
  cache_root, setting,    \* the root in use, and the one a restart will use
  cache_limit,
  protected_keys,
  page_epoch,      \* the epoch the mounted page has announced last
  current_epoch, max_task_epoch,   \* of the scheduler
  jobs,            \* key -> its queued or running job
  completion,      \* receiver -> what spawn_completion knows and has to do
  call,            \* a request or resubmit between its lock and its submissions
  upkeep,          \* evict_now and sample_dirty, called in turn by maintenance
  clearing,        \* the clear command
  migration,       \* the migration thread
  manifest,        \* root -> the manifest file in it
  migration_state, migration_cancel,
  spent            \* what the bounds have allowed so far, for the bounds alone

indexVars     == <<rows, total>>
rootVars      == <<cache_root, setting>>
schedulerVars == <<page_epoch, current_epoch, max_task_epoch, jobs>>
sweepVars     == <<upkeep, clearing>>
migrationVars == <<migration, manifest, migration_state, migration_cancel>>
vars == <<indexVars, files, rootVars, cache_limit, protected_keys,
          schedulerVars, completion, call, sweepVars, migrationVars, spent>>

None == [at |-> "none"]

Rows == ToSet(rows)
Bytes(K) == MapThenSumSet(LAMBDA k : Size[k], K)

-----------------------------------------------------------------------------
(***************************************************************************)
(* The index.                                                              *)
(***************************************************************************)
Kept(K) == SelectSeq(rows, LAMBDA k : k \notin K)
InKeyOrder(K) == SetToSortSeq(K, <)

\* remove, remove_batch, and the repair in get_verified: rows and counter.
RemoveRows(K) ==
  /\ rows' = Kept(K)
  /\ total' = total - Bytes(K \cap Rows)

\* touch_many: the rows of K become the most recent ones.
Touched(K) == Kept(K) \o InKeyOrder(K \cap Rows)

\* upsert: the counter grows by the difference to the row that was there.
Upserted(k) ==
  [rows |-> Append(Kept({k}), k),
   total |-> total + Size[k] - (IF k \in Rows THEN Size[k] ELSE 0)]

Watermark(limit) == (limit * 8) \div 10

\* Mutant of Candidates: the protected keys are not passed to the query.
CandidatesAll(index, protected) == index.rows

Candidates(index, protected) ==
  SelectSeq(index.rows, LAMBDA k : k \notin protected)

\* evict_to_limit: above the limit, the oldest unprotected rows go until the
\* watermark is reached or none is left.
Evicted(index, limit, protected) ==
  LET oldest == Candidates(index, protected)
      first(n) == ToSet(SubSeq(oldest, 1, n))
      enough == {n \in 0 .. Len(oldest) :
                   index.total - Bytes(first(n)) <= Watermark(limit)}
  IN  IF index.total <= limit THEN {}
      ELSE first(IF enough = {} THEN Len(oldest) ELSE Min(enough))

-----------------------------------------------------------------------------
(***************************************************************************)
(* The scheduler.                                                          *)
(***************************************************************************)
Answered(W, outcome) ==
  [w \in DOMAIN completion |->
     IF w \in W THEN [completion[w] EXCEPT !.at = outcome] ELSE completion[w]]

Waiters(K) == {w \in DOMAIN completion : completion[w].at = "wait" /\ completion[w].key \in K}

Queued(K) == {k \in K \cap DOMAIN jobs : jobs[k].at = "queued"}

\* Mutant of Cancelled: the jobs are dropped with their subscribers.
CancelledSilently(K, marked) ==
  /\ jobs' = [k \in DOMAIN jobs \ Queued(K) |->
                IF k \in K THEN [jobs[k] EXCEPT !.stale = @ \/ marked]
                ELSE jobs[k]]
  /\ UNCHANGED completion

\* Queued jobs of K are dropped, running ones told to give up; `marked' is
\* stale_on_completion.
Cancelled(K, marked) ==
  /\ jobs' = [k \in DOMAIN jobs \ Queued(K) |->
                IF k \in K THEN [jobs[k] EXCEPT !.stale = @ \/ marked]
                ELSE jobs[k]]
  /\ completion' = Answered(Waiters(Queued(K)), "stale")

OlderThan(e) == {k \in DOMAIN jobs : jobs[k].epoch < e}

CancelAll ==
  /\ current_epoch' = max_task_epoch + 1
  /\ Cancelled(DOMAIN jobs, FALSE)
  /\ UNCHANGED <<page_epoch, max_task_epoch>>

\* ThumbnailService::new_epoch; cancel_all may have gone further already.
NewEpoch(e) ==
  /\ e > page_epoch /\ page_epoch' = e
  /\ IF e > current_epoch
       THEN current_epoch' = e /\ Cancelled(OlderThan(e), FALSE)
       ELSE UNCHANGED <<current_epoch, jobs, completion>>
  /\ UNCHANGED <<indexVars, files, rootVars, cache_limit, protected_keys,
                 max_task_epoch, call, sweepVars, migrationVars, spent>>

\* Only the job that runs knows where it writes: the cache path of the request
\* that created it.
Submitted(w, k, e, root) ==
  /\ completion' = Put(completion, w,
       [at |-> "wait", key |-> k, root |-> root, limit |-> cache_limit, files |-> {}])
  /\ IF k \in DOMAIN jobs
       THEN UNCHANGED <<jobs, max_task_epoch>>
       ELSE /\ jobs' = Put(jobs, k, [at |-> "queued", epoch |-> e, root |-> root,
                                     stale |-> FALSE])
            /\ max_task_epoch' = Max({max_task_epoch, e})

Start(k) ==
  /\ Queued({k}) # {}
  /\ jobs' = [jobs EXCEPT ![k].at = "running"]
  /\ UNCHANGED <<indexVars, files, rootVars, cache_limit, protected_keys,
                 page_epoch, current_epoch, max_task_epoch, completion, call, sweepVars,
                 migrationVars, spent>>

\* generate_thumbnail: the file is renamed into place, then the worker returns.
Generate(k) ==
  /\ k \in DOMAIN jobs /\ jobs[k].at = "running"
  /\ files' = [files EXCEPT ![jobs[k].root] = @ \cup {k}]
  /\ jobs' = [jobs EXCEPT ![k].at = "ok"]
  /\ UNCHANGED <<indexVars, rootVars, cache_limit, protected_keys, page_epoch, current_epoch,
                 max_task_epoch, completion, call, sweepVars, migrationVars, spent>>

\* It fails, or sees at a stage boundary that it was told to give up.
GenerateFails(k) ==
  /\ k \in DOMAIN jobs /\ jobs[k].at = "running"
  /\ jobs' = [jobs EXCEPT ![k].at = "failed"]
  /\ UNCHANGED <<indexVars, files, rootVars, cache_limit, protected_keys,
                 page_epoch, current_epoch, max_task_epoch, completion, call, sweepVars,
                 migrationVars, spent>>

Outcome(job) ==
  IF job.stale \/ job.epoch < current_epoch THEN "stale"
  ELSE IF job.at = "ok" THEN "cached" ELSE "failed"

\* handle_completed.
JobEnds(k) ==
  /\ k \in DOMAIN jobs /\ jobs[k].at \in {"ok", "failed"}
  /\ jobs' = Without(jobs, {k})
  /\ completion' = Answered(Waiters({k}), Outcome(jobs[k]))
  /\ UNCHANGED <<indexVars, files, rootVars, cache_limit, protected_keys,
                 page_epoch, current_epoch, max_task_epoch, call, sweepVars, migrationVars, spent>>

-----------------------------------------------------------------------------
(***************************************************************************)
(* Requests.                                                               *)
(***************************************************************************)

\* The keys of K whose row names a file that is gone: get_verified deletes
\* the row.
Dirty(K) == (K \cap Rows) \ files[cache_root]

Hits(K) == (K \cap Rows) \cap files[cache_root]

\* request, under the lock: the visible rows are touched and are, with the
\* keys now to be generated, the protected ones; every item is classified.
\* `originals' are the items whose image is small enough to be shown as it is
\* (once its dimensions are known; a row that is there is served even so).
Request(visible, originals, others) ==
  LET wanted == originals \cup others
      generate == others \ Hits(others)
      index == Touched(visible)
  IN  /\ call = None
      /\ rows' = SelectSeq(index, LAMBDA k : k \notin Dirty(wanted))
      /\ total' = total - Bytes(Dirty(wanted))
      /\ protected_keys' = visible \cup generate
      /\ call' = [at |-> "submit", epoch |-> page_epoch, root |-> cache_root,
                  protect |-> FALSE, cancel |-> originals \ Hits(originals), keys |-> generate]
      /\ UNCHANGED <<files, rootVars, cache_limit, schedulerVars, completion,
                     sweepVars, migrationVars, spent>>

\* request, after the lock: the jobs of images that are shown as they are are
\* withdrawn ...
CancelOriginals ==
  /\ call.at = "submit" /\ call.cancel # {}
  /\ Cancelled(call.cancel, TRUE)
  /\ call' = [call EXCEPT !.cancel = {}]
  /\ UNCHANGED <<indexVars, files, rootVars, cache_limit, protected_keys,
                 page_epoch, current_epoch, max_task_epoch, sweepVars, migrationVars, spent>>

\* ... and the other ones are submitted, one after the other.
Submit(w) ==
  /\ call.at = "submit" /\ call.cancel = {} /\ call.keys # {}
  /\ w \notin DOMAIN completion
  /\ LET k == Min(call.keys) IN
     /\ Submitted(w, k, call.epoch, call.root)
     /\ call' = IF call.keys = {k} THEN None ELSE [call EXCEPT !.keys = @ \ {k}]
     /\ protected_keys' = IF call.protect THEN protected_keys \cup {k} ELSE protected_keys
  /\ UNCHANGED <<indexVars, files, rootVars, cache_limit, page_epoch, current_epoch,
                 sweepVars, migrationVars, spent>>

NothingToDo ==
  /\ call.at = "submit" /\ call.cancel = {} /\ call.keys = {}
  /\ call' = None
  /\ UNCHANGED <<indexVars, files, rootVars, cache_limit, protected_keys,
                 schedulerVars, completion, sweepVars, migrationVars, spent>>

\* regenerate: the file, then the row, are deleted before it classifies.
Regenerate(k) ==
  /\ call = None
  /\ files' = [files EXCEPT ![cache_root] = @ \ {k}]
  /\ RemoveRows({k})
  /\ call' = [at |-> "classify", epoch |-> page_epoch, root |-> cache_root, key |-> k]
  /\ UNCHANGED <<rootVars, cache_limit, protected_keys, schedulerVars, completion,
                 sweepVars, migrationVars, spent>>

\* retry starts here.
Retry(k) ==
  /\ call = None
  /\ call' = [at |-> "classify", epoch |-> page_epoch, root |-> cache_root, key |-> k]
  /\ UNCHANGED <<indexVars, files, rootVars, cache_limit, protected_keys,
                 schedulerVars, completion, sweepVars, migrationVars, spent>>

\* resubmit, under the lock.  The key is protected when it is submitted.
Classify ==
  /\ call.at = "classify"
  /\ LET k == call.key
         hit == k \in Rows /\ k \in files[call.root]
     IN  /\ IF hit THEN UNCHANGED indexVars ELSE RemoveRows({k})
         /\ \/ call' = None    \* cached, or shown as it is
            \/ /\ ~ hit
               /\ call' = [at |-> "submit", epoch |-> call.epoch, root |-> call.root,
                           protect |-> TRUE, cancel |-> {}, keys |-> {k}]
  /\ UNCHANGED <<files, rootVars, cache_limit, protected_keys, schedulerVars,
                 completion, sweepVars, migrationVars, spent>>

-----------------------------------------------------------------------------
(***************************************************************************)
(* Completions.                                                            *)
(***************************************************************************)

\* spawn_completion, under the lock, for a generated thumbnail: the row is
\* written, then old ones make room.
Store(w) ==
  /\ completion[w].at = "cached"
  /\ LET me == completion[w]
         index == Upserted(me.key)
         protected == protected_keys \ {me.key}
         gone == Evicted(index, me.limit, protected \cup {me.key})
     IN  /\ protected_keys' = protected
         /\ rows' = SelectSeq(index.rows, LAMBDA k : k \notin gone)
         /\ total' = index.total - Bytes(gone)
         /\ completion' = [completion EXCEPT ![w].at = "tell", ![w].files = gone]
  /\ UNCHANGED <<files, rootVars, cache_limit, schedulerVars, call, sweepVars,
                 migrationVars, spent>>

\* The files of the evicted rows are deleted and the event sent, both without
\* the lock.
Tell(w) ==
  /\ completion[w].at = "tell"
  /\ files' = [files EXCEPT ![completion[w].root] = @ \ completion[w].files]
  /\ completion' = Without(completion, {w})
  /\ UNCHANGED <<indexVars, rootVars, cache_limit, protected_keys, schedulerVars,
                 call, sweepVars, migrationVars, spent>>

\* A failure is told, an outdated job ends in silence; there is nothing to
\* store.
EndWithout(w) ==
  /\ completion[w].at \in {"failed", "stale"}
  /\ protected_keys' = protected_keys \ {completion[w].key}
  /\ completion' = Without(completion, {w})
  /\ UNCHANGED <<indexVars, files, rootVars, cache_limit, schedulerVars, call,
                 sweepVars, migrationVars, spent>>

-----------------------------------------------------------------------------
(***************************************************************************)
(* Upkeep: evict_now and sample_dirty.                                     *)
(***************************************************************************)

Sweep ==
  /\ spent.sweeps < MaxSweeps
  /\ spent' = [spent EXCEPT !.sweeps = @ + 1]

\* evict_now reads root, limit and protected keys before it takes the lock.
EvictNow ==
  /\ upkeep = None /\ Sweep
  /\ upkeep' = [at |-> "evict", root |-> cache_root, limit |-> cache_limit,
                keys |-> protected_keys]
  /\ UNCHANGED <<indexVars, files, rootVars, cache_limit, protected_keys,
                 schedulerVars, completion, call, clearing, migrationVars>>

EvictRows ==
  /\ upkeep.at = "evict"
  /\ LET gone == Evicted([rows |-> rows, total |-> total], upkeep.limit, upkeep.keys)
     IN  /\ RemoveRows(gone)
         /\ upkeep' = [upkeep EXCEPT !.at = "delete", !.keys = gone]
  /\ UNCHANGED <<files, rootVars, cache_limit, protected_keys, schedulerVars,
                 completion, call, clearing, migrationVars, spent>>

EvictFiles ==
  /\ upkeep.at = "delete"
  /\ files' = [files EXCEPT ![upkeep.root] = @ \ upkeep.keys]
  /\ upkeep' = [at |-> "sample"]
  /\ UNCHANGED <<indexVars, rootVars, cache_limit, protected_keys, schedulerVars,
                 completion, call, clearing, migrationVars, spent>>

\* sample_dirty reads the rows (as many as there are in an instance), looks for
\* their files, and removes those that had none.
Sample ==
  /\ upkeep.at = "sample"
  /\ upkeep' = [at |-> "look", root |-> cache_root, keys |-> Rows]
  /\ UNCHANGED <<indexVars, files, rootVars, cache_limit, protected_keys,
                 schedulerVars, completion, call, clearing, migrationVars, spent>>

Look ==
  /\ upkeep.at = "look"
  /\ upkeep' = [upkeep EXCEPT !.at = "purge", !.keys = @ \ files[upkeep.root]]
  /\ UNCHANGED <<indexVars, files, rootVars, cache_limit, protected_keys,
                 schedulerVars, completion, call, clearing, migrationVars, spent>>

Purge ==
  /\ upkeep.at = "purge"
  /\ RemoveRows(upkeep.keys)
  /\ upkeep' = None
  /\ UNCHANGED <<files, rootVars, cache_limit, protected_keys, schedulerVars,
                 completion, call, clearing, migrationVars, spent>>

-----------------------------------------------------------------------------
(***************************************************************************)
(* The commands of the settings page.                                      *)
(***************************************************************************)
SetLimit(limit) ==
  /\ cache_limit # limit /\ cache_limit' = limit
  /\ UNCHANGED <<indexVars, files, rootVars, protected_keys, schedulerVars,
                 completion, call, sweepVars, migrationVars, spent>>

\* invalidate_cache_keys: the files of existing rows, then the rows.
Invalidate(K) ==
  /\ files' = [files EXCEPT ![cache_root] = @ \ (K \cap Rows)]
  /\ RemoveRows(K)
  /\ UNCHANGED <<rootVars, cache_limit, protected_keys, schedulerVars, completion,
                 call, sweepVars, migrationVars, spent>>

\* clear cancels the jobs and forgets the protected keys, ...
Clear ==
  /\ clearing = None /\ Sweep
  /\ CancelAll
  /\ protected_keys' = {}
  /\ clearing' = [at |-> "list", root |-> cache_root, keys |-> {}]
  /\ UNCHANGED <<indexVars, files, rootVars, cache_limit, call, upkeep,
                 migrationVars>>

\* ... lists the rows, ...
ClearLists ==
  /\ clearing.at = "list"
  /\ clearing' = [clearing EXCEPT !.at = "delete", !.keys = Rows]
  /\ UNCHANGED <<indexVars, files, rootVars, cache_limit, protected_keys,
                 schedulerVars, completion, call, upkeep, migrationVars, spent>>

\* ... deletes their files without the lock, ...
ClearDeletes ==
  /\ clearing.at = "delete"
  /\ files' = [files EXCEPT ![clearing.root] = @ \ clearing.keys]
  /\ clearing' = [clearing EXCEPT !.at = "empty"]
  /\ UNCHANGED <<indexVars, rootVars, cache_limit, protected_keys, schedulerVars,
                 completion, call, upkeep, migrationVars, spent>>

\* ... and empties the table.
ClearEmpties ==
  /\ clearing.at = "empty"
  /\ rows' = <<>> /\ total' = 0 /\ clearing' = None
  /\ UNCHANGED <<files, rootVars, cache_limit, protected_keys, schedulerVars,
                 completion, call, upkeep, migrationVars, spent>>

-----------------------------------------------------------------------------
(***************************************************************************)
(* Moving the cache.  The manifest in the target directory lists the files *)
(* that are copied; after a crash or a cancellation a further start reads  *)
(* it and goes on.                                                         *)
(***************************************************************************)
cacheVars == <<indexVars, cache_limit, call, sweepVars>>

\* start_migration: the page starts one at a time.
StartMigration(target, mode) ==
  /\ migration = None
  /\ spent.moves < MaxMigrations /\ spent' = [spent EXCEPT !.moves = @ + 1]
  /\ migration' = [at |-> "plan", source |-> cache_root, target |-> target,
                   mode |-> mode, todo |-> {}, planned |-> {}, completed |-> {}]
  /\ migration_cancel' = FALSE
  /\ CancelAll
  /\ UNCHANGED <<cacheVars, files, rootVars, protected_keys, manifest,
                 migration_state>>

\* save_manifest writes a .tmp file and renames it: the file is never torn.
Save(phase, completed) ==
  manifest' = [manifest EXCEPT ![migration.target] =
                 [at |-> phase, completed |-> completed]]

\* An error other than a cancellation forgets the state, not the manifest.
Fail == migration' = None /\ migration_state' = None

Report(phase) == migration_state' = [at |-> phase, target |-> migration.target]

\* validate_target, load_manifest and plan_migration.  `planned' is for the
\* properties alone: the code keeps the list, not what became of it.
Plan ==
  /\ migration.at = "plan"
  /\ \/ /\ migration.target = migration.source
        /\ migration' = None
        /\ UNCHANGED <<manifest, migration_state>>
     \/ LET old == manifest[migration.target]
            completed == IF old = None THEN {} ELSE old.completed
        IN  /\ migration.target # migration.source
            /\ Save("moving", completed)
            /\ Report("moving")
            /\ migration' = [migration EXCEPT !.at = "copy",
                               !.todo = files[migration.source],
                               !.planned = files[migration.source],
                               !.completed = completed]
  /\ UNCHANGED <<cacheVars, files, rootVars, protected_keys, schedulerVars,
                 completion, migration_cancel, spent>>

\* The file is copied to a .tmp file, checked, renamed and noted.
Copied(k) ==
  /\ k \in files[migration.source]
  /\ files' = [files EXCEPT ![migration.target] = @ \cup {k}]
  /\ migration' = [migration EXCEPT !.todo = @ \ {k}, !.completed = @ \cup {k}]
  /\ Save("moving", migration.completed \cup {k})
  /\ UNCHANGED migration_state

\* Mutant of CopyFails: the file is tried again.
CopyFailsNever(k) ==
  /\ k \notin files[migration.source]
  /\ UNCHANGED <<files, manifest, migration, migration_state>>

\* A file of the list that is gone by now, or cannot be copied, fails the
\* migration.
CopyFails(k) ==
  /\ Fail
  /\ UNCHANGED <<files, manifest>>

Skipped(k) ==
  /\ migration' = [migration EXCEPT !.todo = @ \ {k}]
  /\ UNCHANGED <<files, manifest, migration_state>>

\* Mutant of StopCopying: the loop is left, and what follows it is not.
StopCopyingOnly ==
  /\ migration' = [migration EXCEPT !.todo = {}]
  /\ UNCHANGED <<manifest, migration_state>>

StopCopying ==
  /\ Save("cancelled", migration.completed)
  /\ Report("cancelled")
  /\ migration' = None

CopyNext ==
  /\ migration.at = "copy" /\ migration.todo # {}
  /\ IF migration_cancel
       THEN StopCopying /\ UNCHANGED files
       ELSE \E k \in migration.todo :
              IF k \in migration.completed THEN Skipped(k)
              ELSE Copied(k) \/ CopyFails(k)
  /\ UNCHANGED <<cacheVars, rootVars, protected_keys, schedulerVars, completion,
                 migration_cancel, spent>>

\* Every file of the manifest is in the target.
Verified == migration.completed \subseteq files[migration.target]

Verify ==
  /\ migration.at = "copy" /\ migration.todo = {}
  /\ \/ /\ Verified
        /\ Save("completed", migration.completed)
        /\ Report("completed")
        /\ migration' = [migration EXCEPT !.at = "switch"]
     \/ /\ ~ Verified
        /\ Fail
        /\ Save("verifying", migration.completed)
  /\ UNCHANGED <<cacheVars, files, rootVars, protected_keys, schedulerVars,
                 completion, migration_cancel, spent>>

SwitchRoot ==
  /\ migration.at = "switch"
  /\ cache_root' = migration.target
  /\ migration' = [migration EXCEPT !.at = "persist"]
  /\ UNCHANGED <<cacheVars, files, setting, protected_keys, schedulerVars,
                 completion, manifest, migration_state, migration_cancel, spent>>

\* The settings are written, or the write fails and nobody looks: the commit
\* follows all the same.
PersistRoot ==
  /\ migration.at = "persist"
  /\ setting' \in {setting, migration.target}
  /\ migration' = [migration EXCEPT !.at = "commit"]
  /\ UNCHANGED <<cacheVars, files, cache_root, protected_keys, schedulerVars,
                 completion, manifest, migration_state, migration_cancel, spent>>

\* Mutant of CommitMigration: the migration that is over stays on offer for a
\* roll-back.
CommitKeepsState ==
  /\ migration.at = "commit"
  /\ files' = IF migration.mode = "move"
                THEN [files EXCEPT ![migration.source] = {}] ELSE files
  /\ manifest' = [manifest EXCEPT ![migration.target] = None]
  /\ migration' = None
  /\ UNCHANGED <<cacheVars, rootVars, protected_keys, schedulerVars, completion,
                 migration_state, migration_cancel, spent>>

\* commit_migration: a move deletes every file that is in the source by now.
CommitMigration ==
  /\ migration.at = "commit"
  /\ files' = IF migration.mode = "move"
                THEN [files EXCEPT ![migration.source] = {}] ELSE files
  /\ manifest' = [manifest EXCEPT ![migration.target] = None]
  /\ migration_state' = None
  /\ migration' = None
  /\ UNCHANGED <<cacheVars, rootVars, protected_keys, schedulerVars, completion,
                 migration_cancel, spent>>

CancelMigration ==
  /\ ~ migration_cancel
  /\ migration_cancel' = TRUE
  /\ UNCHANGED <<cacheVars, files, rootVars, protected_keys, schedulerVars,
                 completion, migration, manifest, migration_state, spent>>

\* rollback_migration, offered by the page for a migration it finds unfinished
\* when it opens.
RollBack ==
  /\ migration_state # None
  /\ LateRollBack \/ migration = None
  /\ files' = [files EXCEPT ![migration_state.target] = {}]
  /\ manifest' = [manifest EXCEPT ![migration_state.target] = None]
  /\ migration_state' = None
  /\ UNCHANGED <<cacheVars, rootVars, protected_keys, schedulerVars, completion,
                 migration, migration_cancel, spent>>

\* The program ends and is started again: database and files remain.
Crash ==
  /\ spent.crashes < MaxCrashes
  /\ spent' = [spent EXCEPT !.crashes = @ + 1]
  /\ cache_root' = setting
  /\ protected_keys' = {}
  /\ page_epoch' = 1 /\ current_epoch' = 1 /\ max_task_epoch' = 0 /\ jobs' = EmptyMap
  /\ completion' = EmptyMap /\ call' = None
  /\ upkeep' = None /\ clearing' = None /\ migration' = None
  /\ migration_state' = None /\ migration_cancel' = FALSE
  /\ UNCHANGED <<indexVars, files, setting, cache_limit, manifest>>

-----------------------------------------------------------------------------
Init ==
  /\ rows = InKeyOrder(Cached) /\ total = Bytes(Cached)
  /\ files = [r \in Roots |-> IF r = HomeRoot THEN Cached ELSE {}]
  /\ cache_root = HomeRoot /\ setting = HomeRoot
  /\ cache_limit \in Limits
  /\ protected_keys = {}
  /\ page_epoch = 1 /\ current_epoch = 1 /\ max_task_epoch = 0 /\ jobs = EmptyMap
  /\ completion = EmptyMap /\ call = None
  /\ upkeep = None /\ clearing = None
  /\ migration = None /\ manifest = [r \in Roots |-> None]
  /\ migration_state = None /\ migration_cancel = FALSE
  /\ spent = [crashes |-> 0, moves |-> 0, sweeps |-> 0]

Requests ==
  \/ \E ask \in Asks : Request(ask.visible, ask.originals, ask.others)
  \/ CancelOriginals \/ NothingToDo
  \/ \E w \in Receivers : Submit(w)
  \/ \E k \in Refreshable : Regenerate(k) \/ Retry(k)
  \/ Classify
  \/ \E e \in 1 .. MaxEpoch : NewEpoch(e)

Completions == \E w \in DOMAIN completion : Store(w) \/ Tell(w) \/ EndWithout(w)

Jobs(k) == Start(k) \/ Generate(k) \/ GenerateFails(k) \/ JobEnds(k)

Upkeep == EvictRows \/ EvictFiles \/ Sample \/ Look \/ Purge

Clearing == ClearLists \/ ClearDeletes \/ ClearEmpties

Settings ==
  \/ \E limit \in Limits : SetLimit(limit)
  \/ \E k \in Refreshable : Invalidate({k})

Migrating == Plan \/ CopyNext \/ Verify \/ SwitchRoot \/ PersistRoot \/ CommitMigration

Next ==
  \/ Requests
  \/ \E k \in Keys : Jobs(k)
  \/ Completions
  \/ Settings
  \/ EvictNow \/ Upkeep
  \/ Clear \/ Clearing
  \/ \E target \in Roots, mode \in {"move", "copy"} : StartMigration(target, mode)
  \/ Migrating \/ CancelMigration \/ RollBack
  \/ Crash

Spec == Init /\ [][Next]_vars

(***************************************************************************)
(* Fairness: jobs run and end, spawned tasks and blocking threads go on.   *)
(* Nothing is assumed of the user.                                         *)
(***************************************************************************)
Fairness ==
  /\ \A k \in Keys : WF_vars(Jobs(k))
  /\ \A w \in Receivers : WF_vars(w \in DOMAIN completion /\ (Store(w) \/ Tell(w) \/ EndWithout(w)))
  /\ WF_vars(Upkeep) /\ WF_vars(Clearing) /\ WF_vars(Migrating)

FairSpec == Spec /\ Fairness

-----------------------------------------------------------------------------
(***************************************************************************)
(* Properties.                                                             *)
(***************************************************************************)
Job == [at : {"queued", "running", "ok", "failed"}, epoch : 0 .. MaxEpoch,
        root : Roots, stale : BOOLEAN]

Completion ==
  [at : {"wait", "cached", "failed", "stale", "tell"}, key : Keys, root : Roots,
   limit : Limits, files : SUBSET Keys]

\* The tables hold what their columns and the Rust types say; a row is there
\* once.
CacheTypeOK ==
  /\ rows \in Seq(Keys) /\ IsInjective(rows) /\ total \in Nat
  /\ files \in [Roots -> SUBSET Keys] /\ cache_root \in Roots /\ setting \in Roots
  /\ cache_limit \in Limits /\ protected_keys \subseteq Keys
  /\ page_epoch \in 1 .. MaxEpoch /\ current_epoch \in 1 .. MaxEpoch + 1 /\ max_task_epoch \in 0 .. MaxEpoch
  /\ DOMAIN jobs \subseteq Keys /\ \A k \in DOMAIN jobs : jobs[k] \in Job
  /\ DOMAIN completion \subseteq Receivers
  /\ \A w \in DOMAIN completion : completion[w] \in Completion
  /\ migration_state.at \in {"none", "moving", "cancelled", "completed"}

\* The counter that decides about eviction is the size of what is in the index,
\* whatever removed and replaced rows in between.
TotalExact == total = Bytes(Rows)

\* A job waits for somebody, and whoever waits has a job: no request is
\* forgotten between queue, generator and answer.
WaitersHaveJobs ==
  \A w \in DOMAIN completion : completion[w].at = "wait" => completion[w].key \in DOMAIN jobs

\* Room is made for a new thumbnail by the oldest rows that are neither visible
\* nor the new one, by no more of them than it takes, and as long as there are
\* any, so that the cache is below its limit or all of it is protected.
EvictsOldest ==
  [][\A w \in Receivers :
       w \in DOMAIN completion /\ completion[w].at = "cached" /\ Store(w) =>
         LET spared == protected_keys' \cup {completion[w].key}
             gone == completion'[w].files
         IN  /\ gone \cap spared = {}
             /\ \A i \in DOMAIN rows :
                  rows[i] \in gone =>
                    /\ \A j \in 1 .. i - 1 : rows[j] \in gone \cup spared
                    /\ (\A j \in i + 1 .. Len(rows) : rows[j] \notin gone) =>
                         total' + Size[rows[i]] > (completion[w].limit * 8) \div 10
             /\ total' <= completion[w].limit \/ ToSet(rows') \subseteq spared]_vars

\* Whoever waits for a thumbnail gets an answer, and what is answered is
\* stored and told.
CompletionsEnd ==
  \A w \in Receivers : w \in DOMAIN completion ~> w \notin DOMAIN completion

\* Nothing a migration does, and no roll-back of one, takes a file from the root
\* in use: the old directory is emptied only once the program reads the new one,
\* the new one only while the program reads the old one, whatever failed, was
\* cancelled or was started again before.
RootInUseKept ==
  [][Migrating \/ RollBack => files[cache_root] \subseteq files'[cache_root]]_vars

\* Until the new root is the one a restart will use, a migration takes nothing
\* away from the old one ("loaded from the new place after a restart",
\* service.rs:1256).  Not so where the write of the settings fails: the result
\* is thrown away (service.rs:1260), a move empties the old directory, and a
\* restart goes back to it.
SourceKept ==
  [][migration # None /\ setting # migration.target /\ Migrating =>
       files[migration.source] \subseteq files'[migration.source]]_vars

\* The root is switched only when every file of the plan that is still in the
\* old directory is in the new one, in one go or after cancellations, failures
\* and restarts.
SwitchesWhenComplete ==
  [][SwitchRoot =>
       migration.planned \cap files[migration.source] \subseteq
         files[migration.target]]_vars

\* clear cancels the jobs first so that none of them writes back what it has
\* emptied (service.rs:1164): where no job of a newer epoch runs, nobody is left
\* who is about to store a thumbnail.
NotWrittenBack ==
  [][ClearEmpties => \A w \in DOMAIN completion : completion[w].at # "cached"]_vars

\* A migration that is rolled back leaves the cache where it was.
RolledBackStays ==
  [][SwitchRoot => migration_state # None]_vars

\* The migration ends, whatever was cancelled, deleted or restarted.
MigrationEnds == migration # None ~> migration = None
=============================================================================
