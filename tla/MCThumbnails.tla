----------------------------- MODULE MCThumbnails -----------------------------
(* The thumbnail cache, checked in one run on three instances: "focus" says   *)
(* which of them a behaviour is one of.                                       *)
(*   epochs  the page moves on; requests, retries, completions, evictions     *)
(*   sweeps  without retries, beside a round of upkeep or a clear             *)
(*   moves   two migrations and a restart of the program, beside retries      *)
EXTENDS Integers, Sequences, FiniteSets, TLC

CONSTANTS r1, r2, w1, SomeAsks

VARIABLES focus,
          rows, total, files, cache_root, setting, cache_limit, protected_keys, page_epoch, current_epoch,
          max_task_epoch, jobs, completion, call, upkeep, clearing, migration, manifest, migration_state,
          migration_cancel, spent

\* Of three thumbnails two fit, of two both.
Epochs == INSTANCE ThumbnailCache
            WITH Keys <- 1..3, Size <- [k \in 1..3 |-> 10], Roots <- {r1}, HomeRoot <- r1,
                 Cached <- {}, Refreshable <- {1}, Receivers <- {w1}, Asks <- SomeAsks, Limits <- {20}, LateRollBack <- FALSE,
                 MaxEpoch <- 2, MaxSweeps <- 0, MaxMigrations <- 0, MaxCrashes <- 0

Sweeps == INSTANCE ThumbnailCache
            WITH Keys <- 1..3, Size <- [k \in 1..3 |-> 10], Roots <- {r1}, HomeRoot <- r1,
                 Cached <- {}, Refreshable <- {}, Receivers <- {w1}, Asks <- SomeAsks, Limits <- {20}, LateRollBack <- FALSE,
                 MaxEpoch <- 2, MaxSweeps <- 1, MaxMigrations <- 0, MaxCrashes <- 0

Moves == INSTANCE ThumbnailCache
           WITH Keys <- 1..2, Size <- [k \in 1..2 |-> 10], Roots <- {r1, r2}, HomeRoot <- r1,
                Cached <- {1, 2}, Refreshable <- {1}, Receivers <- {w1}, Asks <- {}, Limits <- {20}, LateRollBack <- FALSE,
                MaxEpoch <- 1, MaxSweeps <- 0, MaxMigrations <- 2, MaxCrashes <- 1

\* The first image is seen to be small later on.
Ask(v, o, g) == [visible |-> v, originals |-> o, others |-> g]
MCSomeAsks == {Ask({1}, {}, {2}), Ask({}, {}, {3}), Ask({}, {1}, {})}

ASSUME Assumed == Epochs!CacheAssumption /\ Sweeps!CacheAssumption /\ Moves!CacheAssumption

vars == <<focus, rows, total, files, cache_root, setting, cache_limit, protected_keys, page_epoch, current_epoch,
          max_task_epoch, jobs, completion, call, upkeep, clearing, migration, manifest, migration_state,
          migration_cancel, spent>>

Init == \/ focus = "epochs" /\ Epochs!Init
        \/ focus = "sweeps" /\ Sweeps!Init
        \/ focus = "moves" /\ Moves!Init

EpochsStep == focus = "epochs" /\ UNCHANGED focus /\ Epochs!Next
SweepsStep == focus = "sweeps" /\ UNCHANGED focus /\ Sweeps!Next
MovesStep == focus = "moves" /\ UNCHANGED focus /\ Moves!Next

\* The fairness of the three instances, which is the same.
JobGoesOn(k) == UNCHANGED focus /\ (\/ focus = "epochs" /\ Epochs!Jobs(k)
                                    \/ focus = "sweeps" /\ Sweeps!Jobs(k)
                                    \/ focus = "moves" /\ k \in 1..2 /\ Moves!Jobs(k))
CompletionGoesOn == UNCHANGED focus /\ (\/ focus = "epochs" /\ Epochs!Completions
                                        \/ focus = "sweeps" /\ Sweeps!Completions
                                        \/ focus = "moves" /\ Moves!Completions)

Spec ==
    /\ Init /\ [][EpochsStep \/ SweepsStep \/ MovesStep]_vars
    /\ \A k \in 1..3 : WF_vars(JobGoesOn(k))
    /\ WF_vars(CompletionGoesOn)
    /\ WF_vars(UNCHANGED focus /\ focus = "sweeps" /\ Sweeps!Upkeep)
    /\ WF_vars(UNCHANGED focus /\ focus = "sweeps" /\ Sweeps!Clearing)
    /\ WF_vars(UNCHANGED focus /\ focus = "moves" /\ Moves!Migrating)

(* The properties use no constant the instances differ in, except Moves' own. *)

(* Room is made by the oldest rows that are not protected, and by no more of *)
(* them than it takes, because the counter that decides about it is what the *)
(* index holds (ThumbnailCache: evict_to_limit; upsert, remove,              *)
(* remove_batch, clear_all, get_verified).                                   *)
EvictionExact == []Epochs!TotalExact /\ Epochs!EvictsOldest

(* Whoever waits for a thumbnail gets an answer, and a migration ends,       *)
(* whatever was cancelled, deleted or restarted (ThumbnailCache:             *)
(* spawn_completion, start_migration).                                       *)
ThumbnailsEnd == Epochs!CompletionsEnd /\ Moves!MigrationEnds

(* Whatever fails, is cancelled or started again, neither a migration nor its *)
(* roll-back takes a file from the root in use, and the root is switched only *)
(* when no file of the plan is left behind (ThumbnailCache: run_migration,    *)
(* commit_migration, rollback_migration).                                     *)
MoveLosesNothing == Moves!RootInUseKept /\ Moves!SwitchesWhenComplete
==============================================================================
