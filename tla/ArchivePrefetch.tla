--------------------------- MODULE ArchivePrefetch ---------------------------
(* Downloads ahead of remote archives in view: the page that tells of its    *)
(* windows (useArchiveWindowPrefetch.ts), the commands they travel by        *)
(* (commands/archive_prefetch.rs) and the prefetcher that works through them *)
(* (source/archive/prefetch.rs). Its downloads are those of Materializer,    *)
(* seen here as calls that begin and end.                                    *)
EXTENDS Integers, Sequences, FiniteSets

CONSTANTS
    Windows,   \* the lists of archives a window may show; <<>> for none
    Supported, \* archives of a format the reader knows
    MaxEpoch,  \* bound: windows told
    MaxOff     \* bound: times the setting is switched off

VARIABLES
    epoch_seq, \* archiveEpochSeq of the page
    timer,     \* the window the debounce holds back, or Still
    mounted,   \* whether the page shows the view
    sent,      \* commands on their way, in no order
    enabled,   \* whether prefetching is on
    offs,      \* times it was switched off, for the bound alone
    epoch,     \* of the materializer
    batches,   \* epoch -> [rels, call]: rels not begun yet, call: the one under way
    newest     \* history: the last epoch told while prefetching was on

prefetchVars == <<epoch_seq, timer, mounted, sent, enabled, offs, epoch, batches, newest>>

Still == <<"no window">>
NoCall == "no call"
serverVars == <<enabled, offs, epoch, batches, newest>>

------------------------------------------------------------------------------
(* The page.                                                                 *)
Schedule(window) ==
    /\ mounted /\ timer' = window
    /\ UNCHANGED <<epoch_seq, mounted, sent, serverVars>>

Sends(window) ==
    /\ epoch_seq < MaxEpoch
    /\ epoch_seq' = epoch_seq + 1
    /\ sent' = sent \cup {[epoch |-> epoch_seq + 1, rels |-> window]}

DebounceEnds ==
    /\ timer # Still /\ timer' = Still /\ Sends(timer)
    /\ UNCHANGED <<mounted, serverVars>>

(* What the debounce holds goes, and an empty window is told at once.        *)
Dispose ==
    /\ mounted /\ mounted' = FALSE /\ timer' = Still /\ Sends(<<>>)
    /\ UNCHANGED serverVars

Mount ==
    /\ ~mounted /\ mounted' = TRUE
    /\ UNCHANGED <<epoch_seq, timer, sent, serverVars>>

------------------------------------------------------------------------------
(* The prefetcher.                                                           *)
SetEnabled(value) ==
    /\ enabled # value /\ enabled' = value
    /\ value \/ offs < MaxOff
    /\ offs' = IF value THEN offs ELSE offs + 1
    /\ UNCHANGED <<epoch_seq, timer, mounted, sent, epoch, batches, newest>>

(* Mutant of Advance: the epoch is the one that came last.                   *)
AdvanceStored(e) == epoch' = e

Advance(e) == epoch' = IF e > epoch THEN e ELSE epoch

NotifyWindow(command) ==
    /\ sent' = sent \ {command}
    /\ IF ~enabled THEN UNCHANGED <<epoch, batches, newest>>
       ELSE /\ Advance(command.epoch)
            /\ batches' = [e \in DOMAIN batches \cup {command.epoch} |->
                             IF e = command.epoch THEN [rels |-> command.rels, call |-> NoCall] ELSE batches[e]]
            /\ newest' = IF command.epoch > newest THEN command.epoch ELSE newest
    /\ UNCHANGED <<epoch_seq, timer, mounted, enabled, offs>>

Ended(e) == [o \in DOMAIN batches \ {e} |-> batches[o]]

(* The next of a batch: nothing more of one that is outdated or switched     *)
(* off, and no call for a format unknown. ensure_cached_cancellable compares *)
(* the epoch once more before it registers.                                  *)
NextRel(e) ==
    LET batch == batches[e] IN
    /\ batch.call = NoCall
    /\ batches' = IF batch.rels = <<>> \/ epoch # e \/ ~enabled THEN Ended(e)
                  ELSE [batches EXCEPT ![e] = [rels |-> Tail(@.rels),
                          call |-> IF Head(@.rels) \in Supported THEN Head(@.rels) ELSE NoCall]]
    /\ UNCHANGED <<epoch_seq, timer, mounted, sent, enabled, offs, epoch, newest>>

(* The call ends, cancelled when its epoch is over.                          *)
CallEnds(e) ==
    /\ batches[e].call # NoCall
    /\ batches' = [batches EXCEPT ![e].call = NoCall]
    /\ UNCHANGED <<epoch_seq, timer, mounted, sent, enabled, offs, epoch, newest>>

------------------------------------------------------------------------------
PrefetchInit ==
    /\ epoch_seq = 0 /\ timer = Still /\ mounted = TRUE /\ sent = {}
    /\ enabled = TRUE /\ offs = 0 /\ epoch = 0 /\ batches = [e \in {} |-> Still] /\ newest = 0

Prefetches == \E e \in DOMAIN batches : NextRel(e) \/ CallEnds(e)

PrefetchNext ==
    \/ \E window \in Windows : Schedule(window)
    \/ DebounceEnds \/ Dispose \/ Mount
    \/ \E value \in BOOLEAN : SetEnabled(value)
    \/ \E command \in sent : NotifyWindow(command)
    \/ Prefetches

PrefetchSpec == PrefetchInit /\ [][PrefetchNext]_prefetchVars

------------------------------------------------------------------------------
(* A download begins only for the newest window that was told while          *)
(* prefetching was on, and while it is on, in whatever order the windows     *)
(* arrive (notify_window, advance_epoch).                                    *)
BeginsCall(e) == e \in DOMAIN batches' /\ batches'[e].call # NoCall
             /\ (e \in DOMAIN batches => batches[e].call # batches'[e].call)

BeginsForNewest == [][\A e \in 1 .. MaxEpoch : BeginsCall(e) => e = newest /\ enabled]_prefetchVars

(* Once the view is gone and has told so, nothing begins. The code does not  *)
(* keep this: what is told while prefetching is off is not even an epoch, so *)
(* that the batch of the view goes on when it is switched on again.          *)
GoneBeginsNothing == [][~mounted /\ sent = {} => \A e \in 1 .. MaxEpoch : ~BeginsCall(e)]_prefetchVars
=============================================================================
