------------------------------- MODULE MCRemote -------------------------------
(* The machines that bring bytes from a remote source, checked in one run:   *)
(* "focus" names the one whose steps a behaviour takes, the others rest in   *)
(* their first state. None of the properties is about two of them. The       *)
(* blocks and the calls of SMB are extended, the others are instances.       *)
(*   pages    the cache of media, for two pages of which one or two fit      *)
(*   blocks   the blocks of a remote zip                                     *)
(*   fetches  the fetch actor of remote thumbnails                           *)
(*   smb      calls of an SMB source                                         *)
EXTENDS RangeBlocks, SmbReads

CONSTANTS p, q, huge, one, two, SizeOf, ImageSize

VARIABLES focus,
          pageAccount, lru, inflight, tasks, session, edits,
          epoch, mailbox, fetching, cancelled, permits, budget, fetches, sent, owed

Media == INSTANCE MediaCache
           WITH Pages <- {p, q}, Cap <- 3, LocalPages <- {}, Tasks <- {one, two},
                MaxEdits <- 0, Sessions <- {1, 2}, account <- pageAccount

Fetch == INSTANCE RemoteFetch
           WITH Keys <- {p, q, huge}, FileSize <- ImageSize, Concurrency <- 1, Budget <- 4, MaxEpoch <- 1,
                MaxRequests <- 3, MaxCancels <- 1, inflight <- fetching, tasks <- fetches

\* Of two pages one or two fit.
MCSizeOf == p :> 1 @@ q :> 2
\* Two images that fit the budget one at a time, and one that is larger.
MCImageSize == p :> 2 @@ q :> 3 @@ huge :> 9
\* Two tasks read, and one clears.
MCTasks == {one, two}
MCClearers == {1}
\* Seeks in a file of five bytes in blocks of two, the last one short, of which two fit.
MCBuffers == {2}
MCTargets == {0, -2}
\* The root of the share and a folder in it.
MCShares == <<"s", "other">>
MCInitials == {<<>>, <<"s", "d">>}
MCPaths == {<<"f">>}

mediaVars == <<pageAccount, lru, inflight, tasks, session, edits>>
fetchVars == <<epoch, mailbox, fetching, cancelled, permits, budget, fetches, sent, owed>>
remoteVars == <<focus, mediaVars, zipVars, fetchVars, smbVars>>

RemoteInit == /\ focus \in {"pages", "blocks", "fetches", "smb"}
              /\ Media!MediaInit /\ ZipInit /\ Fetch!Init /\ SmbInit

OnlyMedia == focus = "pages" /\ UNCHANGED <<focus, zipVars, fetchVars, smbVars>>
OnlyZip == focus = "blocks" /\ UNCHANGED <<focus, mediaVars, fetchVars, smbVars>>
OnlyFetch == focus = "fetches" /\ UNCHANGED <<focus, mediaVars, zipVars, smbVars>>
OnlySmb == focus = "smb" /\ UNCHANGED <<focus, mediaVars, zipVars, fetchVars>>

PagesStep == OnlyMedia /\ Media!MediaNext
BlocksStep == OnlyZip /\ ZipNext
FetchesStep == OnlyFetch /\ Fetch!Next
SmbStep == OnlySmb /\ SmbNext

(* The fairness of the machines: their tasks run (those of the fetch actor   *)
(* are numbered), and the actor takes its mail.                              *)
Runs(t, n) == \/ OnlyMedia /\ Media!Moves(t)
              \/ OnlyZip /\ ReaderMoves(t)
              \/ OnlyFetch /\ Fetch!Moves(n)
              \/ OnlySmb /\ SmbMoves(t)

FetchesRun == OnlyFetch /\ Fetch!Moves(3)
Receives == OnlyFetch /\ Fetch!Receive

RemoteSpec == /\ RemoteInit /\ [][PagesStep \/ BlocksStep \/ FetchesStep \/ SmbStep]_remoteVars
              /\ WF_remoteVars(Runs(one, 1)) /\ WF_remoteVars(Runs(two, 2))
              /\ WF_remoteVars(FetchesRun) /\ WF_remoteVars(Receives)

(* Nobody waits for ever: a request for a page is answered (MediaCache), who  *)
(* sleeps for somebody's load is woken (RangeBlocks), who is owed a thumbnail *)
(* gets an answer while his epoch lasts, unless the lines for permits and     *)
(* bytes have crossed (RemoteFetch), and a permit of the gate comes back      *)
(* (SmbReads).                                                                *)
Waits(t, key) == Media!Waits(t) \/ Sleeps(t) \/ HoldsPermit(t) \/ Fetch!Waits(key)

NobodyWaitsForEver ==
    /\ Waits(one, p) ~> ~Waits(one, p) \/ Fetch!Crossed
    /\ Waits(two, q) ~> ~Waits(two, q) \/ Fetch!Crossed
    /\ Fetch!Waits(huge) ~> ~Fetch!Waits(huge)
=============================================================================
