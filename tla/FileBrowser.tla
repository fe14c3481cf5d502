----------------------------- MODULE FileBrowser -----------------------------
(***************************************************************************)
(* The file browser's store (src/src/stores/fileBrowser.ts): browsing,       *)
(* and opening an archive as a transaction against ArchiveRequests.         *)
(*                                                                         *)
(* JavaScript runs one continuation at a time: an action here is the code   *)
(* between two awaits.  An openArchive or submitArchivePassword in progress *)
(* is an entry of `opens` (its pc names the await it is in), a fetch in     *)
(* progress an element of `fetches`, and the shared promise of              *)
(* ensureArchiveSession is `sessionReady`.                                  *)
(*                                                                         *)
(* Abstracted: sorting, selection, search, layout; the two awaits of fetch  *)
(* (listing, then the sort order of the folder) are one.                    *)
(***************************************************************************)
EXTENDS ArchiveRequests, FiniteSets

CONSTANTS
    Locals,         \* local roots
    Remotes,        \* WebDAV or SMB sources
    Archives,       \* archives the listings may show
    Dir,            \* a folder below the root of every source
    FirstPlaces,    \* where the page may be when the model sets in
    FirstBoot,      \* the clock at the first load of the page
    MaxOpens,       \* bound: archives opened
    MaxMoves,       \* bound: other acts of the user (browsing, leaving, cancelling)
    MaxReloads,     \* bound: reloads of the page
    MaxListErrors   \* bound: listings that fail

ASSUME BrowserAssumption ==
    /\ Locals # {} /\ Locals \cap (Remotes \cup Archives) = {}
    /\ Remotes \cap Archives = {}
    /\ MaxOpens \in Nat \ {0} /\ FirstBoot \in Nat \ {0}
    /\ MaxMoves \in Nat /\ MaxReloads \in Nat /\ MaxListErrors \in Nat

VARIABLES
    here,           \* currentDescriptor (rootPath for a local one), currentPath
    listing,        \* what `entries` lists: its source, lastFetchedPath
    parent,         \* archiveParent
    fetchRequestId, fetches,
    opens,          \* the openArchive calls, in the order they were made
    epoch,          \* archiveOpenEpoch
    pendingOpen,    \* pendingArchiveOpen, as an index of opens (0: null)
    pendingPassword,\* pendingArchivePassword
    commitPending,  \* archiveCommitPendingId
    superseding,    \* archiveSupersedeInFlight
    opening,        \* archiveOpening
    session, boot, sessionReady,
    sequence,       \* archiveRequestSequence
    \* bookkeeping of the model
    sessions,       \* session ids drawn so far
    pastBoot,       \* the highest boot any earlier page has reported
    intent,         \* the open the user last asked for; 0: has left it since
    moves, reloads, listErrors

browseVars == <<here, listing, parent, fetchRequestId, fetches>>
pendingVars == <<epoch, pendingOpen, pendingPassword, commitPending, opening>>
sessionVars == <<session, boot, sessionReady, sessions, pastBoot>>
boundVars == <<moves, reloads, listErrors>>
pageVars == <<browseVars, opens, pendingVars, superseding, sessionVars,
              sequence, intent, boundVars>>
vars == <<requestVars, pageVars>>

-----------------------------------------------------------------------------
Top == "top"                    \* currentPath ''
Paths == {Top, Dir}
Sources == Locals \cup Remotes \cup Archives
Place == [src : Sources, path : Paths]
At(src, path) == [src |-> src, path |-> path]

ASSUME FirstAssumption ==
    FirstPlaces \subseteq [src : Locals \cup Remotes, path : Paths]

OpenIndex == 1..MaxOpens
SessionPromise == MaxOpens + 1  \* `from` of the begin calls

OpenPc == {"idle", "superseding", "begin", "prepare", "password", "unlock",
           "commit", "backoff", "uncommit", "list", "done"}

Idle == [pc |-> "idle", archive |-> None, parent |-> None, epoch |-> 0,
         id |-> [session |-> 0, seq |-> 0], attempt |-> 0, unlocked |-> FALSE]

OpenCall == [pc : OpenPc, archive : Archives \cup {None}, parent : Place \cup {None},
             epoch : Nat, id : RequestId, attempt : 0..3, unlocked : BOOLEAN]

\* What follows a fetch: nothing, navigate's rollback to `path`, the rest of
\* openArchive number `open`, or the navigation of openDescriptorAt to `path`.
FetchCall == [id : Nat, place : Place, then : {"nothing", "rollback", "open", "navigate"},
              path : Paths, open : 0..MaxOpens]

FileBrowserTypeOK ==
    /\ RequestsTypeOK
    /\ here \in Place /\ listing \in Place \cup {None}
    /\ parent \in Place \cup {None}
    /\ fetchRequestId \in Nat /\ fetches \subseteq FetchCall
    /\ opens \in [OpenIndex -> OpenCall]
    /\ epoch \in Nat
    /\ {pendingOpen, pendingPassword, commitPending, intent} \subseteq 0..MaxOpens
    /\ superseding \in BOOLEAN /\ opening \in BOOLEAN
    /\ session \in 1..sessions /\ boot \in Nat /\ sequence \in Nat
    /\ sessionReady \in {"none", "begin", "retry", "ready"}
    /\ sessions \in Nat /\ pastBoot \in Nat
    /\ moves \in 0..MaxMoves /\ reloads \in 0..MaxReloads
    /\ listErrors \in 0..MaxListErrors

PageInit ==
    /\ here \in FirstPlaces /\ listing = here
    /\ parent = None
    /\ fetchRequestId = 1 /\ fetches = {}
    /\ opens = [i \in OpenIndex |-> Idle]
    /\ epoch = 0 /\ pendingOpen = 0 /\ pendingPassword = 0 /\ commitPending = 0
    /\ superseding = FALSE /\ opening = FALSE
    /\ session = 1 /\ boot = FirstBoot /\ sessionReady = "none"
    /\ sequence = 0
    /\ sessions = 1 /\ pastBoot = 0 /\ intent = 0
    /\ moves = 0 /\ reloads = 0 /\ listErrors = 0

Init == RequestsInit /\ PageInit

-----------------------------------------------------------------------------
(***************************************************************************)
(* Calls to the backend.                                                    *)
(***************************************************************************)
CallOf(op, id, from) == [op |-> op, id |-> id, boot |-> 0, from |-> from]

Begin(s, b) == [op |-> "begin", id |-> [session |-> s, seq |-> 0],
                boot |-> b, from |-> SessionPromise]

Send(calls) == wire' = wire \cup calls

\* The continuation of `from` takes its answer
Receive(a, from) == a.from = from /\ answers' = answers \ {a}

-----------------------------------------------------------------------------
(***************************************************************************)
(* fetch and the browsing that ends in one.                                 *)
(***************************************************************************)
\* fetch(path) up to its await
StartFetch(id, place, then, path, open) ==
    /\ fetchRequestId' = id
    /\ fetches' = fetches \cup {[id |-> id, place |-> place, then |-> then,
                                 path |-> path, open |-> open]}

NextFetch(place, then, path, open) ==
    StartFetch(fetchRequestId + 1, place, then, path, open)

\* Mutant of TakeAndCancel: the spinner is left on.
TakeAndCancelSpinning ==
    LET taken == IF pendingOpen # 0 THEN pendingOpen
                 ELSE IF pendingPassword # 0 THEN pendingPassword ELSE commitPending
    IN  /\ epoch' = epoch + 1
        /\ pendingOpen' = 0 /\ pendingPassword' = 0 /\ commitPending' = 0
        /\ UNCHANGED opening
        /\ Send(IF taken = 0 THEN {} ELSE {CallOf("cancel", opens[taken].id, Nobody)})

\* Mutant of TakeAndCancel: a request waiting for its password is dropped
\* without a cancel.
TakeAndCancelOpening ==
    LET taken == IF pendingOpen # 0 THEN pendingOpen ELSE commitPending
    IN  /\ epoch' = epoch + 1
        /\ pendingOpen' = 0 /\ pendingPassword' = 0 /\ commitPending' = 0
        /\ opening' = FALSE
        /\ Send(IF taken = 0 THEN {} ELSE {CallOf("cancel", opens[taken].id, Nobody)})

\* takeAndCancelPendingArchiveOpen
TakeAndCancel ==
    LET taken == IF pendingOpen # 0 THEN pendingOpen
                 ELSE IF pendingPassword # 0 THEN pendingPassword ELSE commitPending
    IN  /\ epoch' = epoch + 1
        /\ pendingOpen' = 0 /\ pendingPassword' = 0 /\ commitPending' = 0
        /\ opening' = FALSE
        /\ Send(IF taken = 0 THEN {} ELSE {CallOf("cancel", opens[taken].id, Nobody)})

\* Mutant of ArchivePending: the window in which an older open is being
\* cancelled and the newer one not yet registered is overlooked.
ArchivePendingShown ==
    pendingOpen # 0 \/ pendingPassword # 0 \/ commitPending # 0

ArchivePending ==
    pendingOpen # 0 \/ pendingPassword # 0 \/ commitPending # 0 \/ superseding

\* invalidatePendingArchiveOnNavigate
InvalidatePending ==
    IF ArchivePending THEN TakeAndCancel
    ELSE UNCHANGED <<pendingVars, wire>>

\* Any act of the user other than opening an archive
UserActs ==
    /\ moves < MaxMoves
    /\ moves' = moves + 1
    /\ UNCHANGED <<registry, tasks, answers, prefetched, opens, superseding,
                   sessionVars, sequence, reloads, listErrors>>

\* navigate: to a folder of the listing, or back up; optimistic, with a
\* rollback of the path if its fetch fails.  The breadcrumb of the root
\* leaves the archive while there is a parent to return to.
Navigate(path) ==
    /\ UserActs /\ intent' = 0
    /\ path = Top => parent = None
    /\ path = Dir => listing # None /\ listing.src \notin Archives
    /\ InvalidatePending
    /\ here' = [here EXCEPT !.path = path]
    /\ NextFetch(here', "rollback", here.path, 0)
    /\ UNCHANGED <<listing, parent>>

\* up, which the toolbar offers below the root only
Up ==
    /\ UserActs /\ intent' = 0
    /\ here.path # Top
    /\ InvalidatePending
    /\ here' = [here EXCEPT !.path = Top]
    /\ NextFetch(here', "nothing", Top, 0)
    /\ UNCHANGED <<listing, parent>>

Refresh ==
    /\ UserActs /\ UNCHANGED intent
    /\ NextFetch(here, "nothing", Top, 0)
    /\ UNCHANGED <<here, listing, parent, pendingVars, wire>>

\* openDescriptorAt of a local root is setRoot, then navigate; setRoot
\* invalidates the fetches in progress and clears the listing first.
OpenLocal(root, path) ==
    /\ UserActs /\ intent' = 0
    /\ InvalidatePending
    /\ here' = At(root, Top)
    /\ listing' = None
    /\ StartFetch(fetchRequestId + 2, here',
                  IF path = Top THEN "nothing" ELSE "navigate", path, 0)
    /\ UNCHANGED parent

\* ... and of a remote source
OpenRemote(source, path) ==
    /\ UserActs /\ intent' = 0
    /\ InvalidatePending
    /\ here' = At(source, path)
    /\ NextFetch(here', IF path = Top THEN "nothing" ELSE "rollback", here.path, 0)
    /\ UNCHANGED <<listing, parent>>

\* exitArchive, from the root of the breadcrumb: back to where the archive was
\* opened
ExitArchive ==
    /\ UserActs /\ intent' = 0
    /\ parent # None
    /\ TakeAndCancel
    /\ parent' = None
    /\ here' = parent
    /\ NextFetch(here', IF parent.src \in Remotes /\ parent.path = Top
                        THEN "nothing" ELSE "rollback", here.path, 0)
    /\ UNCHANGED listing

\* cancelArchiveOpen and cancelArchivePassword: the buttons of the loading row
\* and of the password dialog
CancelOpen ==
    /\ UserActs /\ intent' = 0
    /\ pendingOpen # 0 \/ pendingPassword # 0
    /\ TakeAndCancel
    /\ UNCHANGED browseVars

\* The rest of openArchive after its fetch: the finally clause clears what
\* still belongs to this open.  A submitArchivePassword has no such clause.
FinishOpen(i) ==
    /\ opens' = [opens EXCEPT ![i].pc = "done"]
    /\ IF epoch = opens[i].epoch /\ ~opens[i].unlocked
       THEN pendingOpen' = 0 /\ opening' = FALSE
       ELSE UNCHANGED <<pendingOpen, opening>>
    /\ UNCHANGED <<epoch, pendingPassword, commitPending>>

\* listDirectory answers.  Only the latest fetch may write; what follows the
\* fetch follows in any case, but a rollback only if the latest failed.
FetchDone(f, ok) ==
    LET latest == f.id = fetchRequestId IN
    /\ f \in fetches
    /\ IF ok THEN UNCHANGED listErrors
             ELSE listErrors < MaxListErrors /\ listErrors' = listErrors + 1
    /\ listing' = IF ok /\ latest THEN f.place ELSE listing
    /\ \/ /\ f.then \in {"nothing", "rollback"}
          /\ here' = IF f.then = "rollback" /\ latest /\ ~ok
                     THEN [here EXCEPT !.path = f.path] ELSE here
          /\ fetches' = fetches \ {f}
          /\ UNCHANGED <<fetchRequestId, opens, pendingVars, wire>>
       \/ /\ f.then = "open"
          /\ FinishOpen(f.open)
          /\ fetches' = fetches \ {f}
          /\ UNCHANGED <<here, fetchRequestId, wire>>
       \/ /\ f.then = "navigate"
          /\ InvalidatePending
          /\ here' = [here EXCEPT !.path = f.path]
          /\ fetchRequestId' = fetchRequestId + 1
          /\ fetches' = (fetches \ {f}) \cup
                 {[id |-> fetchRequestId + 1, place |-> here', then |-> "rollback",
                   path |-> here.path, open |-> 0]}
          /\ UNCHANGED opens
    /\ UNCHANGED <<parent, superseding, sessionVars, sequence, intent, moves,
                   reloads, registry, tasks, answers, prefetched>>

Browse ==
    \/ \E path \in Paths : Navigate(path)
    \/ Up
    \/ Refresh
    \/ \E root \in Locals, path \in Paths : OpenLocal(root, path)
    \/ \E source \in Remotes, path \in Paths : OpenRemote(source, path)
    \/ ExitArchive
    \/ CancelOpen
    \/ \E f \in fetches, ok \in BOOLEAN : FetchDone(f, ok)
=============================================================================
