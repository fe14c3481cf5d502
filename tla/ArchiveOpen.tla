----------------------------- MODULE ArchiveOpen -----------------------------
(***************************************************************************)
(* Opening an archive (openArchive, submitArchivePassword, the commit       *)
(* handshake and the session handshake of fileBrowser.ts), the reload of    *)
(* the page, and the whole system: page and registry together.              *)
(***************************************************************************)
EXTENDS FileBrowser

\* What a step of an open leaves alone
OpenStep == UNCHANGED <<registry, tasks, prefetched, boundVars>>

-----------------------------------------------------------------------------
(***************************************************************************)
(* ensureArchiveSession and the registration of a request.                  *)
(***************************************************************************)
\* The tail of openArchive from the registration of the candidate to its next
\* await: the candidate's parent is where the page is now, and the first to
\* need the session sends its begin.
RegisterOpen(i, call) ==
    /\ opening' = TRUE
    /\ sequence' = sequence + 1
    /\ opens' = [opens EXCEPT ![i] =
           [call EXCEPT !.pc = "begin", !.parent = here,
                        !.id = [session |-> session, seq |-> sequence + 1]]]
    /\ pendingOpen' = i
    /\ IF sessionReady = "none"
       THEN /\ sessionReady' = "begin"
            /\ Send({Begin(session, boot)})
       ELSE UNCHANGED <<sessionReady, wire>>
    /\ UNCHANGED <<session, boot, sessions, pastBoot>>

\* openArchive(entry), to its first await: a newer open first takes away the
\* older one, and waits for its cancel if there was one.
OpenArchive(i, archive) ==
    LET superseded == IF pendingOpen # 0 THEN pendingOpen
                      ELSE IF pendingPassword # 0 THEN pendingPassword ELSE commitPending
        call == [Idle EXCEPT !.archive = archive, !.epoch = epoch + 1]
    IN  /\ opens[i].pc = "idle" /\ \A j \in 1..(i - 1) : opens[j].pc # "idle"
        /\ listing # None /\ listing.src \notin Archives
        /\ intent' = i
        /\ epoch' = epoch + 1
        /\ pendingPassword' = 0 /\ commitPending' = 0
        /\ IF superseded = 0
           THEN RegisterOpen(i, call) /\ UNCHANGED superseding
           ELSE /\ superseding' = TRUE
                /\ pendingOpen' = 0
                /\ opens' = [opens EXCEPT ![i] = [call EXCEPT !.pc = "superseding"]]
                /\ Send({CallOf("cancel", opens[superseded].id, i)})
                /\ UNCHANGED <<opening, sequence, sessionVars>>
        /\ OpenStep /\ UNCHANGED <<browseVars, answers>>

\* The cancel of the older open has answered
Supersede(i, a) ==
    /\ opens[i].pc = "superseding"
    /\ Receive(a, i)
    /\ superseding' = FALSE
    /\ IF opens[i].epoch = epoch
       THEN RegisterOpen(i, opens[i])
       ELSE /\ opens' = [opens EXCEPT ![i].pc = "done"]
            /\ UNCHANGED <<pendingOpen, opening, wire, sessionVars, sequence>>
    /\ OpenStep
    /\ UNCHANGED <<browseVars, epoch, pendingPassword, commitPending, intent>>

\* ensureArchiveSessionOnce: a boot older than the one in force (the clock
\* went back) tries once more with a new session and a later boot
SessionBegun(a) ==
    /\ sessionReady \in {"begin", "retry"}
    /\ Receive(a, SessionPromise)
    /\ \/ /\ a.boot <= boot
          /\ sessionReady' = "ready"
          /\ UNCHANGED <<session, boot, sessions, wire, opens, pendingOpen, opening>>
       \/ /\ a.boot > boot /\ sessionReady = "begin"
          /\ sessionReady' = "retry"
          /\ boot' = a.boot + 1
          /\ sessions' = sessions + 1 /\ session' = sessions'
          /\ Send({Begin(session', boot')})
          /\ UNCHANGED <<opens, pendingOpen, opening>>
       \/ \* the promise is rejected: every open that awaits it fails
          /\ a.boot > boot /\ sessionReady = "retry"
          /\ sessionReady' = "none"
          /\ opens' = [i \in OpenIndex |->
                 IF opens[i].pc = "begin" THEN [opens[i] EXCEPT !.pc = "done"] ELSE opens[i]]
          /\ IF \E i \in OpenIndex : opens[i].pc = "begin" /\ opens[i].epoch = epoch
             THEN pendingOpen' = 0 /\ opening' = FALSE
             ELSE UNCHANGED <<pendingOpen, opening>>
          /\ UNCHANGED <<session, boot, sessions, wire>>
    /\ OpenStep
    /\ UNCHANGED <<browseVars, epoch, pendingPassword, commitPending, superseding,
                   pastBoot, sequence, intent>>

\* Past the session: the request takes the final session and is prepared
Prepare(i) ==
    /\ opens[i].pc = "begin" /\ sessionReady = "ready"
    /\ IF opens[i].epoch = epoch
       THEN LET id == [opens[i].id EXCEPT !.session = session] IN
            /\ opens' = [opens EXCEPT ![i].pc = "prepare", ![i].id = id]
            /\ Send({CallOf("prepare", id, i)})
            /\ UNCHANGED pendingVars
       ELSE FinishOpen(i) /\ UNCHANGED wire
    /\ OpenStep
    /\ UNCHANGED <<browseVars, superseding, sessionVars, sequence, intent, answers>>

-----------------------------------------------------------------------------
(***************************************************************************)
(* The answers of prepare and unlock.                                       *)
(***************************************************************************)
\* commitArchive, and the first commit of the handshake
CommitArchive(i, unlocked) ==
    /\ parent' = opens[i].parent
    /\ here' = At(opens[i].archive, Top)
    /\ commitPending' = i
    /\ opens' = [opens EXCEPT ![i].pc = "commit", ![i].attempt = 1,
                              ![i].unlocked = unlocked]
    /\ Send({CallOf("commit", opens[i].id, i)})
    /\ UNCHANGED <<listing, fetchRequestId, fetches>>

Ready == {"ready", "streaming"}

\* prepareArchive has answered open i
PrepareAnswered(i, a) ==
    /\ opens[i].pc = "prepare"
    /\ Receive(a, i)
    /\ \/ /\ opens[i].epoch = epoch /\ a.result \in Ready
          /\ CommitArchive(i, FALSE)
          /\ UNCHANGED <<epoch, pendingOpen, pendingPassword, opening>>
       \/ /\ opens[i].epoch = epoch /\ a.result = "password"
          /\ opens' = [opens EXCEPT ![i].pc = "password"]
          /\ pendingPassword' = i
          /\ pendingOpen' = 0 /\ opening' = FALSE
          /\ UNCHANGED <<epoch, commitPending, browseVars, wire>>
       \/ /\ opens[i].epoch # epoch \/ a.result \notin Ready \cup {"password"}
          /\ FinishOpen(i)
          /\ UNCHANGED <<browseVars, wire>>
    /\ OpenStep
    /\ UNCHANGED <<superseding, sessionVars, sequence, intent>>

\* submitArchivePassword; the dialog is busy until it ends
SubmitPassword(i) ==
    /\ pendingPassword = i /\ opens[i].pc = "password"
    /\ opens' = [opens EXCEPT ![i].pc = "unlock"]
    /\ Send({CallOf("unlock", opens[i].id, i)})
    /\ OpenStep
    /\ UNCHANGED <<browseVars, pendingVars, superseding, sessionVars, sequence,
                   intent, answers>>

\* unlockArchive has answered.  "password" is wrongPassword: the dialog, if it
\* is still this one's, keeps asking.
UnlockAnswered(i, a) ==
    /\ opens[i].pc = "unlock"
    /\ Receive(a, i)
    /\ \/ /\ opens[i].epoch = epoch /\ a.result \in Ready
          /\ CommitArchive(i, TRUE)
          /\ pendingPassword' = 0
          /\ UNCHANGED <<epoch, pendingOpen, opening>>
       \/ /\ opens[i].epoch = epoch /\ a.result = "password"
          /\ opens' = [opens EXCEPT ![i].pc = "password"]
          /\ UNCHANGED <<browseVars, pendingVars, wire>>
       \/ /\ opens[i].epoch = epoch /\ a.result \in {"failed", "cancelled"}
          /\ opens' = [opens EXCEPT ![i].pc = "done"]
          /\ pendingPassword' = 0
          /\ UNCHANGED <<browseVars, epoch, pendingOpen, commitPending, opening, wire>>
       \/ /\ opens[i].epoch # epoch
          /\ opens' = [opens EXCEPT ![i].pc = "done"]
          /\ UNCHANGED <<browseVars, pendingVars, wire>>
    /\ OpenStep
    /\ UNCHANGED <<superseding, sessionVars, sequence, intent>>

-----------------------------------------------------------------------------
(***************************************************************************)
(* commitArchiveOpenWithCleanup, and the listing of the archive after it.   *)
(***************************************************************************)
\* `await fetch('')` of whatever source is the current one by then
ListArchive(i) ==
    /\ opens' = [opens EXCEPT ![i].pc = "list"]
    /\ NextFetch(At(here.src, Top), "open", Top, i)
    /\ UNCHANGED <<here, listing, parent>>

\* Mutant of Attempts: one too many.
AttemptsFour == 4

\* backoffMs.length
Attempts == 3

\* cancelUncommittedArchive
GiveUp(i) ==
    /\ opens' = [opens EXCEPT ![i].pc = "uncommit"]
    /\ Send({CallOf("cancel", opens[i].id, i)})
    /\ UNCHANGED browseVars

\* A commit has answered: done, or wait before the next attempt of three
CommitAnswered(i, a) ==
    /\ opens[i].pc = "commit"
    /\ Receive(a, i)
    /\ \/ /\ a.result = "ok"
          /\ commitPending' = IF commitPending = i THEN 0 ELSE commitPending
          /\ ListArchive(i)
          /\ UNCHANGED wire
       \/ /\ a.result # "ok" /\ opens[i].attempt < Attempts /\ opens[i].epoch = epoch
          /\ opens' = [opens EXCEPT ![i].pc = "backoff"]
          /\ UNCHANGED <<browseVars, commitPending, wire>>
       \/ /\ a.result # "ok" /\ (opens[i].attempt = Attempts \/ opens[i].epoch # epoch)
          /\ GiveUp(i)
          /\ UNCHANGED commitPending
    /\ OpenStep
    /\ UNCHANGED <<epoch, pendingOpen, pendingPassword, opening, superseding,
                   sessionVars, sequence, intent>>

\* The wait is over
Retry(i) ==
    /\ opens[i].pc = "backoff"
    /\ \/ /\ opens[i].epoch = epoch
          /\ opens' = [opens EXCEPT ![i].pc = "commit", ![i].attempt = @ + 1]
          /\ Send({CallOf("commit", opens[i].id, i)})
          /\ UNCHANGED browseVars
       \/ opens[i].epoch # epoch /\ GiveUp(i)
    /\ OpenStep
    /\ UNCHANGED <<pendingVars, superseding, sessionVars, sequence, intent, answers>>

\* The cancel of an uncommitted request has answered
GivenUp(i, a) ==
    /\ opens[i].pc = "uncommit"
    /\ Receive(a, i)
    /\ commitPending' = IF commitPending = i THEN 0 ELSE commitPending
    /\ ListArchive(i)
    /\ OpenStep
    /\ UNCHANGED <<wire, epoch, pendingOpen, pendingPassword, opening, superseding,
                   sessionVars, sequence, intent>>

-----------------------------------------------------------------------------
(***************************************************************************)
(* A reload: a new page, while the calls of the old one are still on their  *)
(* way.  The clock may have gone back, stood still or moved on.  The page    *)
(* comes back at the root it had open last, which it keeps in the settings.  *)
(***************************************************************************)
Orphans(S) == {[x EXCEPT !.from = Nobody] : x \in S}

Reload ==
    /\ reloads < MaxReloads
    /\ reloads' = reloads + 1
    /\ wire' = Orphans(wire) /\ tasks' = Orphans(tasks) /\ answers' = {}
    /\ \E root \in IF here.src \in Archives THEN Locals \cup Remotes ELSE {here.src} :
           here' = At(root, Top) /\ listing' = At(root, Top)
    /\ parent' = None
    /\ fetches' = {} /\ fetchRequestId' = 1
    /\ opens' = [i \in OpenIndex |->
           IF opens[i].pc = "idle" THEN Idle ELSE [Idle EXCEPT !.pc = "done"]]
    /\ epoch' = 0 /\ pendingOpen' = 0 /\ pendingPassword' = 0 /\ commitPending' = 0
    /\ superseding' = FALSE /\ opening' = FALSE
    /\ sessions' = sessions + 1 /\ session' = sessions'
    /\ boot' \in {boot - 1, boot, boot + 1} \cap Nat
    /\ pastBoot' = IF boot > pastBoot THEN boot ELSE pastBoot
    /\ sessionReady' = "none" /\ sequence' = 0 /\ intent' = 0
    /\ UNCHANGED <<registry, prefetched, moves, listErrors>>

-----------------------------------------------------------------------------
Backend == RequestsNext /\ UNCHANGED pageVars

OpenAnswered(i) ==
    \E a \in answers : \/ Supersede(i, a) \/ PrepareAnswered(i, a)
                       \/ UnlockAnswered(i, a) \/ CommitAnswered(i, a) \/ GivenUp(i, a)

\* What the page does of itself
Continue ==
    \/ \E a \in answers : SessionBegun(a)
    \/ \E i \in OpenIndex : Prepare(i) \/ Retry(i) \/ OpenAnswered(i)

Next ==
    \/ Backend
    \/ Browse
    \/ Continue
    \/ \E i \in OpenIndex, archive \in Archives : OpenArchive(i, archive)
    \/ \E i \in OpenIndex : SubmitPassword(i)
    \/ Reload

Spec == Init /\ [][Next]_vars

-----------------------------------------------------------------------------
(***************************************************************************)
(* Properties.                                                              *)
(***************************************************************************)

\* The page moves into an archive only if opening it is the last thing the
\* user asked for: no late Ready, unlock or supersede overrides a navigation,
\* a cancel or a newer open (fileBrowser.ts:537-540, "navigation hijack").
\* It holds for two opens, which is what the run checks.  From four on two of
\* them may wait for the cancel of an older one, and the first to go on takes
\* the mark from the second: no theorem states it.
NoHijack ==
    [][\A i \in OpenIndex :
          opens[i].pc \in {"prepare", "unlock"} /\ opens'[i].pc = "commit"
              => intent = i]_vars

\* The spinner of an archive being opened always belongs to the current
\* transaction: one that is registered and the user can cancel, or one that
\* waits for the cancel of the previous one.  No way out of an open (its
\* answer, a navigation, a cancel, a failed session) leaves it turning.
SpinnerHasOwner ==
    opening => \/ pendingOpen # 0
               \/ \E i \in OpenIndex :
                      opens[i].pc = "superseding" /\ opens[i].epoch = epoch

\* A request of this page that still occupies the registry is the one of the
\* current transaction, or its cancel is on its way: no request the page has
\* abandoned stays prepared or running for ever.
AbandonedIsCancelled ==
    Owned([session |-> session, seq |-> 0]) /\ registry.active # None =>
        \E i \in OpenIndex :
            /\ opens[i].id = ActiveId
            /\ \/ /\ opens[i].epoch = epoch
                  /\ opens[i].pc \in {"prepare", "password", "unlock"}
               \/ opens[i].pc \in {"commit", "backoff", "uncommit"}
               \/ \E c \in wire : c.op = "cancel" /\ c.id = ActiveId

\* Once the page's begin has answered, the registry is the page's, whatever
\* an older page still had on its way, provided its own boot is the later.
SessionIsOurs ==
    sessionReady = "ready" /\ boot > pastBoot
        => registry # None /\ registry.session = session

Settled == fetches = {} /\ \A i \in OpenIndex : opens[i].pc \in {"idle", "password", "done"}

\* With nothing in progress, the listing shown is the one of the current path
\* (fileBrowser.ts:112-116: a late answer must not mix the entries of one
\* root or path with the state of another).
ListingMatchesPath == Settled => listing = here
=============================================================================
