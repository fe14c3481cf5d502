-------------------------- MODULE ArchiveRequests --------------------------
(***************************************************************************)
(* The registry of archive-open requests kept by ArchiveService             *)
(* (src/src-tauri/src/source/archive/service.rs) behind the five commands   *)
(* of commands/archive_access.rs: begin, prepare, unlock, commit, cancel.   *)
(*                                                                         *)
(* A page (one load of the WebView) owns a session and numbers its          *)
(* requests.  Each command is an asynchronous task of its own, so commands   *)
(* sent one after the other may be served in any order: `wire` is a set.    *)
(* A command that waits (prepare and unlock, for the archive; cancel, for   *)
(* the lock of the materializer) is a record of `tasks` meanwhile, and its  *)
(* result travels back in `answers`, addressed to the caller `from`.        *)
(*                                                                         *)
(* Abstracted: what the archive holds.  Resolving, probing and verifying a  *)
(* password end in one of the results the service distinguishes.            *)
(***************************************************************************)
EXTENDS Naturals

CONSTANT None       \* Rust's None: no session, no active request, no id

VARIABLES
    registry,       \* registry: Mutex<Option<SessionState>>
    wire,           \* commands sent and not yet taken up
    tasks,          \* commands taken up and waiting
    answers,        \* results not yet seen by the caller that awaits them
    prefetched      \* ids whose commit started a background prefetch

requestVars == <<registry, wire, tasks, answers, prefetched>>

Nobody == 0         \* `from` of a call whose promise nobody awaits

\* ArchiveRequestId
RequestId == [session : Nat, seq : Nat]

RequestState == {"running", "password", "prepared", "streaming"}

\* SessionState; `streaming` is Prepared with a prefetch intent
SessionState ==
    [session : Nat, boot : Nat, cancelledThrough : Nat, lastCommitted : Nat,
     active : [seq : Nat, state : RequestState] \cup {None}]

ASSUME NoneAssumption == None \notin SessionState

Call == [op : {"begin", "prepare", "unlock", "commit", "cancel"},
         id : RequestId, boot : Nat, from : Nat]

\* `displaced` is the request whose download is to be stopped as well; a task
\* at "download" is an interactive subscriber of the materializer, one at
\* "stopped" has had its subscription ended with Cancelled.
Task == [op : {"prepare", "unlock", "cancel"}, id : RequestId, from : Nat,
         at : {"stopping", "resolving", "download", "stopped"},
         displaced : RequestId \cup {None}]

Answer == [from : Nat, boot : Nat,
           result : {"begun", "ok", "cancelled", "failed", "password",
                     "ready", "streaming"}]

RequestsTypeOK ==
    /\ registry \in SessionState \cup {None}
    /\ wire \subseteq Call
    /\ tasks \subseteq Task
    /\ answers \subseteq Answer
    /\ prefetched \subseteq RequestId

RequestsInit ==
    /\ registry = None
    /\ wire = {}
    /\ tasks = {}
    /\ answers = {}
    /\ prefetched = {}

-----------------------------------------------------------------------------
\* Helpers.

Reply(call, result) ==
    IF call.from = Nobody THEN {}
    ELSE {[from |-> call.from, boot |-> call.boot, result |-> result]}

\* The registry belongs to the session of `id`
Owned(id) == registry # None /\ registry.session = id.session

ActiveIs(id) == Owned(id) /\ registry.active # None /\ registry.active.seq = id.seq

\* The id of the active request, or None
ActiveId ==
    IF registry = None \/ registry.active = None THEN None
    ELSE [session |-> registry.session, seq |-> registry.active.seq]

\* Materializer::cancel_interactive: ends the subscriptions made under `ids`.
\* It looks the id up among the present subscribers and keeps no memory of it.
StopDownloads(T, ids) ==
    {IF t.at = "download" /\ t.id \in ids THEN [t EXCEPT !.at = "stopped"] ELSE t
        : t \in T}

\* set_request_state: only while the request is still the active one
WithState(id, state) ==
    IF ActiveIs(id) THEN [registry EXCEPT !.active.state = state] ELSE registry

\* finish_request
WithoutActive(id) ==
    IF ActiveIs(id) THEN [registry EXCEPT !.active = None] ELSE registry

-----------------------------------------------------------------------------
\* The handlers.

\* Mutant of Superseded: the boots are not compared.
SupersededById(call) == registry # None /\ registry.session = call.id.session

\* A begin of the session already installed, or of a page older than the one
\* that owns the registry, changes nothing
Superseded(call) ==
    /\ registry # None
    /\ registry.session = call.id.session \/ call.boot < registry.boot

\* begin_session: it answers the boot in force.  The downloads of the session
\* it replaces are stopped by a task nobody awaits.
BeginSession(call) ==
    /\ call.op = "begin"
    /\ wire' = wire \ {call}
    /\ IF Superseded(call)
       THEN /\ answers' = answers \cup Reply([call EXCEPT !.boot = registry.boot], "begun")
            /\ UNCHANGED <<registry, tasks>>
       ELSE /\ registry' = [session |-> call.id.session, boot |-> call.boot,
                            cancelledThrough |-> 0, lastCommitted |-> 0,
                            active |-> None]
            /\ tasks' = IF ActiveId = None THEN tasks
                        ELSE tasks \cup {[op |-> "cancel", id |-> ActiveId,
                                          from |-> Nobody, at |-> "stopping",
                                          displaced |-> None]}
            /\ answers' = answers \cup Reply(call, "begun")
    /\ UNCHANGED prefetched

\* Mutant of Registrable: a cancel that came before the prepare is forgotten.
RegistrableAlways(id) == Owned(id)

\* register_request refuses a request of another session and one that a
\* cancel has overtaken
Registrable(id) == Owned(id) /\ id.seq > registry.cancelledThrough

\* prepare_with_request and unlock_with_request up to their first await:
\* whatever is active is displaced
Register(call) ==
    /\ call.op \in {"prepare", "unlock"}
    /\ wire' = wire \ {call}
    /\ IF Registrable(call.id)
       THEN /\ registry' = [registry EXCEPT !.active =
                                [seq |-> call.id.seq, state |-> "running"]]
            /\ tasks' = tasks \cup
                   {[op |-> call.op, id |-> call.id, from |-> call.from,
                     at |-> IF ActiveId = None THEN "resolving" ELSE "stopping",
                     displaced |-> ActiveId]}
            /\ UNCHANGED answers
       ELSE /\ answers' = answers \cup Reply(call, "cancelled")
            /\ UNCHANGED <<registry, tasks>>
    /\ UNCHANGED prefetched

\* cancel_interactive of the request that was displaced
StopDisplaced(t) ==
    /\ t.op # "cancel" /\ t.at = "stopping"
    /\ tasks' = StopDownloads(tasks \ {t}, {t.displaced})
                    \cup {[t EXCEPT !.at = "resolving", !.displaced = None]}
    /\ UNCHANGED <<registry, wire, answers, prefetched>>

\* ensure_cached_for_request: the archive must be downloaded whole (not a ZIP,
\* or its ranges cannot be read), and the task subscribes under its own id.
\* Nothing asks the registry again between registering and subscribing.
Subscribe(t) ==
    /\ t.at = "resolving"
    /\ tasks' = (tasks \ {t}) \cup {[t EXCEPT !.at = "download"]}
    /\ UNCHANGED <<registry, wire, answers, prefetched>>

\* prepare_inner or unlock_inner returns Ok: prepared_state of the result.
\* Only an archive read in place is Streaming; a prepare, never an unlock,
\* may ask for a password.
Prepared(t, result) ==
    /\ t.at \in {"resolving", "download"}
    /\ result = "streaming" => t.at = "resolving"
    /\ result = "password" => t.op = "prepare"
    /\ registry' = WithState(t.id, IF result = "ready" THEN "prepared" ELSE result)
    /\ tasks' = tasks \ {t}
    /\ answers' = answers \cup Reply([from |-> t.from, boot |-> 0], result)
    /\ UNCHANGED <<wire, prefetched>>

\* ... returns Err: a stopped download is Cancelled, anything else may fail
\* (a password that does not match included: "password" from an unlock)
Failed(t, result) ==
    /\ result = (IF t.at = "stopped" THEN "cancelled" ELSE "failed")
           \/ (t.op = "unlock" /\ t.at # "stopped" /\ result = "password")
    /\ t.op # "cancel" /\ t.at # "stopping"
    /\ registry' = WithoutActive(t.id)
    /\ tasks' = tasks \ {t}
    /\ answers' = answers \cup Reply([from |-> t.from, boot |-> 0], result)
    /\ UNCHANGED <<wire, prefetched>>

\* Mutant of Committable: the sequence is not compared.
CommittableBySlot(id) ==
    Owned(id) /\ registry.active # None /\ registry.active.state \in {"prepared", "streaming"}

\* What commit_request accepts: the active request, once it is Prepared
Committable(id) == ActiveIs(id) /\ registry.active.state \in {"prepared", "streaming"}

\* commit_request, with the hook that starts the background prefetch.  The
\* active request is taken out of its slot before its sequence is compared.
Commit(call) ==
    /\ call.op = "commit"
    /\ wire' = wire \ {call}
    /\ LET id == call.id
           accepted == Committable(id)
       IN  IF ~Owned(id) \/ registry.lastCommitted = id.seq
           THEN /\ answers' = answers \cup Reply(call, IF Owned(id) THEN "ok" ELSE "cancelled")
                /\ UNCHANGED <<registry, prefetched>>
           ELSE /\ registry' = [registry EXCEPT
                                    !.active = None,
                                    !.lastCommitted = IF accepted THEN id.seq ELSE @]
                /\ answers' = answers \cup
                       Reply(call, IF accepted THEN "ok"
                                   ELSE IF ActiveIs(id) THEN "failed" ELSE "cancelled")
                /\ prefetched' = IF accepted /\ registry.active.state = "streaming"
                                 THEN prefetched \cup {id} ELSE prefetched
    /\ UNCHANGED tasks

\* Mutant of Watermark: a late cancel of an older request lowers it.
WatermarkLast(id) == id.seq

\* The sequences a cancel of `id` covers from now on
Watermark(id) == IF id.seq > registry.cancelledThrough THEN id.seq
                 ELSE registry.cancelledThrough

\* cancel_request under the registry lock: raise the watermark and drop the
\* active request if the watermark covers it
CancelRequest(call) ==
    /\ call.op = "cancel"
    /\ wire' = wire \ {call}
    /\ IF Owned(call.id)
       THEN LET mark == Watermark(call.id)
                covered == registry.active # None /\ registry.active.seq <= mark
            IN  /\ registry' = [registry EXCEPT
                                    !.cancelledThrough = mark,
                                    !.active = IF covered THEN None ELSE @]
                /\ tasks' = tasks \cup {[op |-> "cancel", id |-> call.id,
                                         from |-> call.from, at |-> "stopping",
                                         displaced |-> IF covered THEN ActiveId ELSE None]}
                /\ UNCHANGED answers
       ELSE /\ answers' = answers \cup Reply(call, "ok")
            /\ UNCHANGED <<registry, tasks>>
    /\ UNCHANGED prefetched

\* ... and then, outside it, cancel_interactive of both ids; also the task
\* begin_session spawns
CancelDownloads(t) ==
    /\ t.op = "cancel"
    /\ tasks' = StopDownloads(tasks \ {t}, {t.id, t.displaced})
    /\ answers' = answers \cup Reply([from |-> t.from, boot |-> 0], "ok")
    /\ UNCHANGED <<registry, wire, prefetched>>

ServeCall(call) ==
    \/ BeginSession(call)
    \/ Register(call)
    \/ Commit(call)
    \/ CancelRequest(call)

\* A task takes its last step
FinishTask(t) ==
    \/ \E result \in {"ready", "streaming", "password"} : Prepared(t, result)
    \/ \E result \in {"cancelled", "failed", "password"} : Failed(t, result)
    \/ CancelDownloads(t)

RequestsNext ==
    \/ \E call \in wire : ServeCall(call)
    \/ \E t \in tasks : StopDisplaced(t) \/ Subscribe(t) \/ FinishTask(t)

-----------------------------------------------------------------------------
\* Properties of the registry, whatever order the commands arrive in.

\* A request that a cancel has covered is never the active one: it cannot be
\* committed later, however late its prepare or its commit arrives.
ActiveAboveWatermark ==
    registry # None /\ registry.active # None =>
        registry.active.seq > registry.cancelledThrough

\* A background prefetch starts only for the request the registry holds
\* prepared with the intent to stream, in the session that owns it and above
\* what has been cancelled: a cancel that came first wins.
PrefetchNotCancelled ==
    [][\A id \in prefetched' \ prefetched :
          /\ ActiveIs(id) /\ registry.active.state = "streaming"
          /\ id.seq > registry.cancelledThrough
          /\ registry'.lastCommitted = id.seq]_requestVars

\* Sessions never go back in time: the late begin of an older page takes
\* nothing over, and within a session the watermark only rises.
SessionsAdvance ==
    [][registry # None =>
          /\ registry'.boot >= registry.boot
          /\ registry'.session = registry.session =>
                registry'.cancelledThrough >= registry.cancelledThrough]_requestVars

\* After a cancel has answered, the download of the request is no longer
\* waited for: service.rs:1339-1341, "the materializer's subscriber of the id
\* is cancelled ... the last one gone, the physical download ends".
CancelStopsDownload ==
    \A t \in tasks :
        t.at = "download" /\ Owned(t.id) /\ t.id.seq <= registry.cancelledThrough
            => \E c \in tasks : c.op = "cancel" /\ c.at = "stopping"
=============================================================================
