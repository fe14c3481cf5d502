-------------------------- MODULE ArchiveOpenProofs --------------------------
(***************************************************************************)
(* Theorems about the page and the registry together, for any number of     *)
(* opens, acts, reloads and failures.                                       *)
(***************************************************************************)
EXTENDS ArchiveOpen, TLAPS

-----------------------------------------------------------------------------
(***************************************************************************)
(* One command of the registry, whoever sends it.                           *)
(***************************************************************************)

Results == {"begun", "ok", "cancelled", "failed", "password", "ready", "streaming"}

LEMMA ReplyTyped ==
  ASSUME NEW call, call.from \in Nat, call.boot \in Nat, NEW result \in Results
  PROVE  Reply(call, result) \subseteq Answer
BY DEF Reply, Answer, Results

\* What an accepted command leaves in the registry is a session again.
LEMMA WithStateTyped ==
  ASSUME registry \in SessionState \cup {None}, NEW id \in RequestId,
         NEW state \in RequestState
  PROVE  /\ WithState(id, state) \in SessionState \cup {None}
         /\ WithState(id, state) # registry => WithState(id, state) \in SessionState
<1>1. CASE ActiveIs(id)
  <2>1. registry \in SessionState /\ registry.active # None
    BY <1>1 DEF ActiveIs, Owned
  <2>2. registry.active \in [seq : Nat, state : RequestState]
    BY <2>1 DEF SessionState
  <2>3. [registry.active EXCEPT !.state = state] \in [seq : Nat, state : RequestState]
    BY <2>2
  <2>4. WithState(id, state)
          = [registry EXCEPT !.active = [registry.active EXCEPT !.state = state]]
    BY <1>1, <2>1 DEF WithState, SessionState
  <2> QED BY <2>1, <2>3, <2>4 DEF SessionState
<1>2. CASE ~ActiveIs(id)
  BY <1>2 DEF WithState
<1> QED BY <1>1, <1>2

LEMMA WithoutActiveTyped ==
  ASSUME registry \in SessionState \cup {None}, NEW id \in RequestId
  PROVE  /\ WithoutActive(id) \in SessionState \cup {None}
         /\ WithoutActive(id) # registry => WithoutActive(id) \in SessionState
<1>1. CASE ActiveIs(id)
  <2>1. registry \in SessionState
    BY <1>1 DEF ActiveIs, Owned
  <2> QED BY <1>1, <2>1 DEF WithoutActive, SessionState
<1>2. CASE ~ActiveIs(id)
  BY <1>2 DEF WithoutActive
<1> QED BY <1>1, <1>2

LEMMA ActiveIdTyped ==
  ASSUME registry \in SessionState \cup {None}
  PROVE  ActiveId \in RequestId \cup {None}
<1>1. CASE registry = None \/ registry.active = None
  BY <1>1 DEF ActiveId
<1>2. CASE registry # None /\ registry.active # None
  <2>1. registry \in SessionState /\ registry.active \in [seq : Nat, state : RequestState]
    BY <1>2 DEF SessionState
  <2> QED BY <1>2, <2>1 DEF ActiveId, RequestId, SessionState
<1> QED BY <1>1, <1>2

LEMMA StopDownloadsTyped ==
  ASSUME NEW T, T \subseteq Task, NEW ids
  PROVE  StopDownloads(T, ids) \subseteq Task
<1> SUFFICES ASSUME NEW t \in T
             PROVE  (IF t.at = "download" /\ t.id \in ids
                     THEN [t EXCEPT !.at = "stopped"] ELSE t) \in Task
  BY DEF StopDownloads
<1> QED BY DEF Task

-----------------------------------------------------------------------------
(***************************************************************************)
(* Type correctness, handler by handler.                                    *)
(***************************************************************************)
LEMMA BeginSessionTyped ==
  ASSUME RequestsTypeOK, NEW call \in wire, BeginSession(call)
  PROVE  RequestsTypeOK'
<1> USE DEF RequestsTypeOK
<1>1. call \in Call
  OBVIOUS
<1>2. wire' \subseteq Call /\ prefetched' \subseteq RequestId
  BY DEF BeginSession
<1>3. CASE Superseded(call)
  <2>1. registry \in SessionState
    BY <1>3 DEF Superseded
  <2> DEFINE reply == [call EXCEPT !.boot = registry.boot]
  <2>2. reply.from \in Nat /\ reply.boot \in Nat
    BY <1>1, <2>1 DEF Call, SessionState
  <2>3. Reply(reply, "begun") \subseteq Answer
    BY <2>2, ReplyTyped DEF Results
  <2> QED BY <1>2, <1>3, <2>3 DEF BeginSession
<1>4. CASE ~Superseded(call)
  <2>1. [session |-> call.id.session, boot |-> call.boot, cancelledThrough |-> 0,
         lastCommitted |-> 0, active |-> None] \in SessionState
    BY <1>1 DEF Call, SessionState, RequestId
  <2>2. Reply(call, "begun") \subseteq Answer
    BY <1>1, ReplyTyped DEF Call, Results
  <2>3. ActiveId = None
          \/ [op |-> "cancel", id |-> ActiveId, from |-> Nobody, at |-> "stopping",
              displaced |-> None] \in Task
    BY ActiveIdTyped DEF Task, Nobody
  <2> QED BY <1>2, <1>4, <2>1, <2>2, <2>3 DEF BeginSession
<1> QED BY <1>3, <1>4

LEMMA RegisterTyped ==
  ASSUME RequestsTypeOK, NEW call \in wire, Register(call)
  PROVE  RequestsTypeOK'
<1> USE DEF RequestsTypeOK
<1>1. call \in Call /\ call.id \in RequestId
  BY DEF Call
<1>2. wire' \subseteq Call /\ prefetched' \subseteq RequestId
  BY DEF Register
<1>3. CASE Registrable(call.id)
  <2>1. registry \in SessionState
    BY <1>3 DEF Registrable, Owned
  <2>2. [registry EXCEPT !.active = [seq |-> call.id.seq, state |-> "running"]]
          \in SessionState
    BY <1>1, <2>1 DEF SessionState, RequestId, RequestState
  <2>3. [op |-> call.op, id |-> call.id, from |-> call.from,
         at |-> IF ActiveId = None THEN "resolving" ELSE "stopping",
         displaced |-> ActiveId] \in Task
    BY <1>1, ActiveIdTyped DEF Task, Call, Register
  <2> QED BY <1>2, <1>3, <2>2, <2>3 DEF Register
<1>4. CASE ~Registrable(call.id)
  <2>1. Reply(call, "cancelled") \subseteq Answer
    BY <1>1, ReplyTyped DEF Call, Results
  <2> QED BY <1>2, <1>4, <2>1 DEF Register
<1> QED BY <1>3, <1>4

LEMMA CommitTyped ==
  ASSUME RequestsTypeOK, NEW call \in wire, Commit(call)
  PROVE  RequestsTypeOK'
<1> USE DEF RequestsTypeOK
<1>1. call \in Call /\ call.id \in RequestId
  BY DEF Call
<1>2. wire' \subseteq Call /\ tasks' \subseteq Task
  BY DEF Commit
<1>3. \A result \in Results : Reply(call, result) \subseteq Answer
  BY <1>1, ReplyTyped DEF Call
<1>4. answers' \subseteq Answer
  BY <1>3 DEF Commit, Results
<1>5. prefetched' \subseteq RequestId
  BY <1>1 DEF Commit
<1>6. registry' \in SessionState \cup {None}
  <2>1. CASE Owned(call.id) /\ registry.lastCommitted # call.id.seq
    <3>1. registry \in SessionState
      BY <2>1 DEF Owned
    <3>2. \A n \in Nat : [registry EXCEPT !.active = None, !.lastCommitted = n]
                             \in SessionState
      BY <3>1 DEF SessionState
    <3>3. call.id.seq \in Nat /\ registry.lastCommitted \in Nat
      BY <1>1, <3>1 DEF RequestId, SessionState
    <3>4. registry' = [registry EXCEPT !.active = None,
                         !.lastCommitted = IF Committable(call.id) THEN call.id.seq
                                           ELSE registry.lastCommitted]
      BY <2>1 DEF Commit
    <3> QED BY <3>2, <3>3, <3>4
  <2>2. CASE ~(Owned(call.id) /\ registry.lastCommitted # call.id.seq)
    BY <2>2 DEF Commit
  <2> QED BY <2>1, <2>2
<1> QED BY <1>2, <1>4, <1>5, <1>6

LEMMA CancelRequestTyped ==
  ASSUME RequestsTypeOK, NEW call \in wire, CancelRequest(call)
  PROVE  RequestsTypeOK'
<1> USE DEF RequestsTypeOK
<1>1. call \in Call /\ call.id \in RequestId
  BY DEF Call
<1>2. wire' \subseteq Call /\ prefetched' \subseteq RequestId
  BY DEF CancelRequest
<1>3. CASE Owned(call.id)
  <2> DEFINE mark == Watermark(call.id)
             covered == registry.active # None /\ registry.active.seq <= mark
  <2>1. registry \in SessionState
    BY <1>3 DEF Owned
  <2>2. mark \in Nat
    BY <1>1, <2>1 DEF Watermark, SessionState, RequestId
  <2>3. registry' = [registry EXCEPT !.cancelledThrough = mark,
                       !.active = IF covered THEN None ELSE registry.active]
    BY <1>3 DEF CancelRequest
  <2>4. registry' \in SessionState
    BY <2>1, <2>2, <2>3 DEF SessionState
  <2>5. [op |-> "cancel", id |-> call.id, from |-> call.from, at |-> "stopping",
         displaced |-> IF covered THEN ActiveId ELSE None] \in Task
    BY <1>1, ActiveIdTyped DEF Task, Call
  <2> QED BY <1>2, <1>3, <2>4, <2>5 DEF CancelRequest
<1>4. CASE ~Owned(call.id)
  <2>1. Reply(call, "ok") \subseteq Answer
    BY <1>1, ReplyTyped DEF Call, Results
  <2> QED BY <1>2, <1>4, <2>1 DEF CancelRequest
<1> QED BY <1>3, <1>4

LEMMA TaskStepTyped ==
  ASSUME RequestsTypeOK, NEW t \in tasks,
         StopDisplaced(t) \/ Subscribe(t) \/ FinishTask(t)
  PROVE  RequestsTypeOK'
<1> USE DEF RequestsTypeOK
<1>1. t \in Task /\ t.id \in RequestId /\ tasks \ {t} \subseteq Task
  BY DEF Task
<1>2. CASE StopDisplaced(t)
  <2>1. StopDownloads(tasks \ {t}, {t.displaced}) \subseteq Task
    BY <1>1, StopDownloadsTyped
  <2>2. [t EXCEPT !.at = "resolving", !.displaced = None] \in Task
    BY <1>1 DEF Task
  <2> QED BY <1>2, <2>1, <2>2 DEF StopDisplaced
<1>3. CASE Subscribe(t)
  <2>1. [t EXCEPT !.at = "download"] \in Task
    BY <1>1 DEF Task
  <2> QED BY <1>1, <1>3, <2>1 DEF Subscribe
<1>4. \A result \in Results : Reply([from |-> t.from, boot |-> 0], result) \subseteq Answer
  BY <1>1, ReplyTyped DEF Task
<1>5. ASSUME NEW result \in {"ready", "streaming", "password"}, Prepared(t, result)
      PROVE  RequestsTypeOK'
  <2>1. (IF result = "ready" THEN "prepared" ELSE result) \in RequestState
    BY DEF RequestState
  <2>2. registry' \in SessionState \cup {None}
    BY <1>1, <1>5, <2>1, WithStateTyped DEF Prepared
  <2>3. answers' \subseteq Answer
    BY <1>4, <1>5 DEF Prepared, Results
  <2> QED BY <1>1, <1>5, <2>2, <2>3 DEF Prepared
<1>6. ASSUME NEW result \in {"cancelled", "failed", "password"}, Failed(t, result)
      PROVE  RequestsTypeOK'
  <2>1. registry' \in SessionState \cup {None}
    BY <1>1, <1>6, WithoutActiveTyped DEF Failed
  <2>2. answers' \subseteq Answer
    BY <1>4, <1>6 DEF Failed, Results
  <2> QED BY <1>1, <1>6, <2>1, <2>2 DEF Failed
<1>7. CASE CancelDownloads(t)
  <2>1. StopDownloads(tasks \ {t}, {t.id, t.displaced}) \subseteq Task
    BY <1>1, StopDownloadsTyped
  <2>2. answers' \subseteq Answer
    BY <1>4, <1>7 DEF CancelDownloads, Results
  <2> QED BY <1>7, <2>1, <2>2 DEF CancelDownloads
<1> QED BY <1>2, <1>3, <1>5, <1>6, <1>7 DEF FinishTask

\* Every step of the service keeps the types.
THEOREM RequestsTyped ==
  ASSUME RequestsTypeOK, RequestsNext
  PROVE  RequestsTypeOK'
<1>1. ASSUME NEW call \in wire, ServeCall(call)
      PROVE  RequestsTypeOK'
  BY <1>1, BeginSessionTyped, RegisterTyped, CommitTyped, CancelRequestTyped DEF ServeCall
<1>2. ASSUME NEW t \in tasks, StopDisplaced(t) \/ Subscribe(t) \/ FinishTask(t)
      PROVE  RequestsTypeOK'
  BY <1>2, TaskStepTyped
<1> QED BY <1>1, <1>2 DEF RequestsNext

-----------------------------------------------------------------------------
(***************************************************************************)
(* What a step of the service does to the registry and to the prefetches.   *)
(***************************************************************************)

\* No order of the commands makes a cancelled request the active one.
LEMMA ActiveStaysAbove ==
  ASSUME RequestsTypeOK, ActiveAboveWatermark, RequestsNext
  PROVE  ActiveAboveWatermark'
<1> USE DEF RequestsTypeOK, ActiveAboveWatermark
<1>1. ASSUME NEW call \in wire, ServeCall(call)
      PROVE  ActiveAboveWatermark'
  <2>1. call \in Call /\ call.id.seq \in Nat
    BY DEF Call, RequestId
  <2>2. CASE BeginSession(call)
    BY <2>2 DEF BeginSession
  <2>3. CASE Register(call)
    <3>1. CASE Registrable(call.id)
      <4>1. registry \in SessionState /\ call.id.seq > registry.cancelledThrough
        BY <3>1 DEF Registrable, Owned
      <4>2. registry'.active.seq = call.id.seq
              /\ registry'.cancelledThrough = registry.cancelledThrough
        BY <2>3, <3>1, <4>1 DEF Register, SessionState
      <4> QED BY <4>1, <4>2
    <3>2. CASE ~Registrable(call.id)
      BY <2>3, <3>2 DEF Register
    <3> QED BY <3>1, <3>2
  <2>4. CASE Commit(call)
    <3>1. CASE registry' = registry
      BY <3>1
    <3>2. CASE registry' # registry
      <4>1. registry \in SessionState
        BY <2>4, <3>2 DEF Commit, Owned
      <4>2. registry'.active = None
        BY <2>4, <3>2, <4>1 DEF Commit, SessionState
      <4> QED BY <4>2
    <3> QED BY <3>1, <3>2
  <2>5. CASE CancelRequest(call)
    <3>1. CASE Owned(call.id)
      <4> DEFINE mark == Watermark(call.id)
                 covered == registry.active # None /\ registry.active.seq <= mark
      <4>1. registry \in SessionState
        BY <3>1 DEF Owned
      <4>2. mark \in Nat
        BY <2>1, <4>1 DEF Watermark, SessionState
      <4>3. registry' = [registry EXCEPT !.cancelledThrough = mark,
                           !.active = IF covered THEN None ELSE registry.active]
        BY <2>5, <3>1 DEF CancelRequest
      <4>4. registry'.cancelledThrough = mark
              /\ registry'.active = IF covered THEN None ELSE registry.active
        BY <4>1, <4>3 DEF SessionState
      <4>5. registry.active # None => registry.active.seq \in Nat
        BY <4>1 DEF SessionState
      <4> QED BY <4>2, <4>4, <4>5
    <3>2. CASE ~Owned(call.id)
      BY <2>5, <3>2 DEF CancelRequest
    <3> QED BY <3>1, <3>2
  <2> QED BY <1>1, <2>2, <2>3, <2>4, <2>5 DEF ServeCall
<1>2. ASSUME NEW t \in tasks, StopDisplaced(t) \/ Subscribe(t) \/ FinishTask(t)
      PROVE  ActiveAboveWatermark'
  <2>1. CASE registry' = registry
    BY <2>1
  <2>2. CASE registry' # registry
    <3>1. (\E state \in RequestState : registry' = WithState(t.id, state))
            \/ registry' = WithoutActive(t.id)
      BY <1>2, <2>2 DEF StopDisplaced, Subscribe, FinishTask, Prepared, Failed,
                        CancelDownloads, RequestState
    <3>2. registry \in SessionState /\ registry.active # None
      BY <2>2, <3>1 DEF WithState, WithoutActive, ActiveIs, Owned
    <3>3. registry.active \in [seq : Nat, state : RequestState]
      BY <3>2 DEF SessionState
    <3>4. registry'.active = None
            \/ /\ registry'.active.seq = registry.active.seq
               /\ registry'.cancelledThrough = registry.cancelledThrough
      BY <3>1, <3>2, <3>3 DEF WithState, WithoutActive, SessionState
    <3>5. registry # None
      BY <3>2, NoneAssumption
    <3> QED BY <3>2, <3>4, <3>5
  <2> QED BY <2>1, <2>2
<1> QED BY <1>1, <1>2 DEF RequestsNext

\* The registry after a task's step: only the active request may change.
LEMMA TaskKeepsSession ==
  ASSUME RequestsTypeOK, NEW t \in tasks,
         StopDisplaced(t) \/ Subscribe(t) \/ FinishTask(t)
  PROVE  \/ registry' = registry
         \/ /\ registry \in SessionState /\ registry' \in SessionState
            /\ registry' = [registry EXCEPT !.active = registry'.active]
<1>1. CASE registry' = registry
  BY <1>1
<1>2. CASE registry' # registry
  <2>1. (\E state \in RequestState : registry' = WithState(t.id, state))
          \/ registry' = WithoutActive(t.id)
    BY <1>2 DEF StopDisplaced, Subscribe, FinishTask, Prepared, Failed,
                CancelDownloads, RequestState
  <2>2. registry \in SessionState
    BY <1>2, <2>1 DEF WithState, WithoutActive, ActiveIs, Owned, RequestsTypeOK
  <2>3. registry' \in SessionState
    BY <1>2, <2>1, WithStateTyped, WithoutActiveTyped DEF RequestsTypeOK, Task
  <2> QED BY <1>2, <2>1, <2>2, <2>3 DEF WithState, WithoutActive, SessionState
<1> QED BY <1>1, <1>2

\* ... and after a command other than begin.
LEMMA CommandKeepsSession ==
  ASSUME RequestsTypeOK, NEW call \in wire,
         Register(call) \/ Commit(call) \/ CancelRequest(call)
  PROVE  \/ registry' = registry
         \/ /\ registry \in SessionState /\ registry' \in SessionState
            /\ registry'.session = registry.session
            /\ registry'.boot = registry.boot
            /\ registry'.cancelledThrough >= registry.cancelledThrough
<1>1. call.id.seq \in Nat
  BY DEF RequestsTypeOK, Call, RequestId
<1>2. RequestsTypeOK'
  BY RegisterTyped, CommitTyped, CancelRequestTyped
<1> SUFFICES ASSUME registry' # registry
             PROVE  /\ registry \in SessionState /\ registry' \in SessionState
                    /\ registry'.session = registry.session
                    /\ registry'.boot = registry.boot
                    /\ registry'.cancelledThrough >= registry.cancelledThrough
  OBVIOUS
<1>3. Owned(call.id) /\ registry \in SessionState
  BY DEF Register, Registrable, Commit, CancelRequest, Owned, RequestsTypeOK
<1>4. registry.cancelledThrough \in Nat
  BY <1>3 DEF SessionState
<1>5. CASE Register(call)
  <2>1. registry' = [registry EXCEPT !.active = [seq |-> call.id.seq, state |-> "running"]]
    BY <1>5 DEF Register
  <2>2. [seq |-> call.id.seq, state |-> "running"] \in [seq : Nat, state : RequestState]
    BY <1>1 DEF RequestState
  <2> QED BY <1>3, <1>4, <2>1, <2>2 DEF SessionState
<1>6. CASE Commit(call)
  <2>1. registry' = [registry EXCEPT !.active = None,
                       !.lastCommitted = IF Committable(call.id) THEN call.id.seq
                                         ELSE registry.lastCommitted]
    BY <1>6 DEF Commit
  <2>2. /\ registry'.session = registry.session /\ registry'.boot = registry.boot
        /\ registry'.cancelledThrough = registry.cancelledThrough
    BY <1>3, <2>1 DEF SessionState
  <2>3. registry' \in SessionState
    BY <1>1, <1>3, <2>1 DEF SessionState
  <2> QED BY <1>3, <1>4, <2>2, <2>3
<1>7. CASE CancelRequest(call)
  <2> DEFINE mark == Watermark(call.id)
             covered == registry.active # None /\ registry.active.seq <= mark
  <2>1. mark \in Nat /\ mark >= registry.cancelledThrough
    BY <1>1, <1>4 DEF Watermark
  <2>2. registry' = [registry EXCEPT !.cancelledThrough = mark,
                       !.active = IF covered THEN None ELSE registry.active]
    BY <1>3, <1>7 DEF CancelRequest
  <2> HIDE DEF mark, covered
  <2>3. /\ registry'.session = registry.session /\ registry'.boot = registry.boot
        /\ registry'.cancelledThrough = mark
    BY <1>3, <2>2 DEF SessionState
  <2>4. registry' \in SessionState
    BY <1>3, <2>1, <2>2 DEF SessionState
  <2> QED BY <1>3, <2>1, <2>3, <2>4
<1> QED BY <1>5, <1>6, <1>7

\* What a step may do to a session: its boot never falls, nor, while it
\* lasts, its watermark.
LEMMA SessionStep ==
  ASSUME RequestsTypeOK, RequestsNext, registry # None
  PROVE  /\ registry'.boot >= registry.boot
         /\ registry'.session = registry.session =>
               registry'.cancelledThrough >= registry.cancelledThrough
<1>1. registry \in SessionState
  BY DEF RequestsTypeOK
<1>2. registry.boot \in Nat /\ registry.cancelledThrough \in Nat
  BY <1>1 DEF SessionState
<1>3. ASSUME NEW call \in wire, BeginSession(call)
      PROVE  /\ registry'.boot >= registry.boot
             /\ registry'.session = registry.session =>
                   registry'.cancelledThrough >= registry.cancelledThrough
  <2>1. call.boot \in Nat
    BY DEF RequestsTypeOK, Call
  <2> QED BY <1>2, <1>3, <2>1 DEF BeginSession, Superseded
<1>4. ASSUME NEW call \in wire, Register(call) \/ Commit(call) \/ CancelRequest(call)
      PROVE  /\ registry'.boot >= registry.boot
             /\ registry'.session = registry.session =>
                   registry'.cancelledThrough >= registry.cancelledThrough
  BY <1>2, <1>4, CommandKeepsSession
<1>5. ASSUME NEW t \in tasks, StopDisplaced(t) \/ Subscribe(t) \/ FinishTask(t)
      PROVE  /\ registry'.boot >= registry.boot
             /\ registry'.session = registry.session =>
                   registry'.cancelledThrough >= registry.cancelledThrough
  BY <1>1, <1>2, <1>5, TaskKeepsSession DEF SessionState
<1> QED BY <1>3, <1>4, <1>5 DEF RequestsNext, ServeCall

\* A prefetch is started by the commit of the active request only.
LEMMA PrefetchStep ==
  ASSUME RequestsTypeOK, ActiveAboveWatermark, RequestsNext,
         NEW id \in prefetched' \ prefetched
  PROVE  /\ ActiveIs(id) /\ registry.active.state = "streaming"
         /\ id.seq > registry.cancelledThrough
         /\ registry'.lastCommitted = id.seq
<1>1. PICK call \in wire : Commit(call) /\ prefetched' # prefetched
  BY DEF RequestsNext, ServeCall, BeginSession, Register, CancelRequest, StopDisplaced,
         Subscribe, FinishTask, Prepared, Failed, CancelDownloads
<1>2. /\ Owned(call.id) /\ registry.lastCommitted # call.id.seq
      /\ Committable(call.id) /\ registry.active.state = "streaming"
      /\ id = call.id
  BY <1>1 DEF Commit
<1>3. registry \in SessionState
  BY <1>2 DEF Owned, RequestsTypeOK
<1>4. registry'.lastCommitted = id.seq
  BY <1>1, <1>2, <1>3 DEF Commit, SessionState
<1> QED BY <1>2, <1>3, <1>4 DEF Committable, ActiveIs, Owned, ActiveAboveWatermark

-----------------------------------------------------------------------------
(***************************************************************************)
(* The invariant behind the types.                                          *)
(***************************************************************************)

\* An open in progress knows its archive; one that waits for the next attempt
\* has attempts left.
OpensWellFormed ==
  \A i \in OpenIndex :
    /\ opens[i].pc \notin {"idle", "done"} => opens[i].archive \in Archives
    /\ opens[i].pc = "backoff" => opens[i].attempt < Attempts

\* The fetch that ends an open belongs to an open that waits for it, and to it
\* alone.
FetchesOwned ==
  \A f \in fetches : f.then = "open" =>
    /\ f.open \in OpenIndex /\ opens[f.open].pc = "list"
    /\ \A g \in fetches : g.then = "open" /\ g.open = f.open => g = f

PageTyped == FileBrowserTypeOK /\ OpensWellFormed /\ FetchesOwned

LEMMA BoundsAreNat == /\ MaxOpens \in Nat /\ MaxOpens > 0
                      /\ SessionPromise \in Nat /\ SessionPromise # Nobody
                      /\ \A i \in OpenIndex : i \in Nat /\ i # 0 /\ i # SessionPromise
                                                /\ i \in 0..MaxOpens
BY BrowserAssumption DEF SessionPromise, OpenIndex, Nobody

LEMMA CallOfTyped ==
  ASSUME NEW op \in {"prepare", "unlock", "commit", "cancel"}, NEW id \in RequestId,
         NEW from \in Nat
  PROVE  CallOf(op, id, from) \in Call
BY DEF CallOf, Call

LEMMA BeginTyped ==
  ASSUME NEW s \in Nat, NEW b \in Nat
  PROVE  Begin(s, b) \in Call
BY BoundsAreNat DEF Begin, Call, RequestId

LEMMA IdTyped ==
  ASSUME FileBrowserTypeOK, NEW i \in OpenIndex
  PROVE  /\ opens[i] \in OpenCall
         /\ opens[i].id \in RequestId
         /\ opens[i].parent \in Place \cup {None}
         /\ opens[i].epoch \in Nat
         /\ opens[i].attempt \in 0..3
<1>1. opens[i] \in OpenCall
  BY DEF FileBrowserTypeOK
<1> QED BY <1>1 DEF OpenCall

-----------------------------------------------------------------------------
(***************************************************************************)
(* The pieces of the page's actions.                                        *)
(***************************************************************************)
PendingTyped ==
  /\ epoch \in Nat
  /\ {pendingOpen, pendingPassword, commitPending} \subseteq 0..MaxOpens
  /\ opening \in BOOLEAN
  /\ wire \subseteq Call

LEMMA TakeAndCancelTyped ==
  ASSUME FileBrowserTypeOK, TakeAndCancel
  PROVE  PendingTyped'
<1> DEFINE taken == IF pendingOpen # 0 THEN pendingOpen
                    ELSE IF pendingPassword # 0 THEN pendingPassword ELSE commitPending
<1>1. taken \in 0..MaxOpens
  BY DEF FileBrowserTypeOK
<1>2. taken # 0 => CallOf("cancel", opens[taken].id, Nobody) \in Call
  <2> SUFFICES ASSUME taken # 0 PROVE CallOf("cancel", opens[taken].id, Nobody) \in Call
    OBVIOUS
  <2>1. taken \in OpenIndex
    BY <1>1, BoundsAreNat DEF OpenIndex
  <2> QED BY <2>1, IdTyped, CallOfTyped DEF Nobody
<1>3. wire' \subseteq Call
  BY <1>2 DEF TakeAndCancel, Send, FileBrowserTypeOK, RequestsTypeOK
<1>4. /\ epoch' = epoch + 1 /\ opening' = FALSE
      /\ pendingOpen' = 0 /\ pendingPassword' = 0 /\ commitPending' = 0
  BY DEF TakeAndCancel
<1>5. epoch \in Nat
  BY DEF FileBrowserTypeOK
<1>6. opening' \in BOOLEAN
  BY <1>4, Zenon
<1>7. epoch' \in Nat /\ {pendingOpen', pendingPassword', commitPending'} \subseteq 0..MaxOpens
  BY <1>4, <1>5, BoundsAreNat
<1> QED BY <1>3, <1>6, <1>7 DEF PendingTyped

LEMMA InvalidateTyped ==
  ASSUME FileBrowserTypeOK, InvalidatePending
  PROVE  PendingTyped'
<1>1. CASE ArchivePending
  BY <1>1, TakeAndCancelTyped DEF InvalidatePending
<1>2. CASE ~ArchivePending
  BY <1>2 DEF InvalidatePending, PendingTyped, pendingVars, FileBrowserTypeOK, RequestsTypeOK
<1> QED BY <1>1, <1>2

LEMMA FetchTyped ==
  ASSUME FileBrowserTypeOK, NEW id \in Nat, NEW place \in Place,
         NEW then \in {"nothing", "rollback", "open", "navigate"}, NEW path \in Paths,
         NEW open \in 0..MaxOpens, StartFetch(id, place, then, path, open)
  PROVE  fetchRequestId' \in Nat /\ fetches' \subseteq FetchCall
<1>1. [id |-> id, place |-> place, then |-> then, path |-> path, open |-> open] \in FetchCall
  BY DEF FetchCall
<1> QED BY <1>1 DEF StartFetch, FileBrowserTypeOK

LEMMA NextFetchTyped ==
  ASSUME FileBrowserTypeOK, NEW place \in Place,
         NEW then \in {"nothing", "rollback", "open", "navigate"}, NEW path \in Paths,
         NEW open \in 0..MaxOpens, NextFetch(place, then, path, open)
  PROVE  /\ fetchRequestId' \in Nat /\ fetches' \subseteq FetchCall
         /\ \A f \in fetches' : f \in fetches \/ (f.then = then /\ f.open = open)
<1>1. fetchRequestId + 1 \in Nat
  BY DEF FileBrowserTypeOK
<1>2. fetchRequestId' \in Nat /\ fetches' \subseteq FetchCall
  BY <1>1, FetchTyped DEF NextFetch
<1> QED BY <1>2 DEF NextFetch, StartFetch

\* Where the page goes: a place, and a fetch that belongs to no open.
BrowseTyped ==
  /\ here' \in Place /\ listing' \in Place \cup {None} /\ parent' \in Place \cup {None}
  /\ fetchRequestId' \in Nat /\ fetches' \subseteq FetchCall
  /\ \A f \in fetches' : f \in fetches \/ f.then # "open"

LEMMA PlacesTyped ==
  ASSUME FileBrowserTypeOK
  PROVE  /\ here.src \in Sources /\ here.path \in Paths
         /\ \A src \in Sources, path \in Paths : At(src, path) \in Place
         /\ \A path \in Paths : [here EXCEPT !.path = path] \in Place
         /\ Locals \cup Remotes \subseteq Sources
         /\ Archives \subseteq Sources
         /\ Top \in Paths /\ Dir \in Paths
BY DEF FileBrowserTypeOK, Place, Sources, At, Paths

LEMMA UserActsTyped ==
  ASSUME PageTyped, UserActs, PendingTyped', BrowseTyped, intent' \in 0..MaxOpens
  PROVE  PageTyped'
<1>1. RequestsTypeOK'
  BY DEF PageTyped, FileBrowserTypeOK, RequestsTypeOK, UserActs, PendingTyped
<1>2. moves' \in 0..MaxMoves
  BY BrowserAssumption DEF PageTyped, FileBrowserTypeOK, UserActs
<1>3. FileBrowserTypeOK'
  BY <1>1, <1>2 DEF PageTyped, FileBrowserTypeOK, UserActs, PendingTyped, BrowseTyped,
                    sessionVars
<1>4. OpensWellFormed'
  BY DEF PageTyped, OpensWellFormed, UserActs
<1>5. FetchesOwned'
  BY DEF PageTyped, FetchesOwned, UserActs, BrowseTyped
<1> QED BY <1>3, <1>4, <1>5 DEF PageTyped

-----------------------------------------------------------------------------
(***************************************************************************)
(* Type correctness of browsing.                                            *)
(***************************************************************************)
LEMMA NothingPendingTyped ==
  ASSUME FileBrowserTypeOK, UNCHANGED <<pendingVars, wire>>
  PROVE  PendingTyped'
BY DEF PendingTyped, pendingVars, FileBrowserTypeOK, RequestsTypeOK

LEMMA NavigateTyped ==
  ASSUME PageTyped, NEW path \in Paths, Navigate(path)
  PROVE  PageTyped'
<1>0. FileBrowserTypeOK
  BY DEF PageTyped
<1>1. PendingTyped'
  BY <1>0, InvalidateTyped DEF Navigate
<1>2. here' \in Place /\ here.path \in Paths
  BY <1>0, PlacesTyped DEF Navigate
<1>3. fetchRequestId' \in Nat /\ fetches' \subseteq FetchCall
  BY <1>0, <1>2, BoundsAreNat, NextFetchTyped DEF Navigate
<1>4. BrowseTyped
  BY <1>0, <1>2, <1>3 DEF BrowseTyped, Navigate, NextFetch, StartFetch, FileBrowserTypeOK
<1> QED BY <1>1, <1>4, BoundsAreNat, UserActsTyped DEF Navigate

LEMMA UpTyped ==
  ASSUME PageTyped, Up
  PROVE  PageTyped'
<1>0. FileBrowserTypeOK
  BY DEF PageTyped
<1>1. PendingTyped'
  BY <1>0, InvalidateTyped DEF Up
<1>2. here' \in Place /\ Top \in Paths
  BY <1>0, PlacesTyped DEF Up
<1>3. fetchRequestId' \in Nat /\ fetches' \subseteq FetchCall
  BY <1>0, <1>2, BoundsAreNat, NextFetchTyped DEF Up
<1>4. BrowseTyped
  BY <1>0, <1>2, <1>3 DEF BrowseTyped, Up, NextFetch, StartFetch, FileBrowserTypeOK
<1> QED BY <1>1, <1>4, BoundsAreNat, UserActsTyped DEF Up

LEMMA RefreshTyped ==
  ASSUME PageTyped, Refresh
  PROVE  PageTyped'
<1>0. FileBrowserTypeOK
  BY DEF PageTyped
<1>1. PendingTyped'
  BY <1>0, NothingPendingTyped DEF Refresh
<1>2. here \in Place /\ Top \in Paths
  BY <1>0, PlacesTyped DEF FileBrowserTypeOK
<1>3. fetchRequestId' \in Nat /\ fetches' \subseteq FetchCall
  BY <1>0, <1>2, BoundsAreNat, NextFetchTyped DEF Refresh
<1>4. BrowseTyped
  BY <1>0, <1>3 DEF BrowseTyped, Refresh, NextFetch, StartFetch, FileBrowserTypeOK
<1>5. intent' \in 0..MaxOpens
  BY <1>0 DEF Refresh, FileBrowserTypeOK
<1> QED BY <1>1, <1>4, <1>5, UserActsTyped DEF Refresh

LEMMA OpenLocalTyped ==
  ASSUME PageTyped, NEW root \in Locals, NEW path \in Paths, OpenLocal(root, path)
  PROVE  PageTyped'
<1>0. FileBrowserTypeOK
  BY DEF PageTyped
<1>1. PendingTyped'
  BY <1>0, InvalidateTyped DEF OpenLocal
<1>2. here' \in Place
  BY <1>0, PlacesTyped DEF OpenLocal
<1>3. fetchRequestId' \in Nat /\ fetches' \subseteq FetchCall
  BY <1>0, <1>2, BoundsAreNat, FetchTyped DEF OpenLocal, FileBrowserTypeOK
<1>4. BrowseTyped
  BY <1>0, <1>2, <1>3 DEF BrowseTyped, OpenLocal, StartFetch, FileBrowserTypeOK
<1> QED BY <1>1, <1>4, BoundsAreNat, UserActsTyped DEF OpenLocal

LEMMA OpenRemoteTyped ==
  ASSUME PageTyped, NEW source \in Remotes, NEW path \in Paths, OpenRemote(source, path)
  PROVE  PageTyped'
<1>0. FileBrowserTypeOK
  BY DEF PageTyped
<1>1. PendingTyped'
  BY <1>0, InvalidateTyped DEF OpenRemote
<1>2. here' \in Place /\ here.path \in Paths
  BY <1>0, PlacesTyped DEF OpenRemote
<1>3. fetchRequestId' \in Nat /\ fetches' \subseteq FetchCall
  BY <1>0, <1>2, BoundsAreNat, NextFetchTyped DEF OpenRemote
<1>4. BrowseTyped
  BY <1>0, <1>2, <1>3 DEF BrowseTyped, OpenRemote, NextFetch, StartFetch, FileBrowserTypeOK
<1> QED BY <1>1, <1>4, BoundsAreNat, UserActsTyped DEF OpenRemote

LEMMA ExitArchiveTyped ==
  ASSUME PageTyped, ExitArchive
  PROVE  PageTyped'
<1>0. FileBrowserTypeOK
  BY DEF PageTyped
<1>1. PendingTyped'
  BY <1>0, TakeAndCancelTyped DEF ExitArchive
<1>2. here' \in Place /\ here.path \in Paths
  BY <1>0, PlacesTyped DEF ExitArchive, FileBrowserTypeOK
<1>3. fetchRequestId' \in Nat /\ fetches' \subseteq FetchCall
  BY <1>0, <1>2, BoundsAreNat, NextFetchTyped DEF ExitArchive
<1>4. BrowseTyped
  BY <1>0, <1>2, <1>3 DEF BrowseTyped, ExitArchive, NextFetch, StartFetch, FileBrowserTypeOK
<1> QED BY <1>1, <1>4, BoundsAreNat, UserActsTyped DEF ExitArchive

LEMMA CancelOpenTyped ==
  ASSUME PageTyped, CancelOpen
  PROVE  PageTyped'
<1>0. FileBrowserTypeOK
  BY DEF PageTyped
<1>1. PendingTyped'
  BY <1>0, TakeAndCancelTyped DEF CancelOpen
<1>2. BrowseTyped
  BY <1>0 DEF BrowseTyped, CancelOpen, browseVars, FileBrowserTypeOK
<1> QED BY <1>1, <1>2, BoundsAreNat, UserActsTyped DEF CancelOpen

\* The rest of an open after its last await.
LEMMA FinishOpenTyped ==
  ASSUME FileBrowserTypeOK, NEW i \in OpenIndex, FinishOpen(i), wire' \subseteq Call
  PROVE  /\ PendingTyped'
         /\ opens' \in [OpenIndex -> OpenCall]
         /\ opens'[i].pc = "done"
         /\ \A j \in OpenIndex : j # i => opens'[j] = opens[j]
<1>1. opens' = [opens EXCEPT ![i].pc = "done"] /\ opens \in [OpenIndex -> OpenCall]
  BY DEF FinishOpen, FileBrowserTypeOK
<1>2. [opens[i] EXCEPT !.pc = "done"] \in OpenCall
  BY <1>1 DEF OpenCall, OpenPc
<1>3. opens' \in [OpenIndex -> OpenCall]
  BY <1>1, <1>2
<1>4. opens'[i].pc = "done" /\ \A j \in OpenIndex : j # i => opens'[j] = opens[j]
  BY <1>1 DEF OpenCall
<1>5. epoch' = epoch /\ pendingPassword' = pendingPassword /\ commitPending' = commitPending
  BY DEF FinishOpen
<1>6. pendingOpen' \in {0, pendingOpen}
  BY DEF FinishOpen
<1>7. opening' \in BOOLEAN
  BY Zenon DEF FinishOpen, FileBrowserTypeOK
<1>8. epoch' \in Nat /\ {pendingOpen', pendingPassword', commitPending'} \subseteq 0..MaxOpens
  BY <1>5, <1>6, BoundsAreNat DEF FileBrowserTypeOK
<1> QED BY <1>3, <1>4, <1>7, <1>8 DEF PendingTyped

\* The page sends commands and takes answers; it changes nothing else.
LEMMA PageKeepsRequests ==
  ASSUME RequestsTypeOK, UNCHANGED <<registry, tasks, prefetched>>,
         wire' \subseteq Call, answers' \subseteq answers
  PROVE  RequestsTypeOK'
BY DEF RequestsTypeOK

LEMMA FetchDoneTyped ==
  ASSUME PageTyped, NEW f \in fetches, NEW ok \in BOOLEAN, FetchDone(f, ok)
  PROVE  PageTyped'
<1>0. FileBrowserTypeOK
  BY DEF PageTyped
<1>1. f \in FetchCall
  BY <1>0 DEF FileBrowserTypeOK
<1>2. f.place \in Place /\ f.path \in Paths /\ f.open \in 0..MaxOpens
  BY <1>1 DEF FetchCall
<1>3. listErrors' \in 0..MaxListErrors
  BY <1>0, BrowserAssumption DEF FetchDone, FileBrowserTypeOK
<1>4. listing' \in Place \cup {None} /\ parent' \in Place \cup {None}
  BY <1>0, <1>2 DEF FetchDone, FileBrowserTypeOK
<1>5. /\ UNCHANGED <<superseding, sessionVars, sequence, intent, moves, reloads>>
      /\ UNCHANGED <<registry, tasks, answers, prefetched>>
  BY DEF FetchDone
<1>6. ASSUME PendingTyped', here' \in Place, fetchRequestId' \in Nat,
             fetches' \subseteq FetchCall, opens' \in [OpenIndex -> OpenCall]
      PROVE  FileBrowserTypeOK'
  <2>1. RequestsTypeOK'
    BY <1>0, <1>5, <1>6, PageKeepsRequests DEF PendingTyped, FileBrowserTypeOK
  <2> QED BY <1>0, <1>3, <1>4, <1>5, <1>6, <2>1 DEF FileBrowserTypeOK, PendingTyped, sessionVars
<1>7. CASE f.then \in {"nothing", "rollback"}
  <2>1. here' \in {here, [here EXCEPT !.path = f.path]}
        /\ fetches' = fetches \ {f} /\ UNCHANGED <<fetchRequestId, opens, pendingVars, wire>>
    BY <1>7 DEF FetchDone
  <2>2. here' \in Place
    BY <1>0, <1>2, <2>1, PlacesTyped DEF FileBrowserTypeOK
  <2>3. FileBrowserTypeOK'
    BY <1>0, <1>6, <2>1, <2>2, NothingPendingTyped DEF FileBrowserTypeOK
  <2> QED BY <2>1, <2>3 DEF PageTyped, OpensWellFormed, FetchesOwned
<1>8. CASE f.then = "open"
  <2>1. FinishOpen(f.open) /\ fetches' = fetches \ {f}
        /\ UNCHANGED <<here, fetchRequestId, wire>>
    BY <1>8 DEF FetchDone
  <2>2. f.open \in OpenIndex
    BY <1>8 DEF PageTyped, FetchesOwned
  <2>3. wire' \subseteq Call
    BY <1>0, <2>1 DEF FileBrowserTypeOK, RequestsTypeOK
  <2>4. /\ PendingTyped' /\ opens' \in [OpenIndex -> OpenCall]
        /\ opens'[f.open].pc = "done"
        /\ \A j \in OpenIndex : j # f.open => opens'[j] = opens[j]
    BY <1>0, <2>1, <2>2, <2>3, FinishOpenTyped
  <2>5. FileBrowserTypeOK'
    BY <1>0, <1>6, <2>1, <2>4 DEF FileBrowserTypeOK
  <2>6. OpensWellFormed'
    BY <2>4 DEF PageTyped, OpensWellFormed
  <2>7. FetchesOwned'
    BY <1>8, <2>1, <2>4 DEF PageTyped, FetchesOwned
  <2> QED BY <2>5, <2>6, <2>7 DEF PageTyped
<1>9. CASE f.then = "navigate"
  <2> DEFINE g == [id |-> fetchRequestId + 1, place |-> here', then |-> "rollback",
                   path |-> here.path, open |-> 0]
  <2>1. /\ InvalidatePending /\ here' = [here EXCEPT !.path = f.path]
        /\ fetchRequestId' = fetchRequestId + 1 /\ fetches' = (fetches \ {f}) \cup {g}
        /\ opens' = opens
    BY <1>9 DEF FetchDone
  <2>2. here' \in Place /\ here.path \in Paths
    BY <1>0, <1>2, <2>1, PlacesTyped
  <2>3. fetchRequestId' \in Nat /\ fetchRequestId + 1 \in Nat
    BY <1>0, <2>1 DEF FileBrowserTypeOK
  <2>4. g \in FetchCall
    BY <2>2, <2>3, BoundsAreNat DEF FetchCall
  <2>5. FileBrowserTypeOK'
    BY <1>0, <1>6, <2>1, <2>2, <2>3, <2>4, InvalidateTyped DEF FileBrowserTypeOK
  <2>6. g.then # "open"
    OBVIOUS
  <2> HIDE DEF g
  <2> QED BY <2>1, <2>5, <2>6 DEF PageTyped, OpensWellFormed, FetchesOwned
<1> QED BY <1>1, <1>7, <1>8, <1>9 DEF FetchCall

LEMMA BrowseTypedHolds ==
  ASSUME PageTyped, Browse
  PROVE  PageTyped'
BY NavigateTyped, UpTyped, RefreshTyped, OpenLocalTyped, OpenRemoteTyped,
   ExitArchiveTyped, CancelOpenTyped, FetchDoneTyped DEF Browse

-----------------------------------------------------------------------------
(***************************************************************************)
(* Type correctness of opening an archive.                                  *)
(***************************************************************************)

\* What the steps of an open have in common: one entry of opens changes, by a
\* well-formed one, and it is not one whose listing is on its way.
LEMMA OpenStepTyped ==
  ASSUME PageTyped, OpenStep, PendingTyped', answers' \subseteq answers,
         here' \in Place, parent' \in Place \cup {None}, listing' = listing,
         UNCHANGED <<fetchRequestId, fetches>>,
         superseding' \in BOOLEAN,
         session' \in 1..sessions', boot' \in Nat, sequence' \in Nat,
         sessionReady' \in {"none", "begin", "retry", "ready"},
         sessions' \in Nat, pastBoot' \in Nat, intent' \in 0..MaxOpens,
         opens' \in [OpenIndex -> OpenCall],
         \A i \in OpenIndex :
            \/ opens'[i] = opens[i]
            \/ /\ opens[i].pc # "list"
               /\ opens'[i].pc \notin {"idle", "done"} => opens'[i].archive \in Archives
               /\ opens'[i].pc = "backoff" => opens'[i].attempt < Attempts
  PROVE  PageTyped'
<1>0. FileBrowserTypeOK /\ RequestsTypeOK
  BY DEF PageTyped, FileBrowserTypeOK
<1>1. RequestsTypeOK'
  BY <1>0, PageKeepsRequests DEF OpenStep, PendingTyped
<1>2. FileBrowserTypeOK'
  BY <1>0, <1>1 DEF FileBrowserTypeOK, OpenStep, boundVars, PendingTyped
<1>3. OpensWellFormed'
  BY DEF PageTyped, OpensWellFormed
<1>4. FetchesOwned'
  BY DEF PageTyped, FetchesOwned
<1> QED BY <1>2, <1>3, <1>4 DEF PageTyped

LEMMA RegisterOpenTyped ==
  ASSUME FileBrowserTypeOK, NEW i \in OpenIndex, NEW call \in OpenCall,
         call.archive \in Archives, RegisterOpen(i, call)
  PROVE  /\ opens' \in [OpenIndex -> OpenCall]
         /\ opens'[i].pc = "begin" /\ opens'[i].archive \in Archives
         /\ \A j \in OpenIndex : j # i => opens'[j] = opens[j]
         /\ pendingOpen' = i /\ opening' \in BOOLEAN /\ sequence' \in Nat
         /\ sessionReady' \in {"none", "begin", "retry", "ready"}
         /\ wire' \subseteq Call
         /\ UNCHANGED <<session, boot, sessions, pastBoot>>
<1> DEFINE new == [call EXCEPT !.pc = "begin", !.parent = here,
                               !.id = [session |-> session, seq |-> sequence + 1]]
<1>1. opens' = [opens EXCEPT ![i] = new] /\ opens \in [OpenIndex -> OpenCall]
  BY DEF RegisterOpen, FileBrowserTypeOK
<1>2. sequence + 1 \in Nat /\ session \in Nat /\ boot \in Nat /\ here \in Place
  BY DEF FileBrowserTypeOK
<1>3. new \in OpenCall /\ new.pc = "begin" /\ new.archive \in Archives
  BY <1>2 DEF OpenCall, OpenPc, RequestId
<1>4. wire' \subseteq Call
  BY <1>2, BeginTyped DEF RegisterOpen, Send, FileBrowserTypeOK, RequestsTypeOK
<1>5. opening' \in BOOLEAN
  BY Zenon DEF RegisterOpen
<1>6. sessionReady' \in {"none", "begin", "retry", "ready"}
  BY DEF RegisterOpen, FileBrowserTypeOK
<1> HIDE DEF new
<1>7. /\ opens' \in [OpenIndex -> OpenCall] /\ opens'[i] = new
      /\ \A j \in OpenIndex : j # i => opens'[j] = opens[j]
  BY <1>1, <1>3
<1>8. /\ pendingOpen' = i /\ sequence' = sequence + 1
      /\ UNCHANGED <<session, boot, sessions, pastBoot>>
  BY DEF RegisterOpen
<1> QED BY <1>2, <1>3, <1>4, <1>5, <1>6, <1>7, <1>8

LEMMA IdleTyped == Idle \in OpenCall
<1>1. FALSE \in BOOLEAN
  BY Zenon
<1>2. [session |-> 0, seq |-> 0] \in RequestId
  BY DEF RequestId
<1> QED BY <1>1, <1>2 DEF Idle, OpenCall, OpenPc

LEMMA OpenArchiveTyped ==
  ASSUME PageTyped, NEW i \in OpenIndex, NEW archive \in Archives, OpenArchive(i, archive)
  PROVE  PageTyped'
<1> DEFINE superseded == IF pendingOpen # 0 THEN pendingOpen
                         ELSE IF pendingPassword # 0 THEN pendingPassword ELSE commitPending
           call == [Idle EXCEPT !.archive = archive, !.epoch = epoch + 1]
<1>0. FileBrowserTypeOK
  BY DEF PageTyped
<1>1. call \in OpenCall /\ call.archive = archive
  <2>1. epoch + 1 \in Nat
    BY <1>0 DEF FileBrowserTypeOK
  <2> QED BY <2>1, IdleTyped DEF OpenCall
<1>2. /\ opens[i].pc = "idle" /\ intent' = i /\ epoch' = epoch + 1
      /\ pendingPassword' = 0 /\ commitPending' = 0
      /\ OpenStep /\ UNCHANGED <<browseVars, answers>>
  BY DEF OpenArchive
<1>3. /\ epoch' \in Nat /\ intent' \in 0..MaxOpens
      /\ pendingPassword' \in 0..MaxOpens /\ commitPending' \in 0..MaxOpens
      /\ here' \in Place /\ parent' \in Place \cup {None} /\ listing' = listing
      /\ UNCHANGED <<fetchRequestId, fetches>>
  BY <1>0, <1>2, BoundsAreNat DEF FileBrowserTypeOK, browseVars
<1>4. CASE superseded = 0
  <2>1. RegisterOpen(i, call) /\ superseding' = superseding
    BY <1>4 DEF OpenArchive
  <2>2. /\ opens' \in [OpenIndex -> OpenCall]
        /\ opens'[i].pc = "begin" /\ opens'[i].archive \in Archives
        /\ \A j \in OpenIndex : j # i => opens'[j] = opens[j]
        /\ pendingOpen' = i /\ opening' \in BOOLEAN /\ sequence' \in Nat
        /\ sessionReady' \in {"none", "begin", "retry", "ready"}
        /\ wire' \subseteq Call
        /\ UNCHANGED <<session, boot, sessions, pastBoot>>
    BY <1>0, <1>1, <2>1, RegisterOpenTyped
  <2>3. PendingTyped'
    BY <1>3, <2>2, BoundsAreNat DEF PendingTyped
  <2>4. superseding' \in BOOLEAN
    BY <1>0, <2>1 DEF FileBrowserTypeOK
  <2> QED BY <1>0, <1>2, <1>3, <2>2, <2>3, <2>4, OpenStepTyped DEF FileBrowserTypeOK
<1>5. CASE superseded # 0
  <2> DEFINE new == [call EXCEPT !.pc = "superseding"]
  <2>1. /\ superseding' = TRUE /\ pendingOpen' = 0
        /\ opens' = [opens EXCEPT ![i] = new]
        /\ Send({CallOf("cancel", opens[superseded].id, i)})
        /\ UNCHANGED <<opening, sequence, sessionVars>>
    BY <1>5 DEF OpenArchive
  <2>2. superseded \in OpenIndex
    BY <1>0, <1>5, BoundsAreNat DEF FileBrowserTypeOK, OpenIndex
  <2>3. wire' \subseteq Call
    BY <1>0, <2>1, <2>2, IdTyped, CallOfTyped, BoundsAreNat
       DEF Send, FileBrowserTypeOK, RequestsTypeOK
  <2>4. new \in OpenCall /\ new.pc = "superseding" /\ new.archive \in Archives
    BY <1>1 DEF OpenCall, OpenPc
  <2> HIDE DEF new, call
  <2>5. opens' \in [OpenIndex -> OpenCall] /\ opens'[i] = new
        /\ \A j \in OpenIndex : j # i => opens'[j] = opens[j]
    BY <1>0, <2>1, <2>4 DEF FileBrowserTypeOK
  <2>6. PendingTyped'
    BY <1>0, <1>3, <2>1, <2>3, BoundsAreNat DEF PendingTyped, FileBrowserTypeOK
  <2>7. superseding' \in BOOLEAN
    BY <2>1, Zenon
  <2> QED BY <1>0, <1>2, <1>3, <2>1, <2>4, <2>5, <2>6, <2>7, OpenStepTyped
          DEF FileBrowserTypeOK, sessionVars
<1> QED BY <1>4, <1>5

\* A step of open i that only moves it on: nothing else of the page changes but
\* the calls on the wire and the pending ids.
LEMMA OpenMovesTyped ==
  ASSUME PageTyped, OpenStep, NEW i \in OpenIndex, PendingTyped', answers' \subseteq answers,
         here' \in Place, parent' \in Place \cup {None}, listing' = listing,
         UNCHANGED <<fetchRequestId, fetches, superseding, sessionVars, sequence, intent>>,
         opens[i].pc # "list",
         opens' \in [OpenIndex -> OpenCall],
         opens'[i].archive \in Archives \/ opens'[i].pc \in {"idle", "done"},
         opens'[i].pc = "backoff" => opens'[i].attempt < Attempts,
         \A j \in OpenIndex : j # i => opens'[j] = opens[j]
  PROVE  PageTyped'
<1>1. /\ superseding' \in BOOLEAN /\ session' \in 1..sessions' /\ boot' \in Nat
      /\ sequence' \in Nat /\ sessionReady' \in {"none", "begin", "retry", "ready"}
      /\ sessions' \in Nat /\ pastBoot' \in Nat /\ intent' \in 0..MaxOpens
  BY DEF PageTyped, FileBrowserTypeOK, sessionVars
<1>2. \A j \in OpenIndex :
            \/ opens'[j] = opens[j]
            \/ /\ opens[j].pc # "list"
               /\ opens'[j].pc \notin {"idle", "done"} => opens'[j].archive \in Archives
               /\ opens'[j].pc = "backoff" => opens'[j].attempt < Attempts
  OBVIOUS
<1> QED BY <1>1, <1>2, OpenStepTyped

LEMMA SupersedeTyped ==
  ASSUME PageTyped, NEW i \in OpenIndex, NEW a \in answers, Supersede(i, a)
  PROVE  PageTyped'
<1>0. FileBrowserTypeOK
  BY DEF PageTyped
<1>1. /\ opens[i].pc = "superseding" /\ answers' \subseteq answers
      /\ superseding' = FALSE /\ OpenStep
      /\ UNCHANGED <<browseVars, epoch, pendingPassword, commitPending, intent>>
  BY DEF Supersede, Receive
<1>2. /\ epoch' \in Nat /\ intent' \in 0..MaxOpens
      /\ pendingPassword' \in 0..MaxOpens /\ commitPending' \in 0..MaxOpens
      /\ here' \in Place /\ parent' \in Place \cup {None} /\ listing' = listing
      /\ UNCHANGED <<fetchRequestId, fetches>>
  BY <1>0, <1>1 DEF FileBrowserTypeOK, browseVars
<1>3. superseding' \in BOOLEAN
  BY <1>1, Zenon
<1>4. CASE opens[i].epoch = epoch
  <2>1. RegisterOpen(i, opens[i])
    BY <1>4 DEF Supersede
  <2>2. opens[i] \in OpenCall /\ opens[i].archive \in Archives
    BY <1>0, <1>1, IdTyped DEF PageTyped, OpensWellFormed
  <2>3. /\ opens' \in [OpenIndex -> OpenCall]
        /\ opens'[i].pc = "begin" /\ opens'[i].archive \in Archives
        /\ \A j \in OpenIndex : j # i => opens'[j] = opens[j]
        /\ pendingOpen' = i /\ opening' \in BOOLEAN /\ sequence' \in Nat
        /\ sessionReady' \in {"none", "begin", "retry", "ready"}
        /\ wire' \subseteq Call
        /\ UNCHANGED <<session, boot, sessions, pastBoot>>
    BY <1>0, <2>1, <2>2, RegisterOpenTyped
  <2>4. PendingTyped'
    BY <1>2, <2>3, BoundsAreNat DEF PendingTyped
  <2> QED BY <1>0, <1>1, <1>2, <1>3, <2>3, <2>4, OpenStepTyped DEF FileBrowserTypeOK
<1>5. CASE opens[i].epoch # epoch
  <2>1. /\ opens' = [opens EXCEPT ![i].pc = "done"]
        /\ UNCHANGED <<pendingOpen, opening, wire, sessionVars, sequence>>
    BY <1>5 DEF Supersede
  <2>2. [opens[i] EXCEPT !.pc = "done"] \in OpenCall
    BY <1>0, IdTyped DEF OpenCall, OpenPc
  <2>3. opens' \in [OpenIndex -> OpenCall] /\ opens'[i].pc = "done"
        /\ \A j \in OpenIndex : j # i => opens'[j] = opens[j]
    BY <1>0, <2>1, <2>2, IdTyped DEF FileBrowserTypeOK, OpenCall
  <2>4. PendingTyped'
    BY <1>0, <1>2, <2>1 DEF PendingTyped, FileBrowserTypeOK, RequestsTypeOK
  <2> QED BY <1>0, <1>1, <1>2, <1>3, <2>1, <2>3, <2>4, OpenStepTyped
          DEF FileBrowserTypeOK, sessionVars
<1> QED BY <1>4, <1>5

LEMMA SessionBegunTyped ==
  ASSUME PageTyped, NEW a \in answers, SessionBegun(a)
  PROVE  PageTyped'
<1>0. FileBrowserTypeOK
  BY DEF PageTyped
<1>1. /\ answers' \subseteq answers /\ OpenStep
      /\ UNCHANGED <<browseVars, epoch, pendingPassword, commitPending, superseding,
                     pastBoot, sequence, intent>>
  BY DEF SessionBegun, Receive
<1>2. /\ epoch' \in Nat /\ intent' \in 0..MaxOpens /\ pastBoot' \in Nat /\ sequence' \in Nat
      /\ pendingPassword' \in 0..MaxOpens /\ commitPending' \in 0..MaxOpens
      /\ here' \in Place /\ parent' \in Place \cup {None} /\ listing' = listing
      /\ UNCHANGED <<fetchRequestId, fetches>> /\ superseding' \in BOOLEAN
  BY <1>0, <1>1 DEF FileBrowserTypeOK, browseVars
<1>3. CASE a.boot <= boot
  <2>1. /\ sessionReady' = "ready"
        /\ UNCHANGED <<session, boot, sessions, wire, opens, pendingOpen, opening>>
    BY <1>0, <1>3 DEF SessionBegun, FileBrowserTypeOK, RequestsTypeOK, Answer
  <2>2. PendingTyped'
    BY <1>0, <1>2, <2>1 DEF PendingTyped, FileBrowserTypeOK, RequestsTypeOK
  <2> QED BY <1>0, <1>1, <1>2, <2>1, <2>2, OpenStepTyped DEF FileBrowserTypeOK
<1>4. CASE a.boot > boot /\ sessionReady = "begin"
  <2>0. a.boot \in Nat /\ sessions \in Nat
    BY <1>0 DEF FileBrowserTypeOK, RequestsTypeOK, Answer
  <2>1. /\ sessionReady' = "retry" /\ boot' = a.boot + 1
        /\ sessions' = sessions + 1 /\ session' = sessions'
        /\ Send({Begin(session', boot')})
        /\ UNCHANGED <<opens, pendingOpen, opening>>
    BY <1>0, <1>4, <2>0 DEF SessionBegun, FileBrowserTypeOK
  <2>2. boot' \in Nat /\ sessions' \in Nat /\ session' \in 1..sessions' /\ session' \in Nat
    BY <2>0, <2>1
  <2>3. wire' \subseteq Call
    BY <1>0, <2>1, <2>2, BeginTyped DEF Send, FileBrowserTypeOK, RequestsTypeOK
  <2>4. PendingTyped'
    BY <1>0, <1>2, <2>1, <2>3 DEF PendingTyped, FileBrowserTypeOK
  <2> QED BY <1>0, <1>1, <1>2, <2>1, <2>2, <2>4, OpenStepTyped DEF FileBrowserTypeOK
<1>5. CASE a.boot > boot /\ sessionReady = "retry"
  <2>0. a.boot \in Nat /\ boot \in Nat
    BY <1>0 DEF FileBrowserTypeOK, RequestsTypeOK, Answer
  <2>1. /\ sessionReady' = "none"
        /\ opens' = [i \in OpenIndex |->
               IF opens[i].pc = "begin" THEN [opens[i] EXCEPT !.pc = "done"] ELSE opens[i]]
        /\ pendingOpen' \in {0, pendingOpen}
        /\ UNCHANGED <<session, boot, sessions, wire>>
    BY <1>5, <2>0 DEF SessionBegun
  <2>2. opening' \in BOOLEAN
    BY <1>0, Zenon DEF SessionBegun, FileBrowserTypeOK
  <2>3. \A i \in OpenIndex : /\ opens[i] \in OpenCall
                             /\ [opens[i] EXCEPT !.pc = "done"] \in OpenCall
                             /\ [opens[i] EXCEPT !.pc = "done"].pc = "done"
    BY <1>0, IdTyped DEF OpenCall, OpenPc
  <2>4. opens' \in [OpenIndex -> OpenCall]
    BY <2>1, <2>3
  <2>5. \A i \in OpenIndex : opens'[i] = opens[i]
                               \/ (opens[i].pc = "begin" /\ opens'[i].pc = "done")
    BY <2>1, <2>3
  <2>6. PendingTyped'
    BY <1>0, <1>2, <2>1, <2>2, BoundsAreNat DEF PendingTyped, FileBrowserTypeOK, RequestsTypeOK
  <2> QED BY <1>0, <1>1, <1>2, <2>1, <2>4, <2>5, <2>6, OpenStepTyped DEF FileBrowserTypeOK
<1>6. a.boot <= boot \/ a.boot > boot
  BY <1>0 DEF FileBrowserTypeOK, RequestsTypeOK, Answer
<1> QED BY <1>3, <1>4, <1>5, <1>6 DEF SessionBegun

\* Changing the pc of an open, and nothing of its archive.
LEMMA PcTyped ==
  ASSUME FileBrowserTypeOK, NEW i \in OpenIndex, NEW pc \in OpenPc,
         opens' = [opens EXCEPT ![i].pc = pc]
  PROVE  /\ opens' \in [OpenIndex -> OpenCall]
         /\ opens'[i].pc = pc /\ opens'[i].archive = opens[i].archive
         /\ opens'[i].attempt = opens[i].attempt
         /\ \A j \in OpenIndex : j # i => opens'[j] = opens[j]
<1>1. opens[i] \in OpenCall /\ opens \in [OpenIndex -> OpenCall]
  BY IdTyped DEF FileBrowserTypeOK
<1>2. /\ [opens[i] EXCEPT !.pc = pc] \in OpenCall
      /\ [opens[i] EXCEPT !.pc = pc].pc = pc
      /\ [opens[i] EXCEPT !.pc = pc].archive = opens[i].archive
      /\ [opens[i] EXCEPT !.pc = pc].attempt = opens[i].attempt
  BY <1>1 DEF OpenCall
<1>3. opens'[i] = [opens[i] EXCEPT !.pc = pc] /\ \A j \in OpenIndex : j # i => opens'[j] = opens[j]
  BY <1>1
<1> QED BY <1>1, <1>2, <1>3

LEMMA CallOfOpenTyped ==
  ASSUME FileBrowserTypeOK, NEW i \in OpenIndex,
         NEW op \in {"prepare", "unlock", "commit", "cancel"},
         Send({CallOf(op, opens[i].id, i)})
  PROVE  wire' \subseteq Call
BY IdTyped, CallOfTyped, BoundsAreNat DEF Send, FileBrowserTypeOK, RequestsTypeOK

\* The page stays where it is.
LEMMA StaysTyped ==
  ASSUME FileBrowserTypeOK, UNCHANGED browseVars
  PROVE  /\ here' \in Place /\ parent' \in Place \cup {None} /\ listing' = listing
         /\ UNCHANGED <<fetchRequestId, fetches>>
BY DEF FileBrowserTypeOK, browseVars

LEMMA PrepareTyped ==
  ASSUME PageTyped, NEW i \in OpenIndex, Prepare(i)
  PROVE  PageTyped'
<1>0. FileBrowserTypeOK
  BY DEF PageTyped
<1>1. /\ opens[i].pc = "begin" /\ OpenStep
      /\ UNCHANGED <<browseVars, superseding, sessionVars, sequence, intent, answers>>
  BY DEF Prepare
<1>2. opens[i] \in OpenCall /\ opens[i].archive \in Archives
  BY <1>0, <1>1, IdTyped DEF PageTyped, OpensWellFormed
<1>3. CASE opens[i].epoch = epoch
  <2> DEFINE id == [opens[i].id EXCEPT !.session = session]
             new == [opens[i] EXCEPT !.pc = "prepare", !.id = id]
  <2>1. /\ opens' = [opens EXCEPT ![i].pc = "prepare", ![i].id = id]
        /\ Send({CallOf("prepare", id, i)}) /\ UNCHANGED pendingVars
    BY <1>3 DEF Prepare
  <2>2. id \in RequestId
    BY <1>0, IdTyped DEF FileBrowserTypeOK, RequestId
  <2>3. wire' \subseteq Call
    BY <1>0, <2>1, <2>2, CallOfTyped, BoundsAreNat DEF Send, FileBrowserTypeOK, RequestsTypeOK
  <2>4. new \in OpenCall /\ new.pc = "prepare" /\ new.archive \in Archives
    BY <1>2, <2>2 DEF OpenCall, OpenPc
  <2>5. opens' = [opens EXCEPT ![i] = new]
    BY <1>0, <2>1 DEF FileBrowserTypeOK, OpenCall
  <2> HIDE DEF new, id
  <2>6. opens' \in [OpenIndex -> OpenCall] /\ opens'[i] = new
        /\ \A j \in OpenIndex : j # i => opens'[j] = opens[j]
    BY <1>0, <2>4, <2>5 DEF FileBrowserTypeOK
  <2>7. PendingTyped'
    BY <1>0, <2>1, <2>3 DEF PendingTyped, pendingVars, FileBrowserTypeOK
  <2> QED BY <1>0, <1>1, <2>4, <2>6, <2>7, StaysTyped, OpenMovesTyped
<1>4. CASE opens[i].epoch # epoch
  <2>1. FinishOpen(i) /\ wire' = wire
    BY <1>4 DEF Prepare
  <2>2. wire' \subseteq Call
    BY <1>0, <2>1 DEF FileBrowserTypeOK, RequestsTypeOK
  <2>3. /\ PendingTyped' /\ opens' \in [OpenIndex -> OpenCall] /\ opens'[i].pc = "done"
        /\ \A j \in OpenIndex : j # i => opens'[j] = opens[j]
    BY <1>0, <2>1, <2>2, FinishOpenTyped
  <2> QED BY <1>0, <1>1, <2>3, StaysTyped, OpenMovesTyped
<1> QED BY <1>3, <1>4

LEMMA CommitArchiveTyped ==
  ASSUME FileBrowserTypeOK, NEW i \in OpenIndex, NEW unlocked, unlocked \in BOOLEAN,
         opens[i].archive \in Archives, CommitArchive(i, unlocked)
  PROVE  /\ opens' \in [OpenIndex -> OpenCall]
         /\ opens'[i].pc = "commit" /\ opens'[i].archive \in Archives
         /\ \A j \in OpenIndex : j # i => opens'[j] = opens[j]
         /\ here' \in Place /\ parent' \in Place \cup {None} /\ listing' = listing
         /\ UNCHANGED <<fetchRequestId, fetches>>
         /\ commitPending' = i /\ wire' \subseteq Call
<1>0. PICK one \in 0..3 : one = 1
  OBVIOUS
<1> DEFINE new == [opens[i] EXCEPT !.pc = "commit", !.attempt = one, !.unlocked = unlocked]
<1>1. opens[i] \in OpenCall /\ opens \in [OpenIndex -> OpenCall]
  BY IdTyped DEF FileBrowserTypeOK
<1>2. opens' = [opens EXCEPT ![i].pc = "commit", ![i].attempt = 1, ![i].unlocked = unlocked]
  BY DEF CommitArchive
<1>3. opens' = [opens EXCEPT ![i] = new]
  BY <1>0, <1>1, <1>2
<1>4. new \in OpenCall /\ new.pc = "commit" /\ new.archive \in Archives
  BY <1>1 DEF OpenCall, OpenPc
<1> HIDE DEF new
<1>5. opens' \in [OpenIndex -> OpenCall] /\ opens'[i] = new
      /\ \A j \in OpenIndex : j # i => opens'[j] = opens[j]
  BY <1>1, <1>3, <1>4
<1>6. here' \in Place /\ parent' \in Place \cup {None}
  BY PlacesTyped, IdTyped DEF CommitArchive
<1>7. wire' \subseteq Call
  BY CallOfOpenTyped DEF CommitArchive
<1>8. /\ listing' = listing /\ UNCHANGED <<fetchRequestId, fetches>> /\ commitPending' = i
  BY DEF CommitArchive
<1> QED BY <1>4, <1>5, <1>6, <1>7, <1>8

LEMMA PrepareAnsweredTyped ==
  ASSUME PageTyped, NEW i \in OpenIndex, NEW a \in answers, PrepareAnswered(i, a)
  PROVE  PageTyped'
<1>0. FileBrowserTypeOK
  BY DEF PageTyped
<1>1. /\ opens[i].pc = "prepare" /\ OpenStep /\ answers' \subseteq answers
      /\ UNCHANGED <<superseding, sessionVars, sequence, intent>>
  BY DEF PrepareAnswered, Receive
<1>2. opens[i] \in OpenCall /\ opens[i].archive \in Archives
  BY <1>0, <1>1, IdTyped DEF PageTyped, OpensWellFormed
<1>3. CASE /\ CommitArchive(i, FALSE)
           /\ UNCHANGED <<epoch, pendingOpen, pendingPassword, opening>>
  <2>0. FALSE \in BOOLEAN
    BY Zenon
  <2>1. /\ opens' \in [OpenIndex -> OpenCall]
        /\ opens'[i].pc = "commit" /\ opens'[i].archive \in Archives
        /\ \A j \in OpenIndex : j # i => opens'[j] = opens[j]
        /\ here' \in Place /\ parent' \in Place \cup {None} /\ listing' = listing
        /\ UNCHANGED <<fetchRequestId, fetches>>
        /\ commitPending' = i /\ wire' \subseteq Call
    BY <1>0, <1>2, <1>3, <2>0, CommitArchiveTyped
  <2>2. PendingTyped'
    BY <1>0, <1>3, <2>1, BoundsAreNat DEF PendingTyped, FileBrowserTypeOK
  <2> QED BY <1>1, <2>1, <2>2, OpenMovesTyped
<1>4. CASE /\ opens' = [opens EXCEPT ![i].pc = "password"]
           /\ pendingPassword' = i
           /\ pendingOpen' = 0 /\ opening' = FALSE
           /\ UNCHANGED <<epoch, commitPending, browseVars, wire>>
  <2>1. /\ opens' \in [OpenIndex -> OpenCall] /\ opens'[i].pc = "password"
        /\ opens'[i].archive = opens[i].archive
        /\ \A j \in OpenIndex : j # i => opens'[j] = opens[j]
    BY <1>0, <1>4, PcTyped DEF OpenPc
  <2>2. opening' \in BOOLEAN
    BY <1>4, Zenon
  <2>3. PendingTyped'
    BY <1>0, <1>4, <2>2, BoundsAreNat DEF PendingTyped, FileBrowserTypeOK, RequestsTypeOK
  <2> QED BY <1>0, <1>1, <1>2, <1>4, <2>1, <2>3, StaysTyped, OpenMovesTyped
<1>5. CASE FinishOpen(i) /\ UNCHANGED <<browseVars, wire>>
  <2>1. wire' \subseteq Call
    BY <1>0, <1>5 DEF FileBrowserTypeOK, RequestsTypeOK
  <2>2. /\ PendingTyped' /\ opens' \in [OpenIndex -> OpenCall] /\ opens'[i].pc = "done"
        /\ \A j \in OpenIndex : j # i => opens'[j] = opens[j]
    BY <1>0, <1>5, <2>1, FinishOpenTyped
  <2> QED BY <1>0, <1>1, <1>5, <2>2, StaysTyped, OpenMovesTyped
<1> QED BY <1>3, <1>4, <1>5 DEF PrepareAnswered

LEMMA SubmitPasswordTyped ==
  ASSUME PageTyped, NEW i \in OpenIndex, SubmitPassword(i)
  PROVE  PageTyped'
<1>0. FileBrowserTypeOK
  BY DEF PageTyped
<1>1. /\ opens[i].pc = "password" /\ opens' = [opens EXCEPT ![i].pc = "unlock"]
      /\ Send({CallOf("unlock", opens[i].id, i)}) /\ OpenStep
      /\ UNCHANGED <<browseVars, pendingVars, superseding, sessionVars, sequence,
                     intent, answers>>
  BY DEF SubmitPassword
<1>2. opens[i].archive \in Archives
  BY <1>1 DEF PageTyped, OpensWellFormed
<1>3. /\ opens' \in [OpenIndex -> OpenCall] /\ opens'[i].pc = "unlock"
      /\ opens'[i].archive = opens[i].archive
      /\ \A j \in OpenIndex : j # i => opens'[j] = opens[j]
  BY <1>0, <1>1, PcTyped DEF OpenPc
<1>4. wire' \subseteq Call
  BY <1>0, <1>1, CallOfOpenTyped
<1>5. PendingTyped'
  BY <1>0, <1>1, <1>4 DEF PendingTyped, pendingVars, FileBrowserTypeOK
<1> QED BY <1>0, <1>1, <1>2, <1>3, <1>5, StaysTyped, OpenMovesTyped

LEMMA UnlockAnsweredTyped ==
  ASSUME PageTyped, NEW i \in OpenIndex, NEW a \in answers, UnlockAnswered(i, a)
  PROVE  PageTyped'
<1>0. FileBrowserTypeOK
  BY DEF PageTyped
<1>1. /\ opens[i].pc = "unlock" /\ OpenStep /\ answers' \subseteq answers
      /\ UNCHANGED <<superseding, sessionVars, sequence, intent>>
  BY DEF UnlockAnswered, Receive
<1>2. opens[i] \in OpenCall /\ opens[i].archive \in Archives
  BY <1>0, <1>1, IdTyped DEF PageTyped, OpensWellFormed
<1>3. CASE /\ CommitArchive(i, TRUE) /\ pendingPassword' = 0
           /\ UNCHANGED <<epoch, pendingOpen, opening>>
  <2>0. TRUE \in BOOLEAN
    BY Zenon
  <2>1. /\ opens' \in [OpenIndex -> OpenCall]
        /\ opens'[i].pc = "commit" /\ opens'[i].archive \in Archives
        /\ \A j \in OpenIndex : j # i => opens'[j] = opens[j]
        /\ here' \in Place /\ parent' \in Place \cup {None} /\ listing' = listing
        /\ UNCHANGED <<fetchRequestId, fetches>>
        /\ commitPending' = i /\ wire' \subseteq Call
    BY <1>0, <1>2, <1>3, <2>0, CommitArchiveTyped
  <2>2. PendingTyped'
    BY <1>0, <1>3, <2>1, BoundsAreNat DEF PendingTyped, FileBrowserTypeOK
  <2> QED BY <1>1, <2>1, <2>2, OpenMovesTyped
<1>4. CASE /\ opens' = [opens EXCEPT ![i].pc = "password"]
           /\ UNCHANGED <<browseVars, pendingVars, wire>>
  <2>1. /\ opens' \in [OpenIndex -> OpenCall] /\ opens'[i].pc = "password"
        /\ opens'[i].archive = opens[i].archive
        /\ \A j \in OpenIndex : j # i => opens'[j] = opens[j]
    BY <1>0, <1>4, PcTyped DEF OpenPc
  <2>2. PendingTyped'
    BY <1>0, <1>4, NothingPendingTyped
  <2> QED BY <1>0, <1>1, <1>2, <1>4, <2>1, <2>2, StaysTyped, OpenMovesTyped
<1>5. CASE /\ opens' = [opens EXCEPT ![i].pc = "done"]
           /\ pendingPassword' \in {0, pendingPassword}
           /\ UNCHANGED <<browseVars, epoch, pendingOpen, commitPending, opening, wire>>
  <2>1. /\ opens' \in [OpenIndex -> OpenCall] /\ opens'[i].pc = "done"
        /\ \A j \in OpenIndex : j # i => opens'[j] = opens[j]
    BY <1>0, <1>5, PcTyped DEF OpenPc
  <2>2. PendingTyped'
    BY <1>0, <1>5, BoundsAreNat DEF PendingTyped, FileBrowserTypeOK, RequestsTypeOK
  <2> QED BY <1>0, <1>1, <1>5, <2>1, <2>2, StaysTyped, OpenMovesTyped
<1> QED BY <1>3, <1>4, <1>5 DEF UnlockAnswered, pendingVars

\* The listing that ends an open is the first of that open.
LEMMA ListStepTyped ==
  ASSUME PageTyped, NEW i \in OpenIndex, opens[i].pc \in {"commit", "uncommit"},
         ListArchive(i), OpenStep, PendingTyped', answers' \subseteq answers,
         UNCHANGED <<superseding, sessionVars, sequence, intent>>
  PROVE  PageTyped'
<1> DEFINE place == At(here.src, Top)
           g == [id |-> fetchRequestId + 1, place |-> place, then |-> "open",
                 path |-> Top, open |-> i]
<1>0. FileBrowserTypeOK /\ RequestsTypeOK
  BY DEF PageTyped, FileBrowserTypeOK
<1>1. place \in Place /\ Top \in Paths
  BY <1>0, PlacesTyped
<1>2. /\ opens' = [opens EXCEPT ![i].pc = "list"]
      /\ NextFetch(place, "open", Top, i) /\ UNCHANGED <<here, listing, parent>>
  BY DEF ListArchive
<1>3. /\ fetchRequestId' \in Nat /\ fetches' \subseteq FetchCall
  BY <1>0, <1>1, <1>2, BoundsAreNat, NextFetchTyped
<1>4. fetches' = fetches \cup {g}
  BY <1>2 DEF NextFetch, StartFetch
<1>5. /\ opens' \in [OpenIndex -> OpenCall] /\ opens'[i].pc = "list"
      /\ opens'[i].archive = opens[i].archive
      /\ \A j \in OpenIndex : j # i => opens'[j] = opens[j]
  BY <1>0, <1>2, PcTyped DEF OpenPc
<1>6. RequestsTypeOK'
  BY <1>0, PageKeepsRequests DEF OpenStep, PendingTyped
<1>7. FileBrowserTypeOK'
  BY <1>0, <1>2, <1>3, <1>5, <1>6
     DEF FileBrowserTypeOK, OpenStep, boundVars, PendingTyped, sessionVars
<1>8. OpensWellFormed'
  BY <1>5 DEF PageTyped, OpensWellFormed
<1>9. g.then = "open" /\ g.open = i
  OBVIOUS
<1> HIDE DEF g
<1>10. FetchesOwned'
  BY <1>4, <1>5, <1>9 DEF PageTyped, FetchesOwned
<1> QED BY <1>7, <1>8, <1>10 DEF PageTyped

LEMMA CommitAnsweredTyped ==
  ASSUME PageTyped, NEW i \in OpenIndex, NEW a \in answers, CommitAnswered(i, a)
  PROVE  PageTyped'
<1>0. FileBrowserTypeOK
  BY DEF PageTyped
<1>1. /\ opens[i].pc = "commit" /\ OpenStep /\ answers' \subseteq answers
      /\ UNCHANGED <<superseding, sessionVars, sequence, intent>>
      /\ UNCHANGED <<epoch, pendingOpen, pendingPassword, opening>>
      /\ commitPending' \in {0, commitPending}
  BY DEF CommitAnswered, Receive
<1>2. opens[i] \in OpenCall /\ opens[i].archive \in Archives
  BY <1>0, <1>1, IdTyped DEF PageTyped, OpensWellFormed
<1>3. ASSUME wire' \subseteq Call PROVE PendingTyped'
  BY <1>0, <1>1, <1>3, BoundsAreNat DEF PendingTyped, FileBrowserTypeOK
<1>4. CASE ListArchive(i) /\ UNCHANGED wire
  <2>1. PendingTyped'
    BY <1>0, <1>3, <1>4 DEF FileBrowserTypeOK, RequestsTypeOK
  <2> QED BY <1>1, <1>4, <2>1, ListStepTyped
<1>5. CASE /\ opens[i].attempt < Attempts /\ opens' = [opens EXCEPT ![i].pc = "backoff"]
           /\ UNCHANGED <<browseVars, wire>>
  <2>1. /\ opens' \in [OpenIndex -> OpenCall] /\ opens'[i].pc = "backoff"
        /\ opens'[i].archive = opens[i].archive /\ opens'[i].attempt = opens[i].attempt
        /\ \A j \in OpenIndex : j # i => opens'[j] = opens[j]
    BY <1>0, <1>5, PcTyped DEF OpenPc
  <2>2. PendingTyped'
    BY <1>0, <1>3, <1>5 DEF FileBrowserTypeOK, RequestsTypeOK
  <2> QED BY <1>0, <1>1, <1>2, <1>5, <2>1, <2>2, StaysTyped, OpenMovesTyped
<1>6. CASE GiveUp(i)
  <2>1. /\ opens' \in [OpenIndex -> OpenCall] /\ opens'[i].pc = "uncommit"
        /\ opens'[i].archive = opens[i].archive
        /\ \A j \in OpenIndex : j # i => opens'[j] = opens[j]
    BY <1>0, <1>6, PcTyped DEF GiveUp, OpenPc
  <2>2. PendingTyped'
    BY <1>0, <1>3, <1>6, CallOfOpenTyped DEF GiveUp
  <2> QED BY <1>0, <1>1, <1>2, <1>6, <2>1, <2>2, StaysTyped, OpenMovesTyped DEF GiveUp
<1> QED BY <1>4, <1>5, <1>6 DEF CommitAnswered

LEMMA RetryTyped ==
  ASSUME PageTyped, NEW i \in OpenIndex, Retry(i)
  PROVE  PageTyped'
<1>0. FileBrowserTypeOK
  BY DEF PageTyped
<1>1. /\ opens[i].pc = "backoff" /\ OpenStep
      /\ UNCHANGED <<pendingVars, superseding, sessionVars, sequence, intent, answers>>
  BY DEF Retry
<1>2. opens[i] \in OpenCall /\ opens[i].archive \in Archives /\ opens[i].attempt < Attempts
  BY <1>0, <1>1, IdTyped DEF PageTyped, OpensWellFormed
<1>3. ASSUME wire' \subseteq Call PROVE PendingTyped'
  BY <1>0, <1>1, <1>3 DEF PendingTyped, pendingVars, FileBrowserTypeOK
<1>4. CASE /\ opens' = [opens EXCEPT ![i].pc = "commit", ![i].attempt = @ + 1]
           /\ Send({CallOf("commit", opens[i].id, i)}) /\ UNCHANGED browseVars
  <2>1. PICK next \in 0..3 : next = opens[i].attempt + 1
    BY <1>0, <1>2, IdTyped DEF Attempts
  <2> DEFINE new == [opens[i] EXCEPT !.pc = "commit", !.attempt = next]
  <2>2. new \in OpenCall /\ new.pc = "commit" /\ new.archive = opens[i].archive
    BY <1>2 DEF OpenCall, OpenPc
  <2>3. opens' = [opens EXCEPT ![i] = new]
    BY <1>0, <1>2, <1>4, <2>1 DEF FileBrowserTypeOK, OpenCall
  <2> HIDE DEF new
  <2>4. opens' \in [OpenIndex -> OpenCall] /\ opens'[i] = new
        /\ \A j \in OpenIndex : j # i => opens'[j] = opens[j]
    BY <1>0, <2>2, <2>3 DEF FileBrowserTypeOK
  <2>5. PendingTyped'
    BY <1>0, <1>3, <1>4, CallOfOpenTyped
  <2> QED BY <1>0, <1>1, <1>2, <1>4, <2>2, <2>4, <2>5, StaysTyped, OpenMovesTyped
<1>5. CASE GiveUp(i)
  <2>1. /\ opens' \in [OpenIndex -> OpenCall] /\ opens'[i].pc = "uncommit"
        /\ opens'[i].archive = opens[i].archive
        /\ \A j \in OpenIndex : j # i => opens'[j] = opens[j]
    BY <1>0, <1>5, PcTyped DEF GiveUp, OpenPc
  <2>2. PendingTyped'
    BY <1>0, <1>3, <1>5, CallOfOpenTyped DEF GiveUp
  <2> QED BY <1>0, <1>1, <1>2, <1>5, <2>1, <2>2, StaysTyped, OpenMovesTyped DEF GiveUp
<1> QED BY <1>4, <1>5 DEF Retry

LEMMA GivenUpTyped ==
  ASSUME PageTyped, NEW i \in OpenIndex, NEW a \in answers, GivenUp(i, a)
  PROVE  PageTyped'
<1>0. FileBrowserTypeOK
  BY DEF PageTyped
<1>1. /\ opens[i].pc = "uncommit" /\ OpenStep /\ answers' \subseteq answers /\ ListArchive(i)
      /\ UNCHANGED <<superseding, sessionVars, sequence, intent>>
      /\ UNCHANGED <<wire, epoch, pendingOpen, pendingPassword, opening>>
      /\ commitPending' \in {0, commitPending}
  BY DEF GivenUp, Receive
<1>2. PendingTyped'
  BY <1>0, <1>1, BoundsAreNat DEF PendingTyped, FileBrowserTypeOK, RequestsTypeOK
<1> QED BY <1>1, <1>2, ListStepTyped

-----------------------------------------------------------------------------
(***************************************************************************)
(* Type correctness of the whole.                                           *)
(***************************************************************************)
LEMMA ReloadTyped ==
  ASSUME PageTyped, Reload
  PROVE  PageTyped'
<1>0. FileBrowserTypeOK
  BY DEF PageTyped
<1>1. RequestsTypeOK'
  <2>1. \A x \in Call : [x EXCEPT !.from = Nobody] \in Call
    BY DEF Call, Nobody
  <2>2. \A x \in Task : [x EXCEPT !.from = Nobody] \in Task
    BY DEF Task, Nobody
  <2>3. /\ wire' = Orphans(wire) /\ tasks' = Orphans(tasks) /\ answers' = {}
        /\ UNCHANGED <<registry, prefetched>>
    BY DEF Reload
  <2>4. wire \subseteq Call /\ tasks \subseteq Task
    BY <1>0 DEF FileBrowserTypeOK, RequestsTypeOK
  <2>5. wire' \subseteq Call /\ tasks' \subseteq Task
    BY <2>1, <2>2, <2>3, <2>4 DEF Orphans
  <2> QED BY <1>0, <2>3, <2>5 DEF FileBrowserTypeOK, RequestsTypeOK
<1>2. /\ here' \in Place /\ listing' \in Place \cup {None} /\ parent' \in Place \cup {None}
  BY <1>0, PlacesTyped DEF Reload
<1>3. /\ opens' \in [OpenIndex -> OpenCall]
      /\ \A i \in OpenIndex : opens'[i].pc \in {"idle", "done"}
  <2>1. /\ Idle \in OpenCall /\ [Idle EXCEPT !.pc = "done"] \in OpenCall
        /\ Idle.pc = "idle" /\ [Idle EXCEPT !.pc = "done"].pc = "done"
    BY IdleTyped DEF OpenCall, OpenPc, Idle
  <2>2. opens' = [i \in OpenIndex |->
             IF opens[i].pc = "idle" THEN Idle ELSE [Idle EXCEPT !.pc = "done"]]
    BY DEF Reload
  <2> HIDE DEF Idle
  <2> QED BY <2>1, <2>2
<1>4. superseding' \in BOOLEAN /\ opening' \in BOOLEAN
  BY Zenon DEF Reload
<1>5. /\ session' \in 1..sessions' /\ sessions' \in Nat /\ boot' \in Nat /\ pastBoot' \in Nat
      /\ sessionReady' \in {"none", "begin", "retry", "ready"}
  BY <1>0 DEF Reload, FileBrowserTypeOK
<1>6. /\ moves' \in 0..MaxMoves /\ listErrors' \in 0..MaxListErrors
      /\ reloads' \in 0..MaxReloads
  BY <1>0, BrowserAssumption DEF Reload, FileBrowserTypeOK
<1>7. /\ fetches' = {} /\ fetchRequestId' = 1 /\ epoch' = 0 /\ sequence' = 0
      /\ pendingOpen' = 0 /\ pendingPassword' = 0 /\ commitPending' = 0 /\ intent' = 0
  BY DEF Reload
<1>8. {pendingOpen', pendingPassword', commitPending', intent'} \subseteq 0..MaxOpens
  BY <1>7, BoundsAreNat
<1>9. FileBrowserTypeOK'
  BY <1>1, <1>2, <1>3, <1>4, <1>5, <1>6, <1>7, <1>8 DEF FileBrowserTypeOK
<1> QED BY <1>3, <1>7, <1>9 DEF PageTyped, OpensWellFormed, FetchesOwned

LEMMA BackendTyped ==
  ASSUME PageTyped, Backend
  PROVE  PageTyped'
<1>1. RequestsTypeOK'
  BY RequestsTyped DEF Backend, PageTyped, FileBrowserTypeOK
<1>2. UNCHANGED pageVars
  BY DEF Backend
<1>3. FileBrowserTypeOK'
  BY <1>1, <1>2 DEF PageTyped, FileBrowserTypeOK, pageVars, browseVars, pendingVars,
                    sessionVars, boundVars
<1> QED BY <1>2, <1>3 DEF PageTyped, OpensWellFormed, FetchesOwned, pageVars, browseVars

LEMMA InitTyped ==
  ASSUME Init
  PROVE  PageTyped
<1>1. RequestsTypeOK
  BY DEF Init, RequestsInit, RequestsTypeOK
<1>2. here \in Place /\ listing \in Place \cup {None} /\ parent \in Place \cup {None}
  BY FirstAssumption DEF Init, PageInit, Place, Sources
<1>3. opens \in [OpenIndex -> OpenCall] /\ \A i \in OpenIndex : opens[i].pc = "idle"
  <2>1. Idle \in OpenCall /\ Idle.pc = "idle"
    BY IdleTyped DEF Idle
  <2> HIDE DEF Idle
  <2> QED BY <2>1 DEF Init, PageInit
<1>4. superseding \in BOOLEAN /\ opening \in BOOLEAN
  BY Zenon DEF Init, PageInit
<1>5. fetches = {} /\ fetchRequestId \in Nat
  BY DEF Init, PageInit
<1>6. FileBrowserTypeOK
  BY <1>1, <1>2, <1>3, <1>4, <1>5, BrowserAssumption DEF Init, PageInit, FileBrowserTypeOK
<1> QED BY <1>3, <1>5, <1>6 DEF PageTyped, OpensWellFormed, FetchesOwned

LEMMA NextTyped ==
  ASSUME PageTyped, [Next]_vars
  PROVE  PageTyped'
<1>1. CASE UNCHANGED vars
  BY <1>1 DEF PageTyped, FileBrowserTypeOK, RequestsTypeOK, OpensWellFormed, FetchesOwned,
              vars, requestVars, pageVars, browseVars, pendingVars, sessionVars, boundVars
<1>2. CASE Backend
  BY <1>2, BackendTyped
<1>3. CASE Browse
  BY <1>3, BrowseTypedHolds
<1>4. CASE Continue
  <2>1. ASSUME NEW a \in answers, SessionBegun(a)
        PROVE  PageTyped'
    BY <2>1, SessionBegunTyped
  <2>2. ASSUME NEW i \in OpenIndex, Prepare(i) \/ Retry(i) \/ OpenAnswered(i)
        PROVE  PageTyped'
    BY <2>2, PrepareTyped, RetryTyped, SupersedeTyped, PrepareAnsweredTyped,
       UnlockAnsweredTyped, CommitAnsweredTyped, GivenUpTyped DEF OpenAnswered
  <2> QED BY <1>4, <2>1, <2>2 DEF Continue
<1>5. ASSUME NEW i \in OpenIndex, NEW archive \in Archives, OpenArchive(i, archive)
      PROVE  PageTyped'
  BY <1>5, OpenArchiveTyped
<1>6. ASSUME NEW i \in OpenIndex, SubmitPassword(i)
      PROVE  PageTyped'
  BY <1>6, SubmitPasswordTyped
<1>7. CASE Reload
  BY <1>7, ReloadTyped
<1> QED BY <1>1, <1>2, <1>3, <1>4, <1>5, <1>6, <1>7 DEF Next

LEMMA Typed == Spec => []PageTyped
<1>1. Init => PageTyped
  BY InitTyped
<1>2. PageTyped /\ [Next]_vars => PageTyped'
  BY NextTyped
<1> QED BY <1>1, <1>2, PTL DEF Spec

\* Every variable of the page and of the registry keeps its type, for any number
\* of opens, acts, reloads and failures.  The records of the calls the store
\* awaits are consistent enough for it: a commit is retried only while attempts
\* are left, and no two listings end the same open.
THEOREM TypeCorrect == Spec => []FileBrowserTypeOK
<1>1. PageTyped => FileBrowserTypeOK
  BY DEF PageTyped
<1> QED BY <1>1, Typed, PTL

-----------------------------------------------------------------------------
(***************************************************************************)
(* The registry, behind whatever pages there are.                           *)
(***************************************************************************)

\* The page reaches the registry through its commands only.
LEMMA RegistryKept ==
  ASSUME [Next]_vars, ~Backend
  PROVE  UNCHANGED <<registry, prefetched>>
<1>1. CASE UNCHANGED vars
  BY <1>1 DEF vars, requestVars
<1>2. CASE Browse
  BY <1>2 DEF Browse, Navigate, Up, Refresh, OpenLocal, OpenRemote, ExitArchive, CancelOpen,
              FetchDone, UserActs
<1>3. CASE Continue
  <2>1. ASSUME NEW a \in answers, SessionBegun(a) PROVE OpenStep
    BY <2>1 DEF SessionBegun
  <2>2. ASSUME NEW i \in OpenIndex, Prepare(i) \/ Retry(i) PROVE OpenStep
    BY <2>2 DEF Prepare, Retry
  <2>3. ASSUME NEW i \in OpenIndex, NEW a \in answers,
               Supersede(i, a) \/ PrepareAnswered(i, a) \/ UnlockAnswered(i, a)
                 \/ CommitAnswered(i, a) \/ GivenUp(i, a)
        PROVE  OpenStep
    BY <2>3 DEF Supersede, PrepareAnswered, UnlockAnswered, CommitAnswered, GivenUp
  <2>4. OpenStep
    BY <1>3, <2>1, <2>2, <2>3 DEF Continue, OpenAnswered
  <2> QED BY <2>4 DEF OpenStep
<1>4. ASSUME NEW i \in OpenIndex, NEW archive \in Archives, OpenArchive(i, archive)
      PROVE  UNCHANGED <<registry, prefetched>>
  BY <1>4 DEF OpenArchive, OpenStep
<1>5. ASSUME NEW i \in OpenIndex, SubmitPassword(i)
      PROVE  UNCHANGED <<registry, prefetched>>
  BY <1>5 DEF SubmitPassword, OpenStep
<1>6. CASE Reload
  BY <1>6 DEF Reload
<1> QED BY <1>1, <1>2, <1>3, <1>4, <1>5, <1>6 DEF Next

LEMMA BackendStep ==
  ASSUME PageTyped, Backend
  PROVE  RequestsTypeOK /\ RequestsNext
BY DEF Backend, PageTyped, FileBrowserTypeOK

\* A request a cancel has covered is not the active one, in whatever order the
\* commands of however many pages arrive: register_request compares with the
\* watermark, cancel_request raises it and drops what it covers at once.
THEOREM CancelledNeverActive == Spec => []ActiveAboveWatermark
<1>1. Init => ActiveAboveWatermark
  BY DEF Init, RequestsInit, ActiveAboveWatermark
<1>2. PageTyped /\ ActiveAboveWatermark /\ [Next]_vars => ActiveAboveWatermark'
  <2> SUFFICES ASSUME PageTyped, ActiveAboveWatermark, [Next]_vars
               PROVE  ActiveAboveWatermark'
    OBVIOUS
  <2>1. CASE Backend
    BY <2>1, BackendStep, ActiveStaysAbove
  <2>2. CASE ~Backend
    BY <2>2, RegistryKept DEF ActiveAboveWatermark
  <2> QED BY <2>1, <2>2
<1> QED BY <1>1, <1>2, Typed, PTL DEF Spec

\* A prefetch in the background starts only by the commit of a request that is
\* active, prepared to stream and not cancelled: commit_request takes the
\* request out of its slot and compares under the one lock.
THEOREM PrefetchIsCommitted == Spec => PrefetchNotCancelled
<1>1. PageTyped /\ ActiveAboveWatermark /\ [Next]_vars =>
        [\A id \in prefetched' \ prefetched :
            /\ ActiveIs(id) /\ registry.active.state = "streaming"
            /\ id.seq > registry.cancelledThrough
            /\ registry'.lastCommitted = id.seq]_requestVars
  <2> SUFFICES ASSUME PageTyped, ActiveAboveWatermark, [Next]_vars,
                      NEW id \in prefetched' \ prefetched
               PROVE  /\ ActiveIs(id) /\ registry.active.state = "streaming"
                      /\ id.seq > registry.cancelledThrough
                      /\ registry'.lastCommitted = id.seq
    OBVIOUS
  <2>1. Backend
    BY RegistryKept
  <2> QED BY <2>1, BackendStep, PrefetchStep
<1> QED BY <1>1, Typed, CancelledNeverActive, PTL DEF Spec, PrefetchNotCancelled

\* The registry never goes back to the boot of an older page, and within a
\* session never forgets a cancel.
THEOREM BootsOnlyRise == Spec => SessionsAdvance
<1>1. PageTyped /\ [Next]_vars =>
        [registry # None =>
            /\ registry'.boot >= registry.boot
            /\ registry'.session = registry.session =>
                  registry'.cancelledThrough >= registry.cancelledThrough]_requestVars
  <2> SUFFICES ASSUME PageTyped, [Next]_vars, registry # None
               PROVE  /\ registry'.boot >= registry.boot
                      /\ registry'.session = registry.session =>
                            registry'.cancelledThrough >= registry.cancelledThrough
    OBVIOUS
  <2>1. CASE Backend
    BY <2>1, BackendStep, SessionStep
  <2>2. CASE ~Backend
    <3>1. registry' = registry
      BY <2>2, RegistryKept
    <3>2. registry.boot \in Nat /\ registry.cancelledThrough \in Nat
      BY DEF PageTyped, FileBrowserTypeOK, RequestsTypeOK, SessionState
    <3> QED BY <3>1, <3>2
  <2> QED BY <2>1, <2>2
<1> QED BY <1>1, Typed, PTL DEF Spec, SessionsAdvance

-----------------------------------------------------------------------------
(***************************************************************************)
(* The spinner.                                                             *)
(***************************************************************************)

\* What keeps the owner of the spinner: the epoch stands, the open registered
\* stays registered, and no open of this epoch that waits for a cancel moves.
LEMMA OwnerStays ==
  ASSUME SpinnerHasOwner, epoch' = epoch,
         opening' = FALSE \/ UNCHANGED <<opening, pendingOpen>>,
         \A j \in OpenIndex :
             opens[j].pc = "superseding" /\ opens[j].epoch = epoch => opens'[j] = opens[j]
  PROVE  SpinnerHasOwner'
<1>1. CASE opening' = FALSE
  BY <1>1 DEF SpinnerHasOwner
<1>2. CASE UNCHANGED <<opening, pendingOpen>>
  BY <1>2 DEF SpinnerHasOwner
<1> QED BY <1>1, <1>2

LEMMA InvalidateKeepsOwner ==
  ASSUME SpinnerHasOwner, InvalidatePending, UNCHANGED opens
  PROVE  SpinnerHasOwner'
<1>1. CASE ArchivePending
  BY <1>1 DEF InvalidatePending, TakeAndCancel, SpinnerHasOwner
<1>2. CASE ~ArchivePending
  BY <1>2, OwnerStays DEF InvalidatePending, pendingVars
<1> QED BY <1>1, <1>2

LEMMA FinishKeepsOwner ==
  ASSUME FileBrowserTypeOK, SpinnerHasOwner, NEW i \in OpenIndex, FinishOpen(i),
         opens[i].pc # "superseding"
  PROVE  SpinnerHasOwner'
<1>1. \A j \in OpenIndex : j # i => opens'[j] = opens[j]
  BY DEF FinishOpen, FileBrowserTypeOK
<1>2. epoch' = epoch /\ (opening' = FALSE \/ UNCHANGED <<opening, pendingOpen>>)
  BY DEF FinishOpen
<1> QED BY <1>1, <1>2, OwnerStays

LEMMA BrowseKeepsOwner ==
  ASSUME PageTyped, SpinnerHasOwner, Browse
  PROVE  SpinnerHasOwner'
<1>0. FileBrowserTypeOK
  BY DEF PageTyped
<1>1. CASE \/ \E path \in Paths : Navigate(path)
           \/ Up
           \/ \E root \in Locals, path \in Paths : OpenLocal(root, path)
           \/ \E source \in Remotes, path \in Paths : OpenRemote(source, path)
  BY <1>1, InvalidateKeepsOwner DEF Navigate, Up, OpenLocal, OpenRemote, UserActs
<1>2. CASE Refresh
  BY <1>2, OwnerStays DEF Refresh, UserActs, pendingVars
<1>3. CASE ExitArchive \/ CancelOpen
  BY <1>3 DEF ExitArchive, CancelOpen, TakeAndCancel, SpinnerHasOwner
<1>4. ASSUME NEW f \in fetches, NEW ok \in BOOLEAN, FetchDone(f, ok)
      PROVE  SpinnerHasOwner'
  <2>1. CASE UNCHANGED <<opens, pendingVars>>
    BY <2>1, OwnerStays DEF pendingVars
  <2>2. CASE f.then = "open" /\ FinishOpen(f.open)
    <3>1. f.open \in OpenIndex /\ opens[f.open].pc = "list"
      BY <2>2 DEF PageTyped, FetchesOwned
    <3> QED BY <1>0, <2>2, <3>1, FinishKeepsOwner
  <2>3. CASE InvalidatePending /\ UNCHANGED opens
    BY <2>3, InvalidateKeepsOwner
  <2> QED BY <1>4, <2>1, <2>2, <2>3 DEF FetchDone
<1> QED BY <1>1, <1>2, <1>3, <1>4 DEF Browse

LEMMA OpenArchiveKeepsOwner ==
  ASSUME PageTyped, NEW i \in OpenIndex, NEW archive \in Archives, OpenArchive(i, archive)
  PROVE  SpinnerHasOwner'
<1>0. FileBrowserTypeOK /\ opens \in [OpenIndex -> OpenCall] /\ i # 0
  BY BoundsAreNat DEF PageTyped, FileBrowserTypeOK
<1>1. CASE pendingOpen' = i
  BY <1>0, <1>1 DEF SpinnerHasOwner
<1>2. CASE pendingOpen' # i
  <2> DEFINE call == [Idle EXCEPT !.archive = archive, !.epoch = epoch + 1]
             new == [call EXCEPT !.pc = "superseding"]
  <2>1. opens' = [opens EXCEPT ![i] = new] /\ epoch' = epoch + 1
    BY <1>2 DEF OpenArchive, RegisterOpen
  <2>2. new.pc = "superseding" /\ new.epoch = epoch + 1
    BY DEF Idle
  <2> HIDE DEF new, call
  <2>3. opens'[i].pc = "superseding" /\ opens'[i].epoch = epoch'
    BY <1>0, <2>1, <2>2
  <2> QED BY <2>3 DEF SpinnerHasOwner
<1> QED BY <1>1, <1>2

LEMMA ContinueKeepsOwner ==
  ASSUME PageTyped, SpinnerHasOwner, Continue
  PROVE  SpinnerHasOwner'
<1>0. FileBrowserTypeOK /\ opens \in [OpenIndex -> OpenCall]
  BY DEF PageTyped, FileBrowserTypeOK
<1>1. ASSUME NEW a \in answers, SessionBegun(a)
      PROVE  SpinnerHasOwner'
  <2>1. epoch' = epoch /\ (opening' = FALSE \/ UNCHANGED <<opening, pendingOpen>>)
    BY <1>1 DEF SessionBegun
  <2>2. \A j \in OpenIndex : opens[j].pc = "superseding" => opens'[j] = opens[j]
    BY <1>1 DEF SessionBegun
  <2> QED BY <2>1, <2>2, OwnerStays
<1>2. ASSUME NEW i \in OpenIndex, NEW a \in answers, Supersede(i, a)
      PROVE  SpinnerHasOwner'
  <2>1. CASE opens[i].epoch = epoch
    <3>1. pendingOpen' = i /\ i # 0
      BY <1>2, <2>1, BoundsAreNat DEF Supersede, RegisterOpen
    <3> QED BY <3>1 DEF SpinnerHasOwner
  <2>2. CASE opens[i].epoch # epoch
    <3>1. /\ opens' = [opens EXCEPT ![i].pc = "done"]
          /\ UNCHANGED <<pendingOpen, opening, epoch>>
      BY <1>2, <2>2 DEF Supersede
    <3>2. \A j \in OpenIndex : j # i => opens'[j] = opens[j]
      BY <1>0, <3>1
    <3> QED BY <2>2, <3>1, <3>2, OwnerStays
  <2> QED BY <2>1, <2>2
<1>3. ASSUME NEW i \in OpenIndex, opens[i].pc # "superseding", epoch' = epoch,
             \A j \in OpenIndex : j # i => opens'[j] = opens[j],
             opening' = FALSE \/ UNCHANGED <<opening, pendingOpen>>
      PROVE  SpinnerHasOwner'
  BY <1>3, OwnerStays
<1>4. ASSUME NEW i \in OpenIndex, Prepare(i)
      PROVE  SpinnerHasOwner'
  <2>1. opens[i].pc = "begin"
    BY <1>4 DEF Prepare
  <2>2. CASE FinishOpen(i)
    BY <1>0, <2>1, <2>2, FinishKeepsOwner
  <2>3. CASE ~FinishOpen(i)
    BY <1>0, <1>3, <1>4, <2>1, <2>3 DEF Prepare, pendingVars
  <2> QED BY <2>2, <2>3
<1>5. ASSUME NEW i \in OpenIndex, Retry(i)
      PROVE  SpinnerHasOwner'
  BY <1>0, <1>3, <1>5 DEF Retry, GiveUp, pendingVars
<1>6. ASSUME NEW i \in OpenIndex, NEW a \in answers, PrepareAnswered(i, a)
      PROVE  SpinnerHasOwner'
  <2>1. opens[i].pc = "prepare"
    BY <1>6 DEF PrepareAnswered
  <2>2. CASE FinishOpen(i)
    BY <1>0, <2>1, <2>2, FinishKeepsOwner
  <2>3. CASE ~FinishOpen(i)
    BY <1>0, <1>3, <1>6, <2>1, <2>3 DEF PrepareAnswered, CommitArchive
  <2> QED BY <2>2, <2>3
<1>7. ASSUME NEW i \in OpenIndex, NEW a \in answers, UnlockAnswered(i, a)
      PROVE  SpinnerHasOwner'
  BY <1>0, <1>3, <1>7 DEF UnlockAnswered, CommitArchive, pendingVars
<1>8. ASSUME NEW i \in OpenIndex, NEW a \in answers, CommitAnswered(i, a) \/ GivenUp(i, a)
      PROVE  SpinnerHasOwner'
  BY <1>0, <1>3, <1>8 DEF CommitAnswered, GivenUp, ListArchive, GiveUp
<1> QED BY <1>1, <1>2, <1>4, <1>5, <1>6, <1>7, <1>8 DEF Continue, OpenAnswered

\* The spinner of an opening archive always has an owner the user can see or
\* cancel: the epoch that every act raises decides who may leave it on.
THEOREM SpinnerOwned == Spec => []SpinnerHasOwner
<1>1. Init => SpinnerHasOwner
  BY DEF Init, PageInit, SpinnerHasOwner
<1>2. PageTyped /\ SpinnerHasOwner /\ [Next]_vars => SpinnerHasOwner'
  <2> SUFFICES ASSUME PageTyped, SpinnerHasOwner, [Next]_vars
               PROVE  SpinnerHasOwner'
    OBVIOUS
  <2>1. CASE UNCHANGED pageVars
    BY <2>1, OwnerStays DEF pageVars, pendingVars
  <2>2. CASE Browse
    BY <2>2, BrowseKeepsOwner
  <2>3. CASE Continue
    BY <2>3, ContinueKeepsOwner
  <2>4. ASSUME NEW i \in OpenIndex, NEW archive \in Archives, OpenArchive(i, archive)
        PROVE  SpinnerHasOwner'
    BY <2>4, OpenArchiveKeepsOwner
  <2>5. ASSUME NEW i \in OpenIndex, SubmitPassword(i)
        PROVE  SpinnerHasOwner'
    <3>1. /\ opens[i].pc = "password" /\ opens' = [opens EXCEPT ![i].pc = "unlock"]
          /\ UNCHANGED <<epoch, opening, pendingOpen>>
      BY <2>5 DEF SubmitPassword, pendingVars
    <3>2. \A j \in OpenIndex : j # i => opens'[j] = opens[j]
      BY <3>1 DEF PageTyped, FileBrowserTypeOK
    <3> QED BY <3>1, <3>2, OwnerStays
  <2>6. CASE Reload
    BY <2>6 DEF Reload, SpinnerHasOwner
  <2> QED BY <2>1, <2>2, <2>3, <2>4, <2>5, <2>6 DEF Next, Backend, vars
<1> QED BY <1>1, <1>2, Typed, PTL DEF Spec

-----------------------------------------------------------------------------
(***************************************************************************)
(* The session.                                                             *)
(***************************************************************************)

\* What the answer of a begin promises the page
Ours == boot > pastBoot => registry # None /\ registry.session = session

RegistryDated ==
  registry # None =>
    \/ registry.session = session /\ registry.boot = boot
    \/ registry.session < session /\ registry.boot <= pastBoot

\* A begin is the page's own, the one its shared promise awaits, or of an
\* older page.
BeginsDated ==
  \A c \in wire :
    /\ c.op = "begin" => \/ c = Begin(session, boot)
                         \/ /\ c.id.session < session /\ c.boot <= pastBoot
                            /\ c.from # SessionPromise
    /\ c.from = SessionPromise => c.op = "begin"

BeginAwaited == Begin(session, boot) \in wire => sessionReady \in {"begin", "retry"}

AnswersDated ==
  \A a \in answers : a.from = SessionPromise =>
    /\ sessionReady \in {"begin", "retry"}
    /\ Begin(session, boot) \notin wire
    /\ a.boot <= boot => Ours
    /\ a.boot > boot => registry # None /\ registry.session < session
    /\ \A b \in answers : b.from = SessionPromise => b = a

SessionInvariant ==
  /\ session = sessions
  /\ RegistryDated
  /\ BeginsDated
  /\ BeginAwaited
  /\ AnswersDated
  /\ \A t \in tasks : t.from # SessionPromise
  /\ sessionReady = "ready" => Ours

LEMMA BeginFields ==
  ASSUME NEW s, NEW b
  PROVE  /\ Begin(s, b).op = "begin" /\ Begin(s, b).id.session = s
         /\ Begin(s, b).boot = b /\ Begin(s, b).from = SessionPromise
BY DEF Begin

\* Whatever leaves the boot and the session of the registry and of the page
\* alone, and sends and answers nothing in the name of the shared promise.
LEMMA QuietKeepsSession ==
  ASSUME SessionInvariant,
         UNCHANGED <<session, boot, sessions, pastBoot, sessionReady>>,
         \/ registry' = registry
         \/ /\ registry # None /\ registry' # None
            /\ registry'.session = registry.session /\ registry'.boot = registry.boot,
         \A c \in wire' : c \in wire \/ (c.op # "begin" /\ c.from # SessionPromise),
         \A a \in answers' : a \in answers \/ a.from # SessionPromise,
         \A t \in tasks' : t.from # SessionPromise
  PROVE  SessionInvariant'
<1> USE DEF SessionInvariant
<1>1. RegistryDated' /\ (Ours => Ours')
      /\ (registry # None /\ registry.session < session
            => registry' # None /\ registry'.session < session')
  BY DEF RegistryDated, Ours
<1>2. SessionPromise' = SessionPromise /\ Begin(session, boot)' = Begin(session, boot)
  BY DEF SessionPromise, Begin
<1>3. BeginsDated'
  BY <1>2 DEF BeginsDated
<1>4. Begin(session, boot) \in wire' => Begin(session, boot) \in wire
  BY BeginFields
<1>5. BeginAwaited'
  BY <1>2, <1>4 DEF BeginAwaited
<1>6. AnswersDated'
  BY <1>1, <1>2, <1>4 DEF AnswersDated
<1> QED BY <1>1, <1>3, <1>5, <1>6

\* Only BeginSession touches the session in the registry, and no other command
\* or task answers the shared promise.
LEMMA TaskQuiet ==
  ASSUME FileBrowserTypeOK, SessionInvariant, UNCHANGED pageVars, NEW t \in tasks,
         StopDisplaced(t) \/ Subscribe(t) \/ FinishTask(t)
  PROVE  SessionInvariant'
<1>0. RequestsTypeOK /\ t.from # SessionPromise
  BY DEF FileBrowserTypeOK, SessionInvariant
<1>1. \/ registry' = registry
      \/ /\ registry # None /\ registry' # None
         /\ registry'.session = registry.session /\ registry'.boot = registry.boot
  <2>1. CASE registry' = registry
    BY <2>1
  <2>2. CASE registry' # registry
    <3>1. /\ registry \in SessionState /\ registry' \in SessionState
          /\ registry' = [registry EXCEPT !.active = registry'.active]
      BY <1>0, <2>2, TaskKeepsSession
    <3>2. registry'.session = registry.session /\ registry'.boot = registry.boot
      BY <3>1 DEF SessionState
    <3> QED BY <3>1, <3>2, NoneAssumption
  <2> QED BY <2>1, <2>2
<1>2. wire' = wire
  BY DEF StopDisplaced, Subscribe, FinishTask, Prepared, Failed, CancelDownloads
<1>3. \A a \in answers' : a \in answers \/ a.from # SessionPromise
  BY <1>0 DEF StopDisplaced, Subscribe, FinishTask, Prepared, Failed, CancelDownloads, Reply
<1>4. \A T, ids : (\A u \in T : u \in Task /\ u.from # SessionPromise)
          => \A u \in StopDownloads(T, ids) : u.from # SessionPromise
  BY DEF StopDownloads, Task
<1>5. \A u \in tasks \ {t} : u \in Task /\ u.from # SessionPromise
  BY <1>0 DEF SessionInvariant, RequestsTypeOK
<1>6. \A u \in tasks' : u.from # SessionPromise
  <2>1. CASE StopDisplaced(t)
    <3>1. [t EXCEPT !.at = "resolving", !.displaced = None].from # SessionPromise
      BY <1>0 DEF RequestsTypeOK, Task
    <3> QED BY <1>4, <1>5, <2>1, <3>1 DEF StopDisplaced
  <2>2. CASE Subscribe(t)
    <3>1. [t EXCEPT !.at = "download"].from # SessionPromise
      BY <1>0 DEF RequestsTypeOK, Task
    <3> QED BY <1>5, <2>2, <3>1 DEF Subscribe
  <2>3. CASE FinishTask(t)
    BY <1>4, <1>5, <2>3 DEF FinishTask, Prepared, Failed, CancelDownloads
  <2> QED BY <2>1, <2>2, <2>3
<1>7. UNCHANGED <<session, boot, sessions, pastBoot, sessionReady>>
  BY DEF pageVars, sessionVars
<1> QED BY <1>1, <1>2, <1>3, <1>6, <1>7, QuietKeepsSession

LEMMA CommandQuiet ==
  ASSUME FileBrowserTypeOK, SessionInvariant, UNCHANGED pageVars, NEW call \in wire,
         Register(call) \/ Commit(call) \/ CancelRequest(call)
  PROVE  SessionInvariant'
<1>0. RequestsTypeOK /\ call \in Call /\ wire' = wire \ {call}
  BY DEF FileBrowserTypeOK, RequestsTypeOK, Register, Commit, CancelRequest
<1>1. call.op # "begin" /\ call.from # SessionPromise
  <2>1. call.op # "begin"
    BY DEF Register, Commit, CancelRequest
  <2> QED BY <2>1 DEF SessionInvariant, BeginsDated
<1>2. \/ registry' = registry
      \/ /\ registry # None /\ registry' # None
         /\ registry'.session = registry.session /\ registry'.boot = registry.boot
  BY <1>0, CommandKeepsSession, NoneAssumption
<1>3. \A a \in answers' : a \in answers \/ a.from # SessionPromise
  BY <1>1 DEF Register, Commit, CancelRequest, Reply
<1>4. \A u \in tasks' : u.from # SessionPromise
  BY <1>1 DEF Register, Commit, CancelRequest, SessionInvariant
<1>5. UNCHANGED <<session, boot, sessions, pastBoot, sessionReady>>
  BY DEF pageVars, sessionVars
<1> QED BY <1>0, <1>2, <1>3, <1>4, <1>5, QuietKeepsSession

LEMMA BeginQuiet ==
  ASSUME FileBrowserTypeOK, SessionInvariant, UNCHANGED pageVars, NEW call \in wire,
         BeginSession(call)
  PROVE  SessionInvariant'
<1> DEFINE own == call = Begin(session, boot)
<1>0. RequestsTypeOK /\ call \in Call /\ call.op = "begin" /\ wire' = wire \ {call}
  BY DEF FileBrowserTypeOK, RequestsTypeOK, BeginSession
<1>1. UNCHANGED <<session, boot, sessions, pastBoot, sessionReady>>
  BY DEF pageVars, sessionVars
<1>2. /\ session \in Nat /\ boot \in Nat /\ pastBoot \in Nat
      /\ call.boot \in Nat /\ call.id.session \in Nat
      /\ registry # None => registry.boot \in Nat /\ registry.session \in Nat
  BY <1>0 DEF FileBrowserTypeOK, RequestsTypeOK, Call, RequestId, SessionState
<1>3. SessionPromise' = SessionPromise /\ Begin(session, boot)' = Begin(session, boot)
  BY <1>1 DEF SessionPromise, Begin
<1>4. \A t \in tasks' : t.from # SessionPromise
  <2>1. Nobody # SessionPromise
    BY BoundsAreNat
  <2> QED BY <2>1 DEF BeginSession, SessionInvariant
<1>5. own \/ (call.id.session < session /\ call.boot <= pastBoot /\ call.from # SessionPromise)
  BY <1>0 DEF SessionInvariant, BeginsDated
<1>6. CASE Superseded(call) /\ ~own
  <2>1. registry' = registry
    BY <1>6 DEF BeginSession
  <2>2. \A a \in answers' : a \in answers \/ a.from # SessionPromise
    BY <1>0, <1>5, <1>6 DEF BeginSession, Reply, Call
  <2> QED BY <1>0, <1>1, <1>4, <2>1, <2>2, QuietKeepsSession
<1>7. CASE ~Superseded(call) /\ ~own
  <2>1. /\ registry' = [session |-> call.id.session, boot |-> call.boot,
                        cancelledThrough |-> 0, lastCommitted |-> 0, active |-> None]
    BY <1>7 DEF BeginSession
  <2>2. registry' \in SessionState
    BY <1>2, <2>1 DEF SessionState
  <2>3. registry' # None /\ registry'.session < session /\ registry'.boot <= pastBoot
    BY <1>5, <1>7, <2>1, <2>2, NoneAssumption
  <2>4. Ours => Ours'
    BY <1>1, <1>2, <1>5, <1>7 DEF Ours, SessionInvariant, RegistryDated, Superseded
  <2>5. \A a \in answers' : a \in answers \/ a.from # SessionPromise
    BY <1>5, <1>7 DEF BeginSession, Reply
  <2>6. RegistryDated' /\ BeginsDated' /\ BeginAwaited'
    BY <1>0, <1>1, <1>3, <2>3 DEF SessionInvariant, RegistryDated, BeginsDated, BeginAwaited
  <2>7. AnswersDated'
    BY <1>0, <1>1, <1>3, <2>3, <2>4, <2>5 DEF SessionInvariant, AnswersDated
  <2> QED BY <1>1, <1>4, <2>4, <2>6, <2>7 DEF SessionInvariant
<1>8. CASE own
  <2>1. /\ call.from = SessionPromise /\ call.boot = boot /\ call.id.session = session
    BY <1>8, BeginFields
  <2>2. /\ sessionReady \in {"begin", "retry"}
        /\ \A a \in answers : a.from # SessionPromise
    BY <1>8 DEF SessionInvariant, BeginAwaited, AnswersDated
  <2>3. registry' # None
        /\ \/ registry'.session = session /\ registry'.boot = boot
           \/ registry' = registry /\ registry.session < session /\ registry.boot <= pastBoot
                /\ boot < registry.boot
    <3>1. CASE Superseded(call)
      BY <1>2, <2>1, <3>1 DEF BeginSession, Superseded, SessionInvariant, RegistryDated
    <3>2. CASE ~Superseded(call)
      <4>1. registry' = [session |-> call.id.session, boot |-> call.boot,
                         cancelledThrough |-> 0, lastCommitted |-> 0, active |-> None]
        BY <3>2 DEF BeginSession
      <4>2. registry' \in SessionState
        BY <1>2, <4>1 DEF SessionState
      <4> QED BY <2>1, <4>1, <4>2, NoneAssumption
    <3> QED BY <3>1, <3>2
  <2>4. \A a \in answers' : a.from = SessionPromise =>
            a = [from |-> SessionPromise, boot |-> registry'.boot, result |-> "begun"]
    <3>1. SessionPromise # Nobody
      BY BoundsAreNat
    <3>2. CASE Superseded(call)
      <4>1. registry' = registry
        BY <3>2 DEF BeginSession
      <4>2. answers' = answers \cup
               {[from |-> SessionPromise, boot |-> registry.boot, result |-> "begun"]}
        BY <1>0, <2>1, <3>1, <3>2 DEF BeginSession, Reply, Call
      <4> QED BY <2>2, <4>1, <4>2
    <3>3. CASE ~Superseded(call)
      <4>1. registry'.boot = boot
        BY <2>1, <3>3 DEF BeginSession
      <4>2. answers' = answers \cup
               {[from |-> SessionPromise, boot |-> boot, result |-> "begun"]}
        BY <2>1, <3>1, <3>3 DEF BeginSession, Reply
      <4> QED BY <2>2, <4>1, <4>2
    <3> QED BY <3>2, <3>3
  <2>5. RegistryDated' /\ BeginsDated' /\ BeginAwaited'
    BY <1>0, <1>1, <1>3, <2>3 DEF SessionInvariant, RegistryDated, BeginsDated, BeginAwaited
  <2>6. registry'.boot <= boot => Ours'
    BY <1>1, <1>2, <2>3 DEF Ours
  <2>7. registry'.boot > boot => registry'.session < session
    BY <1>1, <1>2, <2>3
  <2>8. AnswersDated'
    BY <1>0, <1>1, <1>3, <1>8, <2>2, <2>3, <2>4, <2>6, <2>7 DEF AnswersDated
  <2> QED BY <1>1, <1>4, <2>2, <2>5, <2>8 DEF SessionInvariant
<1> QED BY <1>6, <1>7, <1>8

LEMMA BackendKeepsSession ==
  ASSUME FileBrowserTypeOK, SessionInvariant, Backend
  PROVE  SessionInvariant'
BY TaskQuiet, CommandQuiet, BeginQuiet DEF Backend, RequestsNext, ServeCall

\* The page's own steps.
LEMMA PageQuiet ==
  ASSUME SessionInvariant, UNCHANGED <<registry, tasks, sessionVars>>,
         \A c \in wire' : c \in wire \/ (c.op # "begin" /\ c.from # SessionPromise),
         answers' \subseteq answers
  PROVE  SessionInvariant'
<1>1. /\ UNCHANGED <<session, boot, sessions, pastBoot, sessionReady>>
      /\ \A t \in tasks' : t.from # SessionPromise
      /\ \A a \in answers' : a \in answers
  BY DEF sessionVars, SessionInvariant
<1> QED BY <1>1, QuietKeepsSession

LEMMA SendQuiet ==
  ASSUME NEW op \in {"prepare", "unlock", "commit", "cancel"}, NEW id,
         NEW from \in OpenIndex \cup {Nobody}, Send({CallOf(op, id, from)})
  PROVE  \A c \in wire' : c \in wire \/ (c.op # "begin" /\ c.from # SessionPromise)
BY BoundsAreNat DEF Send, CallOf

LEMMA CancelQuiet ==
  ASSUME TakeAndCancel \/ InvalidatePending
  PROVE  \A c \in wire' : c \in wire \/ (c.op # "begin" /\ c.from # SessionPromise)
<1>1. CASE TakeAndCancel
  BY <1>1, BoundsAreNat DEF TakeAndCancel, Send, CallOf
<1>2. CASE UNCHANGED wire
  BY <1>2
<1> QED BY <1>1, <1>2 DEF InvalidatePending

LEMMA BrowseKeepsSession ==
  ASSUME SessionInvariant, Browse
  PROVE  SessionInvariant'
<1>1. UNCHANGED <<registry, tasks, sessionVars, answers>>
  BY DEF Browse, Navigate, Up, Refresh, OpenLocal, OpenRemote, ExitArchive, CancelOpen,
         FetchDone, UserActs
<1>2. UNCHANGED wire \/ TakeAndCancel \/ InvalidatePending
  BY DEF Browse, Navigate, Up, Refresh, OpenLocal, OpenRemote, ExitArchive, CancelOpen,
         FetchDone
<1> QED BY <1>1, <1>2, CancelQuiet, PageQuiet

\* The first open that needs the session asks for it.
LEMMA RegisterKeepsSession ==
  ASSUME SessionInvariant, NEW i \in OpenIndex, NEW call, RegisterOpen(i, call),
         UNCHANGED <<registry, tasks>>, answers' \subseteq answers
  PROVE  SessionInvariant'
<1>1. UNCHANGED <<session, boot, sessions, pastBoot>>
  BY DEF RegisterOpen
<1>2. SessionPromise' = SessionPromise /\ Begin(session, boot)' = Begin(session, boot)
  BY <1>1 DEF SessionPromise, Begin
<1>3. CASE sessionReady = "none"
  <2>1. sessionReady' = "begin" /\ wire' = wire \cup {Begin(session, boot)}
    BY <1>3 DEF RegisterOpen, Send
  <2>2. \A a \in answers' : a.from # SessionPromise
    BY <1>3 DEF SessionInvariant, AnswersDated
  <2>3. RegistryDated' /\ BeginAwaited' /\ AnswersDated'
    BY <1>1, <1>2, <2>1, <2>2 DEF SessionInvariant, RegistryDated, BeginAwaited, AnswersDated
  <2>4. BeginsDated'
    BY <1>1, <1>2, <2>1, BeginFields DEF SessionInvariant, BeginsDated
  <2> QED BY <1>1, <2>1, <2>3, <2>4 DEF SessionInvariant
<1>4. CASE sessionReady # "none"
  BY <1>1, <1>4, PageQuiet DEF RegisterOpen, sessionVars
<1> QED BY <1>3, <1>4

LEMMA OpenArchiveKeepsSession ==
  ASSUME SessionInvariant, NEW i \in OpenIndex, NEW archive \in Archives,
         OpenArchive(i, archive)
  PROVE  SessionInvariant'
<1>1. UNCHANGED <<registry, tasks, answers>>
  BY DEF OpenArchive, OpenStep
<1>2. ASSUME NEW call, RegisterOpen(i, call)
      PROVE  SessionInvariant'
  BY <1>1, <1>2, RegisterKeepsSession
<1>3. ASSUME NEW id, Send({CallOf("cancel", id, i)}), UNCHANGED sessionVars
      PROVE  SessionInvariant'
  BY <1>1, <1>3, SendQuiet, PageQuiet
<1> QED BY <1>2, <1>3 DEF OpenArchive

LEMMA SessionBegunKeepsSession ==
  ASSUME FileBrowserTypeOK, SessionInvariant, NEW a \in answers, SessionBegun(a)
  PROVE  SessionInvariant'
<1>1. /\ a.from = SessionPromise /\ answers' = answers \ {a}
      /\ UNCHANGED <<registry, tasks, pastBoot>>
  BY DEF SessionBegun, Receive, OpenStep
<1>2. /\ Begin(session, boot) \notin wire
      /\ \A b \in answers' : b.from # SessionPromise
      /\ a.boot <= boot => Ours
      /\ a.boot > boot => registry # None /\ registry.session < session
  BY <1>1 DEF SessionInvariant, AnswersDated
<1>3. /\ session \in Nat /\ boot \in Nat /\ a.boot \in Nat /\ pastBoot \in Nat
      /\ session = sessions
  BY DEF FileBrowserTypeOK, RequestsTypeOK, Answer, SessionInvariant
<1>4. SessionPromise' = SessionPromise
  BY DEF SessionPromise
<1>5. AnswersDated' /\ \A t \in tasks' : t.from # SessionPromise
  BY <1>1, <1>2, <1>4 DEF AnswersDated, SessionInvariant
<1>6. CASE UNCHANGED <<session, boot, sessions, wire>> /\ sessionReady' \in {"ready", "none"}
            /\ (sessionReady' = "ready" => a.boot <= boot)
  <2>1. Begin(session, boot)' = Begin(session, boot)
    BY <1>4, <1>6 DEF Begin
  <2>2. RegistryDated' /\ BeginsDated' /\ BeginAwaited'
    BY <1>1, <1>2, <1>4, <1>6, <2>1
       DEF SessionInvariant, RegistryDated, BeginsDated, BeginAwaited
  <2>3. sessionReady' = "ready" => Ours'
    BY <1>1, <1>2, <1>6 DEF Ours
  <2> QED BY <1>3, <1>5, <1>6, <2>2, <2>3 DEF SessionInvariant
<1>7. CASE /\ a.boot > boot /\ sessionReady' = "retry" /\ boot' = a.boot + 1
           /\ sessions' = sessions + 1 /\ session' = sessions'
           /\ Send({Begin(session', boot')})
  <2>1. session' = session + 1 /\ session < session'
    BY <1>3, <1>7
  <2>2. Begin(session, boot)' = Begin(session', boot')
    BY <1>4 DEF Begin
  <2>3. RegistryDated'
    <3>1. registry # None /\ registry.session < session /\ registry.session \in Nat
      BY <1>2, <1>7 DEF FileBrowserTypeOK, RequestsTypeOK, SessionState
    <3>2. registry.boot <= pastBoot
      BY <1>3, <3>1 DEF SessionInvariant, RegistryDated
    <3> QED BY <1>1, <1>3, <2>1, <3>1, <3>2 DEF RegistryDated
  <2>4. BeginsDated'
    <3>1. wire' = wire \cup {Begin(session', boot')}
      BY <1>7 DEF Send
    <3>2. \A c \in wire : c.op = "begin" =>
              c.id.session < session' /\ c.boot <= pastBoot /\ c.from # SessionPromise
      BY <1>2, <1>3, <2>1 DEF SessionInvariant, BeginsDated, FileBrowserTypeOK,
                              RequestsTypeOK, Call, RequestId
    <3> QED BY <1>1, <1>4, <2>2, <3>1, <3>2, BeginFields DEF SessionInvariant, BeginsDated
  <2>5. BeginAwaited' /\ sessionReady' # "ready"
    BY <1>7 DEF BeginAwaited
  <2> QED BY <1>5, <1>7, <2>3, <2>4, <2>5 DEF SessionInvariant
<1> QED BY <1>6, <1>7 DEF SessionBegun

LEMMA ContinueKeepsSession ==
  ASSUME FileBrowserTypeOK, SessionInvariant, Continue
  PROVE  SessionInvariant'
<1>1. ASSUME NEW a \in answers, SessionBegun(a)
      PROVE  SessionInvariant'
  BY <1>1, SessionBegunKeepsSession
<1>2. ASSUME NEW i \in OpenIndex, Prepare(i) \/ Retry(i)
      PROVE  SessionInvariant'
  <2>1. UNCHANGED <<registry, tasks, sessionVars, answers>>
    BY <1>2 DEF Prepare, Retry, OpenStep
  <2>2. \/ UNCHANGED wire
        \/ \E op \in {"prepare", "commit", "cancel"}, id \in {opens'[i].id, opens[i].id} :
               Send({CallOf(op, id, i)})
        \/ \E id : Send({CallOf("prepare", id, i)})
    BY <1>2 DEF Prepare, Retry, GiveUp
  <2>3. \A c \in wire' : c \in wire \/ (c.op # "begin" /\ c.from # SessionPromise)
    BY <2>2, SendQuiet
  <2> QED BY <2>1, <2>3, PageQuiet
<1>3. ASSUME NEW i \in OpenIndex, NEW a \in answers, Supersede(i, a)
      PROVE  SessionInvariant'
  <2>1. UNCHANGED <<registry, tasks>> /\ answers' \subseteq answers
    BY <1>3 DEF Supersede, Receive, OpenStep
  <2>2. RegisterOpen(i, opens[i]) \/ UNCHANGED <<wire, sessionVars>>
    BY <1>3 DEF Supersede
  <2> QED BY <2>1, <2>2, RegisterKeepsSession, PageQuiet
<1>4. ASSUME NEW i \in OpenIndex, NEW a \in answers,
             \/ PrepareAnswered(i, a) \/ UnlockAnswered(i, a)
             \/ CommitAnswered(i, a) \/ GivenUp(i, a)
      PROVE  SessionInvariant'
  <2>1. UNCHANGED <<registry, tasks, sessionVars>> /\ answers' \subseteq answers
    BY <1>4 DEF PrepareAnswered, UnlockAnswered, CommitAnswered, GivenUp, Receive, OpenStep
  <2>2. \/ UNCHANGED wire
        \/ Send({CallOf("commit", opens[i].id, i)})
        \/ Send({CallOf("cancel", opens[i].id, i)})
    BY <1>4 DEF PrepareAnswered, UnlockAnswered, CommitAnswered, GivenUp, CommitArchive, GiveUp
  <2>3. \A c \in wire' : c \in wire \/ (c.op # "begin" /\ c.from # SessionPromise)
    BY <2>2, SendQuiet
  <2> QED BY <2>1, <2>3, PageQuiet
<1> QED BY <1>1, <1>2, <1>3, <1>4 DEF Continue, OpenAnswered

LEMMA ReloadKeepsSession ==
  ASSUME FileBrowserTypeOK, SessionInvariant, Reload
  PROVE  SessionInvariant'
<1>1. /\ session \in Nat /\ boot \in Nat /\ pastBoot \in Nat /\ session = sessions
      /\ registry # None => registry.session \in Nat /\ registry.boot \in Nat
  BY DEF FileBrowserTypeOK, RequestsTypeOK, SessionState, SessionInvariant
<1>2. /\ sessions' = sessions + 1 /\ session' = sessions' /\ registry' = registry
      /\ answers' = {} /\ sessionReady' = "none"
      /\ pastBoot' = IF boot > pastBoot THEN boot ELSE pastBoot
  BY DEF Reload
<1>3. /\ session < session' /\ session' = session + 1 /\ session' = sessions'
      /\ boot <= pastBoot' /\ pastBoot <= pastBoot' /\ pastBoot' \in Nat
  BY <1>1, <1>2
<1>4. RegistryDated'
  BY <1>1, <1>2, <1>3 DEF SessionInvariant, RegistryDated
<1>5. SessionPromise' = SessionPromise /\ Nobody # SessionPromise
  BY BoundsAreNat DEF SessionPromise
<1>6. \A c \in wire' : /\ c.from # SessionPromise
                       /\ c.op = "begin" => c.id.session < session' /\ c.boot <= pastBoot'
  <2> SUFFICES ASSUME NEW c \in wire
               PROVE  LET d == [c EXCEPT !.from = Nobody] IN
                      /\ d.from # SessionPromise
                      /\ d.op = "begin" => d.id.session < session' /\ d.boot <= pastBoot'
    BY DEF Reload, Orphans
  <2>1. c \in Call /\ c.id.session \in Nat /\ c.boot \in Nat
    BY DEF FileBrowserTypeOK, RequestsTypeOK, Call, RequestId
  <2>2. c.op = "begin" => c.id.session <= session /\ c.boot <= pastBoot'
    BY <1>1, <1>3, <2>1, BeginFields DEF SessionInvariant, BeginsDated
  <2> QED BY <1>1, <1>3, <1>5, <2>1, <2>2 DEF Call
<1>7. BeginsDated'
  BY <1>5, <1>6 DEF BeginsDated
<1>8. BeginAwaited'
  BY <1>5, <1>6, BeginFields DEF BeginAwaited, Begin
<1>9. AnswersDated'
  BY <1>2 DEF AnswersDated
<1>10. \A t \in tasks' : t.from # SessionPromise
  <2> SUFFICES ASSUME NEW t \in tasks
               PROVE  [t EXCEPT !.from = Nobody].from # SessionPromise
    BY <1>5 DEF Reload, Orphans
  <2>1. t \in Task
    BY DEF FileBrowserTypeOK, RequestsTypeOK
  <2> QED BY <1>5, <2>1 DEF Task
<1> QED BY <1>2, <1>3, <1>4, <1>7, <1>8, <1>9, <1>10 DEF SessionInvariant

\* What the begin of the session rests on, in every state.
LEMMA SessionKept == Spec => []SessionInvariant
<1>1. Init => SessionInvariant
  BY DEF Init, PageInit, RequestsInit, SessionInvariant, RegistryDated, BeginsDated,
         BeginAwaited, AnswersDated
<1>2. PageTyped /\ SessionInvariant /\ [Next]_vars => SessionInvariant'
  <2> SUFFICES ASSUME PageTyped, SessionInvariant, [Next]_vars
               PROVE  SessionInvariant'
    OBVIOUS
  <2>0. FileBrowserTypeOK
    BY DEF PageTyped
  <2>1. CASE UNCHANGED vars
    BY <2>1, PageQuiet DEF vars, requestVars, pageVars
  <2>2. CASE Backend
    BY <2>0, <2>2, BackendKeepsSession
  <2>3. CASE Browse
    BY <2>3, BrowseKeepsSession
  <2>4. CASE Continue
    BY <2>0, <2>4, ContinueKeepsSession
  <2>5. ASSUME NEW i \in OpenIndex, NEW archive \in Archives, OpenArchive(i, archive)
        PROVE  SessionInvariant'
    BY <2>5, OpenArchiveKeepsSession
  <2>6. ASSUME NEW i \in OpenIndex, SubmitPassword(i)
        PROVE  SessionInvariant'
    BY <2>6, SendQuiet, PageQuiet DEF SubmitPassword, OpenStep
  <2>7. CASE Reload
    BY <2>0, <2>7, ReloadKeepsSession
  <2> QED BY <2>1, <2>2, <2>3, <2>4, <2>5, <2>6, <2>7 DEF Next
<1> QED BY <1>1, <1>2, Typed, PTL DEF Spec

\* Once the page's begin has answered, no begin of an older page, however late,
\* takes the registry from it, as long as the clock has not gone back: every
\* such begin carries a boot some earlier page had.
THEOREM SessionStaysOurs == Spec => []SessionIsOurs
<1>1. SessionInvariant => SessionIsOurs
  BY DEF SessionInvariant, SessionIsOurs, Ours
<1> QED BY <1>1, SessionKept, PTL

-----------------------------------------------------------------------------
(***************************************************************************)
(* No request the page has abandoned stays active.  The registry knows only  *)
(* one active request and the page only the open it is in, so the invariant  *)
(* ties the two: what is on its way for an open is the one command, task or  *)
(* answer the open waits for, about the request of that open; an open that   *)
(* the page has left behind is covered by a cancel, sent or served.          *)
(***************************************************************************)

\* What an open in the await `pc` waits for
Asked(pc, op) ==
  \/ pc \in {"superseding", "uncommit"} /\ op = "cancel"
  \/ pc \in {"prepare", "unlock", "commit"} /\ op = pc

Waiting == {"superseding", "prepare", "unlock", "commit", "uncommit"}

Held == {"prepare", "password", "unlock"}
Committing == {"commit", "backoff", "uncommit"}
Later == Committing \cup {"list"}

\* Every open has an epoch and a sequence of its own, and the session it was
\* prepared in.
OpensOwn ==
  /\ \A i \in OpenIndex :
       /\ opens[i].pc \in Held \cup Later =>
              sessionReady = "ready" /\ opens[i].id.session = session
       /\ opens[i].pc \in Held \cup Later \cup {"begin"} => opens[i].id.seq > 0
       /\ opens[i].pc \in Held \cup Later \cup {"begin", "superseding"} => opens[i].epoch > 0
       /\ opens[i].pc \in {"idle", "superseding"} => opens[i].id.session = 0
       /\ opens[i].id.seq <= sequence /\ opens[i].epoch <= epoch
  /\ \A i, j \in OpenIndex : i # j =>
       /\ opens[i].id.seq = opens[j].id.seq => opens[i].id.seq = 0
       /\ opens[i].epoch = opens[j].epoch => opens[i].epoch = 0

\* Of the three places the page keeps a request in, those in use name the open
\* of the current epoch: to cancel the first of them is to cancel it.
PendingOwn ==
  /\ pendingOpen # 0 => opens[pendingOpen].epoch = epoch
  /\ pendingPassword # 0 => opens[pendingPassword].epoch = epoch
  /\ \A i \in OpenIndex : opens[i].epoch = epoch =>
       /\ opens[i].pc \in {"begin", "prepare"} => pendingOpen = i
       /\ opens[i].pc \in {"password", "unlock"} => pendingPassword = i

CancelSent(id) == \E c \in wire : c.op = "cancel" /\ c.id = id

Covered(id) ==
  CancelSent(id) \/ (Owned(id) => id.seq <= registry.cancelledThrough)

StaleCovered ==
  \A i \in OpenIndex :
    opens[i].pc \in Held /\ opens[i].epoch # epoch => Covered(opens[i].id)

\* An open has one command on its way, or the task that serves it, or its answer.
OneOf(S) == \A x, y \in S : x.from = y.from /\ x.from \in OpenIndex => x = y
Apart(S, T) == \A x \in S, y \in T : x.from = y.from => x.from \notin OpenIndex

OneAwaited ==
  /\ OneOf(wire) /\ OneOf(tasks) /\ OneOf(answers)
  /\ Apart(wire, tasks) /\ Apart(wire, answers) /\ Apart(tasks, answers)

\* ... about its own request; those nobody waits for are of older pages.
WireTrue ==
  \A c \in wire :
    /\ c.from \in OpenIndex =>
         /\ Asked(opens[c.from].pc, c.op)
         /\ opens[c.from].pc # "superseding" => c.id = opens[c.from].id
    /\ c.from \notin OpenIndex /\ c.op \in {"prepare", "unlock", "commit"} =>
         c.id.session < session

TasksTrue ==
  \A t \in tasks : t.from \in OpenIndex =>
    /\ Asked(opens[t.from].pc, t.op)
    /\ t.op # "cancel" => t.id = opens[t.from].id
    /\ opens[t.from].pc = "uncommit" => ~ActiveIs(opens[t.from].id)

\* Answers after which the open has no more to do with its request
Ended(pc, result) ==
  \/ pc = "prepare" /\ result \notin {"ready", "streaming", "password"}
  \/ pc = "unlock" /\ result \notin {"ready", "streaming"}
  \/ pc = "commit" /\ result = "ok"
  \/ pc = "uncommit"

AnswersTrue ==
  \A a \in answers : a.from \in OpenIndex =>
    /\ opens[a.from].pc \in Waiting
    /\ Ended(opens[a.from].pc, a.result) => ~ActiveIs(opens[a.from].id)

\* What was committed is not prepared again.
LastTrue ==
  registry # None /\ registry.session = session =>
    /\ registry.lastCommitted <= sequence
    /\ \A i \in OpenIndex :
         opens[i].id.seq > 0 /\ opens[i].id.seq = registry.lastCommitted =>
           opens[i].pc \in Later \cup {"done"} /\ ~ActiveIs(opens[i].id)

CancelInvariant ==
  /\ OpensOwn /\ PendingOwn /\ StaleCovered
  /\ OneAwaited /\ WireTrue /\ TasksTrue /\ AnswersTrue
  /\ LastTrue
  /\ AbandonedIsCancelled

-----------------------------------------------------------------------------
(***************************************************************************)
(* The registry's steps.                                                    *)
(***************************************************************************)

\* As the page's session sees it, the registry at most drops the active request
\* and raises the watermark.
RegistryCalm ==
  registry' # None /\ registry'.session = session =>
    /\ registry # None /\ registry.session = session
    /\ registry'.cancelledThrough >= registry.cancelledThrough
    /\ registry'.lastCommitted = registry.lastCommitted
    /\ \/ registry'.active = None
       \/ /\ registry'.active # None /\ registry.active # None
          /\ registry'.active.seq = registry.active.seq

\* A cancel leaves the wire by raising the watermark.
CancelsServed ==
  /\ wire' \subseteq wire
  /\ \A c \in wire : c.op = "cancel" /\ c.id.session = session =>
       \/ c \in wire'
       \/ registry' # None /\ registry'.session = session =>
              c.id.seq <= registry'.cancelledThrough

\* The types of what the proof compares
FieldsTyped ==
  /\ session \in Nat /\ session > 0 /\ sequence \in Nat /\ epoch \in Nat
  /\ pendingOpen \in OpenIndex \cup {0} /\ pendingPassword \in OpenIndex \cup {0}
  /\ \A i \in OpenIndex : /\ opens[i].id \in RequestId
                          /\ opens[i].id.session \in Nat /\ opens[i].id.seq \in Nat
                          /\ opens[i].epoch \in Nat
  /\ \A c \in wire : c.id \in RequestId /\ c.id.session \in Nat /\ c.id.seq \in Nat
  /\ \A t \in tasks : t.id \in RequestId /\ t.id.session \in Nat /\ t.id.seq \in Nat
  /\ registry # None =>
       /\ registry \in SessionState
       /\ registry.session \in Nat /\ registry.cancelledThrough \in Nat
       /\ registry.lastCommitted \in Nat
       /\ registry.active # None => registry.active.seq \in Nat

LEMMA RequestFields == FileBrowserTypeOK => FieldsTyped
<1> SUFFICES ASSUME FileBrowserTypeOK PROVE FieldsTyped
  OBVIOUS
<1>1. /\ \A i \in OpenIndex : opens[i].id \in RequestId /\ opens[i].epoch \in Nat
      /\ \A c \in wire : c.id \in RequestId
      /\ \A t \in tasks : t.id \in RequestId
  BY IdTyped DEF FileBrowserTypeOK, RequestsTypeOK, Call, Task
<1>2. session \in Nat /\ session > 0 /\ sequence \in Nat /\ epoch \in Nat
  BY DEF FileBrowserTypeOK
<1>3. registry # None => registry \in SessionState
  BY DEF FileBrowserTypeOK, RequestsTypeOK
<1>4. pendingOpen \in OpenIndex \cup {0} /\ pendingPassword \in OpenIndex \cup {0}
  BY BrowserAssumption DEF FileBrowserTypeOK, OpenIndex
<1> QED BY <1>1, <1>2, <1>3, <1>4 DEF FieldsTyped, RequestId, SessionState

\* An id is the active one if session and sequence are.
LEMMA SameRequest ==
  ASSUME NEW id \in RequestId, registry # None, registry.active # None
  PROVE  /\ id = ActiveId <=> ActiveIs(id)
         /\ ActiveId.session = registry.session /\ ActiveId.seq = registry.active.seq
BY DEF RequestId, ActiveId, ActiveIs, Owned

LEMMA PageUnchanged ==
  ASSUME UNCHANGED pageVars
  PROVE  UNCHANGED <<opens, session, sequence, epoch, pendingOpen, pendingPassword,
                     sessionReady>>
BY DEF pageVars, pendingVars, sessionVars

LEMMA CalmKeeps ==
  ASSUME FieldsTyped, FieldsTyped', ActiveAboveWatermark', CancelInvariant,
         UNCHANGED pageVars, RegistryCalm, CancelsServed
  PROVE  /\ OpensOwn' /\ PendingOwn' /\ StaleCovered' /\ WireTrue' /\ LastTrue'
         /\ AbandonedIsCancelled'
         /\ \A i \in OpenIndex : opens[i].pc \in Held \cup Later /\ ~ActiveIs(opens[i].id)
                                    => ~ActiveIs(opens[i].id)'
<1>0. UNCHANGED <<opens, session, sequence, epoch, pendingOpen, pendingPassword, sessionReady>>
  BY PageUnchanged
<1>1. OpensOwn' /\ PendingOwn'
  BY <1>0 DEF CancelInvariant, OpensOwn, PendingOwn
<1>2. WireTrue'
  BY <1>0 DEF CancelInvariant, WireTrue, CancelsServed
<1>3. \A id \in RequestId : id.session = session /\ ActiveIs(id)' => ActiveIs(id)
  BY DEF RegistryCalm, ActiveIs, Owned
<1>4. \A i \in OpenIndex : opens[i].pc \in Held \cup Later /\ ~ActiveIs(opens[i].id)
                              => ~ActiveIs(opens[i].id)'
  BY <1>0, <1>3 DEF FieldsTyped, CancelInvariant, OpensOwn
<1>5. \A i \in OpenIndex : registry' # None /\ registry'.session = session
         /\ ~ActiveIs(opens[i].id) => ~ActiveIs(opens[i].id)'
  BY <1>0, <1>3 DEF FieldsTyped, ActiveIs, Owned
<1>6. LastTrue'
  BY <1>0, <1>5 DEF CancelInvariant, LastTrue, RegistryCalm
<1>7. StaleCovered'
  <2> SUFFICES ASSUME NEW i \in OpenIndex, opens[i].pc \in Held, opens[i].epoch # epoch
               PROVE  Covered(opens[i].id)'
    BY <1>0 DEF StaleCovered
  <2>1. opens[i].id.session = session /\ Covered(opens[i].id)
    BY DEF CancelInvariant, OpensOwn, StaleCovered
  <2>2. CASE CancelSent(opens[i].id)
    BY <1>0, <2>1, <2>2 DEF CancelSent, Covered, CancelsServed, Owned
  <2>3. CASE Owned(opens[i].id) => opens[i].id.seq <= registry.cancelledThrough
    BY <1>0, <2>1, <2>3 DEF FieldsTyped, Covered, RegistryCalm, Owned
  <2> QED BY <2>1, <2>2, <2>3 DEF Covered
<1>8. AbandonedIsCancelled'
  <2> SUFFICES ASSUME Owned([session |-> session, seq |-> 0])', registry'.active # None
               PROVE  AbandonedIsCancelled'
    BY DEF AbandonedIsCancelled
  <2>1. registry' # None /\ registry'.session = session
    BY <1>0 DEF Owned
  <2>2. /\ registry # None /\ registry.session = session /\ registry.active # None
        /\ registry'.active.seq = registry.active.seq
    BY <2>1 DEF RegistryCalm
  <2>3. ActiveId' = ActiveId /\ ActiveId.session = session
        /\ ActiveId.seq = registry'.active.seq
    BY <2>1, <2>2 DEF ActiveId
  <2>4. PICK i \in OpenIndex :
            /\ opens[i].id = ActiveId
            /\ \/ opens[i].epoch = epoch /\ opens[i].pc \in {"prepare", "password", "unlock"}
               \/ opens[i].pc \in {"commit", "backoff", "uncommit"}
               \/ \E c \in wire : c.op = "cancel" /\ c.id = ActiveId
    BY <2>2 DEF CancelInvariant, AbandonedIsCancelled, Owned
  <2>5. registry'.active.seq > registry'.cancelledThrough
    BY <2>1 DEF ActiveAboveWatermark
  <2>6. ASSUME NEW c \in wire, c.op = "cancel", c.id = ActiveId
        PROVE  c \in wire'
    BY <2>1, <2>3, <2>5, <2>6 DEF FieldsTyped, CancelsServed
  <2> QED BY <1>0, <2>3, <2>4, <2>6 DEF AbandonedIsCancelled
<1> QED BY <1>1, <1>2, <1>4, <1>6, <1>7, <1>8

\* The command, task or answer of one caller is passed on, those of the others
\* stay what they are.
LEMMA HandedOn ==
  ASSUME OneAwaited, NEW f,
         wire' \subseteq wire,
         OneOf(tasks'),
         \A t \in tasks' : \/ t.from = f \/ t.from \notin OpenIndex
                           \/ \E u \in tasks : u.from = t.from,
         \A a \in answers' : a \in answers \/ a.from = f,
         f \in OpenIndex =>
           /\ (\E c \in wire : c.from = f) \/ (\E t \in tasks : t.from = f)
           /\ \A c \in wire' : c.from # f
           /\ (\A t \in tasks' : t.from # f) \/ (\A a \in answers' : a.from # f)
           /\ \A a, b \in answers' : a.from = f /\ b.from = f => a = b
  PROVE  OneAwaited'
<1>1. f \in OpenIndex => \A a \in answers : a.from # f
  BY DEF OneAwaited, Apart
<1>2. OneOf(wire') /\ OneOf(answers')
  BY <1>1 DEF OneAwaited, OneOf
<1>3. Apart(wire', tasks')
  BY DEF OneAwaited, Apart
<1>4. Apart(wire', answers')
  BY DEF OneAwaited, Apart
<1>5. Apart(tasks', answers')
  BY DEF OneAwaited, Apart
<1> QED BY <1>2, <1>3, <1>4, <1>5 DEF OneAwaited, OneOf, Apart

LEMMA StopKeepsCallers ==
  ASSUME NEW T, T \subseteq Task, NEW ids
  PROVE  /\ \A x \in StopDownloads(T, ids) :
               \E u \in T : x.op = u.op /\ x.id = u.id /\ x.from = u.from
         /\ OneOf(T) => OneOf(StopDownloads(T, ids))
<1> DEFINE G(t) == IF t.at = "download" /\ t.id \in ids THEN [t EXCEPT !.at = "stopped"] ELSE t
<1>1. \A t \in T : G(t).op = t.op /\ G(t).id = t.id /\ G(t).from = t.from
  BY DEF Task
<1>2. StopDownloads(T, ids) = {G(t) : t \in T}
  BY DEF StopDownloads
<1> HIDE DEF G
<1>3. \A x \in StopDownloads(T, ids) : \E u \in T : x = G(u)
  BY <1>2
<1>4. OneOf(T) => OneOf(StopDownloads(T, ids))
  BY <1>1, <1>3 DEF OneOf
<1> QED BY <1>1, <1>3, <1>4

\* A task of the service goes on, or ends in its answer.
LEMMA TaskMoves ==
  ASSUME FileBrowserTypeOK, CancelInvariant, NEW t \in tasks,
         StopDisplaced(t) \/ Subscribe(t) \/ FinishTask(t)
  PROVE  /\ wire' = wire
         /\ OneOf(tasks')
         /\ \A x \in tasks' : \E u \in tasks : x.op = u.op /\ x.id = u.id /\ x.from = u.from
         /\ \A a \in answers' : a \in answers \/ (a.from = t.from /\ a.from # Nobody)
         /\ \A a, b \in answers' : a \in answers \/ b \in answers \/ a = b
         /\ (\A x \in tasks' : x.from = t.from => t.from \notin OpenIndex) \/ answers' = answers
<1>0. tasks \subseteq Task /\ t \in Task
  BY DEF FileBrowserTypeOK, RequestsTypeOK
<1>1. wire' = wire
  BY DEF StopDisplaced, Subscribe, FinishTask, Prepared, Failed, CancelDownloads
<1>2. OneOf(tasks) /\ OneOf(tasks \ {t}) /\ tasks \ {t} \subseteq Task
      /\ \A x \in tasks \ {t} : x.from = t.from => t.from \notin OpenIndex
  BY <1>0 DEF CancelInvariant, OneAwaited, OneOf
<1>3. ASSUME NEW ids, NEW new, new.op = t.op, new.id = t.id, new.from = t.from,
             tasks' = StopDownloads(tasks \ {t}, ids) \cup {new} \/ tasks' = (tasks \ {t}) \cup {new}
      PROVE  /\ OneOf(tasks')
             /\ \A x \in tasks' : \E u \in tasks : x.op = u.op /\ x.id = u.id /\ x.from = u.from
  <2>1. /\ OneOf(StopDownloads(tasks \ {t}, ids))
        /\ \A x \in StopDownloads(tasks \ {t}, ids) :
              \E u \in tasks \ {t} : x.op = u.op /\ x.id = u.id /\ x.from = u.from
    BY <1>2, StopKeepsCallers
  <2>2. ASSUME NEW T, tasks' = T \cup {new}, OneOf(T),
               \A x \in T : \E u \in tasks \ {t} :
                   x.op = u.op /\ x.id = u.id /\ x.from = u.from
        PROVE  /\ OneOf(tasks')
               /\ \A x \in tasks' : \E u \in tasks :
                      x.op = u.op /\ x.id = u.id /\ x.from = u.from
    <3>1. \A x \in T : x.from = t.from => t.from \notin OpenIndex
      BY <1>2, <2>2
    <3>2. OneOf(tasks')
      BY <1>3, <2>2, <3>1 DEF OneOf
    <3> QED BY <1>3, <2>2, <3>2
  <2>3. \A x \in tasks \ {t} : \E u \in tasks \ {t} :
            x.op = u.op /\ x.id = u.id /\ x.from = u.from
    OBVIOUS
  <2> QED BY <1>2, <1>3, <2>1, <2>2, <2>3
<1>4. CASE StopDisplaced(t)
  <2> DEFINE new == [t EXCEPT !.at = "resolving", !.displaced = None]
  <2>1. new.op = t.op /\ new.id = t.id /\ new.from = t.from
    BY <1>0 DEF Task
  <2>2. tasks' = StopDownloads(tasks \ {t}, {t.displaced}) \cup {new} /\ answers' = answers
    BY <1>4 DEF StopDisplaced
  <2> HIDE DEF new
  <2> QED BY <1>1, <1>3, <2>1, <2>2
<1>5. CASE Subscribe(t)
  <2> DEFINE new == [t EXCEPT !.at = "download"]
  <2>1. new.op = t.op /\ new.id = t.id /\ new.from = t.from
    BY <1>0 DEF Task
  <2>2. tasks' = (tasks \ {t}) \cup {new} /\ answers' = answers
    BY <1>5 DEF Subscribe
  <2> HIDE DEF new
  <2> QED BY <1>1, <1>3, <2>1, <2>2
<1>6. CASE FinishTask(t)
  <2>1. \/ tasks' = tasks \ {t}
        \/ \E ids : tasks' = StopDownloads(tasks \ {t}, ids)
    BY <1>6 DEF FinishTask, Prepared, Failed, CancelDownloads
  <2>2. /\ OneOf(tasks')
        /\ \A x \in tasks' : \E u \in tasks \ {t} : x.op = u.op /\ x.id = u.id /\ x.from = u.from
    <3>1. CASE tasks' = tasks \ {t}
      BY <1>2, <3>1
    <3>2. ASSUME NEW ids, tasks' = StopDownloads(tasks \ {t}, ids)
          PROVE  /\ OneOf(tasks')
                 /\ \A x \in tasks' : \E u \in tasks \ {t} :
                        x.op = u.op /\ x.id = u.id /\ x.from = u.from
      BY <1>2, <3>2, StopKeepsCallers
    <3> QED BY <2>1, <3>1, <3>2
  <2>3. PICK result : answers' = answers \cup Reply([from |-> t.from, boot |-> 0], result)
    BY <1>6 DEF FinishTask, Prepared, Failed, CancelDownloads
  <2>4. /\ \A a \in answers' : a \in answers \/ (a.from = t.from /\ a.from # Nobody)
        /\ \A a, b \in answers' : a \in answers \/ b \in answers \/ a = b
    BY <2>3 DEF Reply
  <2> QED BY <1>1, <1>2, <2>2, <2>4
<1> QED BY <1>4, <1>5, <1>6

\* ... and its answer is true.
LEMMA TaskAnswers ==
  ASSUME FieldsTyped, CancelInvariant, UNCHANGED pageVars, NEW t \in tasks,
         StopDisplaced(t) \/ Subscribe(t) \/ FinishTask(t)
  PROVE  /\ RegistryCalm
         /\ \A a \in answers' : a \notin answers /\ a.from \in OpenIndex /\
              Ended(opens[a.from].pc, a.result) => ~ActiveIs(opens[a.from].id)'
<1>0. UNCHANGED <<opens, session, sequence, epoch, pendingOpen, pendingPassword, sessionReady>>
  BY PageUnchanged
<1>1. CASE StopDisplaced(t) \/ Subscribe(t)
  BY <1>0, <1>1 DEF StopDisplaced, Subscribe, RegistryCalm, FieldsTyped
<1>2. ASSUME NEW result \in {"ready", "streaming", "password"}, Prepared(t, result)
      PROVE  /\ RegistryCalm
             /\ \A a \in answers' : a \notin answers /\ a.from \in OpenIndex /\
                  Ended(opens[a.from].pc, a.result) => ~ActiveIs(opens[a.from].id)'
  <2> DEFINE state == IF result = "ready" THEN "prepared" ELSE result
  <2>1. /\ registry' = WithState(t.id, state)
        /\ answers' = answers \cup Reply([from |-> t.from, boot |-> 0], result)
        /\ result = "password" => t.op = "prepare"
    BY <1>2 DEF Prepared
  <2>2. \/ registry' = registry
        \/ /\ registry # None /\ registry.active # None
           /\ registry' = [registry EXCEPT !.active = [seq |-> registry.active.seq,
                                                       state |-> state]]
    BY <2>1 DEF WithState, ActiveIs, Owned, FieldsTyped, SessionState
  <2>3. /\ registry' # None <=> registry # None
        /\ registry # None => /\ registry'.session = registry.session
                              /\ registry'.cancelledThrough = registry.cancelledThrough
                              /\ registry'.lastCommitted = registry.lastCommitted
                              /\ registry'.active # None =>
                                    /\ registry.active # None
                                    /\ registry'.active.seq = registry.active.seq
    <3>1. CASE registry' = registry
      BY <3>1 DEF FieldsTyped
    <3>2. CASE registry # None /\ registry.active # None /\ registry' # registry
      <4>1. state \in RequestState
        BY DEF RequestState
      <4>2. /\ registry \in SessionState /\ registry.active.seq \in Nat
            /\ registry' = [registry EXCEPT !.active = [seq |-> registry.active.seq,
                                                        state |-> state]]
        BY <2>2, <3>2 DEF FieldsTyped
      <4> HIDE DEF state
      <4>3. registry' \in SessionState
        BY <4>1, <4>2 DEF SessionState
      <4>4. /\ registry'.session = registry.session
            /\ registry'.cancelledThrough = registry.cancelledThrough
            /\ registry'.lastCommitted = registry.lastCommitted
            /\ registry'.active.seq = registry.active.seq
        BY <4>2 DEF SessionState
      <4> QED BY <3>2, <4>3, <4>4, NoneAssumption
    <3> QED BY <2>2, <3>1, <3>2
  <2>4. RegistryCalm /\ \A id \in RequestId : ActiveIs(id)' => ActiveIs(id)
    BY <1>0, <2>3 DEF RegistryCalm, ActiveIs, Owned, FieldsTyped
  <2>5. ASSUME NEW a \in answers', a \notin answers, a.from \in OpenIndex,
               Ended(opens[a.from].pc, a.result)
        PROVE  ~ActiveIs(opens[a.from].id)
    <3>1. a.from = t.from /\ a.result = result
      BY <2>1, <2>5 DEF Reply
    <3>2. Asked(opens[a.from].pc, t.op)
      BY <2>5, <3>1 DEF CancelInvariant, TasksTrue
    <3>3. opens[a.from].pc = "uncommit"
      BY <2>1, <2>5, <3>1, <3>2 DEF Asked, Ended
    <3> QED BY <2>5, <3>1, <3>3 DEF CancelInvariant, TasksTrue
  <2> QED BY <1>0, <2>4, <2>5 DEF FieldsTyped
<1>3. ASSUME NEW result, Failed(t, result)
      PROVE  /\ RegistryCalm
             /\ \A a \in answers' : a \notin answers /\ a.from \in OpenIndex =>
                  ~ActiveIs(opens[a.from].id)'
  <2>1. /\ registry' = WithoutActive(t.id) /\ t.op # "cancel"
        /\ answers' = answers \cup Reply([from |-> t.from, boot |-> 0], result)
    BY <1>3 DEF Failed
  <2>2. \/ registry' = registry /\ ~ActiveIs(t.id)
        \/ registry # None /\ registry' = [registry EXCEPT !.active = None]
    BY <2>1 DEF WithoutActive, ActiveIs, Owned
  <2>3. RegistryCalm /\ ~ActiveIs(t.id)'
    <3>1. CASE registry' = registry /\ ~ActiveIs(t.id)
      BY <1>0, <3>1 DEF RegistryCalm, ActiveIs, Owned, FieldsTyped
    <3>2. CASE registry # None /\ registry' = [registry EXCEPT !.active = None]
      <4>1. /\ registry \in SessionState /\ registry'.session = registry.session
            /\ registry'.cancelledThrough = registry.cancelledThrough
            /\ registry'.lastCommitted = registry.lastCommitted /\ registry'.active = None
        BY <3>2 DEF FieldsTyped, SessionState
      <4> QED BY <1>0, <3>2, <4>1 DEF RegistryCalm, ActiveIs, FieldsTyped
    <3> QED BY <2>2, <3>1, <3>2
  <2>4. ASSUME NEW a \in answers', a \notin answers, a.from \in OpenIndex
        PROVE  opens[a.from].id = t.id
    BY <2>1, <2>4 DEF Reply, CancelInvariant, TasksTrue
  <2> QED BY <1>0, <2>3, <2>4
<1>4. CASE CancelDownloads(t)
  <2>1. /\ registry' = registry /\ t.op = "cancel"
        /\ answers' = answers \cup Reply([from |-> t.from, boot |-> 0], "ok")
    BY <1>4 DEF CancelDownloads
  <2>2. RegistryCalm
    BY <1>0, <2>1 DEF RegistryCalm, FieldsTyped
  <2>3. ASSUME NEW a \in answers', a \notin answers, a.from \in OpenIndex,
               Ended(opens[a.from].pc, a.result)
        PROVE  ~ActiveIs(opens[a.from].id)
    <3>1. a.from = t.from
      BY <2>1, <2>3 DEF Reply
    <3>2. Asked(opens[a.from].pc, "cancel")
      BY <2>1, <2>3, <3>1 DEF CancelInvariant, TasksTrue
    <3>3. opens[a.from].pc = "uncommit"
      BY <2>3, <3>2 DEF Asked, Ended
    <3> QED BY <2>3, <3>1, <3>3 DEF CancelInvariant, TasksTrue
  <2> QED BY <1>0, <2>1, <2>2, <2>3 DEF ActiveIs, Owned
<1> QED BY <1>1, <1>2, <1>3, <1>4 DEF FinishTask

LEMMA TaskKeepsCancel ==
  ASSUME FileBrowserTypeOK, FieldsTyped', ActiveAboveWatermark', CancelInvariant,
         UNCHANGED pageVars, NEW t \in tasks, StopDisplaced(t) \/ Subscribe(t) \/ FinishTask(t)
  PROVE  CancelInvariant'
<1>0. FieldsTyped /\ UNCHANGED <<opens, session, sequence, epoch>> /\ 0 \notin OpenIndex
  BY RequestFields, PageUnchanged, BoundsAreNat
<1>1. /\ wire' = wire
      /\ OneOf(tasks')
      /\ \A x \in tasks' : \E u \in tasks : x.op = u.op /\ x.id = u.id /\ x.from = u.from
      /\ \A a \in answers' : a \in answers \/ (a.from = t.from /\ a.from # Nobody)
      /\ \A a, b \in answers' : a \in answers \/ b \in answers \/ a = b
      /\ (\A x \in tasks' : x.from = t.from => t.from \notin OpenIndex) \/ answers' = answers
  BY TaskMoves
<1>2. /\ RegistryCalm
      /\ \A a \in answers' : a \notin answers /\ a.from \in OpenIndex /\
           Ended(opens[a.from].pc, a.result) => ~ActiveIs(opens[a.from].id)'
  BY <1>0, TaskAnswers
<1>3. CancelsServed
  BY <1>1 DEF CancelsServed
<1>4. /\ OpensOwn' /\ PendingOwn' /\ StaleCovered' /\ WireTrue' /\ LastTrue'
      /\ AbandonedIsCancelled'
      /\ \A i \in OpenIndex : opens[i].pc \in Held \cup Later /\ ~ActiveIs(opens[i].id)
                                 => ~ActiveIs(opens[i].id)'
  BY <1>0, <1>2, <1>3, CalmKeeps
<1>5. OneAwaited'
  <2>1. OneAwaited
    BY DEF CancelInvariant
  <2>2. t.from \in OpenIndex => /\ \A c \in wire' : c.from # t.from
                                /\ \A a \in answers : a.from # t.from
    BY <1>1, <2>1 DEF OneAwaited, Apart
  <2>3. t.from \in OpenIndex => \A a, b \in answers' : a.from = t.from /\ b.from = t.from => a = b
    BY <1>1, <2>2
  <2>4. t.from \in OpenIndex =>
           (\A x \in tasks' : x.from # t.from) \/ (\A a \in answers' : a.from # t.from)
    BY <1>1, <2>2
  <2> QED BY <1>1, <2>1, <2>2, <2>3, <2>4, HandedOn
<1>6. TasksTrue'
  <2> SUFFICES ASSUME NEW x \in tasks', x.from \in OpenIndex
               PROVE  /\ Asked(opens[x.from].pc, x.op)
                      /\ x.op # "cancel" => x.id = opens[x.from].id
                      /\ opens[x.from].pc = "uncommit" => ~ActiveIs(opens[x.from].id)'
    BY <1>0 DEF TasksTrue
  <2>1. PICK u \in tasks : x.op = u.op /\ x.id = u.id /\ x.from = u.from
    BY <1>1
  <2> QED BY <1>4, <2>1 DEF CancelInvariant, TasksTrue, Later, Committing
<1>7. AnswersTrue'
  <2> SUFFICES ASSUME NEW a \in answers', a.from \in OpenIndex
               PROVE  /\ opens[a.from].pc \in Waiting
                      /\ Ended(opens[a.from].pc, a.result) => ~ActiveIs(opens[a.from].id)'
    BY <1>0 DEF AnswersTrue
  <2>1. CASE a \in answers
    BY <1>4, <2>1 DEF CancelInvariant, AnswersTrue, Ended, Held, Later, Committing
  <2>2. CASE a \notin answers
    BY <1>1, <1>2, <2>2 DEF CancelInvariant, TasksTrue, Asked, Waiting
  <2> QED BY <2>1, <2>2
<1> QED BY <1>4, <1>5, <1>6, <1>7 DEF CancelInvariant

\* A command is taken up and leaves a task or an answer of its caller.
CommandServed(call) ==
  /\ wire' = wire \ {call}
  /\ \A t \in tasks' : \/ t \in tasks
                       \/ t.from \notin OpenIndex
                       \/ t.from = call.from /\ t.op = call.op /\ t.id = call.id
  /\ \A t, u \in tasks' : t \in tasks \/ u \in tasks \/ t = u
  /\ \A a \in answers' : a \in answers \/ a.from = call.from
  /\ \A a, b \in answers' : a \in answers \/ b \in answers \/ a = b
  /\ (\A t \in tasks' : t \in tasks \/ t.from \notin OpenIndex) \/ answers' = answers

\* If the open that waits for it is through with its request, so is the registry.
CommandTrue(call) ==
  call.from \in OpenIndex =>
    /\ opens[call.from].pc = "uncommit" =>
          tasks' = tasks \/ ~ActiveIs(opens[call.from].id)'
    /\ \A a \in answers' : \/ a \in answers
                           \/ Ended(opens[call.from].pc, a.result)
                                 => ~ActiveIs(opens[call.from].id)'

LEMMA CommandTokens ==
  ASSUME CancelInvariant, UNCHANGED pageVars, NEW call \in wire,
         CommandServed(call), CommandTrue(call),
         \A i \in OpenIndex : i # call.from /\ opens[i].pc \in Held \cup Later
                                 /\ ~ActiveIs(opens[i].id) => ~ActiveIs(opens[i].id)'
  PROVE  OneAwaited' /\ WireTrue' /\ TasksTrue' /\ AnswersTrue'
<1> USE DEF CommandServed
<1>0. UNCHANGED <<opens, session, sequence, epoch>>
  BY PageUnchanged
<1>1. /\ OneAwaited
      /\ call.from \in OpenIndex => /\ \A t \in tasks : t.from # call.from
                                    /\ \A a \in answers : a.from # call.from
                                    /\ \A c \in wire' : c.from # call.from
  BY DEF CancelInvariant, OneAwaited, Apart, OneOf
<1>2. OneOf(tasks')
  BY <1>1 DEF OneAwaited, OneOf
<1>3. call.from \in OpenIndex =>
        /\ (\A t \in tasks' : t.from # call.from) \/ (\A a \in answers' : a.from # call.from)
        /\ \A a, b \in answers' : a.from = call.from /\ b.from = call.from => a = b
  BY <1>1
<1>4. OneAwaited'
  <2>1. \A t \in tasks' : \/ t.from = call.from \/ t.from \notin OpenIndex
                          \/ \E u \in tasks : u.from = t.from
    OBVIOUS
  <2>2. \A a \in answers' : a \in answers \/ a.from = call.from
    OBVIOUS
  <2> QED BY <1>1, <1>2, <1>3, <2>1, <2>2, HandedOn
<1>5. WireTrue'
  BY <1>0 DEF CancelInvariant, WireTrue
<1>6. call.from \in OpenIndex => /\ Asked(opens[call.from].pc, call.op)
                                 /\ opens[call.from].pc # "superseding" => call.id = opens[call.from].id
  BY DEF CancelInvariant, WireTrue
<1>7. TasksTrue'
  <2> SUFFICES ASSUME NEW x \in tasks', x.from \in OpenIndex
               PROVE  /\ Asked(opens[x.from].pc, x.op)
                      /\ x.op # "cancel" => x.id = opens[x.from].id
                      /\ opens[x.from].pc = "uncommit" => ~ActiveIs(opens[x.from].id)'
    BY <1>0 DEF TasksTrue
  <2>1. CASE x \in tasks
    BY <1>1, <2>1 DEF CancelInvariant, TasksTrue, Later, Committing
  <2>2. CASE x \notin tasks
    BY <1>6, <2>2 DEF CommandTrue, Asked
  <2> QED BY <2>1, <2>2
<1>8. AnswersTrue'
  <2> SUFFICES ASSUME NEW a \in answers', a.from \in OpenIndex
               PROVE  /\ opens[a.from].pc \in Waiting
                      /\ Ended(opens[a.from].pc, a.result) => ~ActiveIs(opens[a.from].id)'
    BY <1>0 DEF AnswersTrue
  <2>1. CASE a \in answers
    BY <1>1, <2>1 DEF CancelInvariant, AnswersTrue, Ended, Held, Later, Committing
  <2>2. CASE a \notin answers
    BY <1>6, <2>2 DEF CommandTrue, Asked, Waiting
  <2> QED BY <2>1, <2>2
<1> QED BY <1>4, <1>5, <1>7, <1>8

\* Most commands change nothing the page's session sees but what CalmKeeps says.
LEMMA CalmCommand ==
  ASSUME FieldsTyped, FieldsTyped', ActiveAboveWatermark', CancelInvariant, UNCHANGED pageVars,
         RegistryCalm, CancelsServed, NEW call \in wire, CommandServed(call), CommandTrue(call)
  PROVE  CancelInvariant'
<1>1. /\ OpensOwn' /\ PendingOwn' /\ StaleCovered' /\ LastTrue' /\ AbandonedIsCancelled'
      /\ \A i \in OpenIndex : opens[i].pc \in Held \cup Later /\ ~ActiveIs(opens[i].id)
                                 => ~ActiveIs(opens[i].id)'
  BY CalmKeeps
<1>2. OneAwaited' /\ WireTrue' /\ TasksTrue' /\ AnswersTrue'
  BY <1>1, CommandTokens
<1> QED BY <1>1, <1>2 DEF CancelInvariant

\* What an open that waits for this command has told it.
LEMMA CommandOf ==
  ASSUME FieldsTyped, CancelInvariant, NEW call \in wire
  PROVE  /\ call.from \in OpenIndex =>
              /\ Asked(opens[call.from].pc, call.op)
              /\ opens[call.from].pc # "superseding" =>
                   /\ call.id = opens[call.from].id /\ call.id.session = session
                   /\ call.id.seq > 0
         /\ call.op \in {"prepare", "unlock", "commit"} /\ call.id.session = session
              => call.from \in OpenIndex
BY DEF CancelInvariant, WireTrue, OpensOwn, Asked, Held, Later, Committing, FieldsTyped

LEMMA RegisterKeepsCancel ==
  ASSUME FieldsTyped, FieldsTyped', ActiveAboveWatermark, ActiveAboveWatermark',
         CancelInvariant, UNCHANGED pageVars, NEW call \in wire, Register(call)
  PROVE  CancelInvariant'
<1>0. UNCHANGED <<opens, session, sequence, epoch, pendingOpen, pendingPassword, sessionReady>>
  BY PageUnchanged
<1>1. /\ call.op \in {"prepare", "unlock"} /\ wire' = wire \ {call}
      /\ call.op # "cancel"
  BY DEF Register
<1>2. CancelsServed
  BY <1>1 DEF CancelsServed
<1>3. call.from \in OpenIndex =>
        /\ opens[call.from].pc = call.op /\ call.id = opens[call.from].id
        /\ call.id.session = session /\ call.id.seq > 0
  BY <1>1, CommandOf DEF Asked
<1>4. CASE ~Registrable(call.id)
  <2>1. /\ UNCHANGED <<registry, tasks>>
        /\ answers' = answers \cup Reply(call, "cancelled")
    BY <1>4 DEF Register
  <2>2. RegistryCalm
    BY <1>0, <2>1 DEF RegistryCalm, FieldsTyped
  <2>3. call.from \in OpenIndex => ~ActiveIs(call.id)
    BY <1>3, <1>4 DEF FieldsTyped, Registrable, ActiveIs, Owned, ActiveAboveWatermark
  <2>4. call.from \in OpenIndex => ~ActiveIs(opens[call.from].id)'
    BY <1>0, <1>3, <2>1, <2>3 DEF ActiveIs, Owned
  <2> DEFINE R == Reply(call, "cancelled")
  <2>5. (\A r, s \in R : r = s) /\ (\A r \in R : r.from = call.from)
    BY DEF Reply
  <2> HIDE DEF R
  <2>6. tasks' = tasks /\ answers' = answers \cup R
    BY <2>1 DEF R
  <2>7. CommandServed(call) /\ CommandTrue(call)
    BY <1>1, <2>4, <2>5, <2>6 DEF CommandServed, CommandTrue
  <2> QED BY <1>2, <2>2, <2>7, CalmCommand
<1>5. CASE Registrable(call.id)
  <2> DEFINE n == [op |-> call.op, id |-> call.id, from |-> call.from,
                   at |-> IF ActiveId = None THEN "resolving" ELSE "stopping",
                   displaced |-> ActiveId]
  <2>1. n.op = call.op /\ n.id = call.id /\ n.from = call.from
    OBVIOUS
  <2>2. tasks' = tasks \cup {n} /\ answers' = answers
        /\ registry' = [registry EXCEPT !.active = [seq |-> call.id.seq, state |-> "running"]]
    BY <1>5 DEF Register
  <2> HIDE DEF n
  <2>3. /\ registry # None /\ registry.session = call.id.session
        /\ call.id.seq > registry.cancelledThrough
    BY <1>5 DEF Registrable, Owned
  <2>4. /\ registry'.session = registry.session
        /\ registry'.cancelledThrough = registry.cancelledThrough
        /\ registry'.lastCommitted = registry.lastCommitted
        /\ registry'.active.seq = call.id.seq
    BY <2>2, <2>3 DEF FieldsTyped, SessionState
  <2>5. CommandServed(call)
    BY <1>1, <2>1, <2>2 DEF CommandServed
  <2>6. CommandTrue(call)
    BY <1>1, <1>3, <2>2 DEF CommandTrue
  <2>7. CASE registry.session # session
    <3>1. RegistryCalm
      BY <1>0, <2>4, <2>7 DEF RegistryCalm
    <3> QED BY <1>2, <2>5, <2>6, <3>1, CalmCommand
  <2>8. CASE registry.session = session
    <3>1. call.from \in OpenIndex
      BY <1>1, <2>3, <2>8, CommandOf
    <3>2. /\ opens[call.from].pc = call.op /\ call.id = opens[call.from].id
          /\ call.id.session = session /\ call.id.seq > 0
          /\ opens[call.from].pc \in Held
      BY <1>1, <1>3, <3>1 DEF Held
    <3>3. \A i \in OpenIndex : i # call.from /\ opens[i].id.seq > 0 => ~ActiveIs(opens[i].id)'
      BY <1>0, <2>4, <3>1, <3>2 DEF CancelInvariant, OpensOwn, ActiveIs, Owned
    <3>4. \A i \in OpenIndex : i # call.from /\ opens[i].pc \in Held \cup Later
             /\ ~ActiveIs(opens[i].id) => ~ActiveIs(opens[i].id)'
      BY <3>3 DEF CancelInvariant, OpensOwn
    <3>6. OneAwaited' /\ WireTrue' /\ TasksTrue' /\ AnswersTrue'
      BY <2>5, <2>6, <3>4, CommandTokens
    <3>7. OpensOwn' /\ PendingOwn'
      BY <1>0 DEF CancelInvariant, OpensOwn, PendingOwn
    <3>8. \A id : CancelSent(id) => CancelSent(id)'
      BY <1>1 DEF CancelSent
    <3>9. StaleCovered'
      <4> SUFFICES ASSUME NEW i \in OpenIndex, opens[i].pc \in Held, opens[i].epoch # epoch
                   PROVE  Covered(opens[i].id)'
        BY <1>0 DEF StaleCovered
      <4>1. Covered(opens[i].id)
        BY DEF CancelInvariant, StaleCovered
      <4> QED BY <1>0, <2>3, <2>4, <3>8, <4>1 DEF Covered, Owned, CancelSent
    <3>10. LastTrue'
      <4> SUFFICES ASSUME registry' # None
                   PROVE  LastTrue'
        BY DEF LastTrue
      <4>1. /\ registry.lastCommitted <= sequence
            /\ \A i \in OpenIndex :
                 opens[i].id.seq > 0 /\ opens[i].id.seq = registry.lastCommitted =>
                   opens[i].pc \in Later \cup {"done"} /\ ~ActiveIs(opens[i].id)
        BY <2>3, <2>8 DEF CancelInvariant, LastTrue
      <4>2. \A i \in OpenIndex : opens[i].pc \in Later \cup {"done"} => i # call.from
        BY <3>2 DEF Held, Later, Committing
      <4> QED BY <1>0, <2>4, <3>3, <4>1, <4>2 DEF LastTrue
    <3>11. AbandonedIsCancelled'
      <4> SUFFICES ASSUME registry' # None, registry'.active # None
                   PROVE  AbandonedIsCancelled'
        BY DEF AbandonedIsCancelled, Owned
      <4>1. ActiveId' = [session |-> call.id.session, seq |-> call.id.seq]
        BY <2>3, <2>4 DEF ActiveId
      <4>2. ActiveId' = call.id
        BY <4>1 DEF FieldsTyped, RequestId
      <4>3. CASE opens[call.from].epoch = epoch
        BY <1>0, <1>1, <3>1, <3>2, <4>2, <4>3 DEF AbandonedIsCancelled
      <4>4. CASE opens[call.from].epoch # epoch
        <5>1. CancelSent(call.id)
          BY <2>3, <3>1, <3>2, <4>4
             DEF CancelInvariant, StaleCovered, Covered, Owned, FieldsTyped
        <5>2. CancelSent(call.id)'
          BY <1>1, <5>1 DEF CancelSent
        <5> QED BY <1>0, <3>1, <3>2, <4>2, <5>2 DEF AbandonedIsCancelled, CancelSent
      <4> QED BY <4>3, <4>4
    <3> QED BY <3>6, <3>7, <3>9, <3>10, <3>11 DEF CancelInvariant
  <2> QED BY <2>7, <2>8
<1> QED BY <1>4, <1>5

LEMMA CommitKeepsCancel ==
  ASSUME FieldsTyped, FieldsTyped', ActiveAboveWatermark', CancelInvariant,
         UNCHANGED pageVars, NEW call \in wire, Commit(call)
  PROVE  CancelInvariant'
<1>0. UNCHANGED <<opens, session, sequence, epoch, pendingOpen, pendingPassword, sessionReady>>
  BY PageUnchanged
<1>1. /\ call.op = "commit" /\ wire' = wire \ {call} /\ tasks' = tasks
      /\ call.op # "cancel"
  BY DEF Commit
<1>2. CancelsServed
  BY <1>1 DEF CancelsServed
<1>3. call.from \in OpenIndex =>
        /\ opens[call.from].pc = "commit" /\ call.id = opens[call.from].id
        /\ call.id.session = session /\ call.id.seq > 0
  BY <1>1, CommandOf DEF Asked
<1>4. \A result : /\ \A r, s \in Reply(call, result) : r = s
                  /\ \A r \in Reply(call, result) : r.from = call.from /\ r.result = result
  BY DEF Reply
<1>5. CASE ~Owned(call.id) \/ registry.lastCommitted = call.id.seq
  <2> DEFINE result == IF Owned(call.id) THEN "ok" ELSE "cancelled"
             R == Reply(call, result)
  <2>1. registry' = registry /\ answers' = answers \cup R
    BY <1>5 DEF Commit
  <2>2. RegistryCalm
    BY <1>0, <2>1 DEF RegistryCalm, FieldsTyped
  <2>3. call.from \in OpenIndex =>
           \A r \in R : Ended(opens[call.from].pc, r.result) => ~ActiveIs(opens[call.from].id)'
    <3> SUFFICES ASSUME call.from \in OpenIndex, NEW r \in R, Ended(opens[call.from].pc, r.result)
                 PROVE  ~ActiveIs(opens[call.from].id)'
      OBVIOUS
    <3>1. Owned(call.id) /\ registry.lastCommitted = call.id.seq
      BY <1>3, <1>4, <1>5 DEF Ended
    <3>2. ~ActiveIs(opens[call.from].id)
      BY <1>3, <3>1 DEF CancelInvariant, LastTrue, Owned
    <3> QED BY <1>0, <2>1, <3>2 DEF ActiveIs, Owned
  <2>4. (\A r, s \in R : r = s) /\ \A r \in R : r.from = call.from
    BY <1>4
  <2> HIDE DEF R
  <2>5. CommandServed(call) /\ CommandTrue(call)
    BY <1>1, <2>1, <2>3, <2>4 DEF CommandServed, CommandTrue
  <2> QED BY <1>2, <2>2, <2>5, CalmCommand
<1>6. CASE Owned(call.id) /\ registry.lastCommitted # call.id.seq
  <2> DEFINE accepted == Committable(call.id)
             result == IF accepted THEN "ok" ELSE IF ActiveIs(call.id) THEN "failed" ELSE "cancelled"
             R == Reply(call, result)
  <2>1. /\ answers' = answers \cup R
        /\ registry' = [registry EXCEPT !.active = None,
                            !.lastCommitted = IF accepted THEN call.id.seq ELSE @]
    BY <1>6 DEF Commit
  <2>2. registry # None /\ registry.session = call.id.session
    BY <1>6 DEF Owned
  <2>3. /\ registry'.session = registry.session /\ registry'.active = None
        /\ registry'.cancelledThrough = registry.cancelledThrough
        /\ registry'.lastCommitted = IF accepted THEN call.id.seq ELSE registry.lastCommitted
    BY <2>1, <2>2 DEF FieldsTyped, SessionState
  <2>4. \A id : ~ActiveIs(id)'
    BY <2>3 DEF ActiveIs
  <2>5. (\A r, s \in R : r = s) /\ \A r \in R : r.from = call.from
    BY <1>4
  <2>6. CommandServed(call) /\ CommandTrue(call)
    <3> HIDE DEF R
    <3> QED BY <1>1, <2>1, <2>4, <2>5 DEF CommandServed, CommandTrue
  <2>7. CASE ~accepted \/ registry.session # session
    <3>1. RegistryCalm
      BY <1>0, <2>2, <2>3, <2>7 DEF RegistryCalm, FieldsTyped
    <3> QED BY <1>2, <2>6, <3>1, CalmCommand
  <2>8. CASE accepted /\ registry.session = session
    <3>1. call.from \in OpenIndex
      BY <1>1, <2>2, <2>8, CommandOf
    <3>2. OneAwaited' /\ WireTrue' /\ TasksTrue' /\ AnswersTrue'
      BY <2>4, <2>6, CommandTokens
    <3>3. OpensOwn' /\ PendingOwn'
      BY <1>0 DEF CancelInvariant, OpensOwn, PendingOwn
    <3>4. AbandonedIsCancelled'
      BY <2>3 DEF AbandonedIsCancelled
    <3>5. StaleCovered'
      <4> SUFFICES ASSUME NEW i \in OpenIndex, opens[i].pc \in Held, opens[i].epoch # epoch
                   PROVE  Covered(opens[i].id)'
        BY <1>0 DEF StaleCovered
      <4>1. Covered(opens[i].id)
        BY DEF CancelInvariant, StaleCovered
      <4>2. CancelSent(opens[i].id) => CancelSent(opens[i].id)'
        BY <1>0, <1>1 DEF CancelSent
      <4> QED BY <1>0, <2>2, <2>3, <4>1, <4>2 DEF Covered, Owned
    <3>6. LastTrue'
      <4>1. registry'.lastCommitted = opens[call.from].id.seq
            /\ opens[call.from].id.seq <= sequence /\ opens[call.from].pc \in Later
        BY <1>3, <2>3, <2>8, <3>1 DEF CancelInvariant, OpensOwn, Later, Committing
      <4>2. \A i \in OpenIndex : opens[i].id.seq > 0 /\ opens[i].id.seq = opens[call.from].id.seq
               => i = call.from
        BY <3>1 DEF CancelInvariant, OpensOwn
      <4> QED BY <1>0, <2>4, <4>1, <4>2 DEF LastTrue
    <3> QED BY <3>2, <3>3, <3>4, <3>5, <3>6 DEF CancelInvariant
  <2> QED BY <2>7, <2>8
<1> QED BY <1>5, <1>6

LEMMA CancelRequestKeepsCancel ==
  ASSUME FieldsTyped, FieldsTyped', ActiveAboveWatermark', CancelInvariant,
         UNCHANGED pageVars, NEW call \in wire, CancelRequest(call)
  PROVE  CancelInvariant'
<1>0. UNCHANGED <<opens, session, sequence, epoch, pendingOpen, pendingPassword, sessionReady>>
  BY PageUnchanged
<1>1. call.op = "cancel" /\ wire' = wire \ {call}
  BY DEF CancelRequest
<1>2. /\ call.from \in OpenIndex /\ opens[call.from].pc = "uncommit" => call.id = opens[call.from].id
      /\ call.from \in OpenIndex => opens[call.from].pc \in {"superseding", "uncommit"}
  BY <1>1, CommandOf DEF Asked
<1>3. CASE ~Owned(call.id)
  <2>1. /\ UNCHANGED <<registry, tasks>> /\ answers' = answers \cup Reply(call, "ok")
    BY <1>3 DEF CancelRequest
  <2>2. RegistryCalm
    BY <1>0, <2>1 DEF RegistryCalm, FieldsTyped
  <2>3. CancelsServed
    BY <1>1, <1>3, <2>1 DEF CancelsServed, Owned
  <2>4. ~ActiveIs(call.id)'
    BY <1>3, <2>1 DEF ActiveIs, Owned
  <2>5. CommandServed(call)
    BY <1>1, <2>1 DEF CommandServed, Reply
  <2>6. CommandTrue(call)
    BY <1>0, <1>2, <2>1, <2>4 DEF CommandTrue, Ended
  <2> QED BY <2>2, <2>3, <2>5, <2>6, CalmCommand
<1>4. CASE Owned(call.id)
  <2> DEFINE mark == Watermark(call.id)
             covered == registry.active # None /\ registry.active.seq <= mark
             n == [op |-> "cancel", id |-> call.id, from |-> call.from, at |-> "stopping",
                   displaced |-> IF covered THEN ActiveId ELSE None]
  <2>1. /\ registry' = [registry EXCEPT !.cancelledThrough = mark,
                                        !.active = IF covered THEN None ELSE @]
        /\ tasks' = tasks \cup {n} /\ answers' = answers
    BY <1>4 DEF CancelRequest
  <2>2. n.op = call.op /\ n.id = call.id /\ n.from = call.from
    BY <1>1
  <2> HIDE DEF n
  <2>3. registry # None /\ registry.session = call.id.session
    BY <1>4 DEF Owned
  <2>4. /\ registry'.session = registry.session /\ registry'.cancelledThrough = mark
        /\ registry'.active = IF covered THEN None ELSE registry.active
        /\ registry'.lastCommitted = registry.lastCommitted
    BY <2>1, <2>3 DEF FieldsTyped, SessionState
  <2>5. mark >= registry.cancelledThrough /\ mark >= call.id.seq
    BY <2>3 DEF Watermark, FieldsTyped
  <2>6. RegistryCalm
    BY <1>0, <2>3, <2>4, <2>5 DEF RegistryCalm
  <2>7. CancelsServed
    BY <1>1, <2>4, <2>5 DEF CancelsServed
  <2>8. ~ActiveIs(call.id)'
    BY <2>3, <2>4, <2>5 DEF ActiveIs, FieldsTyped
  <2>9. CommandServed(call)
    BY <1>1, <2>1, <2>2 DEF CommandServed
  <2>10. CommandTrue(call)
    BY <1>0, <1>2, <2>1, <2>8 DEF CommandTrue
  <2> QED BY <2>6, <2>7, <2>9, <2>10, CalmCommand
<1> QED BY <1>3, <1>4

LEMMA BeginKeepsCancel ==
  ASSUME FieldsTyped, FieldsTyped', ActiveAboveWatermark', SessionInvariant, CancelInvariant,
         UNCHANGED pageVars, NEW call \in wire, BeginSession(call)
  PROVE  CancelInvariant'
<1>0. UNCHANGED <<opens, session, sequence, epoch, pendingOpen, pendingPassword, sessionReady>>
  BY PageUnchanged
<1>1. call.op = "begin" /\ wire' = wire \ {call} /\ call.op # "cancel"
  BY DEF BeginSession
<1>2. CancelsServed
  BY <1>1 DEF CancelsServed
<1>3. call.from \notin OpenIndex
  BY <1>1, CommandOf DEF Asked
<1>4. CommandTrue(call)
  BY <1>3 DEF CommandTrue
<1>5. CommandServed(call)
  <2>1. \/ tasks' = tasks
        \/ \E n : tasks' = tasks \cup {n} /\ n.from = Nobody
    BY DEF BeginSession
  <2>2. Nobody \notin OpenIndex
    BY BoundsAreNat DEF Nobody
  <2>3. \E b : answers' = answers \cup Reply([call EXCEPT !.boot = b], "begun")
             \/ answers' = answers \cup Reply(call, "begun")
    BY DEF BeginSession
  <2>4. \A b, r : r \in Reply([call EXCEPT !.boot = b], "begun")
             => r = [from |-> call.from, boot |-> b, result |-> "begun"]
    <3>1. \A b : [call EXCEPT !.boot = b].from = call.from
      BY DEF FieldsTyped
    <3> QED BY DEF Reply
  <2>5. \A r : r \in Reply(call, "begun")
             => r = [from |-> call.from, boot |-> call.boot, result |-> "begun"]
    BY DEF Reply
  <2>6. /\ \A a \in answers' : a \in answers \/ a.from = call.from
        /\ \A a, b \in answers' : a \in answers \/ b \in answers \/ a = b
    BY <2>3, <2>4, <2>5
  <2> QED BY <1>1, <2>1, <2>2, <2>6 DEF CommandServed
<1>6. CASE Superseded(call)
  <2>1. registry' = registry
    BY <1>6 DEF BeginSession
  <2>2. RegistryCalm
    BY <1>0, <2>1 DEF RegistryCalm, FieldsTyped
  <2> QED BY <1>2, <1>4, <1>5, <2>2, CalmCommand
<1>7. CASE ~Superseded(call)
  <2>1. registry' = [session |-> call.id.session, boot |-> call.boot, cancelledThrough |-> 0,
                     lastCommitted |-> 0, active |-> None]
    BY <1>7 DEF BeginSession
  <2>2. CASE call.id.session # session
    <3>1. RegistryCalm
      BY <1>0, <2>1, <2>2 DEF RegistryCalm
    <3> QED BY <1>2, <1>4, <1>5, <3>1, CalmCommand
  <2>3. CASE call.id.session = session
    <3>1. sessionReady # "ready"
      <4>1. call = Begin(session, boot)
        BY <1>1, <2>3 DEF SessionInvariant, BeginsDated, FieldsTyped
      <4> QED BY <4>1 DEF SessionInvariant, BeginAwaited
    <3>2. \A i \in OpenIndex : opens[i].pc \notin Held \cup Later
      BY <3>1 DEF CancelInvariant, OpensOwn
    <3>3. \A id : ~ActiveIs(id)'
      BY <2>1 DEF ActiveIs
    <3>4. OneAwaited' /\ WireTrue' /\ TasksTrue' /\ AnswersTrue'
      BY <1>4, <1>5, <3>3, CommandTokens
    <3>5. OpensOwn' /\ PendingOwn'
      BY <1>0 DEF CancelInvariant, OpensOwn, PendingOwn
    <3>6. StaleCovered'
      BY <1>0, <3>2 DEF StaleCovered
    <3>7. LastTrue'
      BY <1>0, <2>1 DEF LastTrue, FieldsTyped
    <3>8. AbandonedIsCancelled'
      BY <2>1 DEF AbandonedIsCancelled
    <3> QED BY <3>4, <3>5, <3>6, <3>7, <3>8 DEF CancelInvariant
  <2> QED BY <2>2, <2>3
<1> QED BY <1>6, <1>7

LEMMA BackendKeepsCancel ==
  ASSUME FileBrowserTypeOK, FileBrowserTypeOK', ActiveAboveWatermark, ActiveAboveWatermark',
         SessionInvariant, CancelInvariant, Backend
  PROVE  CancelInvariant'
<1>1. FieldsTyped /\ FieldsTyped'
  BY RequestFields, PTL
<1>2. UNCHANGED pageVars
  BY DEF Backend
<1>3. ASSUME NEW call \in wire, ServeCall(call)
      PROVE  CancelInvariant'
  BY <1>1, <1>2, <1>3, RegisterKeepsCancel, CommitKeepsCancel, CancelRequestKeepsCancel,
     BeginKeepsCancel DEF ServeCall
<1>4. ASSUME NEW t \in tasks, StopDisplaced(t) \/ Subscribe(t) \/ FinishTask(t)
      PROVE  CancelInvariant'
  BY <1>1, <1>2, <1>4, TaskKeepsCancel
<1> QED BY <1>3, <1>4 DEF Backend, RequestsNext

-----------------------------------------------------------------------------
(***************************************************************************)
(* The page's steps.                                                        *)
(***************************************************************************)

\* The open whose request is active is not idle about it.
LEMMA ActiveWitness ==
  ASSUME FieldsTyped, CancelInvariant, NEW i \in OpenIndex, registry # None,
         registry.session = session, ActiveIs(opens[i].id), opens[i].id.seq > 0
  PROVE  \/ opens[i].epoch = epoch /\ opens[i].pc \in Held
         \/ opens[i].pc \in Committing
         \/ CancelSent(opens[i].id)
<1>1. registry.active # None /\ Owned([session |-> session, seq |-> 0])
  BY DEF ActiveIs, Owned
<1>2. opens[i].id = ActiveId
  BY <1>1, SameRequest DEF FieldsTyped
<1>3. PICK j \in OpenIndex :
          /\ opens[j].id = ActiveId
          /\ \/ opens[j].epoch = epoch /\ opens[j].pc \in Held
             \/ opens[j].pc \in Committing
             \/ CancelSent(ActiveId)
  BY <1>1 DEF CancelInvariant, AbandonedIsCancelled, Held, Committing, CancelSent
<1>4. j = i
  BY <1>2, <1>3 DEF CancelInvariant, OpensOwn
<1> QED BY <1>2, <1>3, <1>4

\* One open goes on within the epoch: it takes its answer, if it waited for one,
\* and may send its next command.
OpenMoved(i) ==
  /\ UNCHANGED <<registry, tasks, epoch, sequence, session, sessionReady>>
  /\ \A j \in OpenIndex : j # i => opens'[j] = opens[j]
  /\ opens'[i].id.seq = opens[i].id.seq /\ opens'[i].epoch = opens[i].epoch
  /\ \/ opens'[i].id = opens[i].id
     \/ opens[i].pc = "begin" /\ opens'[i].id.session = session
  /\ \/ opens[i].pc \notin Waiting /\ answers' = answers
     \/ \E a \in answers : a.from = i /\ answers' = answers \ {a}
  /\ \/ wire' = wire
     \/ \E op \in {"prepare", "unlock", "commit", "cancel"} :
          /\ Asked(opens'[i].pc, op) /\ wire' = wire \cup {CallOf(op, opens'[i].id, i)}
  /\ opens'[i].pc \notin {"idle", "superseding", "begin"}

\* What the open may not do on its way.
OpenMovedWell(i) ==
  /\ pendingOpen' = pendingOpen \/ (pendingOpen' = 0 /\ opens[i].epoch = epoch)
  /\ \/ pendingPassword' = pendingPassword
     \/ pendingPassword' \in {0, i} /\ opens[i].epoch = epoch
  /\ opens'[i].pc \in Held => opens[i].epoch = epoch
  /\ opens'[i].pc = "prepare" => pendingOpen' = i
  /\ opens'[i].pc \in {"password", "unlock"} => pendingPassword' = i
  /\ opens'[i].pc \in Held \cup Later =>
       /\ sessionReady = "ready" /\ opens'[i].id.session = session
       /\ opens[i].pc \in Held \cup Later \cup {"begin"}
  /\ opens[i].pc \in Later \cup {"done"} => opens'[i].pc \in Later \cup {"done"}
  /\ opens'[i].pc \notin Held \cup Committing /\ registry # None /\ registry.session = session
       => ~ActiveIs(opens[i].id) \/ CancelSent(opens[i].id)

LEMMA MoveKeepsCancel ==
  ASSUME FieldsTyped, FieldsTyped', CancelInvariant, NEW i \in OpenIndex,
         OpenMoved(i), OpenMovedWell(i)
  PROVE  CancelInvariant'
<1>1. /\ UNCHANGED <<registry, tasks, epoch, sequence, session, sessionReady>>
      /\ \A j \in OpenIndex : j # i => opens'[j] = opens[j]
      /\ opens'[i].id.seq = opens[i].id.seq /\ opens'[i].epoch = opens[i].epoch
      /\ opens'[i].pc \notin {"idle", "superseding", "begin"}
  BY DEF OpenMoved
<1>2. wire \subseteq wire' /\ \A id : CancelSent(id) => CancelSent(id)'
  BY DEF OpenMoved, CancelSent
<1>3. \A id : ActiveIs(id)' <=> ActiveIs(id)
  BY <1>1 DEF ActiveIs, Owned
<1>4. \A id : Covered(id) => Covered(id)'
  BY <1>1, <1>2 DEF Covered, Owned
<1>5. OneAwaited /\ TasksTrue /\ AnswersTrue /\ WireTrue
  BY DEF CancelInvariant
<1>6. /\ answers' \subseteq answers
      /\ \A c \in wire : c.from # i
      /\ \A t \in tasks : t.from # i
      /\ \A a \in answers' : a.from # i
  <2>1. CASE opens[i].pc \notin Waiting /\ answers' = answers
    BY <1>5, <2>1 DEF WireTrue, TasksTrue, AnswersTrue, Asked, Waiting
  <2>2. CASE \E a \in answers : a.from = i /\ answers' = answers \ {a}
    BY <1>5, <2>2 DEF OneAwaited, OneOf, Apart
  <2> QED BY <2>1, <2>2 DEF OpenMoved
<1>7. \A c \in wire' : \/ c \in wire
                       \/ /\ c.from = i /\ c.id = opens'[i].id /\ Asked(opens'[i].pc, c.op)
                          /\ wire' = wire \cup {c}
  BY DEF OpenMoved, CallOf
<1>8. OneAwaited'
  <2>1. OneOf(wire')
    BY <1>5, <1>6, <1>7 DEF OneAwaited, OneOf
  <2>2. OneOf(tasks') /\ OneOf(answers') /\ Apart(tasks', answers')
    BY <1>1, <1>5, <1>6 DEF OneAwaited, OneOf, Apart
  <2>3. Apart(wire', tasks') /\ Apart(wire', answers')
    BY <1>1, <1>5, <1>6, <1>7 DEF OneAwaited, Apart
  <2> QED BY <2>1, <2>2, <2>3 DEF OneAwaited, OneOf, Apart
<1>9. WireTrue'
  BY <1>1, <1>5, <1>6, <1>7 DEF WireTrue
<1>10. TasksTrue'
  BY <1>1, <1>3, <1>5, <1>6 DEF TasksTrue
<1>11. AnswersTrue'
  BY <1>1, <1>3, <1>5, <1>6 DEF AnswersTrue
<1>12. OpensOwn'
  <2>1. OpensOwn
    BY DEF CancelInvariant
  <2>2. /\ opens'[i].pc \in Held \cup Later =>
              /\ sessionReady = "ready" /\ opens'[i].id.session = session
              /\ opens[i].id.seq > 0 /\ opens[i].epoch > 0
    BY <2>1 DEF OpenMovedWell, OpensOwn
  <2> QED BY <1>1, <2>1, <2>2 DEF OpensOwn
<1>13. PendingOwn'
  <2>1. PendingOwn /\ OpensOwn
    BY DEF CancelInvariant
  <2>2. pendingOpen' # 0 => opens'[pendingOpen'].epoch = epoch'
    BY <1>1, <2>1 DEF PendingOwn, OpenMovedWell, FieldsTyped
  <2>3. pendingPassword' # 0 => opens'[pendingPassword'].epoch = epoch'
    BY <1>1, <2>1 DEF PendingOwn, OpenMovedWell, FieldsTyped
  <2>4. ASSUME NEW j \in OpenIndex, j # i, opens[j].epoch = epoch,
               opens[j].pc \in Held \cup {"begin"}
        PROVE  opens[i].epoch # epoch
    BY <2>1, <2>4 DEF OpensOwn
  <2>5. ASSUME NEW j \in OpenIndex, opens'[j].epoch = epoch'
        PROVE  /\ opens'[j].pc \in {"begin", "prepare"} => pendingOpen' = j
               /\ opens'[j].pc \in {"password", "unlock"} => pendingPassword' = j
    <3>1. CASE j = i
      BY <1>1, <3>1 DEF OpenMovedWell
    <3>2. CASE j # i
      BY <1>1, <2>1, <2>4, <2>5, <3>2 DEF OpenMovedWell, PendingOwn, Held
    <3> QED BY <3>1, <3>2
  <2> QED BY <2>2, <2>3, <2>5 DEF PendingOwn
<1>14. StaleCovered'
  BY <1>1, <1>4 DEF CancelInvariant, StaleCovered, OpenMovedWell
<1>15. LastTrue'
  <2> SUFFICES ASSUME registry # None, registry.session = session
               PROVE  LastTrue'
    BY <1>1 DEF LastTrue
  <2>1. /\ registry.lastCommitted <= sequence
        /\ \A j \in OpenIndex :
             opens[j].id.seq > 0 /\ opens[j].id.seq = registry.lastCommitted =>
               opens[j].pc \in Later \cup {"done"} /\ ~ActiveIs(opens[j].id)
    BY DEF CancelInvariant, LastTrue
  <2>2. opens[i].pc \in Later \cup {"done"} => opens'[i].id = opens[i].id
                                               /\ opens'[i].pc \in Later \cup {"done"}
    BY DEF OpenMoved, OpenMovedWell, Later, Committing
  <2> QED BY <1>1, <1>3, <2>1, <2>2 DEF LastTrue
<1>16. AbandonedIsCancelled'
  <2> SUFFICES ASSUME registry # None, registry.session = session, registry.active # None
               PROVE  AbandonedIsCancelled'
    BY <1>1 DEF AbandonedIsCancelled, Owned
  <2>1. ActiveId' = ActiveId /\ ActiveId.session = session
    BY <1>1 DEF ActiveId
  <2>2. PICK j \in OpenIndex :
            /\ opens[j].id = ActiveId
            /\ \/ opens[j].epoch = epoch /\ opens[j].pc \in Held
               \/ opens[j].pc \in Committing
               \/ CancelSent(ActiveId)
    BY DEF CancelInvariant, AbandonedIsCancelled, Owned, Held, Committing, CancelSent
  <2>3. CASE j # i
    BY <1>1, <1>2, <2>1, <2>2, <2>3
       DEF AbandonedIsCancelled, Held, Committing, CancelSent
  <2>4. CASE j = i
    <3>1. ActiveIs(opens[i].id)
      BY <2>2, <2>4, SameRequest DEF FieldsTyped
    <3>2. opens'[i].id = ActiveId
      BY <2>1, <2>2, <2>4 DEF OpenMoved, FieldsTyped, RequestId
    <3>3. CASE opens'[i].pc \in Held \cup Committing
      BY <1>1, <2>1, <3>2, <3>3
         DEF AbandonedIsCancelled, OpenMovedWell, Held, Committing
    <3>4. CASE opens'[i].pc \notin Held \cup Committing
      <4>1. CancelSent(ActiveId)'
        BY <1>2, <2>1, <2>2, <2>4, <3>1, <3>4 DEF OpenMovedWell
      <4> QED BY <1>1, <2>1, <3>2, <4>1 DEF AbandonedIsCancelled, CancelSent
    <3> QED BY <3>3, <3>4
  <2> QED BY <2>3, <2>4
<1> QED BY <1>8, <1>9, <1>10, <1>11, <1>12, <1>13, <1>14, <1>15, <1>16 DEF CancelInvariant

LEMMA OnlyPc ==
  ASSUME FileBrowserTypeOK, NEW i \in OpenIndex, NEW pc, opens' = [opens EXCEPT ![i].pc = pc]
  PROVE  /\ opens'[i].pc = pc /\ opens'[i].id = opens[i].id
         /\ opens'[i].epoch = opens[i].epoch
         /\ \A j \in OpenIndex : j # i => opens'[j] = opens[j]
BY DEF FileBrowserTypeOK, OpenCall

LEMMA FinishMoves ==
  ASSUME FileBrowserTypeOK, NEW i \in OpenIndex, FinishOpen(i)
  PROVE  /\ opens'[i].pc = "done" /\ opens'[i].id = opens[i].id
         /\ opens'[i].epoch = opens[i].epoch
         /\ \A j \in OpenIndex : j # i => opens'[j] = opens[j]
         /\ epoch' = epoch /\ pendingPassword' = pendingPassword
         /\ pendingOpen' = pendingOpen \/ (pendingOpen' = 0 /\ opens[i].epoch = epoch)
BY OnlyPc DEF FinishOpen

\* An answer that ends the open ends its request.
LEMMA AnsweredWell ==
  ASSUME FieldsTyped, CancelInvariant, NEW i \in OpenIndex, NEW a \in answers, a.from = i,
         registry # None, registry.session = session,
         \/ Ended(opens[i].pc, a.result)
         \/ opens[i].pc \in Held /\ opens[i].epoch # epoch
  PROVE  ~ActiveIs(opens[i].id) \/ CancelSent(opens[i].id)
<1>1. CASE Ended(opens[i].pc, a.result)
  BY <1>1 DEF CancelInvariant, AnswersTrue
<1>2. CASE opens[i].pc \in Held /\ opens[i].epoch # epoch
  BY <1>2, ActiveWitness DEF CancelInvariant, OpensOwn, Held, Committing
<1> QED BY <1>1, <1>2

LEMMA PrepareKeepsCancel ==
  ASSUME FileBrowserTypeOK, FieldsTyped', CancelInvariant, NEW i \in OpenIndex, Prepare(i)
  PROVE  CancelInvariant'
<1>0. FieldsTyped
  BY RequestFields
<1>1. /\ opens[i].pc = "begin" /\ sessionReady = "ready"
      /\ UNCHANGED <<registry, tasks, answers, sequence, session, sessionReady>>
  BY DEF Prepare, OpenStep, sessionVars
<1>2. opens[i].id.seq > 0
  BY <1>1 DEF CancelInvariant, OpensOwn
<1>3. CASE opens[i].epoch = epoch
  <2> DEFINE id == [opens[i].id EXCEPT !.session = session]
  <2>1. /\ opens' = [opens EXCEPT ![i].pc = "prepare", ![i].id = id]
        /\ wire' = wire \cup {CallOf("prepare", id, i)}
        /\ UNCHANGED <<epoch, pendingOpen, pendingPassword>>
    BY <1>3 DEF Prepare, Send, pendingVars
  <2>2. id.session = session /\ id.seq = opens[i].id.seq
    BY <1>0 DEF FieldsTyped, RequestId
  <2> HIDE DEF id
  <2>3. /\ opens'[i].pc = "prepare" /\ opens'[i].id = id /\ opens'[i].epoch = opens[i].epoch
        /\ \A j \in OpenIndex : j # i => opens'[j] = opens[j]
    BY <2>1 DEF FileBrowserTypeOK, OpenCall
  <2>4. pendingOpen = i
    BY <1>1, <1>3 DEF CancelInvariant, PendingOwn
  <2>5. OpenMoved(i)
    BY <1>1, <2>1, <2>2, <2>3 DEF OpenMoved, Asked, Waiting
  <2>6. OpenMovedWell(i)
    BY <1>1, <1>3, <2>1, <2>2, <2>3, <2>4 DEF OpenMovedWell, Held, Later, Committing
  <2> QED BY <1>0, <2>5, <2>6, MoveKeepsCancel
<1>4. CASE opens[i].epoch # epoch
  <2>1. FinishOpen(i) /\ wire' = wire
    BY <1>4 DEF Prepare
  <2>2. registry # None /\ registry.session = session
          => ~ActiveIs(opens[i].id) \/ CancelSent(opens[i].id)
    BY <1>0, <1>1, <1>2, ActiveWitness DEF Held, Committing
  <2>3. OpenMoved(i)
    BY <1>1, <2>1, FinishMoves DEF OpenMoved, Waiting
  <2>4. OpenMovedWell(i)
    BY <1>1, <2>1, <2>2, FinishMoves DEF OpenMovedWell, Held, Later, Committing
  <2> QED BY <1>0, <2>3, <2>4, MoveKeepsCancel
<1> QED BY <1>3, <1>4

\* commitArchive, from the answer of prepare or of unlock.
LEMMA CommitArchiveMoves ==
  ASSUME FileBrowserTypeOK, NEW i \in OpenIndex, NEW unlocked, CommitArchive(i, unlocked)
  PROVE  /\ opens'[i].pc = "commit" /\ opens'[i].id = opens[i].id
         /\ opens'[i].epoch = opens[i].epoch
         /\ \A j \in OpenIndex : j # i => opens'[j] = opens[j]
         /\ wire' = wire \cup {CallOf("commit", opens[i].id, i)}
BY DEF CommitArchive, Send, FileBrowserTypeOK, OpenCall

LEMMA PrepareAnsweredKeepsCancel ==
  ASSUME FileBrowserTypeOK, FieldsTyped', CancelInvariant, NEW i \in OpenIndex,
         NEW a \in answers, PrepareAnswered(i, a)
  PROVE  CancelInvariant'
<1>0. FieldsTyped
  BY RequestFields
<1>1. /\ opens[i].pc = "prepare" /\ a.from = i /\ answers' = answers \ {a}
      /\ UNCHANGED <<registry, tasks, sequence, session, sessionReady>>
  BY DEF PrepareAnswered, Receive, OpenStep, sessionVars
<1>2. sessionReady = "ready" /\ opens[i].id.session = session
  BY <1>1 DEF CancelInvariant, OpensOwn, Held
<1>3. CASE /\ opens[i].epoch = epoch /\ CommitArchive(i, FALSE)
           /\ UNCHANGED <<epoch, pendingOpen, pendingPassword, opening>>
  <2>1. OpenMoved(i)
    BY <1>1, <1>3, CommitArchiveMoves DEF OpenMoved, Asked, Waiting
  <2>2. OpenMovedWell(i)
    BY <1>1, <1>2, <1>3, CommitArchiveMoves DEF OpenMovedWell, Held, Later, Committing
  <2> QED BY <1>0, <2>1, <2>2, MoveKeepsCancel
<1>4. CASE /\ opens[i].epoch = epoch /\ opens' = [opens EXCEPT ![i].pc = "password"]
           /\ pendingPassword' = i /\ pendingOpen' = 0
           /\ UNCHANGED <<epoch, commitPending, browseVars, wire>>
  <2>1. OpenMoved(i)
    BY <1>1, <1>4, OnlyPc DEF OpenMoved, Waiting
  <2>2. OpenMovedWell(i)
    BY <1>1, <1>2, <1>4, OnlyPc DEF OpenMovedWell, Held, Later, Committing
  <2> QED BY <1>0, <2>1, <2>2, MoveKeepsCancel
<1>5. CASE /\ opens[i].epoch # epoch \/ a.result \notin Ready \cup {"password"}
           /\ FinishOpen(i) /\ UNCHANGED <<browseVars, wire>>
  <2>1. registry # None /\ registry.session = session
          => ~ActiveIs(opens[i].id) \/ CancelSent(opens[i].id)
    BY <1>0, <1>1, <1>5, AnsweredWell DEF Ended, Ready, Held
  <2>2. OpenMoved(i)
    BY <1>1, <1>5, FinishMoves DEF OpenMoved, Waiting
  <2>3. OpenMovedWell(i)
    BY <1>1, <1>2, <1>5, <2>1, FinishMoves DEF OpenMovedWell, Held, Later, Committing
  <2> QED BY <1>0, <2>2, <2>3, MoveKeepsCancel
<1> QED BY <1>3, <1>4, <1>5 DEF PrepareAnswered

LEMMA SubmitKeepsCancel ==
  ASSUME FileBrowserTypeOK, FieldsTyped', CancelInvariant, NEW i \in OpenIndex,
         SubmitPassword(i)
  PROVE  CancelInvariant'
<1>0. FieldsTyped
  BY RequestFields
<1>1. /\ opens[i].pc = "password" /\ pendingPassword = i
      /\ opens' = [opens EXCEPT ![i].pc = "unlock"]
      /\ wire' = wire \cup {CallOf("unlock", opens[i].id, i)}
      /\ UNCHANGED <<registry, tasks, answers, sequence, session, sessionReady>>
      /\ UNCHANGED <<epoch, pendingOpen, pendingPassword>>
  BY DEF SubmitPassword, Send, OpenStep, sessionVars, pendingVars
<1>2. sessionReady = "ready" /\ opens[i].id.session = session /\ opens[i].epoch = epoch
  BY <1>1, BoundsAreNat DEF CancelInvariant, OpensOwn, PendingOwn, Held
<1>3. /\ opens'[i].pc = "unlock" /\ opens'[i].id = opens[i].id
      /\ opens'[i].epoch = opens[i].epoch
      /\ \A j \in OpenIndex : j # i => opens'[j] = opens[j]
  BY <1>1, OnlyPc
<1>4. OpenMoved(i)
  BY <1>1, <1>3 DEF OpenMoved, Asked, Waiting
<1>5. OpenMovedWell(i)
  BY <1>1, <1>2, <1>3 DEF OpenMovedWell, Held, Later, Committing
<1> QED BY <1>0, <1>4, <1>5, MoveKeepsCancel

LEMMA UnlockAnsweredKeepsCancel ==
  ASSUME FileBrowserTypeOK, FieldsTyped', CancelInvariant, NEW i \in OpenIndex,
         NEW a \in answers, UnlockAnswered(i, a)
  PROVE  CancelInvariant'
<1>0. FieldsTyped
  BY RequestFields
<1>1. /\ opens[i].pc = "unlock" /\ a.from = i /\ answers' = answers \ {a}
      /\ UNCHANGED <<registry, tasks, sequence, session, sessionReady>>
  BY DEF UnlockAnswered, Receive, OpenStep, sessionVars
<1>2. sessionReady = "ready" /\ opens[i].id.session = session
  BY <1>1 DEF CancelInvariant, OpensOwn, Held
<1>3. CASE /\ opens[i].epoch = epoch /\ CommitArchive(i, TRUE) /\ pendingPassword' = 0
           /\ UNCHANGED <<epoch, pendingOpen, opening>>
  <2>1. /\ opens'[i].pc = "commit" /\ opens'[i].id = opens[i].id
        /\ opens'[i].epoch = opens[i].epoch
        /\ \A j \in OpenIndex : j # i => opens'[j] = opens[j]
        /\ wire' = wire \cup {CallOf("commit", opens[i].id, i)}
    BY <1>3, CommitArchiveMoves
  <2>2. OpenMoved(i)
    BY <1>1, <1>3, <2>1 DEF OpenMoved, Asked, Waiting
  <2>3. OpenMovedWell(i)
    <3>1. opens[i].epoch = epoch /\ pendingPassword' = 0 /\ pendingOpen' = pendingOpen
      BY <1>3
    <3> QED BY <1>1, <1>2, <2>1, <3>1 DEF OpenMovedWell, Held, Later, Committing
  <2> QED BY <1>0, <2>2, <2>3, MoveKeepsCancel
<1>4. CASE /\ opens[i].epoch = epoch /\ opens' = [opens EXCEPT ![i].pc = "password"]
           /\ UNCHANGED <<browseVars, pendingVars, wire>>
  <2>1. UNCHANGED <<epoch, pendingOpen, pendingPassword>> /\ pendingPassword = i
    BY <1>1, <1>4 DEF pendingVars, CancelInvariant, PendingOwn
  <2>2. OpenMoved(i)
    BY <1>1, <1>4, <2>1, OnlyPc DEF OpenMoved, Waiting
  <2>3. OpenMovedWell(i)
    BY <1>1, <1>2, <1>4, <2>1, OnlyPc DEF OpenMovedWell, Held, Later, Committing
  <2> QED BY <1>0, <2>2, <2>3, MoveKeepsCancel
<1>5. CASE /\ \/ opens[i].epoch = epoch /\ a.result \in {"failed", "cancelled"}
                   /\ pendingPassword' = 0
              \/ opens[i].epoch # epoch /\ pendingPassword' = pendingPassword
           /\ opens' = [opens EXCEPT ![i].pc = "done"]
           /\ UNCHANGED <<epoch, pendingOpen, wire>>
  <2>1. registry # None /\ registry.session = session
          => ~ActiveIs(opens[i].id) \/ CancelSent(opens[i].id)
    BY <1>0, <1>1, <1>5, AnsweredWell DEF Ended, Held
  <2>2. /\ opens'[i].pc = "done" /\ opens'[i].id = opens[i].id
        /\ opens'[i].epoch = opens[i].epoch
        /\ \A j \in OpenIndex : j # i => opens'[j] = opens[j]
    BY <1>5, OnlyPc
  <2>3. OpenMoved(i)
    BY <1>1, <1>5, <2>2 DEF OpenMoved, Waiting
  <2>4. /\ pendingOpen' = pendingOpen
        /\ \/ pendingPassword' = pendingPassword
           \/ pendingPassword' = 0 /\ opens[i].epoch = epoch
    BY <1>5
  <2>5. OpenMovedWell(i)
    BY <1>1, <1>2, <2>1, <2>2, <2>4 DEF OpenMovedWell, Held, Later, Committing
  <2> QED BY <1>0, <2>3, <2>5, MoveKeepsCancel
<1> QED BY <1>3, <1>4, <1>5 DEF UnlockAnswered, pendingVars

LEMMA CommitAnsweredKeepsCancel ==
  ASSUME FileBrowserTypeOK, FieldsTyped', CancelInvariant, NEW i \in OpenIndex,
         NEW a \in answers, CommitAnswered(i, a) \/ GivenUp(i, a)
  PROVE  CancelInvariant'
<1>0. FieldsTyped
  BY RequestFields
<1>1. /\ opens[i].pc \in {"commit", "uncommit"} /\ a.from = i /\ answers' = answers \ {a}
      /\ UNCHANGED <<registry, tasks, sequence, session, sessionReady>>
      /\ UNCHANGED <<epoch, pendingOpen, pendingPassword>>
  BY DEF CommitAnswered, GivenUp, Receive, OpenStep, sessionVars
<1>2. sessionReady = "ready" /\ opens[i].id.session = session
  BY <1>1 DEF CancelInvariant, OpensOwn, Later, Committing
<1>3. ASSUME NEW pc \in {"list", "backoff", "uncommit"}, opens' = [opens EXCEPT ![i].pc = pc],
             \/ wire' = wire
             \/ pc = "uncommit" /\ wire' = wire \cup {CallOf("cancel", opens[i].id, i)},
             pc = "list" => Ended(opens[i].pc, a.result)
      PROVE  CancelInvariant'
  <2>1. pc = "list" /\ registry # None /\ registry.session = session
          => ~ActiveIs(opens[i].id) \/ CancelSent(opens[i].id)
    BY <1>0, <1>1, <1>3, AnsweredWell
  <2>2. OpenMoved(i)
    BY <1>1, <1>3, OnlyPc DEF OpenMoved, Asked, Waiting
  <2>3. OpenMovedWell(i)
    BY <1>1, <1>2, <1>3, <2>1, OnlyPc DEF OpenMovedWell, Held, Later, Committing
  <2> QED BY <1>0, <2>2, <2>3, MoveKeepsCancel
<1>4. CASE CommitAnswered(i, a)
  BY <1>3, <1>4 DEF CommitAnswered, ListArchive, GiveUp, Send, Ended
<1>5. CASE GivenUp(i, a)
  BY <1>3, <1>5 DEF GivenUp, ListArchive, Ended
<1> QED BY <1>4, <1>5

LEMMA RetryKeepsCancel ==
  ASSUME FileBrowserTypeOK, FieldsTyped', CancelInvariant, NEW i \in OpenIndex, Retry(i)
  PROVE  CancelInvariant'
<1>0. FieldsTyped
  BY RequestFields
<1>1. /\ opens[i].pc = "backoff"
      /\ UNCHANGED <<registry, tasks, answers, sequence, session, sessionReady>>
      /\ UNCHANGED <<epoch, pendingOpen, pendingPassword>>
  BY DEF Retry, OpenStep, sessionVars, pendingVars
<1>2. sessionReady = "ready" /\ opens[i].id.session = session
  BY <1>1 DEF CancelInvariant, OpensOwn, Later, Committing
<1>3. /\ opens'[i].id = opens[i].id /\ opens'[i].epoch = opens[i].epoch
      /\ \A j \in OpenIndex : j # i => opens'[j] = opens[j]
      /\ \/ opens'[i].pc = "commit" /\ wire' = wire \cup {CallOf("commit", opens[i].id, i)}
         \/ opens'[i].pc = "uncommit" /\ wire' = wire \cup {CallOf("cancel", opens[i].id, i)}
  BY DEF Retry, GiveUp, Send, FileBrowserTypeOK, OpenCall
<1>4. OpenMoved(i)
  BY <1>1, <1>3 DEF OpenMoved, Asked, Waiting
<1>5. OpenMovedWell(i)
  BY <1>1, <1>2, <1>3 DEF OpenMovedWell, Held, Later, Committing
<1> QED BY <1>0, <1>4, <1>5, MoveKeepsCancel

\* The end of the fetch of an opened archive ends the open.
LEMMA ListedKeepsCancel ==
  ASSUME PageTyped, FieldsTyped', CancelInvariant, NEW f \in fetches, f.then = "open",
         FinishOpen(f.open), UNCHANGED <<wire, registry, tasks, answers, sequence, sessionVars>>
  PROVE  CancelInvariant'
<1>0. FileBrowserTypeOK /\ FieldsTyped /\ f.open \in OpenIndex /\ opens[f.open].pc = "list"
  BY RequestFields DEF PageTyped, FetchesOwned
<1>1. sessionReady = "ready" /\ opens[f.open].id.session = session /\ opens[f.open].id.seq > 0
  BY <1>0 DEF CancelInvariant, OpensOwn, Later
<1>2. UNCHANGED <<session, sessionReady>>
  BY DEF sessionVars
<1>3. registry # None /\ registry.session = session
        => ~ActiveIs(opens[f.open].id) \/ CancelSent(opens[f.open].id)
  BY <1>0, <1>1, ActiveWitness DEF Held, Committing
<1>4. OpenMoved(f.open)
  BY <1>0, <1>2, FinishMoves DEF OpenMoved, Waiting
<1>5. OpenMovedWell(f.open)
  BY <1>0, <1>1, <1>2, <1>3, FinishMoves DEF OpenMovedWell, Held, Later, Committing
<1> QED BY <1>0, <1>4, <1>5, MoveKeepsCancel

\* The request a step that ends the epoch cancels
Taken == IF pendingOpen # 0 THEN pendingOpen
         ELSE IF pendingPassword # 0 THEN pendingPassword ELSE commitPending

\* What a step has sent by its end
CancelBySent(id) == \E c \in wire' : c.op = "cancel" /\ c.id = id
CoveredBy(id) == CancelBySent(id) \/ (Owned(id) => id.seq <= registry.cancelledThrough)

\* When an epoch ends, the cancel of what was pending covers all it leaves behind.
LEMMA LeftBehind ==
  ASSUME FieldsTyped, CancelInvariant, wire \subseteq wire',
         Taken # 0 => CancelBySent(opens[Taken].id)
  PROVE  /\ \A j \in OpenIndex : opens[j].pc \in Held => CoveredBy(opens[j].id)
         /\ registry # None /\ registry.session = session /\ registry.active # None =>
              \E j \in OpenIndex :
                opens[j].id = ActiveId /\ (opens[j].pc \in Committing \/ CancelBySent(ActiveId))
<1>1. ASSUME NEW j \in OpenIndex, opens[j].pc \in Held, opens[j].epoch = epoch
      PROVE  CancelBySent(opens[j].id)
  <2>1. PendingOwn /\ OpensOwn /\ opens[j].epoch > 0 /\ j # 0
    BY <1>1, BoundsAreNat DEF CancelInvariant, OpensOwn
  <2>2. Taken = j
    <3>1. CASE opens[j].pc = "prepare"
      BY <1>1, <2>1, <3>1 DEF PendingOwn, Taken
    <3>2. CASE opens[j].pc \in {"password", "unlock"}
      <4>1. pendingPassword = j
        BY <1>1, <2>1, <3>2 DEF PendingOwn
      <4>2. pendingOpen # 0 => pendingOpen = j
        BY <1>1, <2>1 DEF PendingOwn, OpensOwn, FieldsTyped
      <4> QED BY <2>1, <4>1, <4>2 DEF Taken
    <3> QED BY <1>1, <3>1, <3>2 DEF Held
  <2> QED BY <2>1, <2>2
<1>2. \A id : CancelSent(id) => CancelBySent(id)
  BY DEF CancelSent, CancelBySent
<1>3. \A j \in OpenIndex : opens[j].pc \in Held => CoveredBy(opens[j].id)
  BY <1>1, <1>2 DEF CancelInvariant, StaleCovered, Covered, CoveredBy
<1>4. ASSUME registry # None, registry.session = session, registry.active # None
      PROVE  \E j \in OpenIndex :
               opens[j].id = ActiveId /\ (opens[j].pc \in Committing \/ CancelBySent(ActiveId))
  <2>1. PICK j \in OpenIndex :
            /\ opens[j].id = ActiveId
            /\ \/ opens[j].epoch = epoch /\ opens[j].pc \in Held
               \/ opens[j].pc \in Committing
               \/ CancelSent(ActiveId)
    BY <1>4 DEF CancelInvariant, AbandonedIsCancelled, Owned, Held, Committing, CancelSent
  <2> QED BY <1>1, <1>2, <2>1
<1> QED BY <1>3, <1>4

LEMMA TakenInRange ==
  ASSUME FileBrowserTypeOK
  PROVE  Taken # 0 => Taken \in OpenIndex /\ opens[Taken].id \in RequestId
<1>1. Taken \in 0..MaxOpens
  BY DEF Taken, FileBrowserTypeOK
<1>2. Taken # 0 => Taken \in OpenIndex
  BY <1>1, BoundsAreNat DEF OpenIndex
<1> QED BY <1>2, IdTyped

\* What an epoch leaves behind stays covered once the opens have moved on, if those
\* that are new are about no active request.
LEMMA BehindKept ==
  ASSUME FieldsTyped, UNCHANGED <<registry, session>>,
         \A j \in OpenIndex : \/ opens'[j] = opens[j]
                               \/ /\ opens'[j].pc \notin Held /\ opens[j].id.session # session
         ,
         \A j \in OpenIndex : opens'[j] = opens[j] /\ opens[j].pc \in Held
             => CoveredBy(opens[j].id),
         registry # None /\ registry.session = session /\ registry.active # None =>
              \E j \in OpenIndex :
                opens[j].id = ActiveId /\ (opens[j].pc \in Committing \/ CancelBySent(ActiveId))
  PROVE  StaleCovered' /\ AbandonedIsCancelled'
<1>1. StaleCovered'
  BY DEF StaleCovered, CoveredBy, Covered, CancelBySent, CancelSent, Owned
<1>2. AbandonedIsCancelled'
  <2> SUFFICES ASSUME registry # None, registry.session = session, registry.active # None
               PROVE  AbandonedIsCancelled'
    BY DEF AbandonedIsCancelled, Owned
  <2>1. ActiveId' = ActiveId /\ ActiveId.session = session
    BY DEF ActiveId
  <2>2. PICK j \in OpenIndex :
           opens[j].id = ActiveId /\ (opens[j].pc \in Committing \/ CancelBySent(ActiveId))
    OBVIOUS
  <2>3. opens'[j] = opens[j]
    BY <2>1, <2>2
  <2> QED BY <2>1, <2>2, <2>3 DEF AbandonedIsCancelled, CancelBySent, Committing
<1> QED BY <1>1, <1>2

\* The user turns to something else: takeAndCancelPendingArchiveOpen.
LEMMA AbandonKeepsCancel ==
  ASSUME FileBrowserTypeOK, FieldsTyped', CancelInvariant, TakeAndCancel,
         UNCHANGED <<registry, tasks, answers, opens, session, sessionReady, sequence>>
  PROVE  CancelInvariant'
<1>0. FieldsTyped
  BY RequestFields
<1>1. /\ epoch' = epoch + 1 /\ pendingOpen' = 0 /\ pendingPassword' = 0
      /\ wire' = wire \cup (IF Taken = 0 THEN {} ELSE {CallOf("cancel", opens[Taken].id, Nobody)})
  BY DEF TakeAndCancel, Send, Taken
<1>2. Taken # 0 => CancelBySent(opens[Taken].id)
  <2> SUFFICES ASSUME Taken # 0 PROVE CancelBySent(opens[Taken].id)
    OBVIOUS
  <2> DEFINE c == CallOf("cancel", opens[Taken].id, Nobody)
  <2>1. c.op = "cancel" /\ c.id = opens[Taken].id
    BY DEF CallOf
  <2> HIDE DEF c
  <2>2. c \in wire'
    BY <1>1 DEF c
  <2> QED BY <2>1, <2>2 DEF CancelBySent
<1>3. wire \subseteq wire'
  BY <1>1
<1>4. StaleCovered' /\ AbandonedIsCancelled'
  BY <1>0, <1>2, <1>3, LeftBehind, BehindKept
<1>5. OpensOwn /\ PendingOwn /\ OneAwaited /\ WireTrue /\ TasksTrue /\ AnswersTrue /\ LastTrue
  BY DEF CancelInvariant
<1>6. OpensOwn'
  BY <1>0, <1>1, <1>5 DEF OpensOwn, FieldsTyped
<1>7. PendingOwn'
  BY <1>0, <1>1, <1>5 DEF OpensOwn, PendingOwn, FieldsTyped
<1>8. \A c \in wire' : c \in wire \/ (c.op = "cancel" /\ c.from \notin OpenIndex)
  BY <1>1, BoundsAreNat DEF CallOf, Nobody
<1>9. OneAwaited' /\ WireTrue'
  BY <1>5, <1>8 DEF OneAwaited, OneOf, Apart, WireTrue
<1>10. TasksTrue' /\ AnswersTrue' /\ LastTrue'
  BY <1>5 DEF TasksTrue, AnswersTrue, LastTrue, ActiveIs, Owned
<1> QED BY <1>4, <1>6, <1>7, <1>9, <1>10 DEF CancelInvariant

\* ... or nothing the invariant speaks of changes.
LEMMA QuietKeepsCancel ==
  ASSUME CancelInvariant, UNCHANGED <<requestVars, opens, pendingVars, sessionVars, sequence>>
  PROVE  CancelInvariant'
<1>1. UNCHANGED <<registry, wire, tasks, answers, opens, epoch, pendingOpen, pendingPassword,
                  session, sessionReady, sequence>>
  BY DEF requestVars, pendingVars, sessionVars
<1>2. OpensOwn' /\ PendingOwn' /\ StaleCovered'
  BY <1>1 DEF CancelInvariant, OpensOwn, PendingOwn, StaleCovered, Covered, CancelSent, Owned
<1>3. OneAwaited' /\ WireTrue'
  BY <1>1 DEF CancelInvariant, OneAwaited, OneOf, Apart, WireTrue
<1>4. TasksTrue' /\ AnswersTrue' /\ LastTrue'
  BY <1>1 DEF CancelInvariant, TasksTrue, AnswersTrue, LastTrue, ActiveIs, Owned
<1>5. AbandonedIsCancelled'
  BY <1>1 DEF CancelInvariant, AbandonedIsCancelled, Owned, ActiveId
<1> QED BY <1>2, <1>3, <1>4, <1>5 DEF CancelInvariant

LEMMA BrowseKeepsCancel ==
  ASSUME PageTyped, FieldsTyped', CancelInvariant, Browse
  PROVE  CancelInvariant'
<1>0. FileBrowserTypeOK
  BY DEF PageTyped
<1>1. CASE /\ UNCHANGED <<registry, tasks, answers, prefetched, opens, sessionVars, sequence>>
           /\ TakeAndCancel \/ InvalidatePending \/ UNCHANGED <<pendingVars, wire>>
  <2>1. CASE TakeAndCancel
    BY <1>0, <1>1, <2>1, AbandonKeepsCancel DEF sessionVars
  <2>2. CASE UNCHANGED <<pendingVars, wire>>
    BY <1>1, <2>2, QuietKeepsCancel DEF requestVars
  <2> QED BY <1>1, <2>1, <2>2 DEF InvalidatePending
<1>2. ASSUME NEW f \in fetches, NEW ok \in BOOLEAN, FetchDone(f, ok)
      PROVE  CancelInvariant'
  <2>1. UNCHANGED <<registry, tasks, answers, prefetched, sessionVars, sequence>>
    BY <1>2 DEF FetchDone
  <2>2. CASE f.then = "open"
    BY <1>2, <2>1, <2>2, ListedKeepsCancel DEF FetchDone
  <2>3. CASE f.then # "open"
    BY <1>1, <1>2, <2>1, <2>3 DEF FetchDone
  <2> QED BY <2>2, <2>3
<1>3. ASSUME UserActs, TakeAndCancel \/ InvalidatePending \/ UNCHANGED <<pendingVars, wire>>
      PROVE  CancelInvariant'
  BY <1>1, <1>3 DEF UserActs
<1> QED BY <1>2, <1>3 DEF Browse, Navigate, Up, Refresh, OpenLocal, OpenRemote, ExitArchive,
                          CancelOpen

-----------------------------------------------------------------------------
(***************************************************************************)
(* Asking for an archive.                                                   *)
(***************************************************************************)

\* A new request, under the sequence after the last.
LEMMA RegisterMoves ==
  ASSUME FileBrowserTypeOK, NEW i \in OpenIndex, NEW call \in OpenCall, RegisterOpen(i, call)
  PROVE  /\ opens'[i].pc = "begin" /\ opens'[i].epoch = call.epoch
         /\ opens'[i].id.session = session /\ opens'[i].id.seq = sequence + 1
         /\ \A j \in OpenIndex : j # i => opens'[j] = opens[j]
         /\ pendingOpen' = i /\ sequence' = sequence + 1 /\ session' = session
         /\ sessionReady = "ready" => sessionReady' = "ready"
         /\ wire \subseteq wire'
         /\ \A c \in wire' : c \in wire \/ (c.op = "begin" /\ c.from \notin OpenIndex)
<1> DEFINE id == [session |-> session, seq |-> sequence + 1]
           new == [call EXCEPT !.pc = "begin", !.parent = here, !.id = id]
<1>1. /\ opens' = [opens EXCEPT ![i] = new]
      /\ pendingOpen' = i /\ sequence' = sequence + 1 /\ session' = session
      /\ sessionReady = "ready" => sessionReady' = "ready"
  BY DEF RegisterOpen
<1>2. new.pc = "begin" /\ new.epoch = call.epoch /\ new.id = id
  BY DEF OpenCall
<1>3. id.session = session /\ id.seq = sequence + 1
  OBVIOUS
<1> HIDE DEF new, id
<1>4. opens'[i] = new /\ \A j \in OpenIndex : j # i => opens'[j] = opens[j]
  BY <1>1 DEF FileBrowserTypeOK
<1>5. wire' = wire \/ wire' = wire \cup {Begin(session, boot)}
  BY DEF RegisterOpen, Send
<1>6. Begin(session, boot).op = "begin" /\ Begin(session, boot).from \notin OpenIndex
  BY BoundsAreNat DEF Begin
<1> QED BY <1>1, <1>2, <1>3, <1>4, <1>5, <1>6

\* What a step that asks for an archive leaves true whatever else it does: the new
\* open is of the epoch in force, and nothing was on its way for it.
NewOpen(i) ==
  /\ opens[i].pc \in {"idle", "superseding"}
  /\ opens'[i].pc \in {"begin", "superseding"} /\ opens'[i].epoch = epoch'
  /\ opens'[i].pc = "begin" => opens'[i].id.seq = sequence + 1 /\ sequence' = sequence + 1
  /\ opens'[i].pc = "superseding" =>
       opens'[i].id.seq = 0 /\ opens'[i].id.session = 0 /\ sequence' = sequence
  /\ \A j \in OpenIndex : j # i => opens'[j] = opens[j] /\ opens[j].epoch # epoch'
  /\ epoch' >= epoch /\ epoch' > 0
  /\ pendingOpen' = IF opens'[i].pc = "begin" THEN i ELSE 0
  /\ pendingPassword' \in {0, i}
  /\ session' = session /\ (sessionReady = "ready" => sessionReady' = "ready")
  /\ UNCHANGED <<registry, tasks>>
  /\ answers' \subseteq answers /\ \A x \in wire \cup tasks \cup answers' : x.from # i
  /\ wire \subseteq wire'
  /\ \A c, d \in wire' : c \notin wire /\ d \notin wire => c = d
  /\ \A c \in wire' : \/ c \in wire
                      \/ c.op = "begin" /\ c.from \notin OpenIndex
                      \/ c.op = "cancel" /\ c.from = i /\ opens'[i].pc = "superseding"

LEMMA NewOpenKeeps ==
  ASSUME FieldsTyped, FieldsTyped', CancelInvariant, NEW i \in OpenIndex, NewOpen(i)
  PROVE  /\ OpensOwn' /\ PendingOwn' /\ OneAwaited' /\ WireTrue' /\ TasksTrue'
         /\ AnswersTrue' /\ LastTrue'
<1>1. OpensOwn /\ PendingOwn /\ OneAwaited /\ WireTrue /\ TasksTrue /\ AnswersTrue /\ LastTrue
  BY DEF CancelInvariant
<1>2. /\ opens[i].pc \in {"idle", "superseding"}
      /\ opens'[i].pc \in {"begin", "superseding"} /\ opens'[i].epoch = epoch'
      /\ \A j \in OpenIndex : j # i => opens'[j] = opens[j] /\ opens[j].epoch # epoch'
      /\ epoch' >= epoch /\ epoch' > 0 /\ i # 0
      /\ session' = session /\ (sessionReady = "ready" => sessionReady' = "ready")
  BY BoundsAreNat DEF NewOpen
<1>3. /\ opens'[i].pc = "begin" => opens'[i].id.seq = sequence + 1 /\ sequence' = sequence + 1
      /\ opens'[i].pc = "superseding" =>
           opens'[i].id.seq = 0 /\ opens'[i].id.session = 0 /\ sequence' = sequence
      /\ sequence' >= sequence /\ opens'[i].id.seq <= sequence'
      /\ opens'[i].id.seq > 0 => opens'[i].id.seq > sequence
  BY <1>2 DEF NewOpen, FieldsTyped
<1>4. OpensOwn'
  <2>1. \A j \in OpenIndex :
          /\ opens'[j].pc \in Held \cup Later =>
                 sessionReady' = "ready" /\ opens'[j].id.session = session'
          /\ opens'[j].pc \in Held \cup Later \cup {"begin"} => opens'[j].id.seq > 0
          /\ opens'[j].pc \in Held \cup Later \cup {"begin", "superseding"} => opens'[j].epoch > 0
          /\ opens'[j].pc \in {"idle", "superseding"} => opens'[j].id.session = 0
          /\ opens'[j].id.seq <= sequence' /\ opens'[j].epoch <= epoch'
    BY <1>1, <1>2, <1>3 DEF OpensOwn, FieldsTyped, Held, Later, Committing
  <2>2. ASSUME NEW j \in OpenIndex, NEW k \in OpenIndex, j # k
        PROVE  /\ opens'[j].id.seq = opens'[k].id.seq => opens'[j].id.seq = 0
               /\ opens'[j].epoch = opens'[k].epoch => opens'[j].epoch = 0
    <3>1. CASE j # i /\ k # i
      BY <1>1, <1>2, <2>2, <3>1 DEF OpensOwn
    <3>2. \A m \in OpenIndex : m # i => opens'[m].id.seq <= sequence /\ opens'[m].epoch # epoch'
      BY <1>1, <1>2 DEF OpensOwn
    <3>3. \A m \in OpenIndex : opens'[m].id.seq \in Nat
      BY DEF FieldsTyped
    <3>4. sequence \in Nat
      BY DEF FieldsTyped
    <3>5. CASE j = i
      BY <1>2, <1>3, <2>2, <3>2, <3>3, <3>4, <3>5
    <3>6. CASE k = i
      BY <1>2, <1>3, <2>2, <3>2, <3>3, <3>4, <3>6
    <3> QED BY <3>1, <3>5, <3>6
  <2> QED BY <2>1, <2>2 DEF OpensOwn
<1>5. PendingOwn'
  <2>1. pendingOpen' = (IF opens'[i].pc = "begin" THEN i ELSE 0) /\ pendingPassword' \in {0, i}
    BY DEF NewOpen
  <2> QED BY <1>2, <2>1 DEF PendingOwn
<1>6. OneAwaited' /\ WireTrue'
  <2>1. /\ tasks' = tasks /\ answers' \subseteq answers
        /\ \A x \in wire \cup tasks \cup answers' : x.from # i
        /\ \A c, d \in wire' : c \notin wire /\ d \notin wire => c = d
        /\ \A c \in wire' : \/ c \in wire
                            \/ c.op = "begin" /\ c.from \notin OpenIndex
                            \/ c.op = "cancel" /\ c.from = i /\ opens'[i].pc = "superseding"
    BY DEF NewOpen
  <2>2. OneOf(wire') /\ OneOf(tasks') /\ OneOf(answers')
    BY <1>1, <2>1 DEF OneAwaited, OneOf
  <2>3. Apart(wire', tasks') /\ Apart(wire', answers') /\ Apart(tasks', answers')
    BY <1>1, <2>1 DEF OneAwaited, Apart
  <2>4. OneAwaited'
    BY <2>2, <2>3 DEF OneAwaited, OneOf, Apart
  <2>5. WireTrue'
    BY <1>1, <1>2, <2>1 DEF WireTrue, Asked
  <2> QED BY <2>4, <2>5
<1>7. TasksTrue' /\ AnswersTrue'
  <2>1. /\ registry' = registry /\ tasks' = tasks /\ answers' \subseteq answers
        /\ \A x \in wire \cup tasks \cup answers' : x.from # i
    BY DEF NewOpen
  <2> QED BY <1>1, <1>2, <2>1 DEF TasksTrue, AnswersTrue, ActiveIs, Owned
<1>8. LastTrue'
  <2>1. registry' = registry
    BY DEF NewOpen
  <2>2. SUFFICES ASSUME registry # None, registry.session = session
                 PROVE  /\ registry.lastCommitted <= sequence'
                        /\ \A j \in OpenIndex :
                             opens'[j].id.seq > 0 /\ opens'[j].id.seq = registry.lastCommitted =>
                               opens'[j].pc \in Later \cup {"done"} /\ ~ActiveIs(opens[j].id)'
    BY <1>2, <2>1 DEF LastTrue
  <2>3. registry.lastCommitted \in Nat /\ sequence \in Nat /\ sequence' \in Nat
    BY <2>2 DEF FieldsTyped
  <2>4. registry.lastCommitted <= sequence
    BY <1>1, <2>2 DEF LastTrue
  <2>5. registry.lastCommitted <= sequence'
    BY <1>3, <2>3, <2>4
  <2>6. ASSUME NEW j \in OpenIndex, opens'[j].id.seq > 0, opens'[j].id.seq = registry.lastCommitted
        PROVE  opens'[j].pc \in Later \cup {"done"} /\ ~ActiveIs(opens[j].id)'
    <3>1. j # i
      BY <1>3, <2>3, <2>4, <2>6
    <3>2. opens'[j] = opens[j]
      BY <1>2, <3>1
    <3> QED BY <1>1, <2>1, <2>2, <2>6, <3>2 DEF LastTrue, ActiveIs, Owned
  <2> QED BY <2>5, <2>6
<1> QED BY <1>4, <1>5, <1>6, <1>7, <1>8

LEMMA OpenArchiveKeepsCancel ==
  ASSUME FileBrowserTypeOK, FieldsTyped', CancelInvariant, NEW i \in OpenIndex,
         NEW archive \in Archives, OpenArchive(i, archive)
  PROVE  CancelInvariant'
<1> DEFINE call == [Idle EXCEPT !.archive = archive, !.epoch = epoch + 1]
<1>0. FieldsTyped
  BY RequestFields
<1>1. /\ opens[i].pc = "idle" /\ epoch' = epoch + 1 /\ pendingPassword' = 0
      /\ UNCHANGED <<registry, tasks, answers>>
  BY DEF OpenArchive, OpenStep
<1>2. /\ call \in OpenCall /\ call.epoch = epoch'
      /\ call.id.seq = 0 /\ call.id.session = 0
  <2>1. epoch + 1 \in Nat
    BY <1>0 DEF FieldsTyped
  <2>2. Idle.id.seq = 0 /\ Idle.id.session = 0
    BY DEF Idle
  <2> QED BY <1>1, <2>1, <2>2, IdleTyped DEF OpenCall
<1>3. /\ epoch' > 0 /\ epoch' >= epoch
      /\ \A j \in OpenIndex : opens[j].epoch # epoch'
  BY <1>0, <1>1 DEF FieldsTyped, CancelInvariant, OpensOwn
<1>4. /\ opens[i].id.session # session
      /\ \A x \in wire \cup tasks \cup answers : x.from # i
  BY <1>0, <1>1 DEF CancelInvariant, OpensOwn, FieldsTyped, WireTrue, TasksTrue, AnswersTrue,
                    Asked, Waiting
<1>5. ASSUME NewOpen(i), Taken # 0 => CancelBySent(opens[Taken].id)
      PROVE  CancelInvariant'
  <2>1. /\ wire \subseteq wire' /\ session' = session
        /\ opens'[i].pc \in {"begin", "superseding"}
        /\ \A j \in OpenIndex : j # i => opens'[j] = opens[j]
    BY <1>5 DEF NewOpen
  <2>2. \A j \in OpenIndex : \/ opens'[j] = opens[j]
                             \/ opens'[j].pc \notin Held /\ opens[j].id.session # session
    BY <1>4, <2>1 DEF Held
  <2>3. StaleCovered' /\ AbandonedIsCancelled'
    BY <1>0, <1>1, <1>5, <2>1, <2>2, LeftBehind, BehindKept
  <2> QED BY <1>0, <1>5, <2>3, NewOpenKeeps DEF CancelInvariant
<1>6. CASE Taken = 0
  <2>1. RegisterOpen(i, call)
    BY <1>6 DEF OpenArchive, Taken
  <2> HIDE DEF call
  <2>2. NewOpen(i)
    <3>1. \A c, d \in wire' : c \notin wire /\ d \notin wire => c = d
      BY <2>1 DEF RegisterOpen, Send
    <3> QED BY <1>1, <1>2, <1>3, <1>4, <2>1, <3>1, RegisterMoves DEF NewOpen
  <2> QED BY <1>5, <1>6, <2>2
<1>7. CASE Taken # 0
  <2> DEFINE new == [call EXCEPT !.pc = "superseding"]
             c == CallOf("cancel", opens[Taken].id, i)
  <2>1. /\ pendingOpen' = 0 /\ opens' = [opens EXCEPT ![i] = new]
        /\ wire' = wire \cup {c}
        /\ UNCHANGED <<sequence, sessionVars>>
    BY <1>7 DEF OpenArchive, Taken, Send
  <2>2. new.pc = "superseding" /\ new.epoch = epoch' /\ new.id.seq = 0 /\ new.id.session = 0
    BY <1>2 DEF OpenCall
  <2>3. c.op = "cancel" /\ c.id = opens[Taken].id /\ c.from = i
    BY DEF CallOf
  <2> HIDE DEF call, new, c
  <2>4. opens'[i] = new /\ \A j \in OpenIndex : j # i => opens'[j] = opens[j]
    BY <2>1 DEF FileBrowserTypeOK
  <2>5. NewOpen(i)
    BY <1>1, <1>3, <1>4, <2>1, <2>2, <2>3, <2>4 DEF NewOpen, sessionVars
  <2>6. CancelBySent(opens[Taken].id)
    BY <2>1, <2>3 DEF CancelBySent
  <2> QED BY <1>5, <2>5, <2>6
<1> QED BY <1>6, <1>7

\* The cancel of the older open has answered: the newer one goes on, or has itself
\* been left behind, before it had a request.
LEMMA SupersedeKeepsCancel ==
  ASSUME FileBrowserTypeOK, FieldsTyped', CancelInvariant, NEW i \in OpenIndex,
         NEW a \in answers, Supersede(i, a)
  PROVE  CancelInvariant'
<1>0. FieldsTyped
  BY RequestFields
<1>1. /\ opens[i].pc = "superseding" /\ a.from = i /\ answers' = answers \ {a}
      /\ UNCHANGED <<registry, tasks, epoch, pendingPassword>>
  BY DEF Supersede, Receive, OpenStep
<1>2. /\ opens[i].id.session = 0 /\ opens[i].id.session # session /\ opens[i].epoch > 0
      /\ \A j \in OpenIndex : j # i => opens[j].epoch # opens[i].epoch
  BY <1>0, <1>1 DEF CancelInvariant, OpensOwn, FieldsTyped
<1>3. \A x \in wire \cup tasks \cup answers' : x.from # i
  BY <1>1 DEF CancelInvariant, OneAwaited, OneOf, Apart
<1>4. CASE opens[i].epoch = epoch
  <2>1. RegisterOpen(i, opens[i]) /\ opens[i] \in OpenCall
    BY <1>4 DEF Supersede, FileBrowserTypeOK
  <2>2. pendingPassword \in {0, i}
    BY <1>0, <1>2, <1>4 DEF CancelInvariant, PendingOwn, FieldsTyped
  <2>3. /\ opens'[i].pc = "begin" /\ session' = session /\ wire \subseteq wire'
        /\ \A j \in OpenIndex : j # i => opens'[j] = opens[j]
    BY <2>1, RegisterMoves
  <2>4. NewOpen(i)
    <3>1. \A c, d \in wire' : c \notin wire /\ d \notin wire => c = d
      BY <2>1 DEF RegisterOpen, Send
    <3>2. epoch \in Nat /\ epoch' >= epoch /\ epoch' > 0
      BY <1>0, <1>1, <1>2, <1>4 DEF FieldsTyped
    <3> QED BY <1>1, <1>2, <1>3, <1>4, <2>1, <2>2, <3>1, <3>2, RegisterMoves DEF NewOpen
  <2>5. StaleCovered'
    BY <1>1, <2>3 DEF CancelInvariant, StaleCovered, Covered, CancelSent, Owned, Held
  <2>6. AbandonedIsCancelled'
    <3> SUFFICES ASSUME registry # None, registry.session = session, registry.active # None
                 PROVE  AbandonedIsCancelled'
      BY <1>1, <2>3 DEF AbandonedIsCancelled, Owned
    <3>1. ActiveId' = ActiveId /\ ActiveId.session = session
      BY <1>1 DEF ActiveId
    <3>2. PICK j \in OpenIndex :
            /\ opens[j].id = ActiveId
            /\ \/ opens[j].epoch = epoch /\ opens[j].pc \in {"prepare", "password", "unlock"}
               \/ opens[j].pc \in {"commit", "backoff", "uncommit"}
               \/ \E c \in wire : c.op = "cancel" /\ c.id = ActiveId
      BY DEF CancelInvariant, AbandonedIsCancelled, Owned
    <3>3. opens'[j] = opens[j]
      BY <1>2, <2>3, <3>1, <3>2
    <3> QED BY <1>1, <2>3, <3>1, <3>2, <3>3 DEF AbandonedIsCancelled
  <2> QED BY <1>0, <2>4, <2>5, <2>6, NewOpenKeeps DEF CancelInvariant
<1>5. CASE opens[i].epoch # epoch
  <2>1. /\ opens' = [opens EXCEPT ![i].pc = "done"]
        /\ UNCHANGED <<pendingOpen, wire, session, sessionReady, sequence>>
    BY <1>5 DEF Supersede, sessionVars
  <2>2. /\ opens'[i].pc = "done" /\ opens'[i].id = opens[i].id
        /\ opens'[i].epoch = opens[i].epoch
        /\ \A j \in OpenIndex : j # i => opens'[j] = opens[j]
    BY <2>1 DEF FileBrowserTypeOK, OpenCall
  <2>3. OpenMoved(i)
    BY <1>1, <2>1, <2>2 DEF OpenMoved, Waiting
  <2>4. OpenMovedWell(i)
    <3>1. ~(registry # None /\ registry.session = session /\ ActiveIs(opens[i].id))
      BY <1>2 DEF ActiveIs, Owned
    <3> QED BY <1>1, <1>5, <2>1, <2>2, <3>1 DEF OpenMovedWell, Held, Later, Committing
  <2> QED BY <1>0, <2>3, <2>4, MoveKeepsCancel
<1> QED BY <1>4, <1>5

-----------------------------------------------------------------------------
(***************************************************************************)
(* The session's answer, a reload, and every step.                          *)
(***************************************************************************)
LEMMA SessionBegunKeepsCancel ==
  ASSUME FileBrowserTypeOK, FieldsTyped', SessionInvariant, CancelInvariant,
         NEW a \in answers, SessionBegun(a)
  PROVE  CancelInvariant'
<1>0. FieldsTyped
  BY RequestFields
<1>1. /\ sessionReady \in {"begin", "retry"} /\ a.from = SessionPromise /\ answers' = answers \ {a}
      /\ UNCHANGED <<registry, tasks, epoch, pendingPassword, sequence>>
  BY DEF SessionBegun, Receive, OpenStep
<1>2. OpensOwn /\ PendingOwn /\ OneAwaited /\ WireTrue /\ TasksTrue /\ AnswersTrue /\ LastTrue
  BY DEF CancelInvariant
<1>3. \A j \in OpenIndex : opens[j].pc \notin Held \cup Later
  BY <1>1, <1>2 DEF OpensOwn
<1>4. /\ \A j \in OpenIndex : /\ opens'[j].id = opens[j].id /\ opens'[j].epoch = opens[j].epoch
                              /\ \/ opens'[j].pc = opens[j].pc
                                 \/ opens[j].pc = "begin" /\ opens'[j].pc = "done"
      /\ \/ pendingOpen' = pendingOpen /\ opens' = opens
         \/ pendingOpen' = 0 /\ \A j \in OpenIndex : opens'[j].pc # "begin"
         \/ /\ pendingOpen' = pendingOpen
            /\ \A j \in OpenIndex : opens[j].epoch = epoch => opens[j].pc # "begin"
  <2>1. CASE opens' = opens /\ pendingOpen' = pendingOpen
    BY <2>1
  <2>2. CASE /\ opens' = [j \in OpenIndex |-> IF opens[j].pc = "begin"
                                              THEN [opens[j] EXCEPT !.pc = "done"] ELSE opens[j]]
             /\ IF \E j \in OpenIndex : opens[j].pc = "begin" /\ opens[j].epoch = epoch
                THEN pendingOpen' = 0 ELSE pendingOpen' = pendingOpen
    <3>1. ASSUME NEW j \in OpenIndex
          PROVE  /\ opens'[j].id = opens[j].id /\ opens'[j].epoch = opens[j].epoch
                 /\ \/ opens'[j].pc = opens[j].pc
                    \/ opens[j].pc = "begin" /\ opens'[j].pc = "done"
      BY <2>2 DEF FileBrowserTypeOK, OpenCall
    <3>2. \A j \in OpenIndex : opens'[j].pc # "begin"
      BY <2>2 DEF FileBrowserTypeOK, OpenCall
    <3> QED BY <2>2, <3>1, <3>2
  <2> QED BY <2>1, <2>2 DEF SessionBegun
<1>5. /\ session' >= session /\ wire \subseteq wire'
      /\ \A c \in wire' : c \in wire \/ (c.op = "begin" /\ c.from \notin OpenIndex)
      /\ session' # session /\ registry # None => registry.session < session'
  <2>1. CASE session' = session /\ wire' = wire
    BY <1>0, <2>1 DEF FieldsTyped
  <2>2. CASE /\ sessions' = sessions + 1 /\ session' = sessions'
             /\ wire' = wire \cup {Begin(session', boot')}
    <3>1. session = sessions /\ session \in Nat /\ session' = session + 1
      BY <1>0, <2>2 DEF SessionInvariant, FieldsTyped
    <3>2. registry # None => registry.session \in Nat /\ registry.session <= session
      BY <1>0, <3>1 DEF SessionInvariant, RegistryDated, FieldsTyped
    <3>3. Begin(session', boot').op = "begin" /\ Begin(session', boot').from \notin OpenIndex
      BY BoundsAreNat DEF Begin
    <3> QED BY <2>2, <3>1, <3>2, <3>3
  <2> QED BY <2>1, <2>2 DEF SessionBegun, Send
<1>6. a.from \notin OpenIndex /\ answers' \subseteq answers
  BY <1>1, BoundsAreNat
<1>7. OpensOwn' /\ StaleCovered'
  BY <1>1, <1>2, <1>3, <1>4 DEF OpensOwn, StaleCovered, Held, Later, Committing
<1>8. PendingOwn'
  BY <1>0, <1>1, <1>2, <1>3, <1>4 DEF PendingOwn, FieldsTyped, Held, Later, Committing
<1>9. OneAwaited'
  <2>1. OneOf(wire') /\ OneOf(tasks') /\ OneOf(answers')
    BY <1>1, <1>2, <1>5, <1>6 DEF OneAwaited, OneOf
  <2>2. Apart(wire', tasks') /\ Apart(wire', answers') /\ Apart(tasks', answers')
    BY <1>1, <1>2, <1>5, <1>6 DEF OneAwaited, Apart
  <2> QED BY <2>1, <2>2 DEF OneAwaited, OneOf, Apart
<1>10. WireTrue'
  <2> SUFFICES ASSUME NEW c \in wire'
               PROVE  /\ c.from \in OpenIndex =>
                           /\ Asked(opens'[c.from].pc, c.op)
                           /\ opens'[c.from].pc # "superseding" => c.id = opens'[c.from].id
                      /\ c.from \notin OpenIndex /\ c.op \in {"prepare", "unlock", "commit"} =>
                           c.id.session < session'
    BY DEF WireTrue, Asked
  <2>1. CASE c \in wire
    <3>1. c.id.session \in Nat /\ session \in Nat /\ session' \in Nat
      BY <1>0, <2>1 DEF FieldsTyped
    <3> QED BY <1>2, <1>4, <1>5, <2>1, <3>1 DEF WireTrue, Asked
  <2>2. CASE c.op = "begin" /\ c.from \notin OpenIndex
    BY <2>2
  <2> QED BY <1>5, <2>1, <2>2
<1>11. TasksTrue' /\ AnswersTrue'
  BY <1>1, <1>2, <1>4, <1>6 DEF TasksTrue, AnswersTrue, ActiveIs, Owned, Asked, Waiting, Ended
<1>12. CASE session' = session
  <2>1. LastTrue'
    BY <1>1, <1>2, <1>4, <1>12 DEF LastTrue, ActiveIs, Owned
  <2>2. AbandonedIsCancelled'
    <3> SUFFICES ASSUME registry # None, registry.session = session, registry.active # None
                 PROVE  AbandonedIsCancelled'
      BY <1>1, <1>12 DEF AbandonedIsCancelled, Owned
    <3>1. ActiveId' = ActiveId
      BY <1>1 DEF ActiveId
    <3>2. PICK j \in OpenIndex :
            /\ opens[j].id = ActiveId
            /\ \/ opens[j].epoch = epoch /\ opens[j].pc \in {"prepare", "password", "unlock"}
               \/ opens[j].pc \in {"commit", "backoff", "uncommit"}
               \/ \E c \in wire : c.op = "cancel" /\ c.id = ActiveId
      BY DEF CancelInvariant, AbandonedIsCancelled, Owned
    <3>3. \E c \in wire : c.op = "cancel" /\ c.id = ActiveId
      BY <1>3, <3>2 DEF Held, Later, Committing
    <3> QED BY <1>4, <1>5, <3>1, <3>2, <3>3 DEF AbandonedIsCancelled
  <2> QED BY <1>7, <1>8, <1>9, <1>10, <1>11, <2>1, <2>2 DEF CancelInvariant
<1>13. CASE session' # session
  <2>1. registry # None => registry.session # session'
    BY <1>0, <1>5, <1>13 DEF FieldsTyped
  <2>2. LastTrue' /\ AbandonedIsCancelled'
    BY <1>1, <2>1 DEF LastTrue, AbandonedIsCancelled, Owned
  <2> QED BY <1>7, <1>8, <1>9, <1>10, <1>11, <2>2 DEF CancelInvariant
<1> QED BY <1>12, <1>13

\* A new page has opened nothing yet; the commands of the older pages are of their
\* sessions.
LEMMA ReloadKeepsCancel ==
  ASSUME FileBrowserTypeOK, FieldsTyped', SessionInvariant, CancelInvariant, Reload
  PROVE  CancelInvariant'
<1>0. FieldsTyped
  BY RequestFields
<1>1. /\ wire' = Orphans(wire) /\ tasks' = Orphans(tasks) /\ answers' = {}
      /\ opens' = [i \in OpenIndex |->
                     IF opens[i].pc = "idle" THEN Idle ELSE [Idle EXCEPT !.pc = "done"]]
      /\ epoch' = 0 /\ pendingOpen' = 0 /\ pendingPassword' = 0 /\ sequence' = 0
      /\ sessions' = sessions + 1 /\ session' = sessions' /\ registry' = registry
  BY DEF Reload
<1>2. \A i \in OpenIndex : /\ opens'[i].pc \in {"idle", "done"}
                           /\ opens'[i].id.session = 0 /\ opens'[i].id.seq = 0
                           /\ opens'[i].epoch = 0
  BY <1>1 DEF Idle
<1>3. session = sessions /\ session \in Nat /\ session' = session + 1
  BY <1>0, <1>1 DEF SessionInvariant, FieldsTyped
<1>4. registry # None => registry.session # session'
  BY <1>0, <1>3 DEF SessionInvariant, RegistryDated, FieldsTyped
<1>5. ASSUME NEW c \in wire'
      PROVE  /\ c.from \notin OpenIndex
             /\ c.op \in {"prepare", "unlock", "commit"} => c.id.session < session'
  <2>1. PICK d \in wire : c = [d EXCEPT !.from = Nobody]
    BY <1>1 DEF Orphans
  <2>2. c.from = Nobody /\ c.op = d.op /\ c.id = d.id
    BY <2>1 DEF FileBrowserTypeOK, RequestsTypeOK, Call
  <2>3. c.from \notin OpenIndex
    BY <2>2, BoundsAreNat DEF Nobody
  <2>4. d.op \in {"prepare", "unlock", "commit"} => d.id.session <= session
    <3>1. CASE d.from \in OpenIndex
      BY <1>0, <3>1 DEF CancelInvariant, WireTrue, Asked, OpensOwn, Held, Later, Committing,
                        FieldsTyped
    <3>2. CASE d.from \notin OpenIndex
      BY <1>0, <3>2 DEF CancelInvariant, WireTrue, FieldsTyped
    <3> QED BY <3>1, <3>2
  <2> QED BY <1>0, <1>3, <2>2, <2>3, <2>4 DEF FieldsTyped
<1>6. ASSUME NEW t \in tasks'
      PROVE  t.from \notin OpenIndex
  <2>1. PICK u \in tasks : t = [u EXCEPT !.from = Nobody]
    BY <1>1 DEF Orphans
  <2>2. t.from = Nobody
    BY <2>1 DEF FileBrowserTypeOK, RequestsTypeOK, Task
  <2> QED BY <2>2, BoundsAreNat DEF Nobody
<1>7. OpensOwn' /\ PendingOwn' /\ StaleCovered'
  BY <1>1, <1>2, BoundsAreNat DEF OpensOwn, PendingOwn, StaleCovered, Held, Later, Committing
<1>8. OneAwaited'
  BY <1>1, <1>5, <1>6 DEF OneAwaited, OneOf, Apart
<1>9. WireTrue' /\ TasksTrue' /\ AnswersTrue'
  BY <1>1, <1>5, <1>6 DEF WireTrue, TasksTrue, AnswersTrue
<1>10. LastTrue' /\ AbandonedIsCancelled'
  BY <1>1, <1>4 DEF LastTrue, AbandonedIsCancelled, Owned
<1> QED BY <1>7, <1>8, <1>9, <1>10 DEF CancelInvariant

LEMMA StartCancels == Init => CancelInvariant
<1> SUFFICES ASSUME Init PROVE CancelInvariant
  OBVIOUS
<1>1. /\ registry = None /\ wire = {} /\ tasks = {} /\ answers = {}
      /\ epoch = 0 /\ pendingOpen = 0 /\ pendingPassword = 0 /\ sequence = 0
      /\ opens = [i \in OpenIndex |-> Idle]
  BY DEF Init, PageInit, RequestsInit
<1>2. \A i \in OpenIndex : /\ opens[i].pc = "idle" /\ opens[i].epoch = 0
                           /\ opens[i].id.session = 0 /\ opens[i].id.seq = 0
  BY <1>1 DEF Idle
<1>3. OpensOwn /\ PendingOwn /\ StaleCovered
  BY <1>1, <1>2 DEF OpensOwn, PendingOwn, StaleCovered, Held, Later, Committing
<1>4. OneAwaited /\ WireTrue /\ TasksTrue /\ AnswersTrue
  BY <1>1 DEF OneAwaited, OneOf, Apart, WireTrue, TasksTrue, AnswersTrue
<1>5. LastTrue /\ AbandonedIsCancelled
  BY <1>1 DEF LastTrue, AbandonedIsCancelled, Owned
<1> QED BY <1>3, <1>4, <1>5 DEF CancelInvariant

LEMMA NextKeepsCancel ==
  ASSUME PageTyped, FileBrowserTypeOK', FieldsTyped', ActiveAboveWatermark, ActiveAboveWatermark',
         SessionInvariant, CancelInvariant, [Next]_vars
  PROVE  CancelInvariant'
<1>0. FileBrowserTypeOK
  BY DEF PageTyped
<1>1. CASE UNCHANGED vars
  BY <1>1, QuietKeepsCancel DEF vars, pageVars
<1>2. CASE Backend
  BY <1>0, <1>2, BackendKeepsCancel
<1>3. CASE Browse
  BY <1>3, BrowseKeepsCancel
<1>4. ASSUME NEW a \in answers, SessionBegun(a)
      PROVE  CancelInvariant'
  BY <1>0, <1>4, SessionBegunKeepsCancel
<1>5. ASSUME NEW i \in OpenIndex, Prepare(i) \/ Retry(i)
      PROVE  CancelInvariant'
  BY <1>0, <1>5, PrepareKeepsCancel, RetryKeepsCancel
<1>6. ASSUME NEW i \in OpenIndex, OpenAnswered(i)
      PROVE  CancelInvariant'
  BY <1>0, <1>6, SupersedeKeepsCancel, PrepareAnsweredKeepsCancel, UnlockAnsweredKeepsCancel,
     CommitAnsweredKeepsCancel DEF OpenAnswered
<1>7. ASSUME NEW i \in OpenIndex, NEW archive \in Archives, OpenArchive(i, archive)
      PROVE  CancelInvariant'
  BY <1>0, <1>7, OpenArchiveKeepsCancel
<1>8. ASSUME NEW i \in OpenIndex, SubmitPassword(i)
      PROVE  CancelInvariant'
  BY <1>0, <1>8, SubmitKeepsCancel
<1>9. CASE Reload
  BY <1>0, <1>9, ReloadKeepsCancel
<1> QED BY <1>1, <1>2, <1>3, <1>4, <1>5, <1>6, <1>7, <1>8, <1>9 DEF Next, Continue

\* A request of the page that occupies the registry is that of the open the user
\* waits for, is being committed, or its cancel is on its way: an open the user left,
\* in whatever order its commands and answers arrive, is not active for ever.
THEOREM AbandonedAreCancelled == Spec => []AbandonedIsCancelled
<1>1. PageTyped => FileBrowserTypeOK
  BY DEF PageTyped
<1>2. CancelInvariant => AbandonedIsCancelled
  BY DEF CancelInvariant
<1>3. PageTyped /\ FileBrowserTypeOK' /\ FieldsTyped' /\ SessionInvariant
        /\ ActiveAboveWatermark /\ ActiveAboveWatermark'
        /\ CancelInvariant /\ [Next]_vars => CancelInvariant'
  BY NextKeepsCancel
<1> QED BY <1>1, <1>2, <1>3, StartCancels, RequestFields, Typed, SessionKept,
           CancelledNeverActive, PTL DEF Spec
=============================================================================
