------------------------- MODULE ThumbnailScheduler -------------------------
(***************************************************************************)
(* The thumbnail generation scheduler                                      *)
(* (src-tauri/src/thumbnail/scheduler.rs): one tokio actor that owns a     *)
(* pending queue, a deduplication table of the jobs in flight and the      *)
(* accounts of running workers and of their estimated memory.              *)
(*                                                                         *)
(* Commands reach the actor through an unbounded FIFO mailbox.  Their      *)
(* senders (IPC handlers, some on blocking threads) are not ordered with   *)
(* respect to each other, so a command is modelled at the moment the actor *)
(* handles it, in any order.  A worker's Completed message is the one      *)
(* message the system sends to itself: finishing and being handled are     *)
(* two steps, between which any other command may be handled.              *)
(*                                                                         *)
(* After every command the actor runs try_schedule, a loop; `pc' is        *)
(* "schedule" while that loop runs, and no command is handled meanwhile.   *)
(***************************************************************************)
EXTENDS Integers, FiniteSets, FiniteSetsExt

CONSTANTS
  Keys,        \* cache keys a thumbnail may be requested under
  Waiters,     \* oneshot receivers, reused once their answer is consumed
  Priorities,  \* the priorities that are submitted
  EstMemory,   \* estimated_memory_mb of the job behind each key
  Limits,      \* worker limits the settings page may push
  Budgets,     \* memory budgets the settings page may push
  MaxEpoch     \* bound: the largest epoch the frontend allocates

Visible == 0
Idle    == 3

\* Worker limits are clamped to [1, 16] where the command enters.
ASSUME ConstantsAssumption ==
  /\ IsFiniteSet(Keys)
  /\ Priorities \subseteq Visible .. Idle
  /\ EstMemory \in [Keys -> Nat]
  /\ Limits \subseteq 1 .. 16
  /\ Budgets \subseteq Nat
  /\ MaxEpoch \in Nat

VARIABLES
  pending,         \* the queued tasks
  before,          \* <<j, k>>: pending key j was enqueued before pending key k
  inflight,        \* dedup table: key -> entry of the running job
  workers,         \* jobs on the blocking pool, until their Completed is handled
  running_count,
  running_memory,
  worker_limit,
  memory_budget,
  fast_scrolling,
  current_epoch,
  max_task_epoch,
  announced,       \* the epochs the frontend has announced so far
  pc,              \* "recv" between commands, "schedule" inside try_schedule
  waiter           \* live receiver -> what it asked for and its answer

queueVars  == <<pending, before>>
jobVars    == <<inflight, workers, running_count, running_memory>>
configVars == <<worker_limit, memory_budget, fast_scrolling>>
epochVars  == <<current_epoch, max_task_epoch, announced>>
vars == <<queueVars, jobVars, configVars, epochVars, pc, waiter>>

-----------------------------------------------------------------------------
\* cancel_all steps one past the largest epoch a task was submitted with.
Epochs == 0 .. MaxEpoch + 1

\* What the worker function returned; "none" while it runs.  "cancelled" is
\* ThumbnailError::Cancelled, "failed" every other error and a panic.
Results == {"none", "ok", "failed", "cancelled"}

\* "cancelled" is an Outcome::Failed that carries ThumbnailError::Cancelled.
Answers == {"none", "cached", "failed", "cancelled", "stale"}

\* `aged' stands for: enqueued_at is older than starvation_threshold.
Task ==
  [cache_key : Keys, priority : Visible .. Idle, epoch : Epochs,
   subscribers : SUBSET Waiters, aged : BOOLEAN]

Entry ==
  [epoch : Epochs, subscribers : SUBSET Waiters, abort : BOOLEAN,
   stale_on_completion : BOOLEAN]

Worker == [cache_key : Keys, epoch : Epochs, result : Results]

Receiver == [key : Keys, answer : Answers]

PendingKeys == {p.cache_key : p \in pending}

\* saturating_sub
Minus(a, b) == IF a > b THEN a - b ELSE 0

\* The function f with its value at x set to y, x being in its domain or not.
Put(f, x, y) == [z \in DOMAIN f \cup {x} |-> IF z = x THEN y ELSE f[z]]
Without(f, x) == [z \in DOMAIN f \ {x} |-> f[z]]

\* Send the answer a to the receivers in S.
Send(S, a) ==
  waiter' = [w \in DOMAIN waiter |->
               IF w \in S THEN [waiter[w] EXCEPT !.answer = a] ELSE waiter[w]]

\* Take the tasks in T out of the queue; the others keep their order.
Dequeue(T) ==
  /\ pending' = pending \ T
  /\ before' = {b \in before : \A p \in T : p.cache_key \notin {b[1], b[2]}}

Drain(T) ==
  /\ Dequeue(T)
  /\ Send(UNION {p.subscribers : p \in T}, "stale")

\* Set the cooperative cancellation flag of the jobs under the keys K.
Abort(K, stale) ==
  inflight' = [k \in DOMAIN inflight |->
                 IF k \in K
                   THEN [inflight[k] EXCEPT !.abort = TRUE,
                                            !.stale_on_completion = @ \/ stale]
                   ELSE inflight[k]]

Init ==
  /\ pending = {} /\ before = {}
  /\ inflight = [k \in {} |-> {}] /\ workers = {}
  /\ running_count = 0 /\ running_memory = 0
  /\ worker_limit \in Limits /\ memory_budget \in Budgets
  /\ fast_scrolling = FALSE
  /\ current_epoch = 0 /\ max_task_epoch = 0 /\ announced = {}
  /\ pc = "recv"
  /\ waiter = [w \in {} |-> {}]

-----------------------------------------------------------------------------
(***************************************************************************)
(* The commands.                                                           *)
(***************************************************************************)

\* A receiver is created by submit; the frontend submits under an epoch only
\* once the announcement of that epoch has returned.
Request(w, k, e) ==
  /\ pc = "recv" /\ pc' = "schedule"
  /\ w \notin DOMAIN waiter
  /\ e \in announced
  /\ waiter' = Put(waiter, w, [key |-> k, answer |-> "none"])

\* handle_submit, the key is already being generated.
JoinInFlight(w, k, e) ==
  /\ k \in DOMAIN inflight
  /\ Request(w, k, e)
  /\ inflight' = [inflight EXCEPT ![k].subscribers = @ \cup {w}]
  /\ UNCHANGED <<queueVars, workers, running_count, running_memory, configVars,
                 epochVars>>

\* Mutant of Promote: a repeated submission overwrites the priority.
PromoteOverwrites(p, pr) == pr

\* handle_submit, the key is already queued: the task keeps its epoch, its job
\* and its place, and its priority only rises.
Promote(p, pr) == IF pr < p.priority THEN pr ELSE p.priority

\* Mutant of Join: the new receiver replaces the ones attached before.
JoinReplaces(p, w, pr) ==
  [p EXCEPT !.priority = Promote(p, pr), !.subscribers = {w}]

Join(p, w, pr) ==
  [p EXCEPT !.priority = Promote(p, pr), !.subscribers = @ \cup {w}]

JoinPending(w, k, pr, e) ==
  /\ k \notin DOMAIN inflight
  /\ Request(w, k, e)
  /\ \E p \in pending : /\ p.cache_key = k
                        /\ pending' = (pending \ {p}) \cup {Join(p, w, pr)}
  /\ UNCHANGED <<before, jobVars, configVars, epochVars>>

\* Mutant of Unknown: only the queue is searched for the key.
UnknownToQueue(k) == k \notin PendingKeys

Unknown(k) == k \notin DOMAIN inflight \cup PendingKeys

\* handle_submit, a new task at the end of the queue.
Enqueue(w, k, pr, e) ==
  /\ Unknown(k)
  /\ Request(w, k, e)
  /\ max_task_epoch' = IF e > max_task_epoch THEN e ELSE max_task_epoch
  /\ pending' = pending \cup
                {[cache_key |-> k, priority |-> pr, epoch |-> e,
                  subscribers |-> {w}, aged |-> FALSE]}
  /\ before' = before \cup {<<j, k>> : j \in PendingKeys}
  /\ UNCHANGED <<jobVars, configVars, current_epoch, announced>>

\* handle_new_epoch: an announcement that does not advance is ignored.
NewEpoch(e) ==
  /\ pc = "recv" /\ pc' = "schedule"
  /\ announced' = announced \cup {e}
  /\ IF e <= current_epoch
       THEN UNCHANGED <<queueVars, inflight, waiter, current_epoch>>
       ELSE /\ current_epoch' = e
            /\ Drain({p \in pending : p.epoch < e})
            /\ Abort({k \in DOMAIN inflight : inflight[k].epoch < e}, FALSE)
  /\ UNCHANGED <<workers, running_count, running_memory, configVars,
                 max_task_epoch>>

\* Mutant of PastAllTasks: the bump starts from the current epoch.
PastCurrent == current_epoch + 1

\* Mutant of PastAllTasks: the bump stops at the largest submitted epoch.
LastTask == max_task_epoch

PastAllTasks == max_task_epoch + 1

\* handle_cancel_all, sent when the cache is cleared or moved.
CancelAll ==
  /\ pc = "recv" /\ pc' = "schedule"
  /\ current_epoch' = PastAllTasks
  /\ Drain(pending)
  /\ Abort(DOMAIN inflight, FALSE)
  /\ UNCHANGED <<workers, running_count, running_memory, configVars,
                 max_task_epoch, announced>>

\* Mutant of AbortMarked: the jobs in flight are not marked stale_on_completion.
AbortUnmarked(K) == Abort(DOMAIN inflight \cap K, FALSE)

AbortMarked(K) == Abort(DOMAIN inflight \cap K, TRUE)

\* handle_cancel_keys, sent when an image turns out to be usable as it is.
CancelKeys(K) ==
  /\ pc = "recv" /\ pc' = "schedule"
  /\ Drain({p \in pending : p.cache_key \in K})
  /\ AbortMarked(K)
  /\ UNCHANGED <<workers, running_count, running_memory, configVars, epochVars>>

\* Mutant of SetConfig: no scheduling round follows.
SetConfigUnscheduled(limit, budget) ==
  /\ pc = "recv" /\ UNCHANGED pc
  /\ worker_limit' = limit /\ memory_budget' = budget
  /\ UNCHANGED <<queueVars, jobVars, fast_scrolling, epochVars, waiter>>

SetConfig(limit, budget) ==
  /\ pc = "recv" /\ pc' = "schedule"
  /\ worker_limit' = limit /\ memory_budget' = budget
  /\ UNCHANGED <<queueVars, jobVars, fast_scrolling, epochVars, waiter>>

SetFastScrolling(fast) ==
  /\ pc = "recv" /\ pc' = "schedule"
  /\ fast_scrolling' = fast
  /\ UNCHANGED <<queueVars, jobVars, worker_limit, memory_budget, epochVars,
                 waiter>>

\* handle_completed: the answer of the job, unless it was superseded or
\* cancelled meanwhile.
Effective(entry, wk) ==
  CASE entry.stale_on_completion \/ wk.epoch < current_epoch -> "stale"
    [] OTHER -> IF wk.result = "ok" THEN "cached" ELSE wk.result

\* Mutant of Release: a superseded job returns before it gives its memory back.
ReleaseUnlessStale(wk) ==
  /\ running_count' = Minus(running_count, 1)
  /\ running_memory' = IF wk.epoch < current_epoch THEN running_memory
                       ELSE Minus(running_memory, EstMemory[wk.cache_key])

Release(wk) ==
  /\ running_count' = Minus(running_count, 1)
  /\ running_memory' = Minus(running_memory, EstMemory[wk.cache_key])

\* Mutant of Reported: a panicking worker takes its Completed message with it.
ReportedUnlessFailed(wk) == wk.result \in {"ok", "cancelled"}

Reported(wk) == wk.result # "none"

Completed(wk) ==
  /\ pc = "recv" /\ pc' = "schedule"
  /\ Reported(wk)
  /\ workers' = workers \ {wk}
  /\ IF wk.cache_key \in DOMAIN inflight
       THEN LET entry == inflight[wk.cache_key] IN
            /\ inflight' = Without(inflight, wk.cache_key)
            /\ Release(wk)
            /\ Send(entry.subscribers, Effective(entry, wk))
       ELSE UNCHANGED <<inflight, running_count, running_memory, waiter>>
  /\ UNCHANGED <<queueVars, configVars, epochVars>>

-----------------------------------------------------------------------------
(***************************************************************************)
(* try_schedule, one iteration at a time.                                  *)
(***************************************************************************)
CanAdmit(p) ==
  /\ ~ (fast_scrolling /\ p.priority = Idle)
  /\ \/ running_memory + EstMemory[p.cache_key] <= memory_budget
     \/ running_count = 0

Earlier(p, q) == <<p.cache_key, q.cache_key>> \in before

\* Mutant of Starved: no aging.
StarvedNever == {}

\* The oldest of the tasks that have waited too long.
Starved ==
  {p \in pending : p.aged /\ \A q \in pending \ {p} : q.aged => Earlier(p, q)}

Precedes(p, q) ==
  \/ p.priority < q.priority
  \/ p.priority = q.priority /\ Earlier(p, q)

BestAdmissible ==
  {p \in pending :
     /\ CanAdmit(p)
     /\ \A q \in pending \ {p} : CanAdmit(q) => Precedes(p, q)}

\* find_admissible: at most one task.
FindAdmissible ==
  LET starved == {p \in Starved : CanAdmit(p)}
  IN  IF starved # {} THEN starved ELSE BestAdmissible

Start(p) ==
  /\ pc = "schedule"
  /\ running_count < worker_limit
  /\ p \in FindAdmissible
  /\ Dequeue({p})
  /\ inflight' = Put(inflight, p.cache_key,
                     [epoch |-> p.epoch, subscribers |-> p.subscribers,
                      abort |-> FALSE, stale_on_completion |-> FALSE])
  /\ running_count' = running_count + 1
  /\ running_memory' = running_memory + EstMemory[p.cache_key]
  /\ workers' = workers \cup
                {[cache_key |-> p.cache_key, epoch |-> p.epoch, result |-> "none"]}
  /\ UNCHANGED <<configVars, epochVars, pc, waiter>>

LeaveSchedule ==
  /\ pc = "schedule" /\ pc' = "recv"
  /\ running_count >= worker_limit \/ FindAdmissible = {}
  /\ UNCHANGED <<queueVars, jobVars, configVars, epochVars, waiter>>

-----------------------------------------------------------------------------
(***************************************************************************)
(* What happens outside the actor.                                         *)
(***************************************************************************)

\* The worker function returns; it gives up with Cancelled only where it
\* finds its abort flag set, and it may have passed its last check before.
WorkerReturns(wk, r) ==
  /\ wk.result = "none"
  /\ r \in {"ok", "failed", "cancelled"}
  /\ r = "cancelled" => inflight[wk.cache_key].abort
  /\ workers' = (workers \ {wk}) \cup {[wk EXCEPT !.result = r]}
  /\ UNCHANGED <<queueVars, inflight, running_count, running_memory, configVars,
                 epochVars, pc, waiter>>

\* starvation_threshold elapses for the tasks in the order they were queued.
Age(p) ==
  /\ ~ p.aged
  /\ \A q \in pending : Earlier(q, p) => q.aged
  /\ pending' = (pending \ {p}) \cup {[p EXCEPT !.aged = TRUE]}
  /\ UNCHANGED <<before, jobVars, configVars, epochVars, pc, waiter>>

\* The completion task takes its answer; the receiver is gone.
Receive(w) ==
  /\ waiter[w].answer # "none"
  /\ waiter' = Without(waiter, w)
  /\ UNCHANGED <<queueVars, jobVars, configVars, epochVars, pc>>

-----------------------------------------------------------------------------
Submit ==
  \E w \in Waiters, k \in Keys, e \in 1 .. MaxEpoch :
    \/ JoinInFlight(w, k, e)
    \/ \E pr \in Priorities : JoinPending(w, k, pr, e) \/ Enqueue(w, k, pr, e)

Finish(k) == \E wk \in workers, r \in Results : wk.cache_key = k /\ WorkerReturns(wk, r)
Handle(k) == \E wk \in workers : wk.cache_key = k /\ Completed(wk)

TrySchedule == LeaveSchedule \/ \E p \in pending : Start(p)

Next ==
  \/ Submit
  \/ \E e \in 1 .. MaxEpoch : NewEpoch(e)
  \/ CancelAll
  \/ \E K \in SUBSET Keys \ {{}} : CancelKeys(K)
  \/ \E limit \in Limits, budget \in Budgets : SetConfig(limit, budget)
  \/ \E fast \in BOOLEAN : SetFastScrolling(fast)
  \/ TrySchedule
  \/ \E k \in Keys : Finish(k) \/ Handle(k)
  \/ \E p \in pending : Age(p)
  \/ \E w \in DOMAIN waiter : Receive(w)

Spec == Init /\ [][Next]_vars

(***************************************************************************)
(* Fairness: the actor loop runs, every job on the blocking pool returns   *)
(* and its Completed message, being queued, is handled; time passes.       *)
(* Handling Completed competes with other commands only for the order in   *)
(* the mailbox, which is FIFO: strong fairness, since `pc' leaves and      *)
(* re-enters "recv" for ever.  No fairness on what the user or the         *)
(* frontend does.                                                          *)
(***************************************************************************)
Fairness ==
  /\ WF_vars(TrySchedule)
  /\ \A k \in Keys : WF_vars(Finish(k)) /\ SF_vars(Handle(k))
  /\ WF_vars(\E p \in pending : Age(p))

FairSpec == Spec /\ Fairness

-----------------------------------------------------------------------------
(***************************************************************************)
(* Properties.                                                             *)
(***************************************************************************)

\* The actor's fields hold what their Rust types and the code's use of them
\* promise.
TypeOK ==
  /\ pending \subseteq Task
  /\ before \subseteq PendingKeys \X PendingKeys
  /\ DOMAIN inflight \subseteq Keys
  /\ inflight \in [DOMAIN inflight -> Entry]
  /\ workers \subseteq Worker
  /\ running_count \in Nat /\ running_memory \in Nat
  /\ worker_limit \in Limits /\ memory_budget \in Budgets
  /\ fast_scrolling \in BOOLEAN
  /\ current_epoch \in Epochs /\ max_task_epoch \in 0 .. MaxEpoch
  /\ announced \subseteq 1 .. MaxEpoch
  /\ pc \in {"recv", "schedule"}
  /\ DOMAIN waiter \subseteq Waiters
  /\ waiter \in [DOMAIN waiter -> Receiver]

\* A key is generated by at most one worker, every worker has its entry in the
\* dedup table under its own epoch, and a key is queued once and never while it
\* is generated: inserting into the table (try_schedule) never overwrites an
\* entry and the waiters it holds.
OneJobPerKey ==
  /\ \A v, u \in workers : v.cache_key = u.cache_key => v = u
  /\ \A k \in Keys : k \in DOMAIN inflight <=> \E v \in workers : v.cache_key = k
  /\ \A v \in workers : inflight[v.cache_key].epoch = v.epoch
  /\ \A p, q \in pending : p.cache_key = q.cache_key => p = q
  /\ PendingKeys \cap DOMAIN inflight = {}

\* The memory each worker was admitted with.
Charged == [v \in workers |-> EstMemory[v.cache_key]]

\* running_count and running_memory are the number of workers and the memory
\* they were admitted with, whatever was cancelled in between: no slot leaks.
AccountsExact ==
  /\ running_count = Cardinality(workers)
  /\ running_memory = SumFunction(Charged)

\* The keys of the tasks that will answer the receiver w.
Answering(w) ==
  {p.cache_key : p \in {q \in pending : w \in q.subscribers}} \cup
  {k \in DOMAIN inflight : w \in inflight[k].subscribers}

\* A receiver that waits is held by the task of the key it asked for, queued or
\* in flight, and by no other; one that was answered is held by none: no answer
\* is lost and none is sent twice on a oneshot channel.
NoWaiterLost ==
  \A w \in Waiters :
    Answering(w) = IF w \in DOMAIN waiter /\ waiter[w].answer = "none"
                     THEN {waiter[w].key} ELSE {}

\* Between two commands no admissible task is left waiting beside a free
\* worker: every event that frees a slot, memory or the idle ban, or drops a
\* task that stood in front, is followed by a complete scheduling round.
WorkConserving ==
  pc = "recv" =>
    \/ running_count >= worker_limit
    \/ \A p \in pending : ~ CanAdmit(p)

\* A job told to give up is answered Stale, whatever happens to the epochs
\* (cancel_all may set current_epoch back) before its Completed is handled.
AbortedEndsStale ==
  \A k \in DOMAIN inflight :
    inflight[k].abort =>
      inflight[k].stale_on_completion \/ inflight[k].epoch < current_epoch

\* So nobody is told that a generation failed because it was cancelled: a failed
\* event would overwrite the state the card has moved on to.
CancelledNeverFails ==
  \A w \in DOMAIN waiter : waiter[w].answer # "cancelled"

\* Whoever asked for a thumbnail is told once what became of it: one job to a
\* key, every receiver held by the task of its key, and a cancellation told as
\* Stale (handle_submit, handle_cancel_keys, handle_completed).
EveryWaiterTold ==
  OneJobPerKey /\ NoWaiterLost /\ AbortedEndsStale /\ CancelledNeverFails

\* A repeated submission neither costs a queued task its place nor its
\* priority: while it stays queued both only improve.
PlaceKept ==
  [][\A p \in pending, q \in pending' :
       p.cache_key = q.cache_key =>
         /\ q.priority <= p.priority
         /\ p.aged => q.aged
         /\ \A r \in pending :
              /\ r.cache_key \in {s.cache_key : s \in pending'}
              /\ <<p.cache_key, r.cache_key>> \in before
              => <<q.cache_key, r.cache_key>> \in before']_vars

\* The queue serves what it holds, in its order: no worker idles beside an
\* admissible task, and resubmitting costs no task its place (handle_submit,
\* try_schedule).
QueueServed == []WorkConserving /\ PlaceKept

\* Aging works: a task that has waited past the threshold does not stay in the
\* queue for ever, however many tasks of higher priority keep arriving (idle
\* tasks may be held back by fast scrolling).
AgedTaskLeaves ==
  \A k \in Keys :
    (\E p \in pending : p.cache_key = k /\ p.aged)
      ~> (k \notin PendingKeys \/ fast_scrolling)

\* The abstract service the actor implements: who waits for which key, who is
\* answered, and for which keys a worker runs.
asked    == [w \in {v \in DOMAIN waiter : waiter[v].answer = "none"} |-> waiter[w].key]
answered == {w \in DOMAIN waiter : waiter[w].answer # "none"}
running  == {v.cache_key : v \in workers}

Flight == INSTANCE SingleFlight

\* Every step of the actor, of its workers and of its callers is a step of that
\* service or invisible to it: deduplication, cancellation and epoch changes
\* neither start a second job for a key nor leave a waiter of a finished job
\* without its answer.
ImplementsSingleFlight == Flight!Spec

\* A job that was started ends and answers everybody who joined it, also when
\* it fails or is told to give up.
StartedJobsEnd == Flight!FairSpec

\* Tasks get on: an aged one leaves the queue, a started one ends (run, Aging of
\* find_admissible, the completion of try_schedule).
TasksGetOn == AgedTaskLeaves /\ StartedJobsEnd

=============================================================================
