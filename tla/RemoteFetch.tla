----------------------------- MODULE RemoteFetch -----------------------------
(* The actor that fetches images for thumbnails from remote sources          *)
(* (src/src-tauri/src/thumbnail/fetch.rs): one fetch at a time of a key,     *)
(* permits and a budget of bytes awaited together, and what makes a fetch    *)
(* moot: an epoch that has passed, a key that was cancelled.                 *)
(*                                                                           *)
(* Tokio's semaphores serve in the order they were asked: who holds permits  *)
(* is always first in the line of those who want or hold them.               *)
EXTENDS Integers, SequencesExt, Maps

CONSTANTS
    Keys,         \* cache keys
    FileSize,     \* the bytes the listing says a key's image has
    Concurrency,  \* permits
    Budget,       \* byte_budget
    MaxEpoch,     \* epochs (a bound)
    MaxRequests,  \* requests (a bound)
    MaxCancels    \* calls of cancel_keys (a bound)

VARIABLES
    epoch,      \* the actor's epoch
    mailbox,    \* tx: requests not yet received
    inflight,   \* keys being fetched
    cancelled,  \* key -> the epoch it was cancelled in
    permits,    \* tasks that hold or await a permit
    budget,     \* tasks that hold or await bytes
    tasks,      \* number of a request -> [key, epoch, phase, late]
    sent,       \* requests and cancellations so far
    owed        \* ghost: <<key, epoch>> taken in and owed an answer

vars == <<epoch, mailbox, inflight, cancelled, permits, budget, tasks, sent, owed>>

------------------------------------------------------------------------------
But(line, t) == SelectSeq(line, LAMBDA u : u # t)

BytesUpTo(t) ==
    LET n == CHOOSE i \in DOMAIN budget : budget[i] = t
    IN FoldLeft(LAMBDA sum, u : sum + FileSize[tasks[u].key], 0, SubSeq(budget, 1, n))

HoldsPermit(t) == \E i \in DOMAIN permits : permits[i] = t /\ i <= Concurrency
HoldsBytes(t) == BytesUpTo(t) <= Budget

Granted(t) == HoldsPermit(t) /\ HoldsBytes(t)

IsCancelled(t) == tasks[t].key \in DOMAIN cancelled /\ cancelled[tasks[t].key] = tasks[t].epoch

At(t, phase) == t \in DOMAIN tasks /\ tasks[t].phase = phase
Goes(t, phase) == tasks' = [tasks EXCEPT ![t].phase = phase]
Ends(t) == tasks' = Without(tasks, {t})
Releases(t) == permits' = But(permits, t) /\ budget' = But(budget, t)
Unlists(t) == inflight' = inflight \ {tasks[t].key}
Tells(t) == owed' = owed \ {<<tasks[t].key, tasks[t].epoch>>}
Lines == UNCHANGED <<permits, budget>>
Callers == UNCHANGED <<epoch, mailbox, sent>>

------------------------------------------------------------------------------
(* The calls: they send, or write what the tasks read.                       *)
TrySubmit(key, e) ==
    /\ sent.requests < MaxRequests
    /\ mailbox' = Append(mailbox, [key |-> key, epoch |-> e])
    /\ sent' = [sent EXCEPT !.requests = @ + 1]
    /\ UNCHANGED <<epoch, inflight, cancelled, permits, budget, tasks, owed>>

NewEpoch(e) ==
    /\ epoch' = IF e > epoch THEN e ELSE epoch
    /\ cancelled' = IF e > epoch THEN Without(cancelled, {k \in DOMAIN cancelled : cancelled[k] < e}) ELSE cancelled
    /\ UNCHANGED <<mailbox, inflight, permits, budget, tasks, sent, owed>>

CancelKeys(key, e) ==
    /\ sent.cancels < MaxCancels
    /\ cancelled' = Put(cancelled, key, e)
    /\ sent' = [sent EXCEPT !.cancels = @ + 1]
    /\ owed' = owed \ {<<key, e>>}
    /\ UNCHANGED <<epoch, mailbox, inflight, permits, budget, tasks>>

(* The actor's loop: a request that is not of the epoch is dropped, and one  *)
(* whose key is being fetched, in whatever epoch that began. Nothing is owed *)
(* to one that a fetch hides which is older or on its way out, nor to one    *)
(* that finds a cancellation nobody has consumed.                            *)
Receive ==
    LET req == Head(mailbox)
        late == req.key \in DOMAIN cancelled /\ cancelled[req.key] = req.epoch
        hidden == \E t \in DOMAIN tasks : /\ tasks[t].key = req.key
                                         /\ (tasks[t].epoch < req.epoch \/ tasks[t].phase = "withdraw")
    IN /\ mailbox # <<>>
       /\ mailbox' = Tail(mailbox)
       /\ IF req.epoch = epoch /\ req.key \notin inflight
          THEN /\ inflight' = inflight \cup {req.key}
               /\ tasks' = Put(tasks, sent.requests - Len(mailbox) + 1,
                               [key |-> req.key, epoch |-> req.epoch, phase |-> "start", late |-> late])
          ELSE UNCHANGED <<inflight, tasks>>
       /\ owed' = IF req.epoch = epoch /\ ~late /\ ~(hidden /\ req.key \in inflight)
                  THEN owed \cup {<<req.key, req.epoch>>} ELSE owed
       /\ UNCHANGED <<epoch, cancelled, permits, budget, sent>>

------------------------------------------------------------------------------
(* A task. What can never fit the budget fails at once; the others get in    *)
(* both lines, one after the other.                                          *)
TooLarge(t) ==
    /\ At(t, "start") /\ FileSize[tasks[t].key] > Budget
    /\ Unlists(t) /\ Tells(t) /\ Ends(t)
    /\ UNCHANGED cancelled /\ Lines /\ Callers

AwaitPermit(t) ==
    /\ At(t, "start") /\ FileSize[tasks[t].key] <= Budget
    /\ permits' = Append(permits, t)
    /\ Goes(t, "permit")
    /\ UNCHANGED <<inflight, cancelled, budget, owed>> /\ Callers

AwaitBytes(t) ==
    /\ At(t, "permit")
    /\ budget' = Append(budget, t)
    /\ Goes(t, "wait")
    /\ UNCHANGED <<inflight, cancelled, permits, owed>> /\ Callers

(* Mutant of CheckEpoch: a fetch that is moot leaves its key behind.         *)
CheckEpochKeepsKey(t) ==
    /\ At(t, "wait") /\ Granted(t)
    /\ IF epoch # tasks[t].epoch
       THEN Ends(t) /\ Releases(t) /\ UNCHANGED inflight
       ELSE Goes(t, "checkpoint") /\ UNCHANGED <<inflight, permits, budget>>
    /\ UNCHANGED <<cancelled, owed>> /\ Callers

CheckEpoch(t) ==
    /\ At(t, "wait") /\ Granted(t)
    /\ IF epoch # tasks[t].epoch
       THEN Unlists(t) /\ Ends(t) /\ Releases(t)
       ELSE Goes(t, "checkpoint") /\ UNCHANGED <<inflight, permits, budget>>
    /\ UNCHANGED <<cancelled, owed>> /\ Callers

Checkpoint(t) ==
    /\ At(t, "checkpoint")
    /\ Goes(t, IF IsCancelled(t) THEN "withdraw" ELSE "fetch")
    /\ UNCHANGED <<inflight, cancelled, owed>> /\ Lines /\ Callers

Withdraw(t) ==
    /\ At(t, "withdraw")
    /\ Unlists(t) /\ Goes(t, "consume")
    /\ UNCHANGED <<cancelled, owed>> /\ Lines /\ Callers

Consumes(t) == cancelled' = IF IsCancelled(t) THEN Without(cancelled, {tasks[t].key}) ELSE cancelled

Consume(t) ==
    /\ At(t, "consume")
    /\ Consumes(t) /\ Ends(t) /\ Releases(t)
    /\ UNCHANGED <<inflight, owed>> /\ Callers

(* The fetch ends, well or not; the permits go back first.                   *)
Fetched(t) ==
    /\ At(t, "fetch")
    /\ Releases(t) /\ Goes(t, "unlist")
    /\ UNCHANGED <<inflight, cancelled, owed>> /\ Callers

Unlist(t) ==
    /\ At(t, "unlist")
    /\ Unlists(t) /\ Goes(t, "result")
    /\ UNCHANGED <<cancelled, owed>> /\ Lines /\ Callers

(* A result whose key was cancelled is dropped, its failure too.             *)
Result(t) ==
    /\ At(t, "result")
    /\ IF IsCancelled(t) THEN Consumes(t) /\ Ends(t) ELSE Goes(t, "tell") /\ UNCHANGED cancelled
    /\ UNCHANGED <<inflight, owed>> /\ Lines /\ Callers

(* on_fetched or on_failed, in the epoch of the request.                     *)
Tell(t) ==
    /\ At(t, "tell")
    /\ IF epoch = tasks[t].epoch THEN Tells(t) ELSE UNCHANGED owed
    /\ Ends(t)
    /\ UNCHANGED <<inflight, cancelled>> /\ Lines /\ Callers

------------------------------------------------------------------------------
Init == /\ epoch = 0
        /\ mailbox = <<>> /\ inflight = {} /\ cancelled = EmptyMap
        /\ permits = <<>> /\ budget = <<>> /\ tasks = EmptyMap
        /\ sent = [requests |-> 0, cancels |-> 0]
        /\ owed = {}

Moves(t) == \/ TooLarge(t) \/ AwaitPermit(t) \/ AwaitBytes(t) \/ CheckEpoch(t) \/ Checkpoint(t)
            \/ Withdraw(t) \/ Consume(t) \/ Fetched(t) \/ Unlist(t) \/ Result(t) \/ Tell(t)

Next == \/ \E key \in Keys, e \in 0 .. MaxEpoch : TrySubmit(key, e) \/ CancelKeys(key, e)
        \/ \E e \in 1 .. MaxEpoch : NewEpoch(e)
        \/ Receive
        \/ \E t \in DOMAIN tasks : Moves(t)

(* The runtime runs the actor and its tasks; a fetch is a read of a source,  *)
(* which ends or runs into its time limit.                                   *)
Spec == /\ Init /\ [][Next]_vars /\ WF_vars(Receive)
        /\ \A t \in 1 .. MaxRequests : WF_vars(Moves(t))

------------------------------------------------------------------------------
(* Every permit is with a task that waits for bytes, and the bytes are with  *)
(* tasks that wait for a permit: the two lines were entered in opposite      *)
(* orders (tokio::join!), and nobody moves any more.                         *)
Crossed == /\ Len(permits) >= Concurrency
           /\ \A i \in 1 .. Concurrency : At(permits[i], "wait") /\ ~HoldsBytes(permits[i])

(* Who is owed an answer gets one, or his epoch passes: no fetch that is     *)
(* moot, failed or cancelled leaves something behind that keeps a key from   *)
(* being fetched (the ways out of the task, spawn). The two lines crossing   *)
(* is the one way to wait for ever.                                          *)
Waits(key) == <<key, epoch>> \in owed
RequestsServed == \A key \in Keys : Waits(key) ~> ~Waits(key) \/ Crossed

(* What the program would have to promise, and does not where two images     *)
(* exceed the budget together.                                               *)
AlwaysServed == \A key \in Keys : Waits(key) ~> ~Waits(key)

(* What the comments on consume_cancelled_at promise: a cancellation hits    *)
(* nobody who asks after it.                                                 *)
LaterRequestsSpared == \A t \in DOMAIN tasks : tasks[t].phase = "withdraw" => ~tasks[t].late
=============================================================================
