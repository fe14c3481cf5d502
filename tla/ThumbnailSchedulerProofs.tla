---------------------- MODULE ThumbnailSchedulerProofs ----------------------
(***************************************************************************)
(* Proofs about ThumbnailScheduler, for any keys, receivers, priorities,   *)
(* memory estimates, limits, budgets and epochs.                           *)
(***************************************************************************)
EXTENDS ThumbnailScheduler, SumLemmas

-----------------------------------------------------------------------------
(***************************************************************************)
(* The helpers.                                                            *)
(***************************************************************************)

\* Sending an answer keeps the receivers and what they asked for.
LEMMA SendKeeps ==
  ASSUME TypeOK, NEW S, NEW a \in Answers, Send(S, a)
  PROVE  /\ DOMAIN waiter' = DOMAIN waiter
         /\ waiter' \in [DOMAIN waiter' -> Receiver]
         /\ \A w \in DOMAIN waiter :
              /\ waiter'[w].key = waiter[w].key
              /\ waiter'[w].answer = IF w \in S THEN a ELSE waiter[w].answer
<1>1. DOMAIN waiter' = DOMAIN waiter
  BY DEF Send
<1>2. ASSUME NEW w \in DOMAIN waiter
      PROVE  /\ waiter'[w] \in Receiver
             /\ waiter'[w].key = waiter[w].key
             /\ waiter'[w].answer = IF w \in S THEN a ELSE waiter[w].answer
  <2>1. waiter[w] \in Receiver
    BY DEF TypeOK
  <2>2. waiter'[w] = IF w \in S THEN [waiter[w] EXCEPT !.answer = a] ELSE waiter[w]
    BY DEF Send
  <2> QED BY <2>1, <2>2 DEF Receiver
<1>3. waiter' \in [DOMAIN waiter' -> Receiver]
  BY <1>1, <1>2 DEF Send
<1> QED BY <1>1, <1>2, <1>3

\* A shorter queue is ordered the way it was.
LEMMA DequeueKeeps ==
  ASSUME TypeOK, NEW T \in SUBSET pending, Dequeue(T),
         \A p, q \in pending : p.cache_key = q.cache_key => p = q
  PROVE  /\ pending' \subseteq pending
         /\ before' \subseteq PendingKeys' \X PendingKeys'
<1>1. pending' = pending \ T
  BY DEF Dequeue
<1>2. ASSUME NEW b \in before' PROVE b \in PendingKeys' \X PendingKeys'
  <2>1. b \in before /\ \A p \in T : p.cache_key \notin {b[1], b[2]}
    BY DEF Dequeue
  <2>2. b \in PendingKeys \X PendingKeys
    BY <2>1 DEF TypeOK
  <2>3. b[1] \in PendingKeys' /\ b[2] \in PendingKeys'
    BY <1>1, <2>1, <2>2 DEF PendingKeys
  <2> QED BY <2>2, <2>3
<1> QED BY <1>1, <1>2

\* The abort flag is a flag of the entry; nothing else of it changes.
LEMMA AbortKeeps ==
  ASSUME TypeOK, NEW K, NEW stale \in BOOLEAN, Abort(K, stale)
  PROVE  /\ DOMAIN inflight' = DOMAIN inflight
         /\ inflight' \in [DOMAIN inflight' -> Entry]
         /\ \A k \in DOMAIN inflight :
              /\ inflight'[k].epoch = inflight[k].epoch
              /\ inflight'[k].subscribers = inflight[k].subscribers
              /\ k \notin K => inflight'[k] = inflight[k]
              /\ k \in K => /\ inflight'[k].abort = TRUE
                            /\ inflight'[k].stale_on_completion <=>
                                 (inflight[k].stale_on_completion \/ stale)
<1>1. DOMAIN inflight' = DOMAIN inflight
  BY DEF Abort
<1>2. ASSUME NEW k \in DOMAIN inflight
      PROVE  /\ inflight'[k] \in Entry
             /\ inflight'[k].epoch = inflight[k].epoch
             /\ inflight'[k].subscribers = inflight[k].subscribers
             /\ k \notin K => inflight'[k] = inflight[k]
             /\ k \in K => /\ inflight'[k].abort = TRUE
                           /\ inflight'[k].stale_on_completion <=>
                                (inflight[k].stale_on_completion \/ stale)
  <2>1. inflight[k] \in Entry
    BY DEF TypeOK
  <2>2. inflight'[k] = IF k \in K
                         THEN [inflight[k] EXCEPT !.abort = TRUE,
                                                  !.stale_on_completion = @ \/ stale]
                         ELSE inflight[k]
    BY DEF Abort
  <2> QED BY <2>1, <2>2 DEF Entry
<1>3. inflight' \in [DOMAIN inflight' -> Entry]
  BY <1>1, <1>2 DEF Abort
<1> QED BY <1>1, <1>2, <1>3

-----------------------------------------------------------------------------
(***************************************************************************)
(* One job per key.  The queue invariant is needed to keep the order typed,*)
(* so types and keys are proved together.                                  *)
(***************************************************************************)

Shape == TypeOK /\ OneJobPerKey

\* What Submit, Start, Completed and WorkerReturns are called with.
LEMMA EpochsAreNat == Epochs \subseteq Nat /\ 1 .. MaxEpoch \subseteq Epochs
                      /\ 0 .. MaxEpoch \subseteq Epochs /\ MaxEpoch \in Nat
BY ConstantsAssumption DEF Epochs

LEMMA InitShape == Init => Shape
<1> SUFFICES ASSUME Init PROVE Shape
  OBVIOUS
<1> USE EpochsAreNat
<1>1. TypeOK
  <2>1. DOMAIN inflight = {} /\ inflight \in [DOMAIN inflight -> Entry]
    BY DEF Init
  <2>2. DOMAIN waiter = {} /\ waiter \in [DOMAIN waiter -> Receiver]
    BY DEF Init
  <2>3. current_epoch \in Epochs /\ max_task_epoch \in 0 .. MaxEpoch
    BY DEF Init, Epochs
  <2> QED BY <2>1, <2>2, <2>3 DEF Init, TypeOK
<1>2. OneJobPerKey
  BY DEF Init, OneJobPerKey, PendingKeys
<1> QED BY <1>1, <1>2 DEF Shape

\* A new receiver.
LEMMA RequestKeeps ==
  ASSUME TypeOK, NEW w \in Waiters, NEW k \in Keys, NEW e \in 1 .. MaxEpoch,
         Request(w, k, e)
  PROVE  /\ pc' = "schedule"
         /\ DOMAIN waiter' = DOMAIN waiter \cup {w}
         /\ DOMAIN waiter' \subseteq Waiters
         /\ waiter' \in [DOMAIN waiter' -> Receiver]
         /\ waiter'[w] = [key |-> k, answer |-> "none"]
         /\ \A v \in DOMAIN waiter : waiter'[v] = waiter[v]
<1> DEFINE new == [key |-> k, answer |-> "none"]
<1>1. w \notin DOMAIN waiter /\ waiter' = Put(waiter, w, new) /\ pc' = "schedule"
  BY DEF Request
<1>2. new \in Receiver
  BY EpochsAreNat DEF Receiver, Answers
<1> HIDE DEF new
<1>3. DOMAIN waiter' = DOMAIN waiter \cup {w} /\ waiter'[w] = new
  BY <1>1 DEF Put
<1>4. \A v \in DOMAIN waiter : waiter'[v] = waiter[v]
  BY <1>1 DEF Put
<1>5. \A v \in DOMAIN waiter' : waiter'[v] \in Receiver
  BY <1>2, <1>3, <1>4 DEF TypeOK
<1>6. waiter' = [v \in DOMAIN waiter' |-> waiter'[v]]
  BY <1>1 DEF Put
<1>7. waiter' \in [DOMAIN waiter' -> Receiver]
  BY <1>5, <1>6
<1> QED BY <1>1, <1>3, <1>4, <1>7 DEF TypeOK, new

LEMMA JoinInFlightShape ==
  ASSUME Shape, NEW w \in Waiters, NEW k \in Keys, NEW e \in 1 .. MaxEpoch,
         JoinInFlight(w, k, e)
  PROVE  Shape'
<1> USE DEF Shape
<1>1. /\ k \in DOMAIN inflight
      /\ inflight' = [inflight EXCEPT ![k].subscribers = @ \cup {w}]
      /\ UNCHANGED <<pending, before, workers, running_count, running_memory,
                     worker_limit, memory_budget, fast_scrolling, current_epoch,
                     max_task_epoch, announced>>
      /\ PendingKeys' = PendingKeys
  BY DEF JoinInFlight, queueVars, configVars, epochVars, PendingKeys
<1>2. /\ DOMAIN inflight' = DOMAIN inflight
      /\ \A j \in DOMAIN inflight : /\ inflight'[j].epoch = inflight[j].epoch
                                    /\ inflight'[j] \in Entry
  <2>1. \A j \in DOMAIN inflight : inflight[j] \in Entry
    BY DEF TypeOK
  <2> QED BY <1>1, <2>1 DEF Entry
<1>3. inflight' \in [DOMAIN inflight' -> Entry]
  BY <1>1, <1>2
<1>4. TypeOK'
  BY <1>1, <1>2, <1>3, RequestKeeps DEF TypeOK, JoinInFlight
<1>5. OneJobPerKey'
  BY <1>1, <1>2 DEF OneJobPerKey, TypeOK, Worker
<1> QED BY <1>4, <1>5

LEMMA JoinPendingShape ==
  ASSUME Shape, NEW w \in Waiters, NEW k \in Keys, NEW pr \in Visible .. Idle,
         NEW e \in 1 .. MaxEpoch, JoinPending(w, k, pr, e)
  PROVE  Shape'
<1> USE DEF Shape
<1>1. PICK p \in pending :
        /\ p.cache_key = k
        /\ pending' = (pending \ {p}) \cup {Join(p, w, pr)}
  BY DEF JoinPending
<1>2. p \in Task /\ Join(p, w, pr) \in Task /\ Join(p, w, pr).cache_key = k
  BY <1>1 DEF TypeOK, Task, Join, Promote
<1>3. UNCHANGED <<before, inflight, workers, running_count, running_memory,
                  worker_limit, memory_budget, fast_scrolling, current_epoch,
                  max_task_epoch, announced>>
  BY DEF JoinPending, jobVars, configVars, epochVars
<1>4. PendingKeys' = PendingKeys
  BY <1>1, <1>2 DEF PendingKeys
<1>5. pending' \subseteq Task
  BY <1>1, <1>2 DEF TypeOK
<1>6. TypeOK'
  BY <1>3, <1>4, <1>5, RequestKeeps DEF TypeOK, JoinPending
<1>7. OneJobPerKey'
  BY <1>1, <1>2, <1>3, <1>4 DEF OneJobPerKey
<1> QED BY <1>6, <1>7

LEMMA EnqueueShape ==
  ASSUME Shape, NEW w \in Waiters, NEW k \in Keys, NEW pr \in Visible .. Idle,
         NEW e \in 1 .. MaxEpoch, Enqueue(w, k, pr, e)
  PROVE  Shape'
<1> USE DEF Shape
<1> DEFINE t == [cache_key |-> k, priority |-> pr, epoch |-> e,
                 subscribers |-> {w}, aged |-> FALSE]
<1>1. t \in Task /\ t.cache_key = k
  BY EpochsAreNat DEF Task
<1>2. /\ k \notin DOMAIN inflight \cup PendingKeys
      /\ pending' = pending \cup {t}
      /\ before' = before \cup {<<j, k>> : j \in PendingKeys}
      /\ max_task_epoch' = IF e > max_task_epoch THEN e ELSE max_task_epoch
      /\ UNCHANGED <<inflight, workers, running_count, running_memory,
                     worker_limit, memory_budget, fast_scrolling, current_epoch,
                     announced>>
  BY DEF Enqueue, Unknown, jobVars, configVars
<1> HIDE DEF t
<1>3. PendingKeys' = PendingKeys \cup {k}
  BY <1>1, <1>2 DEF PendingKeys
<1>4. max_task_epoch' \in 0 .. MaxEpoch
  BY <1>2, EpochsAreNat DEF TypeOK
<1>5. pending' \subseteq Task /\ before' \subseteq PendingKeys' \X PendingKeys'
  BY <1>1, <1>2, <1>3 DEF TypeOK
<1>6. TypeOK'
  BY <1>2, <1>4, <1>5, RequestKeeps DEF TypeOK, Enqueue
<1>7. OneJobPerKey'
  BY <1>1, <1>2, <1>3 DEF OneJobPerKey, PendingKeys
<1> QED BY <1>6, <1>7

\* What the three cancelling commands have in common.
LEMMA CancelShape ==
  ASSUME Shape, NEW T \in SUBSET pending, NEW K, NEW stale \in BOOLEAN,
         Drain(T), Abort(K, stale), pc' = "schedule",
         current_epoch' \in Epochs, announced' \subseteq 1 .. MaxEpoch,
         UNCHANGED <<workers, running_count, running_memory, worker_limit,
                     memory_budget, fast_scrolling, max_task_epoch>>
  PROVE  Shape'
<1> USE DEF Shape
<1>1. Dequeue(T) /\ pending' = pending \ T
  BY DEF Drain, Dequeue
<1>2. pending' \subseteq pending /\ before' \subseteq PendingKeys' \X PendingKeys'
  BY <1>1, DequeueKeeps DEF OneJobPerKey
<1>3. /\ DOMAIN inflight' = DOMAIN inflight
      /\ inflight' \in [DOMAIN inflight' -> Entry]
      /\ \A k \in DOMAIN inflight : inflight'[k].epoch = inflight[k].epoch
  BY AbortKeeps
<1>4. DOMAIN waiter' = DOMAIN waiter /\ waiter' \in [DOMAIN waiter' -> Receiver]
  <2>1. "stale" \in Answers
    BY DEF Answers
  <2>2. Send(UNION {p.subscribers : p \in T}, "stale")
    BY DEF Drain
  <2> QED BY <2>1, <2>2, SendKeeps
<1>5. TypeOK'
  BY <1>2, <1>3, <1>4 DEF TypeOK
<1>6. PendingKeys' \subseteq PendingKeys
  BY <1>2 DEF PendingKeys
<1>7. OneJobPerKey'
  BY <1>2, <1>3, <1>6 DEF OneJobPerKey, TypeOK, Worker
<1> QED BY <1>5, <1>7

LEMMA NewEpochShape ==
  ASSUME Shape, NEW e \in 1 .. MaxEpoch, NewEpoch(e)
  PROVE  Shape'
<1>1. announced' \subseteq 1 .. MaxEpoch /\ pc' = "schedule"
  BY DEF NewEpoch, Shape, TypeOK
<1>2. CASE e <= current_epoch
  <2>1. UNCHANGED <<pending, before, inflight, waiter, workers, running_count,
                    running_memory, worker_limit, memory_budget, fast_scrolling,
                    current_epoch, max_task_epoch>>
    BY <1>2 DEF NewEpoch, queueVars, configVars
  <2>2. TypeOK'
    BY <1>1, <2>1 DEF Shape, TypeOK, PendingKeys
  <2>3. OneJobPerKey'
    BY <2>1 DEF Shape, OneJobPerKey, PendingKeys
  <2> QED BY <2>2, <2>3 DEF Shape
<1>3. CASE ~ (e <= current_epoch)
  <2> DEFINE T == {p \in pending : p.epoch < e}
             K == {k \in DOMAIN inflight : inflight[k].epoch < e}
  <2>1. /\ current_epoch' = e /\ Drain(T) /\ Abort(K, FALSE)
        /\ UNCHANGED <<workers, running_count, running_memory, worker_limit,
                       memory_budget, fast_scrolling, max_task_epoch>>
    BY <1>3 DEF NewEpoch, configVars
  <2>2. current_epoch' \in Epochs /\ T \in SUBSET pending
    BY <2>1, EpochsAreNat
  <2> HIDE DEF T, K
  <2> QED BY <1>1, <2>1, <2>2, CancelShape
<1> QED BY <1>2, <1>3

LEMMA CancelAllShape ==
  ASSUME Shape, CancelAll
  PROVE  Shape'
<1>1. current_epoch' \in Epochs
  BY EpochsAreNat DEF CancelAll, PastAllTasks, Shape, TypeOK, Epochs
<1>2. Drain(pending) /\ Abort(DOMAIN inflight, FALSE)
  BY DEF CancelAll
<1> QED BY <1>1, <1>2, CancelShape DEF CancelAll, configVars, Shape, TypeOK

LEMMA CancelKeysShape ==
  ASSUME Shape, NEW K \in SUBSET Keys, CancelKeys(K)
  PROVE  Shape'
<1> DEFINE T == {p \in pending : p.cache_key \in K}
<1>1. Drain(T) /\ Abort(DOMAIN inflight \cap K, TRUE) /\ T \in SUBSET pending
  BY DEF CancelKeys, AbortMarked
<1> HIDE DEF T
<1> QED BY <1>1, CancelShape DEF CancelKeys, configVars, epochVars, Shape, TypeOK

LEMMA SettingsShape ==
  ASSUME Shape,
         \/ \E limit \in Limits, budget \in Budgets : SetConfig(limit, budget)
         \/ \E fast \in BOOLEAN : SetFastScrolling(fast)
         \/ LeaveSchedule
  PROVE  Shape'
<1>1. /\ UNCHANGED <<pending, before, inflight, workers, running_count,
                     running_memory, current_epoch, max_task_epoch, announced,
                     waiter>>
      /\ worker_limit' \in Limits /\ memory_budget' \in Budgets
      /\ fast_scrolling' \in BOOLEAN /\ pc' \in {"recv", "schedule"}
  BY DEF SetConfig, SetFastScrolling, LeaveSchedule, Shape, TypeOK, queueVars,
         jobVars, epochVars, configVars
<1>2. TypeOK'
  BY <1>1 DEF Shape, TypeOK, PendingKeys
<1>3. OneJobPerKey'
  BY <1>1 DEF Shape, OneJobPerKey, PendingKeys
<1> QED BY <1>2, <1>3 DEF Shape

\* A worker has an entry of its own, so its Completed is never ignored.
LEMMA CompletedEffect ==
  ASSUME Shape, NEW wk \in workers, Completed(wk)
  PROVE  /\ wk.cache_key \in DOMAIN inflight
         /\ inflight' = Without(inflight, wk.cache_key)
         /\ workers' = workers \ {wk}
         /\ running_count' = Minus(running_count, 1)
         /\ running_memory' = Minus(running_memory, EstMemory[wk.cache_key])
         /\ Effective(inflight[wk.cache_key], wk) \in Answers \ {"none"}
         /\ Send(inflight[wk.cache_key].subscribers,
                 Effective(inflight[wk.cache_key], wk))
         /\ pc' = "schedule"
         /\ UNCHANGED <<pending, before, worker_limit, memory_budget,
                        fast_scrolling, current_epoch, max_task_epoch, announced>>
<1>1. wk \in Worker
  BY DEF Shape, TypeOK
<1>2. wk.cache_key \in DOMAIN inflight
  BY <1>1 DEF Shape, OneJobPerKey, Worker
<1>3. Effective(inflight[wk.cache_key], wk) \in Answers \ {"none"}
  BY <1>1 DEF Completed, Reported, Effective, Answers, Worker, Results
<1> QED BY <1>2, <1>3 DEF Completed, Release, queueVars, configVars, epochVars

LEMMA CompletedShape ==
  ASSUME Shape, NEW wk \in workers, Completed(wk)
  PROVE  Shape'
<1> DEFINE k == wk.cache_key
<1>1. wk \in Worker
  BY DEF Shape, TypeOK
<1>2. /\ k \in DOMAIN inflight
      /\ inflight' = Without(inflight, k)
      /\ workers' = workers \ {wk}
      /\ UNCHANGED <<pending, before, worker_limit, memory_budget,
                     fast_scrolling, current_epoch, max_task_epoch, announced>>
      /\ pc' = "schedule"
      /\ PendingKeys' = PendingKeys
  BY CompletedEffect DEF PendingKeys
<1>3. running_count' \in Nat /\ running_memory' \in Nat
  <2>1. EstMemory[k] \in Nat
    BY <1>1, ConstantsAssumption DEF Worker
  <2> QED BY <2>1, CompletedEffect DEF Minus, Shape, TypeOK
<1>4. DOMAIN waiter' = DOMAIN waiter /\ waiter' \in [DOMAIN waiter' -> Receiver]
  BY CompletedEffect, SendKeeps DEF Shape
<1> HIDE DEF k
<1>5. /\ DOMAIN inflight' = DOMAIN inflight \ {k}
      /\ inflight' \in [DOMAIN inflight' -> Entry]
      /\ \A j \in DOMAIN inflight \ {k} : inflight'[j] = inflight[j]
  BY <1>2 DEF Without, Shape, TypeOK
<1>6. TypeOK'
  BY <1>2, <1>3, <1>4, <1>5 DEF Shape, TypeOK
<1>7. OneJobPerKey'
  BY <1>1, <1>2, <1>5 DEF Shape, OneJobPerKey, k, TypeOK, Worker
<1> QED BY <1>6, <1>7 DEF Shape

LEMMA AdmissiblePending == FindAdmissible \subseteq pending
BY DEF FindAdmissible, Starved, BestAdmissible

LEMMA StartShape ==
  ASSUME Shape, NEW p \in pending, Start(p)
  PROVE  Shape'
<1> DEFINE k == p.cache_key
           entry == [epoch |-> p.epoch, subscribers |-> p.subscribers,
                     abort |-> FALSE, stale_on_completion |-> FALSE]
           wk == [cache_key |-> k, epoch |-> p.epoch, result |-> "none"]
<1>1. p \in Task /\ k \in Keys
  BY DEF Shape, TypeOK, Task
<1>2. entry \in Entry /\ wk \in Worker
  BY <1>1 DEF Task, Entry, Worker, Results
<1>3. /\ Dequeue({p}) /\ pending' = pending \ {p}
      /\ inflight' = Put(inflight, k, entry)
      /\ workers' = workers \cup {wk}
      /\ UNCHANGED <<worker_limit, memory_budget, fast_scrolling, current_epoch,
                     max_task_epoch, announced, pc, waiter>>
  BY DEF Start, Dequeue, configVars, epochVars
<1>4. running_count' \in Nat /\ running_memory' \in Nat
  BY <1>1, ConstantsAssumption DEF Start, Shape, TypeOK
<1>5. k \notin DOMAIN inflight /\ \A v \in workers : v.cache_key # k
  BY DEF Shape, OneJobPerKey, PendingKeys, TypeOK, Worker
<1>6. pending' \subseteq pending /\ before' \subseteq PendingKeys' \X PendingKeys'
  BY <1>3, DequeueKeeps DEF Shape, OneJobPerKey
<1> HIDE DEF entry
<1>7. /\ DOMAIN inflight' = DOMAIN inflight \cup {k}
      /\ inflight' \in [DOMAIN inflight' -> Entry]
      /\ inflight'[k] = entry
      /\ \A j \in DOMAIN inflight : inflight'[j] = inflight[j]
  BY <1>2, <1>3, <1>5 DEF Put, Shape, TypeOK
<1>8. TypeOK'
  BY <1>1, <1>2, <1>3, <1>4, <1>6, <1>7 DEF Shape, TypeOK
<1>9. entry.epoch = wk.epoch /\ wk.cache_key = k
  BY DEF entry
<1>10. PendingKeys' \cap DOMAIN inflight' = {}
  BY <1>3, <1>7 DEF Shape, OneJobPerKey, PendingKeys
<1> HIDE DEF wk, k
<1>11. OneJobPerKey'
  <2>1. \A v, u \in workers' : v.cache_key = u.cache_key => v = u
    BY <1>3, <1>5, <1>9 DEF Shape, OneJobPerKey
  <2>2. \A j \in Keys : j \in DOMAIN inflight' <=> \E v \in workers' : v.cache_key = j
    BY <1>3, <1>7, <1>9 DEF Shape, OneJobPerKey
  <2>3. \A v \in workers' : inflight'[v.cache_key].epoch = v.epoch
    BY <1>3, <1>7, <1>9 DEF Shape, OneJobPerKey, TypeOK, Worker
  <2>4. \A q, r \in pending' : q.cache_key = r.cache_key => q = r
    BY <1>6 DEF Shape, OneJobPerKey
  <2> QED BY <1>10, <2>1, <2>2, <2>3, <2>4 DEF OneJobPerKey
<1> QED BY <1>8, <1>11 DEF Shape

LEMMA WorkerReturnsShape ==
  ASSUME Shape, NEW wk \in workers, NEW r \in Results, WorkerReturns(wk, r)
  PROVE  Shape'
<1> DEFINE new == [wk EXCEPT !.result = r]
<1>1. /\ wk \in Worker /\ new \in Worker
      /\ new.cache_key = wk.cache_key /\ new.epoch = wk.epoch
  BY DEF Shape, TypeOK, Worker
<1>2. /\ workers' = (workers \ {wk}) \cup {new}
      /\ UNCHANGED <<pending, before, inflight, running_count, running_memory,
                     worker_limit, memory_budget, fast_scrolling, current_epoch,
                     max_task_epoch, announced, pc, waiter>>
      /\ PendingKeys' = PendingKeys
  BY DEF WorkerReturns, queueVars, configVars, epochVars, PendingKeys
<1> HIDE DEF new
<1>3. TypeOK'
  BY <1>1, <1>2 DEF Shape, TypeOK
<1>4. OneJobPerKey'
  BY <1>1, <1>2 DEF Shape, OneJobPerKey
<1> QED BY <1>3, <1>4 DEF Shape

LEMMA AgeShape ==
  ASSUME Shape, NEW p \in pending, Age(p)
  PROVE  Shape'
<1> DEFINE old == [p EXCEPT !.aged = TRUE]
<1>1. old \in Task /\ old.cache_key = p.cache_key
  BY DEF Shape, TypeOK, Task
<1>2. /\ pending' = (pending \ {p}) \cup {old}
      /\ UNCHANGED <<before, inflight, workers, running_count, running_memory,
                     worker_limit, memory_budget, fast_scrolling, current_epoch,
                     max_task_epoch, announced, pc, waiter>>
  BY DEF Age, jobVars, configVars, epochVars
<1> HIDE DEF old
<1>3. PendingKeys' = PendingKeys
  BY <1>1, <1>2 DEF PendingKeys
<1>4. TypeOK'
  BY <1>1, <1>2, <1>3 DEF Shape, TypeOK
<1>5. OneJobPerKey'
  BY <1>1, <1>2, <1>3 DEF Shape, OneJobPerKey
<1> QED BY <1>4, <1>5 DEF Shape

LEMMA ReceiveShape ==
  ASSUME Shape, NEW w \in DOMAIN waiter, Receive(w)
  PROVE  Shape'
<1>1. /\ waiter' = Without(waiter, w)
      /\ UNCHANGED <<pending, before, inflight, workers, running_count,
                     running_memory, worker_limit, memory_budget,
                     fast_scrolling, current_epoch, max_task_epoch, announced, pc>>
      /\ PendingKeys' = PendingKeys
  BY DEF Receive, queueVars, jobVars, configVars, epochVars, PendingKeys
<1>2. DOMAIN waiter' \subseteq DOMAIN waiter /\ waiter' \in [DOMAIN waiter' -> Receiver]
  BY <1>1 DEF Without, Shape, TypeOK
<1>3. TypeOK'
  BY <1>1, <1>2 DEF Shape, TypeOK
<1>4. OneJobPerKey'
  BY <1>1 DEF Shape, OneJobPerKey
<1> QED BY <1>3, <1>4 DEF Shape

\* The disjuncts of Next with their parameters named, for the case splits below.
LEMMA Steps ==
  ASSUME Next
  PROVE  \/ \E w \in Waiters, k \in Keys, e \in 1 .. MaxEpoch : JoinInFlight(w, k, e)
         \/ \E w \in Waiters, k \in Keys, e \in 1 .. MaxEpoch, pr \in Visible .. Idle :
              JoinPending(w, k, pr, e) \/ Enqueue(w, k, pr, e)
         \/ \E e \in 1 .. MaxEpoch : NewEpoch(e)
         \/ CancelAll
         \/ \E K \in SUBSET Keys : CancelKeys(K)
         \/ \/ \E limit \in Limits, budget \in Budgets : SetConfig(limit, budget)
            \/ \E fast \in BOOLEAN : SetFastScrolling(fast)
            \/ LeaveSchedule
         \/ \E p \in pending : Start(p)
         \/ \E wk \in workers, r \in Results : WorkerReturns(wk, r)
         \/ \E wk \in workers : Completed(wk)
         \/ \E p \in pending : Age(p)
         \/ \E w \in DOMAIN waiter : Receive(w)
BY ConstantsAssumption DEF Next, Submit, TrySchedule, Finish, Handle

LEMMA ShapeStep == Shape /\ [Next]_vars => Shape'
<1> SUFFICES ASSUME Shape, [Next]_vars PROVE Shape'
  OBVIOUS
<1>1. CASE UNCHANGED vars
  <2>1. TypeOK'
    BY <1>1 DEF Shape, TypeOK, PendingKeys, vars, queueVars, jobVars, configVars,
           epochVars
  <2>2. OneJobPerKey'
    BY <1>1 DEF Shape, OneJobPerKey, PendingKeys, vars, queueVars, jobVars
  <2> QED BY <2>1, <2>2 DEF Shape
<1>2. CASE Next
  BY <1>2, Steps, JoinInFlightShape, JoinPendingShape, EnqueueShape, NewEpochShape,
     CancelAllShape, CancelKeysShape, SettingsShape, StartShape, WorkerReturnsShape,
     CompletedShape, AgeShape, ReceiveShape
<1> QED BY <1>1, <1>2

\* The scheduler's state is always well typed.
THEOREM TypeCorrect == Spec => []TypeOK
<1>1. Shape => TypeOK
  BY DEF Shape
<1> QED BY <1>1, InitShape, ShapeStep, PTL DEF Spec

\* At most one generation per key, and the dedup table never loses an entry
\* to a second one of its key, for any number of keys and callers.
THEOREM OneJobPerKeyHolds == Spec => []OneJobPerKey
<1>1. Shape => OneJobPerKey
  BY DEF Shape
<1> QED BY <1>1, InitShape, ShapeStep, PTL DEF Spec

-----------------------------------------------------------------------------
(***************************************************************************)
(* Cancellation.  AbortedEndsStale is not inductive: cancel_all may set    *)
(* current_epoch back, and the jobs it leaves behind are superseded only   *)
(* because no task was ever submitted past max_task_epoch.                 *)
(***************************************************************************)

EpochsBounded ==
  /\ \A p \in pending : p.epoch <= max_task_epoch
  /\ \A k \in DOMAIN inflight : inflight[k].epoch <= max_task_epoch

\* Only a job whose flag is set gives up, and flags are never cleared.
CancelledWasAborted ==
  \A v \in workers : v.result = "cancelled" => inflight[v.cache_key].abort

CancelInv ==
  EpochsBounded /\ AbortedEndsStale /\ CancelledWasAborted /\ CancelledNeverFails

LEMMA InitCancel == Init => CancelInv
BY DEF Init, CancelInv, EpochsBounded, AbortedEndsStale, CancelledWasAborted,
       CancelledNeverFails

\* An answer other than "cancelled" keeps CancelledNeverFails.
LEMMA AnswerNotCancelled ==
  ASSUME TypeOK, CancelledNeverFails, NEW S, NEW a \in Answers \ {"cancelled"},
         Send(S, a)
  PROVE  CancelledNeverFails'
BY SendKeeps DEF CancelledNeverFails

\* A command that cancels: it leaves pending tasks bounded, raises flags only
\* where the job ends Stale under the new epoch, and answers Stale.
LEMMA CancelCommand ==
  ASSUME Shape, CancelInv, NEW T \in SUBSET pending, NEW K, NEW stale \in BOOLEAN,
         Drain(T), Abort(K, stale), UNCHANGED <<workers, max_task_epoch>>,
         \A k \in DOMAIN inflight :
           inflight[k].abort =>
             inflight[k].stale_on_completion \/ inflight[k].epoch < current_epoch',
         \A k \in DOMAIN inflight \cap K : stale \/ inflight[k].epoch < current_epoch'
  PROVE  CancelInv'
<1>1. /\ DOMAIN inflight' = DOMAIN inflight
      /\ \A k \in DOMAIN inflight :
           /\ inflight'[k].epoch = inflight[k].epoch
           /\ k \notin K => inflight'[k] = inflight[k]
           /\ k \in K => /\ inflight'[k].abort = TRUE
                         /\ inflight'[k].stale_on_completion <=>
                              (inflight[k].stale_on_completion \/ stale)
  <2>1. TypeOK
    BY DEF Shape
  <2> QED BY <2>1, AbortKeeps
<1>2. pending' = pending \ T
  BY DEF Drain, Dequeue
<1>3. EpochsBounded'
  BY <1>1, <1>2 DEF CancelInv, EpochsBounded
<1>4. AbortedEndsStale'
  BY <1>1 DEF AbortedEndsStale
<1>5. CancelledWasAborted'
  BY <1>1 DEF CancelInv, CancelledWasAborted, Shape, OneJobPerKey, TypeOK, Worker
<1>6. CancelledNeverFails'
  BY AnswerNotCancelled DEF Drain, Answers, Shape, CancelInv
<1> QED BY <1>3, <1>4, <1>5, <1>6 DEF CancelInv

LEMMA NewEpochCancel ==
  ASSUME Shape, CancelInv, NEW e \in 1 .. MaxEpoch, NewEpoch(e)
  PROVE  CancelInv'
<1>1. CASE e <= current_epoch
  BY <1>1 DEF NewEpoch, queueVars, CancelInv, EpochsBounded, AbortedEndsStale,
              CancelledWasAborted, CancelledNeverFails
<1>2. CASE ~ (e <= current_epoch)
  <2> DEFINE T == {p \in pending : p.epoch < e}
             K == {k \in DOMAIN inflight : inflight[k].epoch < e}
  <2>1. /\ current_epoch' = e /\ Drain(T) /\ Abort(K, FALSE) /\ T \in SUBSET pending
        /\ UNCHANGED <<workers, max_task_epoch>>
    BY <1>2 DEF NewEpoch
  <2>2. /\ current_epoch \in Int /\ e \in Int /\ current_epoch < e
        /\ \A k \in DOMAIN inflight : inflight[k].epoch \in Int
    BY <1>2, EpochsAreNat DEF Shape, TypeOK, Entry, Epochs
  <2>3. \A k \in DOMAIN inflight :
          inflight[k].abort =>
            inflight[k].stale_on_completion \/ inflight[k].epoch < current_epoch'
    BY <2>1, <2>2 DEF CancelInv, AbortedEndsStale
  <2>4. \A k \in DOMAIN inflight \cap K : inflight[k].epoch < current_epoch'
    BY <2>1
  <2> HIDE DEF T, K
  <2> QED BY <2>1, <2>3, <2>4, CancelCommand
<1> QED BY <1>1, <1>2

LEMMA CancelAllCancel ==
  ASSUME Shape, CancelInv, CancelAll
  PROVE  CancelInv'
<1>1. /\ current_epoch' = max_task_epoch + 1 /\ Drain(pending)
      /\ Abort(DOMAIN inflight, FALSE) /\ UNCHANGED <<workers, max_task_epoch>>
  BY DEF CancelAll, PastAllTasks
<1>2. \A k \in DOMAIN inflight : inflight[k].epoch < current_epoch'
  <2>1. max_task_epoch \in Int /\ \A k \in DOMAIN inflight : inflight[k].epoch \in Int
    BY EpochsAreNat DEF Shape, TypeOK, Entry, Epochs
  <2> QED BY <1>1, <2>1 DEF CancelInv, EpochsBounded
<1> QED BY <1>1, <1>2, CancelCommand

LEMMA CancelKeysCancel ==
  ASSUME Shape, CancelInv, NEW K \in SUBSET Keys, CancelKeys(K)
  PROVE  CancelInv'
<1> DEFINE T == {p \in pending : p.cache_key \in K}
<1>1. /\ Drain(T) /\ Abort(DOMAIN inflight \cap K, TRUE) /\ T \in SUBSET pending
      /\ UNCHANGED <<workers, max_task_epoch, current_epoch>>
  BY DEF CancelKeys, AbortMarked, epochVars
<1> HIDE DEF T
<1> QED BY <1>1, CancelCommand DEF CancelInv, AbortedEndsStale

LEMMA SubmitCancel ==
  ASSUME Shape, CancelInv, NEW w \in Waiters, NEW k \in Keys,
         NEW pr \in Visible .. Idle, NEW e \in 1 .. MaxEpoch,
         JoinInFlight(w, k, e) \/ JoinPending(w, k, pr, e) \/ Enqueue(w, k, pr, e)
  PROVE  CancelInv'
<1>1. CancelledNeverFails'
  <2>1. Request(w, k, e) /\ TypeOK
    BY DEF JoinInFlight, JoinPending, Enqueue, Shape
  <2>2. /\ DOMAIN waiter' = DOMAIN waiter \cup {w}
        /\ waiter'[w] = [key |-> k, answer |-> "none"]
        /\ \A v \in DOMAIN waiter : waiter'[v] = waiter[v]
    BY <2>1, RequestKeeps
  <2>3. waiter'[w].answer = "none"
    BY <2>2
  <2> QED BY <2>2, <2>3 DEF CancelInv, CancelledNeverFails
<1>2. CASE JoinInFlight(w, k, e)
  <2>1. /\ k \in DOMAIN inflight
        /\ inflight' = [inflight EXCEPT ![k].subscribers = @ \cup {w}]
        /\ UNCHANGED <<pending, workers, max_task_epoch, current_epoch>>
    BY <1>2 DEF JoinInFlight, queueVars, epochVars
  <2>2. /\ DOMAIN inflight' = DOMAIN inflight
        /\ \A j \in DOMAIN inflight :
             /\ inflight'[j].epoch = inflight[j].epoch
             /\ inflight'[j].abort = inflight[j].abort
             /\ inflight'[j].stale_on_completion = inflight[j].stale_on_completion
    BY <2>1 DEF Shape, TypeOK, Entry
  <2> QED BY <1>1, <2>1, <2>2 DEF CancelInv, EpochsBounded, AbortedEndsStale,
             CancelledWasAborted, Shape, OneJobPerKey, TypeOK, Worker
<1>3. CASE JoinPending(w, k, pr, e)
  <2>1. PICK p \in pending : pending' = (pending \ {p}) \cup {Join(p, w, pr)}
    BY <1>3 DEF JoinPending
  <2>2. Join(p, w, pr).epoch = p.epoch
    BY DEF Join, Shape, TypeOK, Task
  <2>3. UNCHANGED <<inflight, workers, max_task_epoch, current_epoch>>
    BY <1>3 DEF JoinPending, jobVars, epochVars
  <2> QED BY <1>1, <2>1, <2>2, <2>3 DEF CancelInv, EpochsBounded, AbortedEndsStale,
             CancelledWasAborted
<1>4. CASE Enqueue(w, k, pr, e)
  <2> DEFINE t == [cache_key |-> k, priority |-> pr, epoch |-> e,
                   subscribers |-> {w}, aged |-> FALSE]
  <2>1. /\ pending' = pending \cup {t} /\ t.epoch = e
        /\ max_task_epoch' = IF e > max_task_epoch THEN e ELSE max_task_epoch
        /\ UNCHANGED <<inflight, workers, current_epoch>>
    BY <1>4 DEF Enqueue, jobVars
  <2>2. /\ max_task_epoch \in Int
        /\ \A p \in pending : p.epoch \in Int
        /\ \A j \in DOMAIN inflight : inflight[j].epoch \in Int
    BY EpochsAreNat DEF Shape, TypeOK, Task, Entry, Epochs
  <2> HIDE DEF t
  <2>3. EpochsBounded'
    BY <2>1, <2>2, EpochsAreNat DEF CancelInv, EpochsBounded
  <2> QED BY <1>1, <2>1, <2>3 DEF CancelInv, AbortedEndsStale, CancelledWasAborted
<1> QED BY <1>2, <1>3, <1>4

LEMMA CompletedCancel ==
  ASSUME Shape, CancelInv, NEW wk \in workers, Completed(wk)
  PROVE  CancelInv'
<1> DEFINE k == wk.cache_key
<1>1. /\ k \in DOMAIN inflight /\ inflight' = Without(inflight, k)
      /\ workers' = workers \ {wk}
      /\ UNCHANGED <<pending, current_epoch, max_task_epoch>>
  BY CompletedEffect
<1>2. inflight[k].epoch = wk.epoch
  BY DEF Shape, OneJobPerKey
<1>3. Effective(inflight[k], wk) \in Answers \ {"cancelled"}
  <2>1. wk.result = "cancelled" =>
          inflight[k].stale_on_completion \/ wk.epoch < current_epoch
    BY <1>1, <1>2 DEF CancelInv, CancelledWasAborted, AbortedEndsStale
  <2>2. Effective(inflight[k], wk) \in Answers
    BY CompletedEffect
  <2> QED BY <2>1, <2>2 DEF Effective
<1>4. CancelledNeverFails'
  BY <1>3, CompletedEffect, AnswerNotCancelled DEF Shape, CancelInv
<1> HIDE DEF k
<1>5. /\ DOMAIN inflight' \subseteq DOMAIN inflight
      /\ \A j \in DOMAIN inflight' : inflight'[j] = inflight[j]
  BY <1>1 DEF Without
<1>6. CancelledWasAborted'
  <2>1. \A v \in workers' : v \in workers /\ v.cache_key \in DOMAIN inflight'
    BY <1>1 DEF Without, Shape, OneJobPerKey, TypeOK, Worker, k
  <2> QED BY <1>5, <2>1 DEF CancelInv, CancelledWasAborted
<1> QED BY <1>1, <1>4, <1>5, <1>6 DEF CancelInv, EpochsBounded, AbortedEndsStale

LEMMA StartCancel ==
  ASSUME Shape, CancelInv, NEW p \in pending, Start(p)
  PROVE  CancelInv'
<1> DEFINE k == p.cache_key
           entry == [epoch |-> p.epoch, subscribers |-> p.subscribers,
                     abort |-> FALSE, stale_on_completion |-> FALSE]
           wk == [cache_key |-> k, epoch |-> p.epoch, result |-> "none"]
<1>1. /\ pending' = pending \ {p} /\ inflight' = Put(inflight, k, entry)
      /\ workers' = workers \cup {wk}
      /\ UNCHANGED <<current_epoch, max_task_epoch, waiter>>
  BY DEF Start, Dequeue, epochVars
<1>2. /\ entry.epoch = p.epoch /\ entry.abort = FALSE /\ wk.result = "none"
      /\ k \notin DOMAIN inflight
  BY DEF Shape, OneJobPerKey, PendingKeys
<1> HIDE DEF k, entry, wk
<1>3. /\ DOMAIN inflight' = DOMAIN inflight \cup {k} /\ inflight'[k] = entry
      /\ \A j \in DOMAIN inflight : inflight'[j] = inflight[j]
  BY <1>1, <1>2 DEF Put
<1>4. CancelledWasAborted'
  BY <1>1, <1>2, <1>3 DEF CancelInv, CancelledWasAborted, Shape, OneJobPerKey, TypeOK,
     Worker
<1> QED BY <1>1, <1>2, <1>3, <1>4 DEF CancelInv, EpochsBounded, AbortedEndsStale,
           CancelledNeverFails

LEMMA OtherCancel ==
  ASSUME Shape, CancelInv,
         \/ \E limit \in Limits, budget \in Budgets : SetConfig(limit, budget)
         \/ \E fast \in BOOLEAN : SetFastScrolling(fast)
         \/ LeaveSchedule
         \/ \E wk \in workers, r \in Results : WorkerReturns(wk, r)
         \/ \E p \in pending : Age(p)
         \/ \E w \in DOMAIN waiter : Receive(w)
         \/ UNCHANGED vars
  PROVE  CancelInv'
<1>1. UNCHANGED <<inflight, current_epoch, max_task_epoch>>
  BY DEF SetConfig, SetFastScrolling, LeaveSchedule, WorkerReturns, Age, Receive,
         vars, jobVars, epochVars
<1>2. (\A p \in pending : p.epoch <= max_task_epoch)'
  <2>1. CASE \E p \in pending : Age(p)
    BY <1>1, <2>1 DEF Age, CancelInv, EpochsBounded, Shape, TypeOK, Task
  <2>2. CASE UNCHANGED pending
    BY <1>1, <2>2 DEF CancelInv, EpochsBounded
  <2> QED BY <2>1, <2>2 DEF SetConfig, SetFastScrolling, LeaveSchedule,
             WorkerReturns, Receive, vars, queueVars
<1>3. CancelledWasAborted'
  <2>1. CASE \E wk \in workers, r \in Results : WorkerReturns(wk, r)
    BY <1>1, <2>1 DEF WorkerReturns, CancelInv, CancelledWasAborted, Shape, TypeOK,
       Worker
  <2>2. CASE UNCHANGED workers
    BY <1>1, <2>2 DEF CancelInv, CancelledWasAborted
  <2> QED BY <2>1, <2>2 DEF SetConfig, SetFastScrolling, LeaveSchedule, Age,
             Receive, vars, jobVars
<1>4. CancelledNeverFails'
  <2>1. CASE \E w \in DOMAIN waiter : Receive(w)
    BY <2>1 DEF Receive, Without, CancelInv, CancelledNeverFails
  <2>2. CASE UNCHANGED waiter
    BY <2>2 DEF CancelInv, CancelledNeverFails
  <2> QED BY <2>1, <2>2 DEF SetConfig, SetFastScrolling, LeaveSchedule,
             WorkerReturns, Age, vars
<1> QED BY <1>1, <1>2, <1>3, <1>4 DEF CancelInv, EpochsBounded, AbortedEndsStale

LEMMA CancelStep == Shape /\ CancelInv /\ [Next]_vars => CancelInv'
<1> SUFFICES ASSUME Shape, CancelInv, [Next]_vars PROVE CancelInv'
  OBVIOUS
<1>1. CASE UNCHANGED vars
  BY <1>1, OtherCancel
<1>2. CASE Next
  <2>1. Visible \in Visible .. Idle
    BY DEF Visible, Idle
  <2> QED BY <1>2, <2>1, Steps, SubmitCancel, NewEpochCancel, CancelAllCancel,
             CancelKeysCancel, CompletedCancel, StartCancel, OtherCancel
<1> QED BY <1>1, <1>2

\* Once a job is told to give up, its waiters get Stale, whatever cancel_all
\* does to the epochs before its Completed is handled.
THEOREM AbortIsFinal == Spec => []AbortedEndsStale
<1>1. CancelInv => AbortedEndsStale
  BY DEF CancelInv
<1> QED BY <1>1, InitShape, ShapeStep, InitCancel, CancelStep, PTL DEF Spec

\* No caller is ever told that a generation failed because it was cancelled.
THEOREM CancelledNeverFailsHolds == Spec => []CancelledNeverFails
<1>1. CancelInv => CancelledNeverFails
  BY DEF CancelInv
<1> QED BY <1>1, InitShape, ShapeStep, InitCancel, CancelStep, PTL DEF Spec

-----------------------------------------------------------------------------
(***************************************************************************)
(* Waiters.  Waits(w, k): the receiver w waits for an answer about k.      *)
(***************************************************************************)

Waits(w, k) ==
  w \in DOMAIN waiter /\ waiter[w].answer = "none" /\ waiter[w].key = k

HeldByKey ==
  /\ \A p \in pending : p.subscribers # {}
  /\ \A p \in pending : \A w \in p.subscribers : Waits(w, p.cache_key)
  /\ \A k \in DOMAIN inflight : \A w \in inflight[k].subscribers : Waits(w, k)
  /\ \A w \in DOMAIN waiter :
       waiter[w].answer = "none" =>
         \/ \E p \in pending : w \in p.subscribers
         \/ \E k \in DOMAIN inflight : w \in inflight[k].subscribers

LEMMA HeldIsNotLost == Shape /\ HeldByKey => NoWaiterLost
<1> SUFFICES ASSUME Shape, HeldByKey, NEW w \in Waiters
             PROVE  Answering(w) = IF w \in DOMAIN waiter /\ waiter[w].answer = "none"
                                     THEN {waiter[w].key} ELSE {}
  BY DEF NoWaiterLost
<1>1. \A k \in Answering(w) : Waits(w, k)
  BY DEF HeldByKey, Answering
<1>2. CASE w \in DOMAIN waiter /\ waiter[w].answer = "none"
  <2>1. Answering(w) # {}
    BY <1>2 DEF HeldByKey, Answering
  <2> QED BY <1>1, <1>2, <2>1 DEF Waits
<1>3. CASE ~ (w \in DOMAIN waiter /\ waiter[w].answer = "none")
  BY <1>1, <1>3 DEF Waits
<1> QED BY <1>2, <1>3

LEMMA InitHeld == Init => HeldByKey
BY DEF Init, HeldByKey

\* A request adds its receiver to the waiting ones and changes no other.
LEMMA RequestWaits ==
  ASSUME TypeOK, NEW w \in Waiters, NEW k \in Keys, NEW e \in 1 .. MaxEpoch,
         Request(w, k, e)
  PROVE  /\ w \notin DOMAIN waiter /\ Waits(w, k)'
         /\ \A v \in DOMAIN waiter : \A j : Waits(v, j)' <=> Waits(v, j)
         /\ DOMAIN waiter' = DOMAIN waiter \cup {w}
<1>1. w \notin DOMAIN waiter
  BY DEF Request
<1>2. /\ DOMAIN waiter' = DOMAIN waiter \cup {w}
      /\ waiter'[w] = [key |-> k, answer |-> "none"]
      /\ \A v \in DOMAIN waiter : waiter'[v] = waiter[v]
  BY RequestKeeps
<1>3. waiter'[w].key = k /\ waiter'[w].answer = "none"
  BY <1>2
<1> QED BY <1>1, <1>2, <1>3 DEF Waits

LEMMA SubmitHeld ==
  ASSUME Shape, HeldByKey, NEW w \in Waiters, NEW k \in Keys,
         NEW pr \in Visible .. Idle, NEW e \in 1 .. MaxEpoch,
         JoinInFlight(w, k, e) \/ JoinPending(w, k, pr, e) \/ Enqueue(w, k, pr, e)
  PROVE  HeldByKey'
<1>1. Request(w, k, e) /\ TypeOK
  BY DEF JoinInFlight, JoinPending, Enqueue, Shape
<1>2. /\ w \notin DOMAIN waiter /\ Waits(w, k)'
      /\ \A v \in DOMAIN waiter : \A j : Waits(v, j)' <=> Waits(v, j)
      /\ DOMAIN waiter' = DOMAIN waiter \cup {w}
  BY <1>1, RequestWaits
<1>3. \A v, j : Waits(v, j) => Waits(v, j)'
  BY <1>2 DEF Waits
<1>4. \A v \in DOMAIN waiter' \ {w} :
        waiter'[v].answer = "none" => waiter[v].answer = "none" /\ v \in DOMAIN waiter
  BY <1>2 DEF Waits
<1>5. CASE JoinInFlight(w, k, e)
  <2>1. /\ k \in DOMAIN inflight /\ UNCHANGED pending
        /\ inflight' = [inflight EXCEPT ![k].subscribers = @ \cup {w}]
    BY <1>5 DEF JoinInFlight, queueVars
  <2>2. /\ DOMAIN inflight' = DOMAIN inflight
        /\ inflight'[k].subscribers = inflight[k].subscribers \cup {w}
        /\ \A j \in DOMAIN inflight \ {k} : inflight'[j] = inflight[j]
    BY <2>1 DEF Shape, TypeOK, Entry
  <2> QED BY <1>2, <1>3, <1>4, <2>1, <2>2 DEF HeldByKey
<1>6. CASE JoinPending(w, k, pr, e)
  <2>1. PICK p \in pending : /\ p.cache_key = k
                             /\ pending' = (pending \ {p}) \cup {Join(p, w, pr)}
    BY <1>6 DEF JoinPending
  <2>2. /\ Join(p, w, pr).cache_key = k
        /\ Join(p, w, pr).subscribers = p.subscribers \cup {w}
    BY <2>1 DEF Join, Shape, TypeOK, Task
  <2>3. UNCHANGED inflight
    BY <1>6 DEF JoinPending, jobVars
  <2> QED BY <1>2, <1>3, <1>4, <2>1, <2>2, <2>3 DEF HeldByKey
<1>7. CASE Enqueue(w, k, pr, e)
  <2> DEFINE t == [cache_key |-> k, priority |-> pr, epoch |-> e,
                   subscribers |-> {w}, aged |-> FALSE]
  <2>1. /\ pending' = pending \cup {t} /\ UNCHANGED inflight
        /\ t.cache_key = k /\ t.subscribers = {w}
    BY <1>7 DEF Enqueue, jobVars
  <2> HIDE DEF t
  <2> QED BY <1>2, <1>3, <1>4, <2>1 DEF HeldByKey
<1> QED BY <1>5, <1>6, <1>7

\* Draining T and answering exactly its waiters.
LEMMA CancelHeld ==
  ASSUME Shape, HeldByKey, NEW T \in SUBSET pending, NEW K, NEW stale \in BOOLEAN,
         Drain(T), Abort(K, stale)
  PROVE  HeldByKey'
<1> DEFINE S == UNION {p.subscribers : p \in T}
<1>1. pending' = pending \ T /\ Send(S, "stale") /\ "stale" \in Answers /\ TypeOK
  BY DEF Drain, Dequeue, Answers, Shape
<1>2. /\ DOMAIN inflight' = DOMAIN inflight
      /\ \A k \in DOMAIN inflight : inflight'[k].subscribers = inflight[k].subscribers
  BY <1>1, AbortKeeps
<1> HIDE DEF S
<1>3. /\ DOMAIN waiter' = DOMAIN waiter
      /\ \A w \in DOMAIN waiter :
           /\ waiter'[w].key = waiter[w].key
           /\ waiter'[w].answer = IF w \in S THEN "stale" ELSE waiter[w].answer
  BY <1>1, SendKeeps
<1>4. \A v, k : Waits(v, k) /\ v \notin S => Waits(v, k)'
  BY <1>3 DEF Waits
<1>5. \A p \in pending \ T : \A w \in p.subscribers : w \notin S
  BY DEF S, HeldByKey, Waits, Shape, OneJobPerKey
<1>6. \A k \in DOMAIN inflight : \A w \in inflight[k].subscribers : w \notin S
  BY DEF S, HeldByKey, Waits, Shape, OneJobPerKey, PendingKeys
<1>7. \A w \in DOMAIN waiter' :
        waiter'[w].answer = "none" =>
          \/ \E p \in pending' : w \in p.subscribers
          \/ \E k \in DOMAIN inflight' : w \in inflight'[k].subscribers
  BY <1>1, <1>2, <1>3 DEF HeldByKey, S
<1> QED BY <1>1, <1>2, <1>4, <1>5, <1>6, <1>7 DEF HeldByKey

LEMMA CompletedHeld ==
  ASSUME Shape, HeldByKey, NEW wk \in workers, Completed(wk)
  PROVE  HeldByKey'
<1> DEFINE k == wk.cache_key
           S == inflight[k].subscribers
           ans == Effective(inflight[k], wk)
<1>1. /\ k \in DOMAIN inflight /\ inflight' = Without(inflight, k)
      /\ ans \in Answers \ {"none"} /\ Send(S, ans) /\ UNCHANGED pending /\ TypeOK
  BY CompletedEffect DEF Shape
<1> HIDE DEF ans
<1>2. /\ DOMAIN waiter' = DOMAIN waiter
      /\ \A w \in DOMAIN waiter :
           /\ waiter'[w].key = waiter[w].key
           /\ waiter'[w].answer = IF w \in S THEN ans ELSE waiter[w].answer
  BY <1>1, SendKeeps
<1> HIDE DEF k
<1>3. /\ DOMAIN inflight' = DOMAIN inflight \ {k}
      /\ \A j \in DOMAIN inflight' : inflight'[j] = inflight[j]
  BY <1>1 DEF Without
<1>4. \A v, j : Waits(v, j) /\ v \notin S => Waits(v, j)'
  BY <1>2 DEF Waits
<1>5. \A p \in pending : \A w \in p.subscribers : w \notin S
  BY <1>1 DEF HeldByKey, Waits, Shape, OneJobPerKey, PendingKeys
<1>6. \A j \in DOMAIN inflight \ {k} : \A w \in inflight[j].subscribers : w \notin S
  BY <1>1 DEF HeldByKey, Waits
<1>7. \A w \in DOMAIN waiter' :
        waiter'[w].answer = "none" =>
          \/ \E p \in pending' : w \in p.subscribers
          \/ \E j \in DOMAIN inflight' : w \in inflight'[j].subscribers
  BY <1>1, <1>2, <1>3 DEF HeldByKey
<1> QED BY <1>1, <1>3, <1>4, <1>5, <1>6, <1>7 DEF HeldByKey

LEMMA StartHeld ==
  ASSUME Shape, HeldByKey, NEW p \in pending, Start(p)
  PROVE  HeldByKey'
<1> DEFINE k == p.cache_key
           entry == [epoch |-> p.epoch, subscribers |-> p.subscribers,
                     abort |-> FALSE, stale_on_completion |-> FALSE]
<1>1. /\ pending' = pending \ {p} /\ inflight' = Put(inflight, k, entry)
      /\ UNCHANGED waiter /\ entry.subscribers = p.subscribers
      /\ k \notin DOMAIN inflight
  BY DEF Start, Dequeue, Shape, OneJobPerKey, PendingKeys
<1> HIDE DEF entry
<1>2. /\ DOMAIN inflight' = DOMAIN inflight \cup {k}
      /\ inflight'[k] = entry
      /\ \A j \in DOMAIN inflight : inflight'[j] = inflight[j]
  BY <1>1 DEF Put
<1>3. \A v, j : Waits(v, j) <=> Waits(v, j)'
  BY <1>1 DEF Waits
<1> QED BY <1>1, <1>2, <1>3 DEF HeldByKey

LEMMA OtherHeld ==
  ASSUME Shape, HeldByKey,
         \/ \E limit \in Limits, budget \in Budgets : SetConfig(limit, budget)
         \/ \E fast \in BOOLEAN : SetFastScrolling(fast)
         \/ LeaveSchedule
         \/ \E wk \in workers, r \in Results : WorkerReturns(wk, r)
         \/ \E p \in pending : Age(p)
         \/ \E w \in DOMAIN waiter : Receive(w)
         \/ UNCHANGED vars
  PROVE  HeldByKey'
<1>1. CASE \E p \in pending : Age(p)
  <2>1. PICK p \in pending : Age(p)
    BY <1>1
  <2> DEFINE old == [p EXCEPT !.aged = TRUE]
  <2>2. /\ pending' = (pending \ {p}) \cup {old} /\ UNCHANGED <<inflight, waiter>>
        /\ old.subscribers = p.subscribers /\ old.cache_key = p.cache_key
    BY <2>1 DEF Age, jobVars, Shape, TypeOK, Task
  <2> HIDE DEF old
  <2>3. \A v, j : Waits(v, j) <=> Waits(v, j)'
    BY <2>2 DEF Waits
  <2> QED BY <2>2, <2>3 DEF HeldByKey
<1>2. CASE \E w \in DOMAIN waiter : Receive(w)
  <2>1. PICK w \in DOMAIN waiter : Receive(w)
    BY <1>2
  <2>2. /\ waiter[w].answer # "none" /\ waiter' = Without(waiter, w)
        /\ UNCHANGED <<pending, inflight>>
    BY <2>1 DEF Receive, queueVars, jobVars
  <2>3. /\ DOMAIN waiter' = DOMAIN waiter \ {w}
        /\ \A v \in DOMAIN waiter' : waiter'[v] = waiter[v]
    BY <2>2 DEF Without
  <2>4. \A v, j : Waits(v, j) => Waits(v, j)'
    BY <2>2, <2>3 DEF Waits
  <2> QED BY <2>2, <2>3, <2>4 DEF HeldByKey
<1>3. CASE UNCHANGED <<pending, inflight, waiter>>
  <2>1. \A v, j : Waits(v, j) <=> Waits(v, j)'
    BY <1>3 DEF Waits
  <2> QED BY <1>3, <2>1 DEF HeldByKey
<1> QED BY <1>1, <1>2, <1>3 DEF SetConfig, SetFastScrolling, LeaveSchedule,
           WorkerReturns, vars, queueVars, jobVars

LEMMA HeldStep == Shape /\ HeldByKey /\ [Next]_vars => HeldByKey'
<1> SUFFICES ASSUME Shape, HeldByKey, [Next]_vars PROVE HeldByKey'
  OBVIOUS
<1>1. ASSUME NEW e \in 1 .. MaxEpoch, NewEpoch(e) PROVE HeldByKey'
  <2>1. CASE e <= current_epoch
    BY <1>1, <2>1 DEF NewEpoch, queueVars, HeldByKey, Waits
  <2>2. CASE ~ (e <= current_epoch)
    <3> DEFINE T == {p \in pending : p.epoch < e}
               K == {k \in DOMAIN inflight : inflight[k].epoch < e}
    <3>1. Drain(T) /\ Abort(K, FALSE) /\ T \in SUBSET pending
      BY <1>1, <2>2 DEF NewEpoch
    <3> HIDE DEF T, K
    <3> QED BY <3>1, CancelHeld
  <2> QED BY <2>1, <2>2
<1>2. CASE CancelAll
  BY <1>2, CancelHeld DEF CancelAll
<1>3. ASSUME NEW K \in SUBSET Keys, CancelKeys(K) PROVE HeldByKey'
  <2> DEFINE T == {p \in pending : p.cache_key \in K}
  <2>1. Drain(T) /\ Abort(DOMAIN inflight \cap K, TRUE) /\ T \in SUBSET pending
    BY <1>3 DEF CancelKeys, AbortMarked
  <2> HIDE DEF T
  <2> QED BY <2>1, CancelHeld
<1>4. CASE UNCHANGED vars
  BY <1>4, OtherHeld
<1>5. CASE Next
  <2>1. Visible \in Visible .. Idle
    BY DEF Visible, Idle
  <2> QED BY <1>1, <1>2, <1>3, <1>5, <2>1, Steps, SubmitHeld, CompletedHeld,
             StartHeld, OtherHeld
<1> QED BY <1>4, <1>5

\* No caller's answer is lost, whatever is submitted, cancelled or superseded.
THEOREM NoWaiterLostHolds == Spec => []NoWaiterLost
BY HeldIsNotLost, InitShape, ShapeStep, InitHeld, HeldStep, PTL DEF Spec

\* Whoever asked is told once, and truly, whatever comes between (the four parts
\* above together, as the run checks them).
THEOREM EveryWaiterToldHolds == Spec => []EveryWaiterTold
BY OneJobPerKeyHolds, NoWaiterLostHolds, AbortIsFinal, CancelledNeverFailsHolds, PTL
   DEF EveryWaiterTold

-----------------------------------------------------------------------------
(***************************************************************************)
(* The accounts: worker slots first, then memory.                          *)
(***************************************************************************)

SlotsExact == IsFiniteSet(workers) /\ running_count = Cardinality(workers)

LEMMA InitSlots == Init => SlotsExact
BY FS_EmptySet DEF Init, SlotsExact

LEMMA SlotsStep == Shape /\ SlotsExact /\ [Next]_vars => SlotsExact'
<1> SUFFICES ASSUME Shape, SlotsExact, [Next]_vars PROVE SlotsExact'
  OBVIOUS
<1>1. ASSUME NEW p \in pending, Start(p) PROVE SlotsExact'
  <2> DEFINE wk == [cache_key |-> p.cache_key, epoch |-> p.epoch, result |-> "none"]
  <2>1. workers' = workers \cup {wk} /\ running_count' = running_count + 1
    BY <1>1 DEF Start
  <2>2. wk \notin workers
    BY DEF Shape, OneJobPerKey, PendingKeys, TypeOK, Worker
  <2> HIDE DEF wk
  <2> QED BY <2>1, <2>2, FS_AddElement DEF SlotsExact
<1>2. ASSUME NEW wk \in workers, Completed(wk) PROVE SlotsExact'
  <2>1. workers' = workers \ {wk} /\ running_count' = Minus(running_count, 1)
    BY <1>2, CompletedEffect
  <2>2. /\ IsFiniteSet(workers \ {wk})
        /\ Cardinality(workers \ {wk}) = Cardinality(workers) - 1
    BY FS_RemoveElement DEF SlotsExact
  <2>3. Cardinality(workers) \in Nat /\ Cardinality(workers \ {wk}) \in Nat
    BY <2>2, FS_CardinalityType DEF SlotsExact
  <2> QED BY <2>1, <2>2, <2>3 DEF SlotsExact, Minus
<1>3. ASSUME NEW wk \in workers, NEW r \in Results, WorkerReturns(wk, r)
      PROVE  SlotsExact'
  <2> DEFINE new == [wk EXCEPT !.result = r]
  <2>1. /\ workers' = (workers \ {wk}) \cup {new} /\ UNCHANGED running_count
        /\ new.cache_key = wk.cache_key
    BY <1>3 DEF WorkerReturns, Shape, TypeOK, Worker
  <2> HIDE DEF new
  <2>2. new \notin workers \ {wk}
    BY <2>1 DEF Shape, OneJobPerKey
  <2>3. /\ IsFiniteSet(workers \ {wk})
        /\ Cardinality(workers \ {wk}) = Cardinality(workers) - 1
    BY FS_RemoveElement DEF SlotsExact
  <2>4. /\ IsFiniteSet((workers \ {wk}) \cup {new})
        /\ Cardinality((workers \ {wk}) \cup {new}) = Cardinality(workers \ {wk}) + 1
    BY <2>2, <2>3, FS_AddElement
  <2>5. Cardinality(workers) \in Nat
    BY FS_CardinalityType DEF SlotsExact
  <2> QED BY <2>1, <2>3, <2>4, <2>5 DEF SlotsExact
<1>4. CASE UNCHANGED <<workers, running_count>>
  BY <1>4 DEF SlotsExact
<1>5. CASE UNCHANGED vars
  BY <1>4, <1>5 DEF vars, jobVars
<1>6. CASE Next
  <2>1. \/ UNCHANGED <<workers, running_count>>
        \/ \E p \in pending : Start(p)
        \/ \E wk \in workers : Completed(wk)
        \/ \E wk \in workers, r \in Results : WorkerReturns(wk, r)
    BY <1>6, Steps DEF JoinInFlight, JoinPending, Enqueue, NewEpoch, CancelAll,
       CancelKeys, SetConfig, SetFastScrolling, LeaveSchedule, Age, Receive, jobVars
  <2> QED BY <1>1, <1>2, <1>3, <1>4, <2>1
<1> QED BY <1>5, <1>6

(***************************************************************************)
(* The memory account: a sum over the workers, one of whom comes or goes.  *)
(***************************************************************************)

MemoryExact == running_memory = SumFunction(Charged)

LEMMA InitMemory == Init => MemoryExact
BY SumOfNothing DEF Init, MemoryExact, Charged

\* Every worker was admitted with the estimate of a key.
ChargesTyped ==
  /\ DOMAIN Charged = workers
  /\ \A v \in workers : Charged[v] = EstMemory[v.cache_key] /\ Charged[v] \in Nat

LEMMA ChargedIsNat == Shape => ChargesTyped
BY ConstantsAssumption DEF ChargesTyped, Charged, Shape, TypeOK, Worker

LEMMA MemoryStep == Shape /\ SlotsExact /\ MemoryExact /\ [Next]_vars => MemoryExact'
<1> SUFFICES ASSUME Shape, SlotsExact, MemoryExact, [Next]_vars PROVE MemoryExact'
  OBVIOUS
<1>1. Shape' /\ SlotsExact'
  BY ShapeStep, SlotsStep
<1>2. IsFiniteSet(workers) /\ IsFiniteSet(workers')
  BY <1>1 DEF SlotsExact
<1>3. /\ DOMAIN Charged = workers
      /\ \A v \in workers : Charged[v] = EstMemory[v.cache_key] /\ Charged[v] \in Nat
  BY ChargedIsNat DEF ChargesTyped
<1>4. /\ DOMAIN Charged' = workers'
      /\ \A v \in workers' : Charged'[v] = EstMemory[v.cache_key] /\ Charged'[v] \in Nat
  <2>1. ChargesTyped'
    BY <1>1, ChargedIsNat, PTL
  <2> QED BY <2>1 DEF ChargesTyped
<1>5. SumFunction(Charged) \in Nat
  BY <1>2, <1>3, SumIsNat
<1>6. ASSUME NEW p \in pending, Start(p) PROVE MemoryExact'
  <2> DEFINE wk == [cache_key |-> p.cache_key, epoch |-> p.epoch, result |-> "none"]
  <2>1. /\ workers' = workers \cup {wk} /\ wk.cache_key = p.cache_key
        /\ running_memory' = running_memory + EstMemory[p.cache_key]
    BY <1>6 DEF Start
  <2>2. wk \notin workers
    BY DEF Shape, OneJobPerKey, PendingKeys, TypeOK, Worker
  <2> HIDE DEF wk
  <2>3. wk \in workers' /\ workers = workers' \ {wk}
    BY <2>1, <2>2
  <2>4. SumFunction(Charged') = Charged'[wk] + SumFunction(Charged)
    BY <1>2, <1>3, <1>4, <2>3, SumSplit
  <2>5. Charged'[wk] = EstMemory[p.cache_key] /\ Charged'[wk] \in Nat
    BY <1>4, <2>1, <2>3
  <2> QED BY <1>5, <2>1, <2>4, <2>5 DEF MemoryExact
<1>7. ASSUME NEW wk \in workers, Completed(wk) PROVE MemoryExact'
  <2>1. workers' = workers \ {wk}
    BY <1>7 DEF Completed
  <2>2. running_memory' = Minus(running_memory, EstMemory[wk.cache_key])
    BY <1>7 DEF Completed, Release, Shape, OneJobPerKey, TypeOK, Worker
  <2>3. SumFunction(Charged) = Charged[wk] + SumFunction(Charged')
    BY <1>2, <1>3, <1>4, <2>1, SumSplit
  <2>4. SumFunction(Charged') \in Nat
    BY <1>2, <1>4, SumIsNat
  <2>5. Charged[wk] = EstMemory[wk.cache_key] /\ Charged[wk] \in Nat
    BY <1>3
  <2> QED BY <2>2, <2>3, <2>4, <2>5 DEF MemoryExact, Minus
<1>8. ASSUME NEW wk \in workers, NEW r \in Results, WorkerReturns(wk, r)
      PROVE  MemoryExact'
  <2> DEFINE new == [wk EXCEPT !.result = r]
             rest == [v \in workers \ {wk} |-> EstMemory[v.cache_key]]
  <2>1. /\ workers' = (workers \ {wk}) \cup {new} /\ UNCHANGED running_memory
        /\ new.cache_key = wk.cache_key
    BY <1>8 DEF WorkerReturns, Shape, TypeOK, Worker
  <2> HIDE DEF new
  <2>2. new \notin workers \ {wk}
    BY <2>1 DEF Shape, OneJobPerKey
  <2>3. workers' \ {new} = workers \ {wk} /\ new \in workers'
    BY <2>1, <2>2
  <2>4. /\ DOMAIN rest = workers \ {wk}
        /\ \A v \in DOMAIN rest : rest[v] = EstMemory[v.cache_key]
    OBVIOUS
  <2> HIDE DEF rest
  <2>5. SumFunction(Charged) = Charged[wk] + SumFunction(rest)
    BY <1>2, <1>3, <2>4, SumSplit
  <2>6. SumFunction(Charged') = Charged'[new] + SumFunction(rest)
    BY <1>2, <1>4, <2>3, <2>4, SumSplit
  <2>7. Charged'[new] = Charged[wk]
    BY <1>3, <1>4, <2>1, <2>3
  <2> QED BY <2>1, <2>5, <2>6, <2>7 DEF MemoryExact
<1>9. CASE UNCHANGED <<workers, running_memory>>
  BY <1>9 DEF MemoryExact, Charged
<1>10. CASE UNCHANGED vars
  BY <1>9, <1>10 DEF vars, jobVars
<1>11. CASE Next
  <2>1. \/ UNCHANGED <<workers, running_memory>>
        \/ \E p \in pending : Start(p)
        \/ \E wk \in workers : Completed(wk)
        \/ \E wk \in workers, r \in Results : WorkerReturns(wk, r)
    BY <1>11, Steps DEF JoinInFlight, JoinPending, Enqueue, NewEpoch, CancelAll,
       CancelKeys, SetConfig, SetFastScrolling, LeaveSchedule, Age, Receive, jobVars
  <2> QED BY <1>6, <1>7, <1>8, <1>9, <2>1
<1> QED BY <1>10, <1>11

\* Neither the slots nor the memory ever drift from the jobs on the blocking
\* pool: cancelling, superseding and failing jobs leaks no worker and no
\* megabyte.
THEOREM AccountsExactHolds == Spec => []AccountsExact
<1>1. SlotsExact /\ MemoryExact => AccountsExact
  BY DEF SlotsExact, MemoryExact, AccountsExact
<1> QED BY <1>1, InitShape, ShapeStep, InitSlots, SlotsStep, InitMemory, MemoryStep,
        PTL DEF Spec

-----------------------------------------------------------------------------
(***************************************************************************)
(* The scheduler implements SingleFlight.                                  *)
(***************************************************************************)

LEMMA RunningIsInFlight == Shape => running = DOMAIN inflight
<1> SUFFICES ASSUME Shape PROVE running = DOMAIN inflight
  OBVIOUS
<1>1. \A v \in workers : v.cache_key \in DOMAIN inflight
  BY DEF Shape, OneJobPerKey, TypeOK, Worker
<1>2. \A k \in DOMAIN inflight : \E v \in workers : v.cache_key = k
  BY DEF Shape, OneJobPerKey, TypeOK
<1> QED BY <1>1, <1>2 DEF running

LEMMA WaitingMeansWaits ==
  /\ DOMAIN asked = {w \in DOMAIN waiter : waiter[w].answer = "none"}
  /\ \A w \in DOMAIN asked : Waits(w, asked[w])
  /\ \A w, k : Waits(w, k) => w \in DOMAIN asked /\ asked[w] = k
BY DEF asked, Waits

LEMMA InitFlight == Init => Flight!Init
<1> SUFFICES ASSUME Init PROVE Flight!Init
  OBVIOUS
<1>1. {v \in DOMAIN waiter : waiter[v].answer = "none"} = {}
  BY DEF Init
<1>2. asked = [w \in {} |-> {}]
  BY <1>1 DEF asked
<1>3. answered = {} /\ running = {}
  BY DEF Init, answered, running
<1> QED BY <1>2, <1>3 DEF Flight!Init

\* Answering the receivers in S, all of which wait, is SingleFlight's Answer.
LEMMA SendIsAnswer ==
  ASSUME TypeOK, NEW S, NEW a \in Answers \ {"none"}, Send(S, a),
         \A w \in S : w \in DOMAIN asked
  PROVE  /\ asked' = [w \in DOMAIN asked \ S |-> asked[w]]
         /\ answered' = answered \cup S
<1>1. /\ DOMAIN waiter' = DOMAIN waiter
      /\ \A w \in DOMAIN waiter :
           /\ waiter'[w].key = waiter[w].key
           /\ waiter'[w].answer = IF w \in S THEN a ELSE waiter[w].answer
  BY SendKeeps
<1>2. DOMAIN asked' = DOMAIN asked \ S
  BY <1>1 DEF asked
<1>3. \A w \in DOMAIN asked' : asked'[w] = asked[w]
  BY <1>1, <1>2 DEF asked
<1>4. asked' = [w \in DOMAIN asked' |-> asked'[w]]
  BY DEF asked
<1>5. asked' = [w \in DOMAIN asked \ S |-> asked[w]]
  BY <1>2, <1>3, <1>4
<1>6. answered' = answered \cup S
  BY <1>1 DEF answered, asked
<1> QED BY <1>5, <1>6

LEMMA SubmitFlight ==
  ASSUME Shape, NEW w \in Waiters, NEW k \in Keys,
         NEW pr \in Visible .. Idle, NEW e \in 1 .. MaxEpoch,
         JoinInFlight(w, k, e) \/ JoinPending(w, k, pr, e) \/ Enqueue(w, k, pr, e)
  PROVE  Flight!Ask(w, k)
<1>1. Request(w, k, e) /\ TypeOK /\ UNCHANGED workers
  BY DEF JoinInFlight, JoinPending, Enqueue, Shape, jobVars
<1>2. /\ w \notin DOMAIN waiter
      /\ DOMAIN waiter' = DOMAIN waiter \cup {w}
      /\ waiter'[w] = [key |-> k, answer |-> "none"]
      /\ \A v \in DOMAIN waiter : waiter'[v] = waiter[v]
  BY <1>1, RequestKeeps DEF Request
<1>3. waiter'[w].key = k /\ waiter'[w].answer = "none"
  BY <1>2
<1>4. w \notin DOMAIN asked \cup answered
  BY <1>2 DEF asked, answered
<1>5. DOMAIN asked' = DOMAIN asked \cup {w}
  BY <1>2, <1>3 DEF asked
<1>6. asked'[w] = k /\ \A v \in DOMAIN asked : asked'[v] = asked[v]
  BY <1>2, <1>3 DEF asked
<1>7. asked' = [v \in DOMAIN asked' |-> asked'[v]]
  BY DEF asked
<1>8. asked' = [v \in DOMAIN asked \cup {w} |-> IF v = w THEN k ELSE asked[v]]
  BY <1>4, <1>5, <1>6, <1>7
<1>9. answered' = answered /\ running' = running
  BY <1>1, <1>2, <1>3 DEF answered, running
<1> QED BY <1>4, <1>8, <1>9 DEF Flight!Ask

LEMMA CancelFlight ==
  ASSUME Shape, HeldByKey, NEW T \in SUBSET pending, Drain(T), UNCHANGED workers
  PROVE  \E W \in SUBSET DOMAIN asked : Flight!Withdraw(W)
<1> DEFINE S == UNION {p.subscribers : p \in T}
<1>1. Send(S, "stale") /\ "stale" \in Answers \ {"none"} /\ TypeOK
  BY DEF Drain, Answers, Shape
<1>2. \A w \in S : /\ w \in DOMAIN asked
                   /\ \E p \in T : asked[w] = p.cache_key
  BY WaitingMeansWaits DEF HeldByKey
<1>3. \A w \in S : asked[w] \notin running
  BY <1>2, RunningIsInFlight DEF Shape, OneJobPerKey, PendingKeys
<1> HIDE DEF S
<1>4. /\ asked' = [w \in DOMAIN asked \ S |-> asked[w]]
      /\ answered' = answered \cup S
  BY <1>1, <1>2, SendIsAnswer
<1>5. UNCHANGED running
  BY DEF running
<1>6. Flight!Withdraw(S)
  BY <1>3, <1>4, <1>5 DEF Flight!Withdraw, Flight!Answer
<1>7. S \in SUBSET DOMAIN asked
  BY <1>2
<1> QED BY <1>6, <1>7

LEMMA CompletedFlight ==
  ASSUME Shape, HeldByKey, NEW wk \in workers, Completed(wk)
  PROVE  wk.cache_key \in Keys /\ Flight!End(wk.cache_key)
<1> DEFINE k == wk.cache_key
           S == inflight[k].subscribers
           ans == Effective(inflight[k], wk)
<1>1. /\ k \in DOMAIN inflight /\ workers' = workers \ {wk}
      /\ ans \in Answers \ {"none"} /\ Send(S, ans) /\ TypeOK /\ k \in Keys
  BY CompletedEffect DEF Shape, TypeOK, Worker
<1>2. S = Flight!Waiting(k)
  <2>1. \A w \in S : w \in DOMAIN asked /\ asked[w] = k
    BY <1>1, WaitingMeansWaits DEF HeldByKey
  <2>2. ASSUME NEW w \in DOMAIN asked, asked[w] = k PROVE w \in S
    <3>1. Waits(w, k)
      BY <2>2, WaitingMeansWaits
    <3>2. CASE \E p \in pending : w \in p.subscribers
      BY <1>1, <3>1, <3>2 DEF HeldByKey, Waits, Shape, OneJobPerKey, PendingKeys
    <3>3. CASE \E j \in DOMAIN inflight : w \in inflight[j].subscribers
      BY <3>1, <3>3 DEF HeldByKey, Waits
    <3> QED BY <3>1, <3>2, <3>3 DEF HeldByKey, Waits
  <2> QED BY <2>1, <2>2 DEF Flight!Waiting
<1> HIDE DEF ans
<1>3. \A w \in S : w \in DOMAIN asked
  BY <1>2 DEF Flight!Waiting
<1>4. /\ asked' = [w \in DOMAIN asked \ S |-> asked[w]]
      /\ answered' = answered \cup S
  BY <1>1, <1>3, SendIsAnswer
<1>5. k \in running /\ running' = running \ {k}
  BY <1>1 DEF running, Shape, OneJobPerKey
<1> QED BY <1>1, <1>2, <1>4, <1>5 DEF Flight!End, Flight!Answer

LEMMA StartFlight ==
  ASSUME Shape, HeldByKey, NEW p \in pending, Start(p)
  PROVE  p.cache_key \in Keys /\ Flight!Begin(p.cache_key)
<1> DEFINE wk == [cache_key |-> p.cache_key, epoch |-> p.epoch, result |-> "none"]
<1>1. workers' = workers \cup {wk} /\ UNCHANGED waiter /\ wk.cache_key = p.cache_key
  BY DEF Start
<1> HIDE DEF wk
<1>2. running' = running \cup {p.cache_key}
  BY <1>1 DEF running
<1>3. p.cache_key \notin running
  BY RunningIsInFlight DEF Shape, OneJobPerKey, PendingKeys
<1>4. UNCHANGED <<asked, answered>>
  BY <1>1 DEF asked, answered
<1>5. PICK w \in p.subscribers : Waits(w, p.cache_key)
  BY DEF HeldByKey
<1>6. w \in Flight!Waiting(p.cache_key)
  BY <1>5, WaitingMeansWaits DEF Flight!Waiting
<1>7. p.cache_key \in Keys
  BY DEF Shape, TypeOK, Task
<1> QED BY <1>2, <1>3, <1>4, <1>6, <1>7 DEF Flight!Begin

LEMMA ReceiveFlight ==
  ASSUME Shape, NEW w \in DOMAIN waiter, Receive(w)
  PROVE  w \in Waiters /\ Flight!Collect(w)
<1>1. /\ waiter[w].answer # "none" /\ waiter' = Without(waiter, w) /\ UNCHANGED workers
      /\ w \in Waiters
  BY DEF Receive, jobVars, Shape, TypeOK
<1>2. /\ DOMAIN waiter' = DOMAIN waiter \ {w}
      /\ \A v \in DOMAIN waiter' : waiter'[v] = waiter[v]
  BY <1>1 DEF Without
<1>3. DOMAIN asked' = DOMAIN asked /\ \A v \in DOMAIN asked : asked'[v] = asked[v]
  BY <1>1, <1>2 DEF asked
<1>4. asked' = [v \in DOMAIN asked' |-> asked'[v]] /\ asked = [v \in DOMAIN asked |-> asked[v]]
  BY DEF asked
<1>5. asked' = asked
  BY <1>3, <1>4
<1>6. w \in answered /\ answered' = answered \ {w} /\ running' = running
  BY <1>1, <1>2 DEF answered, running
<1> QED BY <1>1, <1>5, <1>6 DEF Flight!Collect

LEMMA OtherFlight ==
  ASSUME Shape,
         \/ \E limit \in Limits, budget \in Budgets : SetConfig(limit, budget)
         \/ \E fast \in BOOLEAN : SetFastScrolling(fast)
         \/ LeaveSchedule
         \/ \E wk \in workers, r \in Results : WorkerReturns(wk, r)
         \/ \E p \in pending : Age(p)
         \/ UNCHANGED vars
  PROVE  UNCHANGED Flight!vars
<1>1. UNCHANGED waiter
  BY DEF SetConfig, SetFastScrolling, LeaveSchedule, WorkerReturns, Age, vars
<1>2. UNCHANGED running
  <2>1. CASE \E wk \in workers, r \in Results : WorkerReturns(wk, r)
    <3>1. PICK wk \in workers, r \in Results : WorkerReturns(wk, r)
      BY <2>1
    <3> DEFINE new == [wk EXCEPT !.result = r]
    <3>2. workers' = (workers \ {wk}) \cup {new} /\ new.cache_key = wk.cache_key
      BY <3>1 DEF WorkerReturns, Shape, TypeOK, Worker
    <3> HIDE DEF new
    <3> QED BY <3>2 DEF running
  <2>2. CASE UNCHANGED workers
    BY <2>2 DEF running
  <2> QED BY <2>1, <2>2 DEF SetConfig, SetFastScrolling, LeaveSchedule, Age,
             vars, jobVars
<1> QED BY <1>1, <1>2 DEF Flight!vars, asked, answered

LEMMA FlightStep ==
  Shape /\ HeldByKey /\ [Next]_vars => [Flight!Next]_(Flight!vars)
<1> SUFFICES ASSUME Shape, HeldByKey, [Next]_vars
             PROVE  Flight!Next \/ UNCHANGED Flight!vars
  OBVIOUS
<1>1. ASSUME NEW e \in 1 .. MaxEpoch, NewEpoch(e)
      PROVE  Flight!Next \/ UNCHANGED Flight!vars
  <2>1. CASE e <= current_epoch
    BY <1>1, <2>1 DEF NewEpoch, Flight!vars, asked, answered, running
  <2>2. CASE ~ (e <= current_epoch)
    <3> DEFINE T == {p \in pending : p.epoch < e}
    <3>1. Drain(T) /\ T \in SUBSET pending /\ UNCHANGED workers
      BY <1>1, <2>2 DEF NewEpoch
    <3> HIDE DEF T
    <3> QED BY <3>1, CancelFlight DEF Flight!Next
  <2> QED BY <2>1, <2>2
<1>2. ASSUME CancelAll PROVE Flight!Next
  BY <1>2, CancelFlight DEF CancelAll, Flight!Next
<1>3. ASSUME NEW K \in SUBSET Keys, CancelKeys(K) PROVE Flight!Next
  <2> DEFINE T == {p \in pending : p.cache_key \in K}
  <2>1. Drain(T) /\ T \in SUBSET pending /\ UNCHANGED workers
    BY <1>3 DEF CancelKeys
  <2> HIDE DEF T
  <2> QED BY <2>1, CancelFlight DEF Flight!Next
<1>4. CASE UNCHANGED vars
  BY <1>4, OtherFlight
<1>5. CASE Next
  <2>1. Visible \in Visible .. Idle
    BY DEF Visible, Idle
  <2>2. ASSUME NEW w \in Waiters, NEW k \in Keys, NEW e \in 1 .. MaxEpoch,
               NEW pr \in Visible .. Idle,
               JoinInFlight(w, k, e) \/ JoinPending(w, k, pr, e) \/ Enqueue(w, k, pr, e)
        PROVE  Flight!Next
    BY <2>2, SubmitFlight DEF Flight!Next
  <2>3. ASSUME NEW p \in pending, Start(p) PROVE Flight!Next
    BY <2>3, StartFlight DEF Flight!Next
  <2>4. ASSUME NEW wk \in workers, Completed(wk) PROVE Flight!Next
    BY <2>4, CompletedFlight DEF Flight!Next
  <2>5. ASSUME NEW w \in DOMAIN waiter, Receive(w) PROVE Flight!Next
    BY <2>5, ReceiveFlight DEF Flight!Next
  <2> QED BY <1>1, <1>2, <1>3, <1>5, <2>1, <2>2, <2>3, <2>4, <2>5, Steps, OtherFlight
<1> QED BY <1>4, <1>5

\* The actor implements the single-flight job service, for any number of keys,
\* callers, workers and epochs.
THEOREM ImplementsSingleFlightHolds == Spec => ImplementsSingleFlight
<1>1. Spec => [](Shape /\ HeldByKey)
  BY InitShape, ShapeStep, InitHeld, HeldStep, PTL DEF Spec
<1> QED BY <1>1, InitFlight, FlightStep, PTL DEF Spec, ImplementsSingleFlight, Flight!Spec
=============================================================================
