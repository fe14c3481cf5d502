---------------------------- MODULE SingleFlight ----------------------------
(***************************************************************************)
(* What a deduplicating job service promises to its callers: whoever asks  *)
(* for a key gets one answer, at most one job per key runs at a time, a    *)
(* job is only begun for somebody who waits for it, and its end answers    *)
(* everybody who waits for its key.  A request whose key is not running    *)
(* may be withdrawn, and is then answered at once.                         *)
(***************************************************************************)
CONSTANTS Keys, Waiters

VARIABLES
  asked,      \* waiting caller -> the key it waits for
  answered,   \* callers whose answer is sent and not yet collected
  running     \* keys with a job

vars == <<asked, answered, running>>

Waiting(k) == {w \in DOMAIN asked : asked[w] = k}

\* Answer the callers in W.
Answer(W) ==
  /\ asked' = [w \in DOMAIN asked \ W |-> asked[w]]
  /\ answered' = answered \cup W

Init == asked = [w \in {} |-> {}] /\ answered = {} /\ running = {}

Ask(w, k) ==
  /\ w \notin DOMAIN asked \cup answered
  /\ asked' = [v \in DOMAIN asked \cup {w} |-> IF v = w THEN k ELSE asked[v]]
  /\ UNCHANGED <<answered, running>>

Begin(k) ==
  /\ k \notin running
  /\ Waiting(k) # {}
  /\ running' = running \cup {k}
  /\ UNCHANGED <<asked, answered>>

End(k) ==
  /\ k \in running
  /\ running' = running \ {k}
  /\ Answer(Waiting(k))

Withdraw(W) ==
  /\ \A w \in W : asked[w] \notin running
  /\ Answer(W)
  /\ UNCHANGED running

Collect(w) ==
  /\ w \in answered
  /\ answered' = answered \ {w}
  /\ UNCHANGED <<asked, running>>

Next ==
  \/ \E w \in Waiters, k \in Keys : Ask(w, k)
  \/ \E k \in Keys : Begin(k) \/ End(k)
  \/ \E W \in SUBSET DOMAIN asked : Withdraw(W)
  \/ \E w \in Waiters : Collect(w)

Spec == Init /\ [][Next]_vars

\* A job that was begun ends.
FairSpec == Spec /\ \A k \in Keys : WF_vars(End(k))
=============================================================================
