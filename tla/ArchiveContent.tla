---------------------------- MODULE ArchiveContent ----------------------------
(***************************************************************************)
(* The content side of ArchiveService: preparing, unlocking, listing,      *)
(* reading and measuring archives.  Calls run concurrently; they share the *)
(* catalog LRU, the store of verified passwords, one semaphore per format  *)
(* and the memory semaphore of the decoders, and a clear of the caches     *)
(* waits for them behind the gate of the coordinator.                      *)
(*                                                                         *)
(* A call is a sequence of steps (Plan); `at` is the step it is at, `sub`  *)
(* how far it is in it.  Memory is counted in permits of one MiB, in which *)
(* sizes and dictionaries are given too.  An archive is an identity        *)
(* (location, size, time) with one prefix and one entry worth reading; a   *)
(* replaced file is another archive.                                       *)
(***************************************************************************)
EXTENDS Integers, Sequences, FiniteSets, SequencesExt, FiniteSetsExt

CONSTANTS Calls,        \* calls of the service, each made at most once
          Archives,
          About,        \* what is in each archive
          Guesses,      \* passwords a user types
          None,         \* no password
          Budget,       \* workspace budget, in permits
          FormatPermits,\* permits of each format's semaphore
          LruCapacity,
          MaxClears     \* bound on the number of clears

Formats == {"zip", "rar", "7z"}
Results == {"ok", "Ready", "PasswordRequired", "WrongPassword", "EmptyArchive", "InvalidRequest",
            "ResourceLimitExceeded", "Cancelled", "failed"}

(* remote: it has an origin; secret: its password, or None; header: even   *)
(* the list of entries needs it; entries, images: whether it has any;      *)
(* locked: what is encrypted first; declared, actual: the size an entry is *)
(* said to have and the one it decodes to; dict: the dictionary it needs.  *)
(* Nothing is encrypted without a password.                                *)
ASSUME AboutAssumption ==
  /\ \A a \in Archives :
       /\ About[a].format \in Formats /\ About[a].secret \in Guesses \cup {None}
       /\ {About[a].remote, About[a].header, About[a].entries, About[a].images} \subseteq BOOLEAN
       /\ About[a].locked \in {"image", "file", "none"}
       /\ About[a].locked # "none" => About[a].secret # None
       /\ {About[a].declared, About[a].actual, About[a].dict} \subseteq Nat
  /\ None \notin Guesses
ASSUME BudgetAssumption ==
  IsFiniteSet(Calls) /\ Archives # {} /\
  Budget \in Nat \ {0} /\ LruCapacity \in Nat \ {0} /\ MaxClears \in Nat
    /\ FormatPermits \in [Formats -> Nat \ {0}]

VARIABLES call,       \* the calls
          lru,        \* catalog LRU, oldest first
          passwords,  \* ArchivePasswordStore
          formatQueue,\* calls waiting for a format's permit, first come first served
          memoryQueue,\* calls waiting for memory permits, likewise
          clearing,   \* coordinator: the gate is shut
          generation, \* coordinator: how many clears have begun
          cleared     \* (history) the last clear that emptied the caches

vars == <<call, lru, passwords, formatQueue, memoryQueue, clearing, generation, cleared>>

(***************************************************************************)
(* The steps of each operation.  read asks for the probe before it asks    *)
(* for the format's permit; the others the other way round.                *)
(***************************************************************************)
\* Mutant of Plan: unlock keeps the password it has not proved.
PlanUnproven ==
  [prepare |-> <<"resolve", "password", "format", "probe", "answer">>,
   unlock  |-> <<"resolve", "format", "probe", "choose", "keep">>,
   list    |-> <<"resolve", "peek", "format", "password", "catalog">>,
   read    |-> <<"resolve", "password", "probe", "format", "stat", "read">>,
   stat    |-> <<"resolve", "format", "password", "stat">>]

Plan == [prepare |-> <<"resolve", "password", "format", "probe", "answer">>,
         unlock  |-> <<"resolve", "format", "probe", "choose", "stat", "read", "keep">>,
         list    |-> <<"resolve", "peek", "format", "password", "catalog">>,
         read    |-> <<"resolve", "password", "probe", "format", "stat", "read">>,
         stat    |-> <<"resolve", "format", "password", "stat">>]

Idle == [op |-> "none", archive |-> CHOOSE a \in Archives : TRUE, password |-> None, gen |-> 0, at |-> 0,
         sub |-> "start", input |-> "none", tries |-> 0, permit |-> FALSE, want |-> 0, held |-> 0,
         reserved |-> 0, full |-> FALSE, result |-> "ok"]

Admitted(c) == call[c].at > 0
Step(c, s) == Admitted(c) /\ Plan[call[c].op][call[c].at] = s
Archive(c) == About[call[c].archive]

\* The call has answered: what it holds is dropped with it, its admission last.
Answer(c, r) ==
  call' = [call EXCEPT ![c] = [Idle EXCEPT !.op = call[c].op, !.archive = call[c].archive, !.result = r]]

\* The record k gone on to its next step.
Onward(k) == [k EXCEPT !.at = @ + 1, !.sub = "start", !.tries = 0]
Advance(c) == IF call[c].at = Len(Plan[call[c].op])
              THEN Answer(c, "ok")
              ELSE call' = [call EXCEPT ![c] = Onward(@)]

(***************************************************************************)
(* The two kinds of semaphore.  Both serve their waiters in order; permits *)
(* that are returned go to the waiters first, so a try_acquire gets only   *)
(* what is left when all of them are served.                               *)
(***************************************************************************)
FreeFormat(f) == FormatPermits[f] - Cardinality({c \in Calls : call[c].permit /\ Archive(c).format = f})
FreeMemory == Budget - SumFunction([c \in Calls |-> call[c].held])
Wanted == SumFunction([c \in Calls |-> IF c \in Range(memoryQueue) THEN call[c].want ELSE 0])
Leftover == IF Wanted <= FreeMemory THEN FreeMemory - Wanted ELSE 0

PermitCount(n) == IF n = 0 THEN 1 ELSE n

(***************************************************************************)
(* Calls begin, and resolve what they are about.                           *)
(***************************************************************************)
Begin(c, op, a, pw) ==
  /\ call[c] = Idle /\ ~clearing
  /\ pw # None <=> op = "unlock"
  /\ call' = [call EXCEPT ![c] = [Idle EXCEPT !.op = op, !.archive = a, !.password = pw, !.gen = generation,
                                              !.at = 1]]
  /\ UNCHANGED <<lru, passwords, formatQueue, memoryQueue, clearing, generation, cleared>>

\* admit: with the gate shut the call is cancelled at once.
TurnedAway(c) ==
  /\ call[c] = Idle /\ clearing
  /\ call' = [call EXCEPT ![c].op = "prepare", ![c].result = "Cancelled"]
  /\ UNCHANGED <<lru, passwords, formatQueue, memoryQueue, clearing, generation, cleared>>

\* A remote zip not yet materialised is read through ranges.  Everything else,
\* and a remote zip whose origin cannot be measured, is a file.
Resolve(c, input) ==
  /\ Step(c, "resolve")
  /\ input = "stream" => Archive(c).remote /\ Archive(c).format = "zip"
  /\ call' = [call EXCEPT ![c] = [Onward(@) EXCEPT !.input = input]]
  /\ UNCHANGED <<lru, passwords, formatQueue, memoryQueue, clearing, generation, cleared>>

\* The file is missing, or materialising it failed or was cancelled.
ResolveFails(c) ==
  /\ Step(c, "resolve")
  /\ \E r \in {"failed", "Cancelled"} : (r = "Cancelled" => Archive(c).remote) /\ Answer(c, r)
  /\ UNCHANGED <<lru, passwords, formatQueue, memoryQueue, clearing, generation, cleared>>

ReadPassword(c) ==
  /\ Step(c, "password")
  /\ call' = [call EXCEPT ![c] = [Onward(@) EXCEPT !.password = passwords[call[c].archive]]]
  /\ UNCHANGED <<lru, passwords, formatQueue, memoryQueue, clearing, generation, cleared>>

AskFormat(c) ==
  /\ Step(c, "format") /\ call[c].sub = "start"
  /\ formatQueue' = [formatQueue EXCEPT ![Archive(c).format] = Append(@, c)]
  /\ call' = [call EXCEPT ![c].sub = "wait"]
  /\ UNCHANGED <<lru, passwords, memoryQueue, clearing, generation, cleared>>

GrantFormat(f) ==
  /\ formatQueue[f] # <<>> /\ FreeFormat(f) > 0
  /\ LET c == Head(formatQueue[f]) IN call' = [call EXCEPT ![c] = [Onward(@) EXCEPT !.permit = TRUE]]
  /\ formatQueue' = [formatQueue EXCEPT ![f] = Tail(@)]
  /\ UNCHANGED <<lru, passwords, memoryQueue, clearing, generation, cleared>>

(***************************************************************************)
(* The catalog LRU.  An item keeps a probe and a catalog, each filled when *)
(* it is first needed; `gen` is the generation of the call that filled it. *)
(***************************************************************************)
IndexOf(a) == {i \in DOMAIN lru : lru[i].archive = a}
Cached(a, what) == \E i \in IndexOf(a) : lru[i][what]

Position(a) == CHOOSE i \in IndexOf(a) : TRUE
Forgotten(a) == IF IndexOf(a) = {} THEN lru ELSE RemoveAt(lru, Position(a))
Refreshed(a) == IF IndexOf(a) = {} THEN lru ELSE Append(Forgotten(a), lru[Position(a)])

Stored(a, what, gen) ==
  LET item == IF IndexOf(a) = {} THEN [archive |-> a, probe |-> FALSE, catalog |-> FALSE, gen |-> gen]
              ELSE lru[Position(a)]
      all == Append(Forgotten(a), [item EXCEPT ![what] = TRUE, !.gen = gen])
  IN  IF Len(all) > LruCapacity THEN Tail(all) ELSE all

LruHit(c) ==
  \E what \in {"probe", "catalog"} :
    /\ Step(c, IF what = "probe" THEN "probe" ELSE "peek") /\ call[c].sub = "start" /\ call[c].tries = 0
    /\ Cached(call[c].archive, what)
    /\ lru' = Refreshed(call[c].archive)
    /\ IF what = "probe" THEN Advance(c) ELSE Answer(c, "ok")
    /\ UNCHANGED <<passwords, formatQueue, memoryQueue, clearing, generation, cleared>>

\* A list whose catalog is not there.
PeekMisses(c) ==
  /\ Step(c, "peek") /\ ~Cached(call[c].archive, "catalog")
  /\ lru' = Refreshed(call[c].archive)
  /\ Advance(c)
  /\ UNCHANGED <<passwords, formatQueue, memoryQueue, clearing, generation, cleared>>

(***************************************************************************)
(* One call of a backend, and what can become of it.                       *)
(***************************************************************************)
\* The call is inside the backend.
Working(c) ==
  \/ /\ \E s \in {"probe", "catalog"} : Step(c, s) /\ call[c].sub = "start"
     /\ Step(c, "probe") /\ call[c].tries = 0 => ~Cached(call[c].archive, "probe")
  \/ Step(c, "stat") /\ call[c].sub = "start"
  \/ Step(c, "read") /\ call[c].sub = "run"

\* What the backend says of the password it was given.
Verdict(c) ==
  LET needed == /\ Archive(c).secret # None
                /\ \/ Archive(c).header
                   \/ Step(c, "read") /\ (call[c].op = "unlock" \/ Archive(c).locked = "image")
  IN  CASE ~needed \/ call[c].password = Archive(c).secret -> "ok"
        [] needed /\ call[c].password = None -> "PasswordRequired"
        [] OTHER -> "WrongPassword"

\* The probe or the catalog has been read: is it still of this generation?
Loaded(c) ==
  /\ Working(c) /\ (Step(c, "probe") \/ Step(c, "catalog")) /\ Verdict(c) = "ok"
  /\ IF call[c].gen = generation THEN call' = [call EXCEPT ![c].sub = "store"] ELSE Advance(c)
  /\ UNCHANGED <<lru, passwords, formatQueue, memoryQueue, clearing, generation, cleared>>

\* store_probe and store_catalog, after the generation has been compared.
StoreLoaded(c) ==
  /\ Admitted(c) /\ call[c].sub = "store"
  /\ lru' = Stored(call[c].archive, Plan[call[c].op][call[c].at], call[c].gen)
  /\ Advance(c)
  /\ UNCHANGED <<passwords, formatQueue, memoryQueue, clearing, generation, cleared>>

StatDone(c) ==
  /\ Working(c) /\ Step(c, "stat") /\ Verdict(c) = "ok"
  /\ Advance(c)
  /\ UNCHANGED <<lru, passwords, formatQueue, memoryQueue, clearing, generation, cleared>>

\* Who forgets the stored password, and the item of the catalog, when the one
\* it used is refused: every step of an unlock but stat, and a prepare or a
\* list; not a read, not a stat.
Invalidates(c) ==
  \/ Step(c, "probe") /\ call[c].op \in {"prepare", "unlock"}
  \/ Step(c, "catalog")
  \/ Step(c, "read") /\ call[c].op = "unlock" /\ Verdict(c) = "WrongPassword"

Refused(c) ==
  /\ Working(c) /\ Verdict(c) # "ok"
  /\ IF Invalidates(c)
     THEN /\ passwords' = [passwords EXCEPT ![call[c].archive] = None]
          /\ lru' = Forgotten(call[c].archive)
          /\ Answer(c, IF call[c].op = "unlock" THEN "WrongPassword" ELSE "PasswordRequired")
     ELSE Answer(c, Verdict(c)) /\ UNCHANGED <<lru, passwords>>
  /\ UNCHANGED <<formatQueue, memoryQueue, clearing, generation, cleared>>

\* A damaged archive, a codec nobody knows, a cancelled range.
BackendFails(c) ==
  /\ Working(c) /\ Verdict(c) = "ok"
  /\ Answer(c, "failed")
  /\ UNCHANGED <<lru, passwords, formatQueue, memoryQueue, clearing, generation, cleared>>

\* The network fails a call that streams: it is made again once, then the
\* archive is materialised.  What the decoder held went with the attempt.
NetworkFails(c) ==
  /\ Working(c) /\ call[c].input = "stream"
  /\ LET k == call[c]
     IN  call' = [call EXCEPT ![c] = [k EXCEPT !.tries = k.tries + 1,
                                               !.sub = IF k.tries = 0 THEN "start" ELSE "degrade",
                                               !.held = 0, !.reserved = 0, !.full = FALSE]]
  /\ UNCHANGED <<lru, passwords, formatQueue, memoryQueue, clearing, generation, cleared>>

Degrade(c) ==
  /\ Admitted(c) /\ call[c].sub = "degrade"
  /\ \/ call' = [call EXCEPT ![c].input = "path", ![c].sub = "start"]
     \/ \E r \in {"failed", "Cancelled"} : Answer(c, r)
  /\ UNCHANGED <<lru, passwords, formatQueue, memoryQueue, clearing, generation, cleared>>

(***************************************************************************)
(* Reading an entry within the budget.                                     *)
(***************************************************************************)
OutputCap(c) == Budget - Archive(c).dict
\* Mutant of Claim: the second attempt claims no more than the first.
ClaimDeclared(c) == Archive(c).declared
\* What the decoder claims it will put out: all there is room for, when it is
\* made again.
Claim(c) == IF call[c].full THEN OutputCap(c) ELSE Archive(c).declared

AskMemory(c) ==
  /\ Step(c, "read") /\ call[c].sub = "start"
  /\ IF Claim(c) + Archive(c).dict > Budget
     THEN Answer(c, "ResourceLimitExceeded") /\ UNCHANGED memoryQueue
     ELSE LET need == PermitCount(Claim(c) + Archive(c).dict) IN
          IF memoryQueue = <<>> /\ need <= FreeMemory
          THEN /\ call' = [call EXCEPT ![c] = [@ EXCEPT !.sub = "run", !.held = need, !.reserved = Claim(c)]]
               /\ UNCHANGED memoryQueue
          ELSE /\ memoryQueue' = Append(memoryQueue, c)
               /\ call' = [call EXCEPT ![c] = [@ EXCEPT !.sub = "wait", !.want = need]]
  /\ UNCHANGED <<lru, passwords, formatQueue, clearing, generation, cleared>>

GrantMemory ==
  /\ memoryQueue # <<>>
  /\ LET c == Head(memoryQueue) IN
       /\ call[c].want <= FreeMemory
       /\ call' = [call EXCEPT ![c] = [@ EXCEPT !.sub = "run", !.held = call[c].want, !.want = 0,
                                                !.reserved = Claim(c)]]
  /\ memoryQueue' = Tail(memoryQueue)
  /\ UNCHANGED <<lru, passwords, formatQueue, clearing, generation, cleared>>

\* All that the entry decodes to has been written.
Decoded(c) ==
  /\ Working(c) /\ Step(c, "read") /\ Verdict(c) = "ok"
  /\ call[c].reserved >= Archive(c).actual
  /\ IF call[c].op = "read" THEN Answer(c, "ok")
     ELSE call' = [call EXCEPT ![c] = [Onward(@) EXCEPT !.held = 0, !.reserved = 0, !.full = FALSE]]
  /\ UNCHANGED <<lru, passwords, formatQueue, memoryQueue, clearing, generation, cleared>>

\* ensure_capacity_for_write: the entry is longer than it said.
MustGrow(c) ==
  /\ Working(c) /\ Step(c, "read") /\ Verdict(c) = "ok"
  /\ call[c].reserved < Archive(c).actual
Increment(c) == PermitCount(Archive(c).dict + call[c].reserved + 1) - PermitCount(Archive(c).dict + call[c].reserved)

TooLong(c) ==
  /\ MustGrow(c) /\ call[c].reserved + 1 > OutputCap(c)
  /\ Answer(c, "ResourceLimitExceeded")
  /\ UNCHANGED <<lru, passwords, formatQueue, memoryQueue, clearing, generation, cleared>>

\* Mutant of Grow: try_grow drops the permits it acquired.
GrowForgets(c) ==
  /\ MustGrow(c) /\ call[c].reserved + 1 <= OutputCap(c) /\ Increment(c) <= Leftover
  /\ call' = [call EXCEPT ![c].reserved = @ + 1]
  /\ UNCHANGED <<lru, passwords, formatQueue, memoryQueue, clearing, generation, cleared>>

Grow(c) ==
  /\ MustGrow(c) /\ call[c].reserved + 1 <= OutputCap(c) /\ Increment(c) <= Leftover
  /\ LET k == call[c]
     IN  call' = [call EXCEPT ![c] = [k EXCEPT !.reserved = k.reserved + 1, !.held = k.held + Increment(c)]]
  /\ UNCHANGED <<lru, passwords, formatQueue, memoryQueue, clearing, generation, cleared>>

\* Mutant of GrowFails: what the first attempt held is kept while the second
\* waits for the whole budget.
GrowFailsHolding(c) ==
  /\ MustGrow(c) /\ call[c].reserved + 1 <= OutputCap(c) /\ Increment(c) > Leftover
  /\ call' = [call EXCEPT ![c] = [@ EXCEPT !.full = TRUE, !.sub = "start"]]
  /\ UNCHANGED <<lru, passwords, formatQueue, memoryQueue, clearing, generation, cleared>>

\* No permit is left: the decoder is dropped with all it held, and the entry is
\* decoded from its start with the whole budget.
GrowFails(c) ==
  /\ MustGrow(c) /\ call[c].reserved + 1 <= OutputCap(c) /\ Increment(c) > Leftover
  /\ IF call[c].full
     THEN Answer(c, "ResourceLimitExceeded")
     ELSE call' = [call EXCEPT ![c] = [@ EXCEPT !.full = TRUE, !.sub = "start", !.held = 0, !.reserved = 0]]
  /\ UNCHANGED <<lru, passwords, formatQueue, memoryQueue, clearing, generation, cleared>>

(***************************************************************************)
(* What prepare and unlock make of a probe.                                *)
(***************************************************************************)
AnswerPrepare(c) ==
  /\ Step(c, "answer")
  /\ Answer(c, CASE ~Archive(c).entries -> "EmptyArchive"
                 [] Archive(c).entries /\ ~Archive(c).images ->
                      IF Archive(c).locked = "file" /\ call[c].password = None
                      THEN "PasswordRequired" ELSE "EmptyArchive"
                 [] Archive(c).entries /\ Archive(c).images ->
                      IF Archive(c).locked = "image" /\ call[c].password = None
                      THEN "PasswordRequired" ELSE "Ready")
  /\ UNCHANGED <<lru, passwords, formatQueue, memoryQueue, clearing, generation, cleared>>

\* The entry an unlock proves its password on.
ChooseCandidate(c) ==
  /\ Step(c, "choose")
  /\ CASE ~Archive(c).entries -> Answer(c, "EmptyArchive")
       [] Archive(c).entries /\ Archive(c).locked = (IF Archive(c).images THEN "image" ELSE "file") -> Advance(c)
       [] OTHER -> Answer(c, "InvalidRequest")
  /\ UNCHANGED <<lru, passwords, formatQueue, memoryQueue, clearing, generation, cleared>>

KeepPassword(c) ==
  /\ Step(c, "keep")
  /\ passwords' = [passwords EXCEPT ![call[c].archive] = call[c].password]
  /\ Answer(c, IF Archive(c).images THEN "Ready" ELSE "EmptyArchive")
  /\ UNCHANGED <<lru, formatQueue, memoryQueue, clearing, generation, cleared>>

(***************************************************************************)
(* Clearing the caches.                                                    *)
(***************************************************************************)
BeginClear ==
  /\ ~clearing /\ generation < MaxClears
  /\ clearing' = TRUE /\ generation' = generation + 1
  /\ UNCHANGED <<call, lru, passwords, formatQueue, memoryQueue, cleared>>

\* Mutant of Drained: a clear does not wait for those admitted before it.
DrainedAtOnce == TRUE
Drained == \A c \in Calls : ~Admitted(c)

\* The runtime caches are emptied once nobody is admitted; the gate opens again
\* when the guard of the clear is dropped.  Passwords stay.
ClearRuntimeCaches ==
  /\ clearing /\ Drained
  /\ lru' = <<>> /\ clearing' = FALSE /\ cleared' = generation
  /\ UNCHANGED <<call, passwords, formatQueue, memoryQueue, generation>>

\* wait_drained gave up: the gate opens with the caches as they were.
ClearTimesOut ==
  /\ clearing /\ ~Drained
  /\ clearing' = FALSE
  /\ UNCHANGED <<call, lru, passwords, formatQueue, memoryQueue, generation, cleared>>

(***************************************************************************)
(* The specification.                                                      *)
(***************************************************************************)
Init ==
  /\ call = [c \in Calls |-> Idle]
  /\ lru = <<>>
  /\ passwords = [a \in Archives |-> None]
  /\ formatQueue = [f \in Formats |-> <<>>] /\ memoryQueue = <<>>
  /\ clearing = FALSE /\ generation = 0 /\ cleared = 0

Work(c) ==
  \/ \E input \in {"path", "stream"} : Resolve(c, input)
  \/ ResolveFails(c) \/ ReadPassword(c) \/ AskFormat(c)
  \/ LruHit(c) \/ PeekMisses(c) \/ Loaded(c) \/ StoreLoaded(c) \/ StatDone(c)
  \/ Refused(c) \/ BackendFails(c) \/ NetworkFails(c) \/ Degrade(c)
  \/ AskMemory(c) \/ Decoded(c) \/ TooLong(c) \/ Grow(c) \/ GrowFails(c)
  \/ AnswerPrepare(c) \/ ChooseCandidate(c) \/ KeepPassword(c)

Grants == GrantMemory \/ \E f \in Formats : GrantFormat(f)

Next ==
  \/ \E c \in Calls : \/ \E op \in DOMAIN Plan, a \in Archives, pw \in Guesses \cup {None} : Begin(c, op, a, pw)
                      \/ TurnedAway(c)
                      \/ Work(c)
  \/ Grants
  \/ BeginClear \/ ClearRuntimeCaches \/ ClearTimesOut

Spec == Init /\ [][Next]_vars

\* Tasks of the runtime go on, and the semaphores serve their queues.
FairSpec == Spec /\ (\A c \in Calls : WF_vars(Work(c))) /\ WF_vars(Grants)
                 /\ WF_vars(ClearRuntimeCaches)

(***************************************************************************)
(* Properties.                                                             *)
(***************************************************************************)
CallType == [op : DOMAIN Plan \cup {"none"}, archive : Archives, password : Guesses \cup {None},
             gen : 0..MaxClears, at : 0..7, sub : {"start", "wait", "run", "store", "degrade"},
             input : {"none", "path", "stream"}, tries : 0..2, permit : BOOLEAN, want : Nat, held : Nat,
             reserved : Nat, full : BOOLEAN, result : Results]

\* The decoders never hold more than the workspace budget, and each holds
\* exactly what its dictionary and the output it has claimed are worth:
\* DecodeBudget owns the permits it grew by, and gives them all back.
BudgetKept ==
  /\ FreeMemory >= 0
  /\ \A c \in Calls : call[c].held = IF Step(c, "read") /\ call[c].sub = "run"
                                    THEN PermitCount(Archive(c).dict + call[c].reserved) ELSE 0

\* Types, with what they stand on: the memory accounts are kept, a call waits in
\* a queue exactly as long as it has to, no archive is in the LRU twice.
ContentTypeOK ==
  /\ call \in [Calls -> CallType] /\ BudgetKept
  /\ lru \in Seq([archive : Archives, probe : BOOLEAN, catalog : BOOLEAN, gen : 0..MaxClears])
  /\ Len(lru) <= LruCapacity /\ \A i, j \in DOMAIN lru : lru[i].archive = lru[j].archive => i = j
  /\ passwords \in [Archives -> Guesses \cup {None}]
  /\ \A c \in Calls : /\ (Step(c, "format") /\ call[c].sub = "wait")
                           <=> (Admitted(c) /\ c \in Range(formatQueue[Archive(c).format]))
                      /\ (Step(c, "read") /\ call[c].sub = "wait") <=> c \in Range(memoryQueue)
  /\ clearing \in BOOLEAN /\ generation \in 0..MaxClears /\ cleared \in 0..generation

\* An entry is refused as too large only if it is: what others hold at the
\* time never makes a read fail (the branch "budget retry exceeded" of
\* read_with_budget is not reached).
LimitIsReal ==
  \A c \in Calls : call[c].result = "ResourceLimitExceeded" =>
    Archive(c).dict + Max({Archive(c).declared, Archive(c).actual}) > Budget

\* Every password in the store opens its archive: an unlock writes it only
\* after the candidate has been read to its end, whatever the other calls
\* have cached or forgotten meanwhile.
PasswordsVerified == \A a \in Archives : passwords[a] \in {None, About[a].secret}

\* Nothing that was read before the caches were last emptied is in the catalog
\* LRU, though loads compare generations before they take its lock.
NothingRevived == \A i \in DOMAIN lru : lru[i].gen >= cleared

\* What the caches hold is true: proved passwords, and catalogs read since the
\* caches were last emptied (unlock, store_catalog, clear).
StoresTrue == PasswordsVerified /\ NothingRevived

\* Every call ends: the order in which permits are taken has no cycle, since
\* nobody waits for memory while holding some.
CallsEnd == \A c \in Calls : Admitted(c) ~> ~Admitted(c)
=============================================================================
