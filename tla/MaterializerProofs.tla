-------------------------- MODULE MaterializerProofs --------------------------
(***************************************************************************)
(* Theorems about Materializer, for any number of callers, owners, keys,    *)
(* versions, windows and restarts.                                          *)
(***************************************************************************)
EXTENDS Materializer, TLAPS

-----------------------------------------------------------------------------
(***************************************************************************)
(* The invariant behind the types.                                          *)
(***************************************************************************)

\* A call under way knows its key, an owner its key and, once it has asked the
\* origin, the version it downloads.
CallersWellFormed ==
  \A c \in Callers : caller[c].pc \notin {"idle", "done"} => caller[c].key \in Keys

Downloading == {"open", "init", "loop", "read", "write", "account", "drained", "restat",
                "rename", "check", "upsert"}

OwnersWellFormed ==
  \A o \in Owners :
    /\ owner[o].pc # "none" => owner[o].key \in Keys
    /\ owner[o].pc \in Downloading => owner[o].snap \in Versions
    /\ owner[o].pc = "write" => owner[o].chunk \in Versions

Typed == TypeOK /\ CallersWellFormed /\ OwnersWellFormed

LEMMA ConstantFacts == /\ Rounds \in Nat /\ Rounds # 0 /\ MaxVersion \in Nat /\ MaxEpoch \in Nat
                       /\ MaxCrashes \in Nat /\ 1 \in Versions /\ 0 \in 0 .. Rounds
                       /\ 1 \in 0 .. Rounds
BY ConstantsAssumption DEF Versions

LEMMA PlainValues == /\ TRUE \in BOOLEAN /\ FALSE \in BOOLEAN
                     /\ 0 \in 0 .. 1 /\ 1 \in 0 .. 1
<1>1. TRUE \in BOOLEAN /\ FALSE \in BOOLEAN
  BY Zenon
<1> QED BY <1>1

LEMMA IdleTyped == Idle \in Caller /\ Idle.pc = "idle"
BY PlainValues, ConstantFacts DEF Idle, Caller, Results

LEMMA NoOwnerTyped == NoOwner \in Owner /\ NoOwner.pc = "none"
BY PlainValues DEF NoOwner, Owner, Results

LEMMA CallTyped ==
  ASSUME Typed, NEW c \in Callers
  PROVE  /\ caller[c] \in Caller
         /\ caller[c].pc \notin {"idle", "done"} => caller[c].key \in Keys
BY DEF Typed, TypeOK, CallersWellFormed

LEMMA OwnerTyped ==
  ASSUME Typed, NEW o \in Owners
  PROVE  /\ owner[o] \in Owner
         /\ owner[o].pc # "none" => owner[o].key \in Keys
         /\ owner[o].pc \in Downloading => owner[o].snap \in Versions
         /\ owner[o].pc = "write" => owner[o].chunk \in Versions
BY DEF Typed, TypeOK, OwnersWellFormed

-----------------------------------------------------------------------------
(***************************************************************************)
(* The calls.                                                               *)
(***************************************************************************)
CallsTyped == caller \in [Callers -> Caller] /\ CallersWellFormed

\* One call moves on to a well-formed record.
LEMMA SetTyped ==
  ASSUME Typed, NEW c \in Callers, NEW new \in Caller, Set(c, new),
         new.pc \in {"idle", "done"} \/ new.key \in Keys
  PROVE  CallsTyped'
BY DEF Set, CallsTyped, Typed, TypeOK, CallersWellFormed

LEMMA GotoTyped ==
  ASSUME Typed, NEW c \in Callers, NEW pc, Goto(c, pc),
         pc \in {"drop", "unlink", "reread", "relink", "wait"},
         caller[c].pc \notin {"idle", "done"}
  PROVE  CallsTyped'
<1>1. [caller[c] EXCEPT !.pc = pc] \in Caller /\ [caller[c] EXCEPT !.pc = pc].key = caller[c].key
  BY CallTyped DEF Caller
<1> QED BY <1>1, SetTyped, CallTyped DEF Goto

LEMMA ReturnTyped ==
  ASSUME Typed, NEW c \in Callers, NEW r \in Results, Return(c, r)
  PROVE  CallsTyped'
<1>1. caller[c] \in Caller
  BY CallTyped
<1>2. CASE r = "cancelled" /\ caller[c].expected = Forced
  <2> DEFINE new == [Idle EXCEPT !.pc = "done", !.result = r, !.cleared = caller[c].cleared,
                       !.cancelled = caller[c].cancelled, !.misled = caller[c].misled]
  <2>1. new \in Caller /\ new.pc = "done"
    BY <1>1, IdleTyped DEF Caller
  <2> QED BY <1>2, <2>1, SetTyped DEF Return
<1>3. CASE ~(r = "cancelled" /\ caller[c].expected = Forced)
  <2> DEFINE new == [Idle EXCEPT !.pc = "done", !.expected = caller[c].expected, !.result = r]
  <2>1. new \in Caller /\ new.pc = "done"
    BY <1>1, IdleTyped DEF Caller
  <2> QED BY <1>3, <2>1, SetTyped DEF Return
<1> QED BY <1>2, <1>3

LEMMA ToRegisterTyped ==
  ASSUME Typed, NEW c \in Callers, ToRegister(c), caller[c].pc \notin {"idle", "done"}
  PROVE  CallsTyped'
<1> DEFINE new == [caller[c] EXCEPT !.pc = "register", !.row = 0, !.cur = 0]
<1>1. new \in Caller /\ new.key = caller[c].key
  BY CallTyped DEF Caller
<1> QED BY <1>1, SetTyped, CallTyped DEF ToRegister

LEMMA NextRoundTyped ==
  ASSUME Typed, NEW c \in Callers, NextRound(c), caller[c].pc \notin {"idle", "done"}
  PROVE  CallsTyped'
<1>1. CASE caller[c].round = Rounds
  BY <1>1, ReturnTyped DEF NextRound, Results
<1>2. CASE caller[c].round # Rounds
  <2>1. caller[c] \in Caller /\ caller[c].round \in 0 .. Rounds
    BY CallTyped DEF Caller
  <2>2. PICK next \in 0 .. Rounds : next = caller[c].round + 1
    BY <1>2, <2>1, ConstantFacts
  <2> DEFINE new == [caller[c] EXCEPT !.pc = "row", !.row = 0, !.cur = 0, !.round = next,
                                      !.owns = FALSE, !.result = "none"]
  <2>3. new \in Caller /\ new.key = caller[c].key
    BY <2>1, PlainValues DEF Caller, Results
  <2>4. Set(c, new)
    BY <1>2, <2>1, <2>2 DEF NextRound, Caller
  <2> HIDE DEF new
  <2> QED BY <2>3, <2>4, SetTyped, CallTyped
<1> QED BY <1>1, <1>2

LEMMA CallStepTyped ==
  ASSUME Typed, NEW c \in Callers, CallStep(c)
  PROVE  CallsTyped'
<1>0. /\ caller[c] \in Caller /\ remote \in [Keys -> Versions]
      /\ rows \in [DOMAIN rows -> Versions]
      /\ caller[c].pc \notin {"idle", "done"} => caller[c].key \in Keys
  BY CallTyped DEF Typed, TypeOK
<1>1. ASSUME caller[c].pc \notin {"idle", "done"}, NEW pc, NEW row \in Versions,
             pc \in {"stat", "redrop"}, Set(c, [caller[c] EXCEPT !.pc = pc, !.row = row])
      PROVE  CallsTyped'
  <2> DEFINE new == [caller[c] EXCEPT !.pc = pc, !.row = row]
  <2>1. new \in Caller /\ new.key = caller[c].key
    BY <1>0, <1>1 DEF Caller
  <2> QED BY <1>0, <1>1, <2>1, SetTyped
<1>2. CASE ReadRow(c)
  <2>1. caller[c].pc = "row"
    BY <1>2 DEF ReadRow
  <2>2. CASE caller[c].key \in DOMAIN rows
    <3>1. rows[caller[c].key] \in Versions
      BY <1>0, <2>2
    <3> QED BY <1>1, <1>2, <2>1, <2>2, <3>1 DEF ReadRow
  <2>3. CASE caller[c].key \notin DOMAIN rows
    BY <1>2, <2>1, <2>3, ToRegisterTyped DEF ReadRow
  <2> QED BY <2>2, <2>3
<1>3. CASE Stat(c)
  <2>1. caller[c].pc = "stat"
    BY <1>3 DEF Stat
  <2> DEFINE new == [caller[c] EXCEPT !.pc = "judge", !.cur = remote[caller[c].key]]
  <2>2. new \in Caller /\ new.key = caller[c].key
    BY <1>0, <2>1 DEF Caller
  <2>3. Set(c, new) \/ Return(c, "failed")
    BY <1>3 DEF Stat
  <2> QED BY <1>0, <2>1, <2>2, <2>3, SetTyped, ReturnTyped DEF Results
<1>4. CASE Judge(c) \/ DropRow(c) \/ Unlink(c) \/ RedropRow(c)
  BY <1>4, ReturnTyped, GotoTyped, NextRoundTyped, ToRegisterTyped
     DEF Judge, DropRow, Unlink, RedropRow, Results
<1>5. CASE Reread(c)
  <2>1. caller[c].pc = "reread"
    BY <1>5 DEF Reread
  <2>2. CASE caller[c].key \in DOMAIN rows /\ rows[caller[c].key] = caller[c].cur
    <3>1. rows[caller[c].key] \in Versions
      BY <1>0, <2>2
    <3> QED BY <1>1, <1>5, <2>1, <2>2, <3>1, ReturnTyped DEF Reread, Results
  <2>3. CASE ~(caller[c].key \in DOMAIN rows /\ rows[caller[c].key] = caller[c].cur)
    BY <1>5, <2>1, <2>3, ToRegisterTyped DEF Reread
  <2> QED BY <2>2, <2>3
<1>6. CASE Register(c)
  <2>1. caller[c].pc = "register"
    BY <1>6 DEF Register
  <2> DEFINE new == [caller[c] EXCEPT !.pc = "wait", !.owns = TRUE]
  <2>2. new \in Caller /\ new.key = caller[c].key
    BY <1>0, PlainValues DEF Caller
  <2>3. Return(c, "cancelled") \/ Goto(c, "wait") \/ Set(c, new)
    BY <1>6 DEF Register
  <2> QED BY <1>0, <2>1, <2>2, <2>3, SetTyped, ReturnTyped, GotoTyped DEF Results
<1>7. CASE Told(c)
  <2>1. caller[c].pc = "told" /\ caller[c].result \in Results
    BY <1>0, <1>7 DEF Told, Caller
  <2>2. Return(c, caller[c].result) \/ Return(c, "cancelled") \/ NextRound(c)
    BY <1>7 DEF Told
  <2> QED BY <2>1, <2>2, ReturnTyped, NextRoundTyped DEF Results
<1>8. CASE Leave(c) \/ Detach(c)
  BY <1>8, IdleTyped, SetTyped DEF Leave, Detach
<1> QED BY <1>2, <1>3, <1>4, <1>5, <1>6, <1>7, <1>8 DEF CallStep

LEMMA CallerActsTyped ==
  ASSUME Typed, NEW c \in Callers,
         \/ Cancel(c) \/ DropCall(c)
         \/ \E k \in Keys, e \in {Forced} \cup Epochs : Call(c, k, e)
  PROVE  CallsTyped'
<1>0. /\ caller[c] \in Caller
      /\ caller[c].pc \notin {"idle", "done"} => caller[c].key \in Keys
  BY CallTyped
<1>1. CASE Cancel(c)
  <2>1. CASE caller[c].pc = "wait"
    <3> DEFINE new == [caller[c] EXCEPT !.pc = "told", !.cancelled = TRUE,
                                        !.result = "cancelled"]
    <3>1. new \in Caller /\ new.key = caller[c].key
      BY <1>0, PlainValues DEF Caller, Results
    <3> QED BY <1>0, <1>1, <2>1, <3>1, SetTyped DEF Cancel
  <2>2. CASE caller[c].pc # "wait"
    BY <1>0, <1>1, <2>2, SetTyped DEF Cancel
  <2> QED BY <2>1, <2>2
<1>2. CASE DropCall(c)
  <2> DEFINE new == [Idle EXCEPT !.pc = "detach", !.key = caller[c].key]
  <2>0. caller[c].pc \in {"stat", "register", "wait", "told"}
    BY <1>2 DEF DropCall
  <2>1. new \in Caller /\ new.key = caller[c].key
    BY <1>0, <2>0, IdleTyped DEF Caller
  <2> QED BY <1>0, <1>2, <2>0, <2>1, IdleTyped, SetTyped DEF DropCall
<1>3. ASSUME NEW k \in Keys, NEW e \in {Forced} \cup Epochs, Call(c, k, e)
      PROVE  CallsTyped'
  <2> DEFINE refused == [Idle EXCEPT !.pc = "done", !.expected = e, !.cleared = TRUE,
                                     !.result = "cancelled"]
  <2>1. refused \in Caller /\ refused.pc = "done"
    BY IdleTyped, PlainValues DEF Caller, Results
  <2>2. PICK first \in 0 .. Rounds : first = 1
    BY ConstantFacts
  <2> DEFINE new == [Idle EXCEPT !.pc = "row", !.key = k, !.expected = e, !.round = first]
  <2>3. new \in Caller /\ new.key \in Keys
    BY IdleTyped DEF Caller
  <2>4. Set(c, refused) \/ Set(c, new)
    BY <1>3, <2>2 DEF Call
  <2> HIDE DEF refused, new
  <2> QED BY <2>1, <2>3, <2>4, SetTyped
<1> QED BY <1>1, <1>2, <1>3

\* The answers of an owner, and a clear that begins, touch every call.
LEMMA EveryCallTyped ==
  ASSUME Typed, \/ \E o \in Owners, r \in Results : Deliver(o, r)
                \/ \E x \in Clears : BeginClear(x)
                \/ Restart
  PROVE  CallsTyped'
<1>1. ASSUME NEW o \in Owners, NEW r \in Results, Deliver(o, r)
      PROVE  CallsTyped'
  <2>1. ASSUME NEW c \in Callers, caller[c].pc = "wait"
        PROVE  LET new == [caller[c] EXCEPT !.pc = "told", !.result = r,
                             !.misled = @ \/ entries[owner[o].key].owner # o]
               IN  new \in Caller /\ new.key = caller[c].key
    <3>0. caller[c] \in Caller
      BY CallTyped
    <3>1. (caller[c].misled \/ entries[owner[o].key].owner # o) \in BOOLEAN
      BY Zenon
    <3>2. ASSUME NEW misled, misled \in BOOLEAN
          PROVE  LET new == [caller[c] EXCEPT !.pc = "told", !.result = r, !.misled = misled]
                 IN  new \in Caller /\ new.key = caller[c].key
      BY <3>0, <3>2 DEF Caller
    <3> QED BY <3>0, <3>1, <3>2 DEF Caller
  <2> QED BY <1>1, <2>1, CallTyped DEF Deliver, CallsTyped, CallersWellFormed
<1>2. ASSUME NEW x \in Clears, BeginClear(x)
      PROVE  CallsTyped'
  <2>1. ASSUME NEW c \in Callers, NEW cleared, cleared \in BOOLEAN
        PROVE  LET new == [caller[c] EXCEPT !.cleared = cleared]
               IN  new \in Caller /\ new.key = caller[c].key /\ new.pc = caller[c].pc
    BY <2>1, CallTyped DEF Caller
  <2>2. \A c \in Callers :
           (caller[c].cleared \/ caller[c].pc \notin {"idle", "detach", "done"}) \in BOOLEAN
    BY Zenon
  <2> QED BY <1>2, <2>1, <2>2, CallTyped DEF BeginClear, CallsTyped, CallersWellFormed
<1>3. CASE Restart
  BY <1>3, IdleTyped DEF Restart, CallsTyped, CallersWellFormed
<1> QED BY <1>1, <1>2, <1>3

-----------------------------------------------------------------------------
(***************************************************************************)
(* The owners and their handles.                                            *)
(***************************************************************************)
Places == {"none", "part", "final", "gone"}

OwnersTyped == owner \in [Owners -> Owner] /\ OwnersWellFormed

HandlesTyped == handle \in [Owners -> Places]

\* One owner moves on to a well-formed record.
LEMMA OwnTyped ==
  ASSUME Typed, NEW o \in Owners, NEW new \in Owner, Own(o, new),
         new.pc = "none" \/ new.key \in Keys,
         new.pc \in Downloading => new.snap \in Versions,
         new.pc = "write" => new.chunk \in Versions
  PROVE  OwnersTyped'
BY DEF Own, OwnersTyped, Typed, TypeOK, OwnersWellFormed

LEMMA ProceedTyped ==
  ASSUME Typed, NEW o \in Owners, NEW pc, Proceed(o, pc), owner[o].pc # "none",
         pc \in {"stat", "loop", "read", "drained", "restat", "rename", "check", "upsert"},
         pc = "stat" \/ owner[o].pc \in Downloading
  PROVE  OwnersTyped'
<1> DEFINE new == [owner[o] EXCEPT !.pc = pc]
<1>1. new \in Owner /\ new.key = owner[o].key /\ new.snap = owner[o].snap /\ new.pc = pc
  BY OwnerTyped DEF Owner
<1> QED BY <1>1, OwnTyped, OwnerTyped DEF Proceed, Downloading

\* An owner that ends keeps its key and whether it was told to abort.
LEMMA EndedTyped ==
  ASSUME Typed, NEW o \in Owners, owner[o].pc # "none",
         NEW pc \in {"budget", "finish"}, NEW r \in Results
  PROVE  LET new == [NoOwner EXCEPT !.pc = pc, !.key = owner[o].key, !.result = r,
                                    !.aborted = owner[o].aborted]
         IN  new \in Owner /\ new.key \in Keys /\ new.pc = pc
BY OwnerTyped, NoOwnerTyped DEF Owner

LEMMA EndTyped ==
  ASSUME Typed, NEW o \in Owners, owner[o].pc # "none", NEW r \in Results,
         NEW hd \in [Owners -> Places], End(o, r, hd)
  PROVE  OwnersTyped' /\ HandlesTyped'
<1>1. OwnersTyped'
  BY EndedTyped, OwnTyped DEF End, Downloading
<1>2. HandlesTyped'
  BY DEF End, HandlesTyped, Places
<1> QED BY <1>1, <1>2

LEMMA HandleTyped == Typed => HandlesTyped /\ handle \in [Owners -> Places]
BY DEF Typed, TypeOK, HandlesTyped, Places

LEMMA UnlinkedTyped ==
  ASSUME Typed, NEW k, NEW at
  PROVE  Unlinked(k, at) \in [Owners -> Places]
BY HandleTyped DEF Unlinked, Places

\* Some owners' handles change, if at all, to one of the places.
LEMMA ChangedHandles ==
  ASSUME NEW hd \in [Owners -> Places], NEW o \in Owners, NEW at \in Places
  PROVE  [hd EXCEPT ![o] = at] \in [Owners -> Places]
OBVIOUS

LEMMA EvictHandles ==
  ASSUME NEW P, NEW hd \in [Owners -> Places], Evict(P, hd)
  PROVE  HandlesTyped'
BY DEF Evict, HandlesTyped, Places

LEMMA OwnerStepTyped ==
  ASSUME Typed, NEW o \in Owners, OwnerStep(o)
  PROVE  OwnersTyped' /\ HandlesTyped'
<1>0. /\ owner[o] \in Owner /\ remote \in [Keys -> Versions] /\ entries \in [DOMAIN entries -> Entry]
      /\ owner[o].pc # "none" => owner[o].key \in Keys
      /\ owner[o].pc \in Downloading => owner[o].snap \in Versions
      /\ owner[o].pc = "write" => owner[o].chunk \in Versions
      /\ DOMAIN entries \subseteq Keys /\ Chunks(part)
      /\ HandlesTyped /\ handle \in [Owners -> Places]
  BY OwnerTyped, HandleTyped DEF Typed, TypeOK
<1>a. "none" \in Places /\ "part" \in Places
  BY DEF Places
<1>r. "failed" \in Results /\ "cancelled" \in Results /\ "ok" \in Results
  BY DEF Results
<1>e. ASSUME NEW r \in Results, End(o, r, handle), owner[o].pc # "none"
      PROVE  OwnersTyped' /\ HandlesTyped'
  BY <1>e, <1>0, EndTyped
<1>h. ASSUME UNCHANGED handle
      PROVE  HandlesTyped'
  BY <1>h, <1>0 DEF HandlesTyped
<1>1. CASE Dropped(o)
  <2>1. OwnersTyped'
    BY <1>1, NoOwnerTyped, OwnTyped DEF Dropped, Downloading
  <2> QED BY <1>0, <1>1, <1>a, <2>1, ChangedHandles DEF Dropped, HandlesTyped
<1>2. CASE StartOwner(o)
  <2>1. owner[o].pc = "spawned"
    BY <1>2 DEF StartOwner, Answered
  <2>2. \/ End(o, "cancelled", handle)
        \/ Proceed(o, "stat") /\ UNCHANGED handle
    BY <1>2 DEF StartOwner
  <2>3. CASE End(o, "cancelled", handle)
    BY <1>r, <1>e, <2>1, <2>3
  <2>4. CASE Proceed(o, "stat") /\ UNCHANGED handle
    BY <1>h, <2>1, <2>4, ProceedTyped
  <2> QED BY <2>2, <2>3, <2>4
<1>3. CASE Snapshot(o)
  <2>1. owner[o].pc = "stat"
    BY <1>3 DEF Snapshot, Answered
  <2> DEFINE new == [owner[o] EXCEPT !.pc = "open", !.snap = remote[owner[o].key]]
  <2>2. new \in Owner /\ new.key = owner[o].key /\ new.snap \in Versions /\ new.pc = "open"
    BY <1>0, <2>1 DEF Owner
  <2>3. \/ Own(o, new) /\ UNCHANGED handle
        \/ End(o, "failed", handle)
    BY <1>3 DEF Snapshot
  <2> HIDE DEF new
  <2> QED BY <1>0, <1>r, <1>e, <1>h, <2>1, <2>2, <2>3, OwnTyped
<1>4. CASE Open(o)
  <2> DEFINE resume == Resumable(owner[o].key, owner[o].snap)
             offset == IF resume THEN Len(part[owner[o].key]) ELSE 0
  <2>1. owner[o].pc = "open"
    BY <1>4 DEF Open
  <2>2. offset \in Nat
    BY <1>0 DEF Resumable, Chunks
  <2> HIDE DEF offset
  <2> DEFINE new == [owner[o] EXCEPT !.pc = "init", !.offset = offset]
  <2>3. new \in Owner /\ new.key = owner[o].key /\ new.snap = owner[o].snap /\ new.pc = "init"
    BY <1>0, <2>2 DEF Owner
  <2>4. Own(o, new)
    BY <1>4 DEF Open, offset
  <2>5. \/ handle' = [handle EXCEPT ![o] = "part"]
        \/ handle' = [Unlinked(owner[o].key, "part") EXCEPT ![o] = "part"]
    BY <1>4 DEF Open
  <2> HIDE DEF new
  <2>6. OwnersTyped'
    BY <1>0, <2>1, <2>3, <2>4, OwnTyped DEF Downloading
  <2>7. HandlesTyped'
    BY <1>0, <1>a, <2>5, UnlinkedTyped, ChangedHandles DEF HandlesTyped
  <2> QED BY <2>6, <2>7
<1>5. CASE Account(o)
  <2>1. owner[o].pc \in {"init", "account"}
    BY <1>5 DEF Account
  <2>2. \/ End(o, "failed", handle)
        \/ Proceed(o, "loop") /\ UNCHANGED handle
    BY <1>5 DEF Account
  <2>3. CASE End(o, "failed", handle)
    BY <1>r, <1>e, <2>1, <2>3
  <2>4. CASE Proceed(o, "loop") /\ UNCHANGED handle
    BY <1>h, <2>1, <2>4, ProceedTyped DEF Downloading
  <2> QED BY <2>2, <2>3, <2>4
<1>6. CASE Loop(o)
  <2>1. owner[o].pc = "loop"
    BY <1>6 DEF Loop
  <2>2. \/ End(o, "cancelled", handle)
        \/ (Proceed(o, "drained") \/ Proceed(o, "read")) /\ UNCHANGED handle
    BY <1>6 DEF Loop
  <2> QED BY <1>r, <1>e, <1>h, <2>1, <2>2, ProceedTyped DEF Downloading
<1>7. CASE Read(o)
  <2>1. owner[o].pc = "read"
    BY <1>7 DEF Read, Answered
  <2> DEFINE new == [owner[o] EXCEPT !.pc = "write", !.chunk = remote[owner[o].key]]
  <2>2. new \in Owner /\ new.key = owner[o].key /\ new.chunk \in Versions
        /\ new.snap = owner[o].snap
    BY <1>0, <2>1 DEF Owner
  <2>3. \/ Own(o, new) /\ UNCHANGED handle
        \/ End(o, "failed", handle)
    BY <1>7 DEF Read
  <2> HIDE DEF new
  <2>4. ASSUME Own(o, new)
        PROVE  OwnersTyped'
    BY <1>0, <2>1, <2>2, <2>4, OwnTyped DEF Downloading
  <2> QED BY <1>r, <1>e, <1>h, <2>1, <2>3, <2>4
<1>8. CASE Write(o)
  <2>1. owner[o].pc = "write"
    BY <1>8 DEF Write
  <2>2. owner[o].offset + 1 \in Nat /\ 0 \in Versions \cup {0}
    BY <1>0 DEF Owner
  <2> DEFINE new == [owner[o] EXCEPT !.pc = "account", !.chunk = 0,
                                     !.offset = owner[o].offset + 1]
  <2>3. new \in Owner /\ new.key = owner[o].key /\ new.pc = "account"
        /\ new.snap = owner[o].snap
    BY <1>0, <2>2 DEF Owner
  <2>4. Own(o, new) /\ UNCHANGED handle
    BY <1>8 DEF Write
  <2> HIDE DEF new
  <2> QED BY <1>0, <1>h, <2>1, <2>3, <2>4, OwnTyped DEF Downloading
<1>9. CASE Drained(o)
  <2>1. owner[o].pc = "drained"
    BY <1>9 DEF Drained
  <2>2. \/ End(o, "cancelled", [Unlinked(owner[o].key, "part") EXCEPT ![o] = "none"])
        \/ Proceed(o, "restat") /\ handle' = [handle EXCEPT ![o] = "none"]
    BY <1>9 DEF Drained
  <2>3. [Unlinked(owner[o].key, "part") EXCEPT ![o] = "none"] \in [Owners -> Places]
        /\ [handle EXCEPT ![o] = "none"] \in [Owners -> Places]
    BY <1>0, <1>a, UnlinkedTyped, ChangedHandles
  <2> QED BY <1>r, <2>1, <2>2, <2>3, EndTyped, ProceedTyped DEF Downloading, HandlesTyped
<1>10. CASE Recheck(o)
  <2>1. owner[o].pc = "restat"
    BY <1>10 DEF Recheck, Answered
  <2> DEFINE new == [NoOwner EXCEPT !.pc = "stat", !.key = owner[o].key, !.attempt = 1,
                       !.expected = owner[o].expected, !.gen = owner[o].gen]
  <2>2. new \in Owner /\ new.key = owner[o].key /\ new.pc = "stat"
    <3>1. PICK one \in 0 .. 1 : one = 1
      OBVIOUS
    <3>2. [NoOwner EXCEPT !.pc = "stat", !.key = owner[o].key, !.attempt = one,
             !.expected = owner[o].expected, !.gen = owner[o].gen] \in Owner
      BY <1>0, NoOwnerTyped DEF Owner
    <3> QED BY <3>1, <3>2, NoOwnerTyped DEF Owner
  <2>3. \/ Proceed(o, "rename") /\ UNCHANGED handle
        \/ Own(o, new) /\ handle' = Unlinked(owner[o].key, "part")
        \/ End(o, "failed", Unlinked(owner[o].key, "part"))
        \/ End(o, "failed", handle)
    BY <1>10 DEF Recheck
  <2> HIDE DEF new
  <2>4. Unlinked(owner[o].key, "part") \in [Owners -> Places]
    BY UnlinkedTyped
  <2>5. CASE Own(o, new) /\ handle' = Unlinked(owner[o].key, "part")
    BY <1>0, <2>1, <2>2, <2>4, <2>5, OwnTyped DEF Downloading, HandlesTyped
  <2> QED BY <1>r, <1>e, <1>h, <2>1, <2>3, <2>4, <2>5, ProceedTyped, EndTyped DEF Downloading
<1>11. CASE Rename(o)
  <2>1. owner[o].pc = "rename"
    BY <1>11 DEF Rename
  <2> DEFINE gone == [p \in Owners |-> IF owner[p].key = owner[o].key /\ handle[p] # "none"
                                         THEN "gone" ELSE handle[p]]
             moved == [p \in Owners |->
                 CASE owner[p].key = owner[o].key /\ handle[p] = "part"  -> "final"
                   [] owner[p].key = owner[o].key /\ handle[p] = "final" -> "gone"
                   [] OTHER -> handle[p]]
  <2>2. gone \in [Owners -> Places] /\ moved \in [Owners -> Places]
    BY <1>0 DEF Places
  <2>3. \/ End(o, "cancelled", Unlinked(owner[o].key, "part"))
        \/ End(o, "failed", handle)
        \/ End(o, "failed", gone)
        \/ Proceed(o, "check") /\ handle' = moved
    BY <1>11 DEF Rename
  <2> HIDE DEF gone, moved
  <2>4. Unlinked(owner[o].key, "part") \in [Owners -> Places]
    BY UnlinkedTyped
  <2>5. CASE Proceed(o, "check") /\ handle' = moved
    BY <2>1, <2>2, <2>5, ProceedTyped DEF Downloading, HandlesTyped
  <2> QED BY <1>r, <1>e, <2>1, <2>2, <2>3, <2>4, <2>5, EndTyped
<1>12. CASE Check(o)
  <2>1. owner[o].pc = "check"
    BY <1>12 DEF Check
  <2>2. \/ End(o, "cancelled", Unlinked(owner[o].key, "final"))
        \/ Proceed(o, "upsert") /\ UNCHANGED handle
    BY <1>12 DEF Check
  <2>3. Unlinked(owner[o].key, "final") \in [Owners -> Places]
    BY UnlinkedTyped
  <2> QED BY <1>r, <1>h, <2>1, <2>2, <2>3, EndTyped, ProceedTyped DEF Downloading
<1>13. CASE Upsert(o)
  <2>1. owner[o].pc = "upsert"
    BY <1>13 DEF Upsert
  <2> DEFINE new == [NoOwner EXCEPT !.pc = "budget", !.key = owner[o].key,
                                    !.aborted = owner[o].aborted]
  <2>2. new \in Owner /\ new.key = owner[o].key /\ new.pc = "budget"
    BY <1>0, NoOwnerTyped DEF Owner
  <2>3. \/ Own(o, new) /\ UNCHANGED handle
        \/ End(o, "failed", handle)
    BY <1>13 DEF Upsert
  <2> HIDE DEF new
  <2>4. ASSUME Own(o, new)
        PROVE  OwnersTyped'
    BY <1>0, <2>1, <2>2, <2>4, OwnTyped DEF Downloading
  <2> QED BY <1>r, <1>e, <1>h, <2>1, <2>3, <2>4
<1>14. CASE Budget(o)
  <2>1. owner[o].pc = "budget"
    BY <1>14 DEF Budget
  <2> DEFINE new == [owner[o] EXCEPT !.pc = "evict", !.protected = DOMAIN entries]
  <2>2. new \in Owner /\ new.key = owner[o].key /\ new.pc = "evict"
    BY <1>0 DEF Owner
  <2>3. Own(o, new) /\ UNCHANGED handle
    BY <1>14 DEF Budget
  <2> HIDE DEF new
  <2> QED BY <1>0, <1>h, <2>1, <2>2, <2>3, OwnTyped DEF Downloading
<1>15. CASE Reclaim(o)
  <2>1. owner[o].pc = "evict"
    BY <1>15 DEF Reclaim
  <2>2. OwnersTyped'
    BY <1>15, <1>r, <2>1, EndedTyped, OwnTyped DEF Reclaim, Downloading
  <2>3. [handle EXCEPT ![o] = "none"] \in [Owners -> Places]
    BY <1>0, <1>a, ChangedHandles
  <2> QED BY <1>15, <2>2, <2>3, EvictHandles DEF Reclaim
<1>16. CASE Finish(o)
  <2>1. OwnersTyped'
    BY <1>16, NoOwnerTyped, OwnTyped DEF Finish, Downloading
  <2>2. UNCHANGED handle \/ \E P : Evict(P, handle)
    BY <1>16 DEF Finish
  <2> QED BY <1>0, <1>h, <2>1, <2>2, EvictHandles
<1> QED BY <1>1, <1>2, <1>3, <1>4, <1>5, <1>6, <1>7, <1>8, <1>9, <1>10, <1>11, <1>12, <1>13,
           <1>14, <1>15, <1>16 DEF OwnerStep

-----------------------------------------------------------------------------
(***************************************************************************)
(* Subscriptions.                                                           *)
(***************************************************************************)
EntriesTyped == DOMAIN entries \subseteq Keys /\ entries \in [DOMAIN entries -> Entry]

\* One pair more, or some keys less, and a map keeps its type.
LEMMA PutTyped ==
  ASSUME NEW S, NEW T, NEW f, DOMAIN f \subseteq S, f \in [DOMAIN f -> T],
         NEW x \in S, NEW y \in T
  PROVE  /\ DOMAIN Put(f, x, y) \subseteq S
         /\ Put(f, x, y) \in [DOMAIN Put(f, x, y) -> T]
BY DEF Put

LEMMA WithoutTyped ==
  ASSUME NEW S, NEW T, NEW f, DOMAIN f \subseteq S, f \in [DOMAIN f -> T], NEW gone
  PROVE  /\ DOMAIN Without(f, gone) \subseteq S
         /\ Without(f, gone) \in [DOMAIN Without(f, gone) -> T]
BY DEF Without

LEMMA EmptyMapFacts == DOMAIN EmptyMap = {} /\ EmptyMap \in [DOMAIN EmptyMap -> {}]
BY DEF EmptyMap

LEMMA SubscribersTyped ==
  ASSUME Typed, NEW k \in DOMAIN entries, NEW them \in SUBSET Callers,
         entries' = [entries EXCEPT ![k].subscribers = them]
  PROVE  EntriesTyped'
<1> DEFINE new == [entries[k] EXCEPT !.subscribers = them]
<1>0. entries[k] \in Entry /\ DOMAIN entries \subseteq Keys
      /\ entries \in [DOMAIN entries -> Entry]
  BY DEF Typed, TypeOK
<1>1. new \in Entry
  BY <1>0 DEF Entry
<1>2. entries' = [entries EXCEPT ![k] = new]
  OBVIOUS
<1> HIDE DEF new
<1> QED BY <1>0, <1>1, <1>2 DEF EntriesTyped

LEMMA AbortTyped ==
  ASSUME Typed, NEW o \in Owners, owner' = [owner EXCEPT ![o].aborted = TRUE]
  PROVE  OwnersTyped'
<1> DEFINE new == [owner[o] EXCEPT !.aborted = TRUE]
<1>1. new \in Owner /\ new.key = owner[o].key /\ new.pc = owner[o].pc
      /\ new.snap = owner[o].snap /\ new.chunk = owner[o].chunk
  BY OwnerTyped, PlainValues DEF Owner
<1>2. Own(o, new)
  BY DEF Own
<1> QED BY <1>1, <1>2, OwnTyped, OwnerTyped

LEMMA SameOwners == ASSUME Typed, UNCHANGED owner PROVE OwnersTyped'
BY DEF Typed, TypeOK, OwnersTyped, OwnersWellFormed

LEMMA UnsubscribeTyped ==
  ASSUME Typed, NEW c \in Callers, NEW k \in DOMAIN entries, Unsubscribe(c, k)
  PROVE  OwnersTyped' /\ EntriesTyped'
<1>0. entries[k].owner \in Owners /\ entries[k].subscribers \in SUBSET Callers
      /\ DOMAIN entries \subseteq Keys /\ entries \in [DOMAIN entries -> Entry]
  BY DEF Typed, TypeOK, Entry
<1> DEFINE rest == entries[k].subscribers \ {c}
<1>1. CASE rest = {}
  <2>1. /\ entries' = Without(entries, {k})
        /\ owner' = [owner EXCEPT ![entries[k].owner].aborted = TRUE]
    BY <1>1 DEF Unsubscribe
  <2>2. EntriesTyped'
    BY <1>0, <2>1, WithoutTyped DEF EntriesTyped
  <2>3. OwnersTyped'
    BY <1>0, <2>1, AbortTyped
  <2> QED BY <2>2, <2>3
<1>2. CASE rest # {}
  <2>1. entries' = [entries EXCEPT ![k].subscribers = rest] /\ UNCHANGED owner
    BY <1>2 DEF Unsubscribe
  <2>2. rest \in SUBSET Callers
    BY <1>0
  <2> HIDE DEF rest
  <2> QED BY <2>1, <2>2, SubscribersTyped, SameOwners
<1> QED BY <1>1, <1>2

LEMMA RegisterTyped ==
  ASSUME Typed, NEW c \in Callers, Register(c)
  PROVE  OwnersTyped' /\ EntriesTyped'
<1>0. /\ caller[c] \in Caller /\ caller[c].key \in Keys
      /\ EntriesTyped /\ cancel_gen \in Nat
  BY CallTyped DEF Register, Typed, TypeOK, EntriesTyped
<1> DEFINE k == caller[c].key
<1>1. CASE UNCHANGED <<entries, owner>>
  BY <1>0, <1>1, SameOwners DEF EntriesTyped
<1>2. CASE k \in DOMAIN entries /\ UNCHANGED owner
           /\ entries' = [entries EXCEPT ![k].subscribers = @ \cup {c}]
  <2>1. entries[k].subscribers \cup {c} \in SUBSET Callers
    BY <1>0, <1>2 DEF EntriesTyped, Entry
  <2>2. entries' = [entries EXCEPT ![k].subscribers = entries[k].subscribers \cup {c}]
    BY <1>2
  <2> QED BY <1>2, <2>1, <2>2, SubscribersTyped, SameOwners
<1>3. ASSUME NEW o \in Owners,
             entries' = Put(entries, k, [owner |-> o, subscribers |-> {c}]),
             owner' = [owner EXCEPT ![o] =
                         [NoOwner EXCEPT !.pc = "spawned", !.key = k,
                            !.expected = caller[c].expected, !.gen = cancel_gen]]
      PROVE  OwnersTyped' /\ EntriesTyped'
  <2>1. [owner |-> o, subscribers |-> {c}] \in Entry
    BY DEF Entry
  <2>2. EntriesTyped'
    BY <1>0, <1>3, <2>1, PutTyped DEF EntriesTyped
  <2> DEFINE new == [NoOwner EXCEPT !.pc = "spawned", !.key = k,
                       !.expected = caller[c].expected, !.gen = cancel_gen]
  <2>3. new \in Owner /\ new.key \in Keys /\ new.pc = "spawned"
    BY <1>0, NoOwnerTyped DEF Owner, Caller
  <2>4. Own(o, new)
    BY <1>3 DEF Own
  <2> HIDE DEF new
  <2>5. OwnersTyped'
    BY <2>3, <2>4, OwnTyped DEF Downloading
  <2> QED BY <2>2, <2>5
<1>4. \/ UNCHANGED <<entries, owner>>
      \/ /\ k \in DOMAIN entries /\ UNCHANGED owner
         /\ entries' = [entries EXCEPT ![k].subscribers = @ \cup {c}]
      \/ \E o \in Owners :
           /\ entries' = Put(entries, k, [owner |-> o, subscribers |-> {c}])
           /\ owner' = [owner EXCEPT ![o] =
                          [NoOwner EXCEPT !.pc = "spawned", !.key = k,
                             !.expected = caller[c].expected, !.gen = cancel_gen]]
  BY DEF Register
<1> QED BY <1>1, <1>2, <1>3, <1>4

\* Whatever step is taken.
LEMMA TasksTyped ==
  ASSUME Typed, Next
  PROVE  OwnersTyped' /\ HandlesTyped' /\ EntriesTyped'
<1>0. EntriesTyped /\ HandlesTyped /\ handle \in [Owners -> Places]
  BY HandleTyped DEF EntriesTyped, Typed, TypeOK
<1>e. ASSUME UNCHANGED entries
      PROVE  EntriesTyped'
  BY <1>0, <1>e DEF EntriesTyped
<1>h. ASSUME UNCHANGED handle
      PROVE  HandlesTyped'
  BY <1>0, <1>h DEF HandlesTyped
<1>u. ASSUME UNCHANGED <<entries, owner, handle>>
      PROVE  OwnersTyped' /\ HandlesTyped' /\ EntriesTyped'
  BY <1>e, <1>h, <1>u, SameOwners
<1>1. ASSUME NEW c \in Callers, NEW k \in Keys, NEW e \in {Forced} \cup Epochs, Call(c, k, e)
      PROVE  OwnersTyped' /\ HandlesTyped' /\ EntriesTyped'
  BY <1>1, <1>u DEF Call, memVars
<1>2. ASSUME NEW c \in Callers, CallStep(c)
      PROVE  OwnersTyped' /\ HandlesTyped' /\ EntriesTyped'
  <2>1. CASE Unlink(c)
    <3>1. UNCHANGED <<entries, owner>> /\ handle' = Unlinked(caller[c].key, "final")
      BY <2>1 DEF Unlink, memVars
    <3> QED BY <1>e, <3>1, UnlinkedTyped, SameOwners DEF HandlesTyped
  <2>2. CASE Register(c)
    BY <1>h, <2>2, RegisterTyped DEF Register
  <2>3. CASE Detach(c)
    BY <1>h, <1>u, <2>3, UnsubscribeTyped DEF Detach, Subscribed
  <2>4. CASE \/ ReadRow(c) \/ Stat(c) \/ Judge(c) \/ DropRow(c) \/ Reread(c)
             \/ RedropRow(c) \/ Told(c) \/ Leave(c)
    <3>1. UNCHANGED <<entries, owner, handle>>
      BY <2>4 DEF ReadRow, Stat, Judge, DropRow, Reread, RedropRow, Told, Leave, memVars
    <3> QED BY <1>u, <3>1
  <2> QED BY <1>2, <2>1, <2>2, <2>3, <2>4 DEF CallStep
<1>3. ASSUME NEW c \in Callers, Cancel(c)
      PROVE  OwnersTyped' /\ HandlesTyped' /\ EntriesTyped'
  BY <1>3, <1>h, UnsubscribeTyped DEF Cancel, Subscribed
<1>4. ASSUME NEW c \in Callers, DropCall(c)
      PROVE  OwnersTyped' /\ HandlesTyped' /\ EntriesTyped'
  BY <1>4, <1>u DEF DropCall, memVars
<1>5. ASSUME NEW o \in Owners, OwnerStep(o)
      PROVE  OwnersTyped' /\ HandlesTyped' /\ EntriesTyped'
  <2>1. CASE Finish(o)
    <3>1. entries' = Without(entries, {owner[o].key})
      BY <2>1 DEF Finish
    <3>2. EntriesTyped'
      BY <1>0, <3>1, WithoutTyped DEF EntriesTyped
    <3> QED BY <1>5, <3>2, OwnerStepTyped
  <2>2. CASE ~ Finish(o)
    <3>1. UNCHANGED entries
      BY <1>5, <2>2
         DEF OwnerStep, Dropped, StartOwner, Snapshot, Open, Account, Loop, Read, Write,
             Drained, Recheck, Rename, Check, Upsert, Budget, Reclaim, memVars
    <3> QED BY <1>5, <1>e, <3>1, OwnerStepTyped
  <2> QED BY <2>1, <2>2
<1>6. ASSUME NEW x \in Clears, BeginClear(x) \/ ClearStep(x)
      PROVE  OwnersTyped' /\ HandlesTyped' /\ EntriesTyped'
  <2>1. CASE Wipe(x)
    <3>1. UNCHANGED <<entries, owner>>
      BY <2>1 DEF Wipe, memVars
    <3>2. HandlesTyped'
      BY <1>0, <2>1 DEF Wipe, HandlesTyped, Places
    <3> QED BY <1>e, <3>1, <3>2, SameOwners
  <2>2. CASE ~ Wipe(x)
    <3>1. UNCHANGED <<entries, owner, handle>>
      BY <1>6, <2>2
         DEF BeginClear, ClearStep, SetClearing, CancelAll, DrainInflight, DrainAdmitted,
             DrainTimeout, EndClearing, EndClear, memVars
    <3> QED BY <1>u, <3>1
  <2> QED BY <2>1, <2>2
<1>7. CASE \/ \E e \in Epochs : AdvanceEpoch(e)
           \/ \E k \in Keys : Replace(k)
  <2>1. UNCHANGED <<entries, owner, handle>>
    BY <1>7 DEF AdvanceEpoch, Replace, memVars, taskVars
  <2> QED BY <1>u, <2>1
<1>8. CASE Restart
  <2>1. /\ entries' = EmptyMap /\ owner' = [o \in Owners |-> NoOwner]
        /\ handle' = [o \in Owners |-> "none"]
    BY <1>8 DEF Restart
  <2>2. OwnersTyped'
    BY <2>1, NoOwnerTyped DEF OwnersTyped, OwnersWellFormed, Downloading
  <2>3. HandlesTyped'
    BY <2>1 DEF HandlesTyped, Places
  <2>4. EntriesTyped'
    BY <2>1, EmptyMapFacts DEF EntriesTyped
  <2> QED BY <2>2, <2>3, <2>4
<1> QED BY <1>1, <1>2, <1>3, <1>4, <1>5, <1>6, <1>7, <1>8 DEF Next

LEMMA CallersTyped ==
  ASSUME Typed, Next
  PROVE  CallsTyped'
<1>u. ASSUME UNCHANGED caller
      PROVE  CallsTyped'
  BY <1>u DEF CallsTyped, Typed, TypeOK, CallersWellFormed
<1>1. ASSUME NEW o \in Owners, OwnerStep(o)
      PROVE  CallsTyped'
  <2>1. CASE Finish(o)
    <3>1. owner[o].result \in Results /\ Deliver(o, owner[o].result)
      BY <2>1, OwnerTyped DEF Finish, Owner
    <3> QED BY <3>1, EveryCallTyped
  <2>2. CASE ~ Finish(o)
    <3>1. UNCHANGED caller
      BY <1>1, <2>2
         DEF OwnerStep, Dropped, StartOwner, Snapshot, Open, Account, Loop, Read, Write,
             Drained, Recheck, Rename, Check, Upsert, Budget, Reclaim
    <3> QED BY <1>u, <3>1
  <2> QED BY <2>1, <2>2
<1>2. ASSUME NEW x \in Clears, BeginClear(x) \/ ClearStep(x)
      PROVE  CallsTyped'
  <2>1. CASE ClearStep(x)
    <3>1. UNCHANGED caller
      BY <2>1 DEF ClearStep, SetClearing, CancelAll, DrainInflight, DrainAdmitted,
                  DrainTimeout, Wipe, EndClearing, EndClear
    <3> QED BY <1>u, <3>1
  <2> QED BY <1>2, <2>1, EveryCallTyped
<1>3. CASE \/ \E e \in Epochs : AdvanceEpoch(e)
           \/ \E k \in Keys : Replace(k)
  BY <1>3, <1>u DEF AdvanceEpoch, Replace, taskVars
<1> QED BY <1>1, <1>2, <1>3, CallStepTyped, CallerActsTyped, EveryCallTyped DEF Next

-----------------------------------------------------------------------------
(***************************************************************************)
(* The table and the files.                                                 *)
(***************************************************************************)
AreRows(f) == DOMAIN f \subseteq Keys /\ f \in [DOMAIN f -> Versions]

AreFiles(f) == DOMAIN f \subseteq Keys /\ Chunks(f)

AreSidecars(f) ==
  DOMAIN f \subseteq Keys /\ f \in [DOMAIN f -> [version : Versions, downloaded : Nat]]

DiskTyped == AreRows(rows) /\ AreFiles(final) /\ AreFiles(part) /\ AreSidecars(sidecar)

LEMMA DiskIsTyped == Typed => DiskTyped
BY DEF Typed, TypeOK, DiskTyped, AreRows, AreFiles, AreSidecars

LEMMA FewerTyped ==
  ASSUME NEW f, NEW gone
  PROVE  /\ AreRows(f) => AreRows(Without(f, gone))
         /\ AreFiles(f) => AreFiles(Without(f, gone))
         /\ AreSidecars(f) => AreSidecars(Without(f, gone))
<1>1. ASSUME AreRows(f) PROVE AreRows(Without(f, gone))
  BY <1>1, WithoutTyped DEF AreRows
<1>2. ASSUME AreFiles(f) PROVE AreFiles(Without(f, gone))
  BY <1>2 DEF AreFiles, Chunks, Without
<1>3. ASSUME AreSidecars(f) PROVE AreSidecars(Without(f, gone))
  BY <1>3, WithoutTyped DEF AreSidecars
<1> QED BY <1>1, <1>2, <1>3

LEMMA FileTyped ==
  ASSUME NEW f, AreFiles(f), NEW k \in Keys, NEW file \in Seq(Versions)
  PROVE  AreFiles(Put(f, k, file))
BY DEF AreFiles, Chunks, Put

LEMMA RowTyped ==
  ASSUME NEW f, AreRows(f), NEW k \in Keys, NEW version \in Versions
  PROVE  AreRows(Put(f, k, version))
BY PutTyped DEF AreRows

LEMMA SidecarTyped ==
  ASSUME NEW f, AreSidecars(f), NEW k \in Keys,
         NEW new \in [version : Versions, downloaded : Nat]
  PROVE  AreSidecars(Put(f, k, new))
BY PutTyped DEF AreSidecars

LEMMA NothingTyped == AreRows(EmptyMap) /\ AreFiles(EmptyMap) /\ AreSidecars(EmptyMap)
BY DEF AreRows, AreFiles, AreSidecars, Chunks, EmptyMap

LEMMA EvictDisk ==
  ASSUME DiskTyped, NEW P, NEW hd, Evict(P, hd)
  PROVE  DiskTyped'
BY FewerTyped DEF Evict, DiskTyped

LEMMA OwnerDisk ==
  ASSUME Typed, NEW o \in Owners, OwnerStep(o)
  PROVE  DiskTyped'
<1>0. /\ DiskTyped /\ owner[o] \in Owner
      /\ owner[o].pc # "none" => owner[o].key \in Keys
      /\ owner[o].pc \in Downloading => owner[o].snap \in Versions
      /\ owner[o].pc = "write" => owner[o].chunk \in Versions
  BY DiskIsTyped, OwnerTyped
<1>u. ASSUME UNCHANGED diskVars
      PROVE  DiskTyped'
  BY <1>0, <1>u DEF DiskTyped, diskVars, AreRows, AreFiles, AreSidecars, Chunks
<1>d. ASSUME Discard(owner[o].key)
      PROVE  AreFiles(part') /\ AreSidecars(sidecar')
  BY <1>0, <1>d, FewerTyped DEF Discard, DiskTyped
<1>1. CASE Dropped(o) \/ StartOwner(o) \/ Snapshot(o) \/ Loop(o) \/ Read(o) \/ Budget(o)
  BY <1>1, <1>u DEF Dropped, StartOwner, Snapshot, Loop, Read, Budget
<1>2. CASE Open(o)
  <2>1. owner[o].key \in Keys /\ <<>> \in Seq(Versions)
    BY <1>0, <1>2 DEF Open
  <2>2. part' = part \/ part' = Put(part, owner[o].key, <<>>)
    BY <1>2 DEF Open
  <2>3. sidecar' = sidecar \/ sidecar' = Without(sidecar, {owner[o].key})
    BY <1>2 DEF Open
  <2>4. UNCHANGED <<rows, final>>
    BY <1>2 DEF Open
  <2> QED BY <1>0, <2>1, <2>2, <2>3, <2>4, FileTyped, FewerTyped DEF DiskTyped
<1>3. CASE Account(o)
  <2> DEFINE new == [version |-> owner[o].snap, downloaded |-> owner[o].offset]
  <2>1. owner[o].key \in Keys /\ new \in [version : Versions, downloaded : Nat]
    BY <1>0, <1>3 DEF Account, Owner, Downloading
  <2>2. sidecar' = sidecar \/ sidecar' = Put(sidecar, owner[o].key, new)
    BY <1>3 DEF Account
  <2>3. UNCHANGED <<rows, final, part>>
    BY <1>3 DEF Account
  <2> HIDE DEF new
  <2> QED BY <1>0, <2>1, <2>2, <2>3, SidecarTyped DEF DiskTyped
<1>4. CASE Write(o)
  <2> DEFINE k == owner[o].key
             more(file) == [file EXCEPT ![k] = Append(@, owner[o].chunk)]
  <2>1. k \in Keys /\ owner[o].chunk \in Versions
    BY <1>0, <1>4 DEF Write
  <2>2. ASSUME NEW f, AreFiles(f)
        PROVE  AreFiles(more(f))
    BY <2>1, <2>2 DEF AreFiles, Chunks
  <2>3. /\ part' = part \/ part' = more(part)
        /\ final' = final \/ final' = more(final)
        /\ UNCHANGED <<rows, sidecar>>
    BY <1>4 DEF Write
  <2> HIDE DEF more
  <2> QED BY <1>0, <2>2, <2>3 DEF DiskTyped
<1>5. CASE Drained(o) \/ Recheck(o)
  <2>1. UNCHANGED <<rows, final>> /\ (Discard(owner[o].key) \/ UNCHANGED <<part, sidecar>>)
    BY <1>5 DEF Drained, Recheck
  <2> QED BY <1>0, <1>d, <2>1 DEF DiskTyped
<1>6. CASE Rename(o)
  <2> DEFINE k == owner[o].key
  <2>1. UNCHANGED rows /\ (Discard(k) \/ UNCHANGED <<part, sidecar>>)
    BY <1>6 DEF Rename
  <2>2. \/ final' = final
        \/ final' = Without(final, {k})
        \/ k \in DOMAIN part /\ final' = Put(final, k, part[k])
    BY <1>6 DEF Rename
  <2>3. k \in Keys /\ (k \in DOMAIN part => part[k] \in Seq(Versions))
    BY <1>0, <1>6 DEF Rename, DiskTyped, AreFiles, Chunks
  <2>4. AreFiles(final')
    BY <1>0, <2>2, <2>3, FewerTyped, FileTyped DEF DiskTyped
  <2> QED BY <1>0, <1>d, <2>1, <2>4 DEF DiskTyped
<1>7. CASE Check(o)
  <2>1. UNCHANGED <<rows, part, sidecar>>
        /\ (UNCHANGED final \/ final' = Without(final, {owner[o].key}))
    BY <1>7 DEF Check
  <2> QED BY <1>0, <2>1, FewerTyped DEF DiskTyped
<1>8. CASE Upsert(o)
  <2>1. owner[o].key \in Keys /\ owner[o].snap \in Versions
    BY <1>0, <1>8 DEF Upsert, Downloading
  <2>2. UNCHANGED <<final, part, sidecar>>
        /\ (UNCHANGED rows \/ rows' = Put(rows, owner[o].key, owner[o].snap))
    BY <1>8 DEF Upsert
  <2> QED BY <1>0, <2>1, <2>2, RowTyped DEF DiskTyped
<1>9. CASE Reclaim(o) \/ Finish(o)
  <2>1. UNCHANGED diskVars \/ \E P, hd : Evict(P, hd)
    BY <1>9 DEF Reclaim, Finish
  <2> QED BY <1>0, <1>u, <2>1, EvictDisk
<1> QED BY <1>1, <1>2, <1>3, <1>4, <1>5, <1>6, <1>7, <1>8, <1>9 DEF OwnerStep

LEMMA DiskStaysTyped ==
  ASSUME Typed, Next
  PROVE  DiskTyped'
<1>0. DiskTyped
  BY DiskIsTyped
<1>u. ASSUME UNCHANGED diskVars
      PROVE  DiskTyped'
  BY <1>0, <1>u DEF DiskTyped, diskVars
<1>1. ASSUME NEW c \in Callers, CallStep(c)
      PROVE  DiskTyped'
  <2>1. CASE DropRow(c) \/ RedropRow(c)
    <3>1. UNCHANGED <<final, part, sidecar>>
          /\ (UNCHANGED rows \/ rows' = Without(rows, {caller[c].key}))
      BY <2>1 DEF DropRow, RedropRow
    <3> QED BY <1>0, <3>1, FewerTyped DEF DiskTyped
  <2>2. CASE Unlink(c)
    <3>1. UNCHANGED <<rows, part, sidecar>> /\ final' = Without(final, {caller[c].key})
      BY <2>2 DEF Unlink
    <3> QED BY <1>0, <3>1, FewerTyped DEF DiskTyped
  <2>3. CASE \/ ReadRow(c) \/ Stat(c) \/ Judge(c) \/ Reread(c) \/ Register(c) \/ Told(c)
             \/ Leave(c) \/ Detach(c)
    <3>1. UNCHANGED diskVars
      BY <2>3 DEF ReadRow, Stat, Judge, Reread, Register, Told, Leave, Detach
    <3> QED BY <1>u, <3>1
  <2> QED BY <1>1, <2>1, <2>2, <2>3 DEF CallStep
<1>2. ASSUME NEW x \in Clears, BeginClear(x) \/ ClearStep(x)
      PROVE  DiskTyped'
  <2>1. CASE Wipe(x)
    <3>1. /\ rows' = EmptyMap /\ final' = Without(final, DOMAIN rows)
          /\ part' = EmptyMap /\ sidecar' = EmptyMap
      BY <2>1 DEF Wipe
    <3> QED BY <1>0, <3>1, FewerTyped, NothingTyped DEF DiskTyped
  <2>2. CASE ~ Wipe(x)
    <3>1. UNCHANGED diskVars
      BY <1>2, <2>2
         DEF BeginClear, ClearStep, SetClearing, CancelAll, DrainInflight, DrainAdmitted,
             DrainTimeout, EndClearing, EndClear
    <3> QED BY <1>u, <3>1
  <2> QED BY <2>1, <2>2
<1>3. CASE \/ \E c \in Callers, k \in Keys, e \in {Forced} \cup Epochs : Call(c, k, e)
           \/ \E c \in Callers : Cancel(c) \/ DropCall(c)
           \/ \E e \in Epochs : AdvanceEpoch(e)
           \/ \E k \in Keys : Replace(k)
  <2>1. UNCHANGED diskVars
    BY <1>3 DEF Call, Cancel, DropCall, AdvanceEpoch, Replace
  <2> QED BY <1>u, <2>1
<1>4. CASE Restart
  <2>1. PICK parts \in SUBSET DOMAIN part, ready \in SUBSET DOMAIN rows :
          /\ part' = [k \in parts |-> part[k]]
          /\ sidecar' = Without(sidecar, DOMAIN part \ parts)
          /\ rows' = [k \in ready |-> rows[k]]
          /\ final' = [k \in ready |-> final[k]]
          /\ ready \subseteq DOMAIN final
    BY <1>4 DEF Restart, FileMatches
  <2>2. AreRows(rows') /\ AreFiles(final') /\ AreFiles(part')
    BY <1>0, <2>1 DEF DiskTyped, AreRows, AreFiles, Chunks
  <2>3. AreSidecars(sidecar')
    BY <1>0, <2>1, FewerTyped DEF DiskTyped
  <2> QED BY <2>2, <2>3 DEF DiskTyped
<1> QED BY <1>1, <1>2, <1>3, <1>4, OwnerDisk DEF Next

-----------------------------------------------------------------------------
(***************************************************************************)
(* Everything else, and the theorem.                                        *)
(***************************************************************************)
OthersTyped ==
  /\ remote \in [Keys -> Versions]
  /\ gate \in BOOLEAN /\ clearing \in BOOLEAN
  /\ epoch \in Epochs /\ cancel_gen \in Nat
  /\ clear \in [Clears -> {"idle", "begun", "bump", "drain", "drain2", "wipe", "reopen",
                          "guard", "done"}]
  /\ wiped_gen \in Nat /\ crashes \in 0 .. MaxCrashes

LEMMA TypedParts ==
  Typed <=> CallsTyped /\ OwnersTyped /\ HandlesTyped /\ EntriesTyped /\ DiskTyped /\ OthersTyped
BY DEF Typed, TypeOK, CallsTyped, OwnersTyped, HandlesTyped, EntriesTyped, DiskTyped,
       OthersTyped, AreRows, AreFiles, AreSidecars, Places

LEMMA ClearToTyped ==
  ASSUME OthersTyped, NEW x \in Clears, NEW from, NEW to, ClearTo(x, from, to),
         to \in {"begun", "bump", "drain", "drain2", "wipe", "reopen", "guard", "done"}
  PROVE  clear' \in [Clears -> {"idle", "begun", "bump", "drain", "drain2", "wipe", "reopen",
                                "guard", "done"}]
BY DEF ClearTo, OthersTyped

LEMMA OthersStayTyped ==
  ASSUME Typed, Next
  PROVE  OthersTyped'
<1>0. OthersTyped
  BY TypedParts
<1>u. ASSUME UNCHANGED <<remote, gate, clearing, epoch, cancel_gen, clear, wiped_gen, crashes>>
      PROVE  OthersTyped'
  BY <1>0, <1>u DEF OthersTyped
<1>1. CASE \/ \E c \in Callers, k \in Keys, e \in {Forced} \cup Epochs : Call(c, k, e)
           \/ \E c \in Callers : CallStep(c) \/ Cancel(c) \/ DropCall(c)
           \/ \E o \in Owners : OwnerStep(o)
  <2>1. UNCHANGED <<remote, gate, clearing, epoch, cancel_gen, clear, wiped_gen, crashes>>
    BY <1>1
       DEF Call, CallStep, ReadRow, Stat, Judge, DropRow, Unlink, Reread, RedropRow,
           Register, Told, Leave, Detach, Cancel, DropCall, OwnerStep, Dropped, StartOwner,
           Snapshot, Open, Account, Loop, Read, Write, Drained, Recheck, Rename, Check,
           Upsert, Budget, Reclaim, Finish, memVars
  <2> QED BY <1>u, <2>1
<1>2. ASSUME NEW x \in Clears, BeginClear(x) \/ ClearStep(x)
      PROVE  OthersTyped'
  <2>1. clear' \in [Clears -> {"idle", "begun", "bump", "drain", "drain2", "wipe", "reopen",
                               "guard", "done"}]
    BY <1>0, <1>2, ClearToTyped
       DEF BeginClear, ClearStep, SetClearing, CancelAll, DrainInflight, DrainAdmitted,
           DrainTimeout, Wipe, EndClearing, EndClear
  <2>2. cancel_gen' \in Nat /\ wiped_gen' \in Nat
    BY <1>0, <1>2
       DEF BeginClear, ClearStep, SetClearing, CancelAll, DrainInflight, DrainAdmitted,
           DrainTimeout, Wipe, EndClearing, EndClear, memVars, OthersTyped
  <2>3. gate' \in BOOLEAN /\ clearing' \in BOOLEAN
    <3>1. gate' = gate \/ gate' = TRUE \/ gate' = FALSE
      BY <1>2
         DEF BeginClear, ClearStep, SetClearing, CancelAll, DrainInflight, DrainAdmitted,
             DrainTimeout, Wipe, EndClearing, EndClear, memVars
    <3>2. clearing' = clearing \/ clearing' = TRUE \/ clearing' = FALSE
      BY <1>2
         DEF BeginClear, ClearStep, SetClearing, CancelAll, DrainInflight, DrainAdmitted,
             DrainTimeout, Wipe, EndClearing, EndClear, memVars
    <3> QED BY <1>0, <3>1, <3>2, Zenon DEF OthersTyped
  <2>4. UNCHANGED <<remote, epoch, crashes>>
    BY <1>2
       DEF BeginClear, ClearStep, SetClearing, CancelAll, DrainInflight, DrainAdmitted,
           DrainTimeout, Wipe, EndClearing, EndClear, memVars
  <2> QED BY <1>0, <2>1, <2>2, <2>3, <2>4 DEF OthersTyped
<1>3. ASSUME NEW e \in Epochs, AdvanceEpoch(e)
      PROVE  OthersTyped'
  BY <1>0, <1>3 DEF AdvanceEpoch, taskVars, OthersTyped
<1>4. ASSUME NEW k \in Keys, Replace(k)
      PROVE  OthersTyped'
  <2>1. remote[k] + 1 \in Versions /\ remote' = [remote EXCEPT ![k] = remote[k] + 1]
    BY <1>0, <1>4, ConstantFacts DEF Replace, OthersTyped, Versions
  <2> QED BY <1>0, <1>4, <2>1 DEF Replace, memVars, taskVars, OthersTyped
<1>5. CASE Restart
  <2>1. gate' \in BOOLEAN /\ clearing' \in BOOLEAN
    BY <1>5, PlainValues DEF Restart
  <2>2. crashes' \in 0 .. MaxCrashes
    BY <1>0, <1>5, ConstantFacts DEF Restart, OthersTyped
  <2>3. epoch' \in Epochs
    BY <1>5, ConstantFacts DEF Restart, Epochs
  <2> QED BY <1>0, <1>5, <2>1, <2>2, <2>3 DEF Restart, OthersTyped
<1> QED BY <1>1, <1>2, <1>3, <1>4, <1>5 DEF Next

LEMMA TypedInit == Init => Typed
<1> SUFFICES ASSUME Init PROVE Typed
  OBVIOUS
<1>1. CallsTyped
  BY IdleTyped DEF Init, CallsTyped, CallersWellFormed
<1>2. OwnersTyped /\ HandlesTyped
  BY NoOwnerTyped DEF Init, OwnersTyped, OwnersWellFormed, Downloading, HandlesTyped, Places
<1>3. EntriesTyped /\ DiskTyped
  BY NothingTyped, EmptyMapFacts DEF Init, EntriesTyped, DiskTyped
<1>4. OthersTyped
  <2>1. gate \in BOOLEAN /\ clearing \in BOOLEAN
    BY PlainValues DEF Init
  <2>2. epoch \in Epochs /\ crashes \in 0 .. MaxCrashes
    BY ConstantFacts DEF Init, Epochs
  <2> QED BY <2>1, <2>2, ConstantFacts DEF Init, OthersTyped
<1> QED BY <1>1, <1>2, <1>3, <1>4, TypedParts

LEMMA TypedStep == Typed /\ [Next]_vars => Typed'
<1> SUFFICES ASSUME Typed, [Next]_vars PROVE Typed'
  OBVIOUS
<1>1. CASE Next
  <2>1. Typed'
        <=> (CallsTyped /\ OwnersTyped /\ HandlesTyped /\ EntriesTyped /\ DiskTyped /\ OthersTyped)'
    BY DEF Typed, TypeOK, CallsTyped, OwnersTyped, HandlesTyped, EntriesTyped, DiskTyped,
           OthersTyped, AreRows, AreFiles, AreSidecars, Places
  <2> QED BY <1>1, <2>1, CallersTyped, TasksTyped, DiskStaysTyped, OthersStayTyped
<1>2. CASE UNCHANGED vars
  BY <1>2 DEF vars, diskVars, memVars, taskVars, Typed, TypeOK, CallersWellFormed,
              OwnersWellFormed, Chunks
<1> QED BY <1>1, <1>2

\* Every variable of the cache of remote archives keeps its type.
THEOREM TypeCorrect == Spec => []TypeOK
<1>1. Spec => []Typed
  BY TypedInit, TypedStep, PTL DEF Spec
<1>2. Typed => TypeOK
  BY DEF Typed
<1> QED BY <1>1, <1>2, PTL

-----------------------------------------------------------------------------
(***************************************************************************)
(* Whoever waits is subscribed.                                             *)
(***************************************************************************)

\* Taking one subscriber off leaves the others where they are.
LEMMA OthersStaySubscribed ==
  ASSUME Typed, NEW c \in Callers, NEW k \in DOMAIN entries, Unsubscribe(c, k),
         NEW d \in Callers \ {c}, NEW j \in DOMAIN entries, d \in entries[j].subscribers
  PROVE  j \in DOMAIN entries' /\ d \in entries'[j].subscribers
<1> DEFINE rest == entries[k].subscribers \ {c}
<1>0. entries \in [DOMAIN entries -> Entry]
  BY DEF Typed, TypeOK
<1>1. CASE rest = {}
  <2>1. entries' = Without(entries, {k})
    BY <1>1 DEF Unsubscribe
  <2>2. j # k
    BY <1>1
  <2> QED BY <2>1, <2>2 DEF Without
<1>2. CASE rest # {}
  <2>1. entries' = [entries EXCEPT ![k].subscribers = rest]
    BY <1>2 DEF Unsubscribe
  <2> QED BY <1>0, <2>1 DEF Entry
<1> QED BY <1>1, <1>2

\* A call moves only itself, and waits only once it is registered.
LEMMA CallMoves ==
  ASSUME Typed, NEW c \in Callers,
         \/ CallStep(c) \/ Cancel(c) \/ DropCall(c)
         \/ \E k \in Keys, e \in {Forced} \cup Epochs : Call(c, k, e)
  PROVE  /\ \A d \in Callers \ {c} : caller'[d] = caller[d]
         /\ caller'[c].pc = "wait" => Register(c)
<1>0. caller \in [Callers -> Caller] /\ caller[c] \in Caller
  BY DEF Typed, TypeOK
<1>1. ASSUME NEW pc, Goto(c, pc), pc # "wait"
      PROVE  (\A d \in Callers \ {c} : caller'[d] = caller[d]) /\ caller'[c].pc # "wait"
  BY <1>0, <1>1 DEF Goto, Set, Caller
<1>2. ASSUME NEW r, Return(c, r)
      PROVE  (\A d \in Callers \ {c} : caller'[d] = caller[d]) /\ caller'[c].pc # "wait"
  BY <1>0, <1>2 DEF Return, Set, Caller, Idle
<1>3. ASSUME ToRegister(c)
      PROVE  (\A d \in Callers \ {c} : caller'[d] = caller[d]) /\ caller'[c].pc # "wait"
  BY <1>0, <1>3 DEF ToRegister, Set, Caller
<1>4. ASSUME NextRound(c)
      PROVE  (\A d \in Callers \ {c} : caller'[d] = caller[d]) /\ caller'[c].pc # "wait"
  BY <1>0, <1>2, <1>4 DEF NextRound, Set, Caller
<1>5. CASE ReadRow(c) \/ Stat(c)
  BY <1>0, <1>2, <1>3, <1>5 DEF ReadRow, Stat, Set, Caller
<1>6. CASE Judge(c) \/ DropRow(c) \/ Unlink(c)
  BY <1>1, <1>2, <1>3, <1>4, <1>6 DEF Judge, DropRow, Unlink
<1>7. CASE Reread(c) \/ RedropRow(c)
  BY <1>0, <1>1, <1>2, <1>3, <1>7 DEF Reread, RedropRow, Set, Caller
<1>8. CASE Register(c)
  BY <1>0, <1>2, <1>8 DEF Register, Goto, Set
<1>9. CASE Told(c)
  BY <1>2, <1>4, <1>9 DEF Told
<1>10. CASE Leave(c) \/ Detach(c)
  BY <1>0, <1>10 DEF Leave, Detach, Set, Idle
<1>11. CASE Cancel(c)
  BY <1>0, <1>11 DEF Cancel, Set, Caller
<1>12. CASE DropCall(c)
  BY <1>0, <1>12 DEF DropCall, Set, Idle
<1>13. ASSUME NEW k \in Keys, NEW e \in {Forced} \cup Epochs, Call(c, k, e)
      PROVE  (\A d \in Callers \ {c} : caller'[d] = caller[d]) /\ caller'[c].pc # "wait"
  BY <1>0, <1>13 DEF Call, Set, Idle
<1> QED BY <1>5, <1>6, <1>7, <1>8, <1>9, <1>10, <1>11, <1>12, <1>13 DEF CallStep

LEMMA SubscriptionsStep ==
  ASSUME Typed, WaitersSubscribed, Next
  PROVE  WaitersSubscribed'
<1>0. caller \in [Callers -> Caller] /\ entries \in [DOMAIN entries -> Entry]
  BY DEF Typed, TypeOK
<1>1. ASSUME NEW c \in Callers,
             \/ CallStep(c) \/ Cancel(c) \/ DropCall(c)
             \/ \E k \in Keys, e \in {Forced} \cup Epochs : Call(c, k, e)
      PROVE  WaitersSubscribed'
  <2>1. CASE Register(c)
    <3>1. CASE UNCHANGED entries /\ caller'[c].pc # "wait"
      BY <1>1, <3>1, CallMoves DEF WaitersSubscribed, Subscribed
    <3>2. CASE /\ caller[c].key \in DOMAIN entries
               /\ entries' = [entries EXCEPT ![caller[c].key].subscribers = @ \cup {c}]
               /\ caller'[c].key = caller[c].key
      BY <1>0, <1>1, <3>2, CallMoves DEF WaitersSubscribed, Subscribed, Entry
    <3>3. ASSUME NEW o,
                 entries' = Put(entries, caller[c].key, [owner |-> o, subscribers |-> {c}]),
                 caller[c].key \notin DOMAIN entries,
                 caller'[c].key = caller[c].key
          PROVE  WaitersSubscribed'
      BY <1>1, <3>3, CallMoves DEF WaitersSubscribed, Subscribed, Put
    <3>4. ASSUME Return(c, "cancelled")
          PROVE  caller'[c].pc # "wait"
      BY <1>0, <3>4 DEF Return, Set, Idle
    <3>5. ASSUME \/ Goto(c, "wait")
                 \/ Set(c, [caller[c] EXCEPT !.pc = "wait", !.owns = TRUE])
          PROVE  caller'[c].key = caller[c].key
      BY <1>0, <3>5 DEF Goto, Set, Caller
    <3> QED BY <2>1, <3>1, <3>2, <3>3, <3>4, <3>5 DEF Register
  <2>2. CASE ~ Register(c) /\ UNCHANGED entries
    BY <1>1, <2>2, CallMoves DEF WaitersSubscribed, Subscribed
  <2>3. CASE ~ Register(c) /\ \E k \in DOMAIN entries : Unsubscribe(c, k)
    BY <1>1, <2>3, CallMoves, OthersStaySubscribed DEF WaitersSubscribed, Subscribed
  <2>4. \/ Register(c) \/ UNCHANGED entries
        \/ \E k \in DOMAIN entries : Unsubscribe(c, k)
    BY <1>1 DEF CallStep, ReadRow, Stat, Judge, DropRow, Unlink, Reread, RedropRow, Told,
                Leave, Detach, Cancel, DropCall, Call, Subscribed, memVars
  <2> QED BY <2>1, <2>2, <2>3, <2>4
<1>2. ASSUME NEW o \in Owners, OwnerStep(o)
      PROVE  WaitersSubscribed'
  <2>1. CASE Finish(o)
    <3> SUFFICES ASSUME NEW c \in Callers, caller'[c].pc = "wait"
                 PROVE  Subscribed(c)'
      BY DEF WaitersSubscribed
    <3>1. caller'[c] = caller[c]
          /\ ~ (/\ owner[o].key \in DOMAIN entries /\ c \in entries[owner[o].key].subscribers
                /\ caller[c].pc = "wait")
      BY <1>0, <2>1 DEF Finish, Deliver, Caller
    <3>2. Subscribed(c)
      BY <3>1 DEF WaitersSubscribed
    <3> QED BY <2>1, <3>1, <3>2 DEF Finish, Subscribed, Without
  <2>2. CASE ~ Finish(o)
    <3>1. UNCHANGED <<caller, entries>>
      BY <1>2, <2>2
         DEF OwnerStep, Dropped, StartOwner, Snapshot, Open, Account, Loop, Read, Write,
             Drained, Recheck, Rename, Check, Upsert, Budget, Reclaim, memVars
    <3> QED BY <3>1 DEF WaitersSubscribed, Subscribed
  <2> QED BY <2>1, <2>2
<1>3. ASSUME NEW x \in Clears, BeginClear(x)
      PROVE  WaitersSubscribed'
  <2>1. \A c \in Callers : caller'[c].pc = caller[c].pc /\ caller'[c].key = caller[c].key
    BY <1>0, <1>3 DEF BeginClear, Caller
  <2> QED BY <1>3, <2>1 DEF BeginClear, WaitersSubscribed, Subscribed
<1>4. CASE \/ \E x \in Clears : ClearStep(x)
           \/ \E e \in Epochs : AdvanceEpoch(e)
           \/ \E k \in Keys : Replace(k)
  <2>1. UNCHANGED <<caller, entries>>
    BY <1>4 DEF ClearStep, SetClearing, CancelAll, DrainInflight, DrainAdmitted,
                DrainTimeout, Wipe, EndClearing, EndClear, AdvanceEpoch, Replace,
                memVars, taskVars
  <2> QED BY <2>1 DEF WaitersSubscribed, Subscribed
<1>5. CASE Restart
  BY <1>5, IdleTyped DEF Restart, WaitersSubscribed
<1> QED BY <1>1, <1>2, <1>3, <1>4, <1>5 DEF Next

\* Nobody waits for an answer that no owner of the archive would send to it: the
\* subscriptions of register, cancel_interactive, DetachGuard and the end of
\* run_owner agree with the calls, whatever their order.
THEOREM NobodyWaitsAlone == Spec => []WaitersSubscribed
<1>1. Init => WaitersSubscribed
  BY IdleTyped DEF Init, WaitersSubscribed
<1>2. Typed /\ WaitersSubscribed /\ [Next]_vars => WaitersSubscribed'
  <2>1. ASSUME WaitersSubscribed, UNCHANGED vars PROVE WaitersSubscribed'
    BY <2>1 DEF vars, memVars, taskVars, WaitersSubscribed, Subscribed
  <2> QED BY <2>1, SubscriptionsStep
<1> QED BY <1>1, <1>2, TypedInit, TypedStep, PTL DEF Spec

-----------------------------------------------------------------------------
(***************************************************************************)
(* A clear is alone, and final, as long as no other clear overlaps it.      *)
(***************************************************************************)
OneClear == \A x, y \in Clears : x = y

\* Until it reopens them, a clear keeps both gates shut: that of the coordinator
\* keeps calls and downloads from being admitted, that of the table keeps calls
\* from registering.  So what it has waited for stays so.
GatesShut ==
  \A x \in Clears :
    /\ clear[x] \in {"begun", "bump", "drain", "drain2", "wipe", "reopen", "guard"} => gate
    /\ clear[x] \in {"bump", "drain", "drain2", "wipe", "reopen"} => clearing
    /\ clear[x] \in {"drain2", "wipe"} => entries = EmptyMap
    /\ clear[x] = "wipe" => Admitted = {}

CallerOut(c) == caller[c].pc \in {"idle", "detach", "done"}

OwnerOut(o) == owner[o].pc \in {"none", "spawned", "finish"}

LEMMA NobodyAdmitted ==
  Admitted = {} <=> (\A c \in Callers : CallerOut(c)) /\ (\A o \in Owners : OwnerOut(o))
BY DEF Admitted, CallerOut, OwnerOut

\* Nobody registers or leaves a table that is empty while clearing.
LEMMA EmptyStaysEmpty ==
  ASSUME Typed, clearing, entries = EmptyMap, Next
  PROVE  entries' = EmptyMap
<1>0. DOMAIN entries = {}
  BY EmptyMapFacts
<1>1. ASSUME NEW c \in Callers, CallStep(c)
      PROVE  entries' = EmptyMap
  BY <1>0, <1>1
     DEF CallStep, ReadRow, Stat, Judge, DropRow, Unlink, Reread, RedropRow, Register, Barred,
         Told, Leave, Detach, Subscribed, memVars
<1>2. ASSUME NEW c \in Callers, Cancel(c)
      PROVE  FALSE
  BY <1>0, <1>2 DEF Cancel, Subscribed
<1>3. ASSUME NEW o \in Owners, OwnerStep(o)
      PROVE  entries' = EmptyMap
  <2>1. CASE Finish(o)
    BY <1>0, <2>1 DEF Finish, Without, EmptyMap
  <2>2. CASE ~ Finish(o)
    BY <1>3, <2>2
       DEF OwnerStep, Dropped, StartOwner, Snapshot, Open, Account, Loop, Read, Write,
           Drained, Recheck, Rename, Check, Upsert, Budget, Reclaim, memVars
  <2> QED BY <2>1, <2>2
<1>4. ASSUME NEW x \in Clears, BeginClear(x) \/ ClearStep(x)
      PROVE  entries' = EmptyMap
  BY <1>4 DEF BeginClear, ClearStep, SetClearing, CancelAll, DrainInflight, DrainAdmitted,
              DrainTimeout, Wipe, EndClearing, EndClear, memVars
<1>5. CASE \/ \E c \in Callers, k \in Keys, e \in {Forced} \cup Epochs : Call(c, k, e)
           \/ \E c \in Callers : DropCall(c)
           \/ \E e \in Epochs : AdvanceEpoch(e)
           \/ \E k \in Keys : Replace(k)
  BY <1>5 DEF Call, DropCall, AdvanceEpoch, Replace, memVars
<1> QED BY <1>1, <1>2, <1>3, <1>4, <1>5 DEF Next, Restart

\* With the gate shut and nobody inside, nobody gets in.
LEMMA OutStaysOut ==
  ASSUME Typed, gate, entries = EmptyMap, Admitted = {}, Next
  PROVE  (Admitted = {})'
<1>0. /\ DOMAIN entries = {}
      /\ caller \in [Callers -> Caller] /\ owner \in [Owners -> Owner]
      /\ \A c \in Callers : CallerOut(c)
      /\ \A o \in Owners : OwnerOut(o)
  BY EmptyMapFacts, NobodyAdmitted DEF Typed, TypeOK
<1> SUFFICES (\A c \in Callers : CallerOut(c)') /\ (\A o \in Owners : OwnerOut(o)')
  BY DEF Admitted, CallerOut, OwnerOut
<1>c. ASSUME UNCHANGED caller
      PROVE  \A c \in Callers : CallerOut(c)'
  BY <1>0, <1>c DEF CallerOut
<1>o. ASSUME UNCHANGED owner
      PROVE  \A o \in Owners : OwnerOut(o)'
  BY <1>0, <1>o DEF OwnerOut
<1>1. ASSUME NEW c \in Callers, CallStep(c)
      PROVE  (\A d \in Callers : CallerOut(d)') /\ (\A o \in Owners : OwnerOut(o)')
  <2>1. Set(c, Idle) /\ UNCHANGED owner
    BY <1>0, <1>1
       DEF CallStep, ReadRow, Stat, Judge, DropRow, Unlink, Reread, RedropRow, Register,
           Told, Leave, Detach, Subscribed, CallerOut
  <2> QED BY <1>0, <1>o, <2>1, IdleTyped DEF Set, CallerOut
<1>2. ASSUME NEW c \in Callers, Cancel(c) \/ DropCall(c)
      PROVE  FALSE
  BY <1>0, <1>2 DEF Cancel, DropCall, Subscribed, CallerOut
<1>3. ASSUME NEW c \in Callers, NEW k \in Keys, NEW e \in {Forced} \cup Epochs, Call(c, k, e)
      PROVE  (\A d \in Callers : CallerOut(d)') /\ (\A o \in Owners : OwnerOut(o)')
  BY <1>0, <1>3, <1>o DEF Call, Set, Idle, CallerOut
<1>4. ASSUME NEW o \in Owners, OwnerStep(o)
      PROVE  (\A c \in Callers : CallerOut(c)') /\ (\A p \in Owners : OwnerOut(p)')
  <2>1. \/ Dropped(o) \/ StartOwner(o) \/ Finish(o)
    BY <1>0, <1>4
       DEF OwnerStep, Answered, Snapshot, Open, Account, Loop, Read, Write,
           Drained, Recheck, Rename, Check, Upsert, Budget, Reclaim, OwnerOut
  <2>2. CASE Dropped(o)
    BY <1>0, <1>c, <2>2, NoOwnerTyped DEF Dropped, Own, OwnerOut
  <2>3. CASE StartOwner(o)
    BY <1>0, <1>c, <2>3 DEF StartOwner, End, Own, NoOwner, OwnerOut
  <2>4. CASE Finish(o)
    <3>1. \A c \in Callers : caller'[c] = caller[c]
      BY <1>0, <2>4 DEF Finish, Deliver
    <3> QED BY <1>0, <2>4, <3>1, NoOwnerTyped DEF Finish, Own, OwnerOut, CallerOut
  <2> QED BY <2>1, <2>2, <2>3, <2>4
<1>5. ASSUME NEW x \in Clears, BeginClear(x)
      PROVE  (\A c \in Callers : CallerOut(c)') /\ (\A o \in Owners : OwnerOut(o)')
  <2>1. \A c \in Callers : caller'[c].pc = caller[c].pc
    BY <1>0, <1>5 DEF BeginClear, Caller
  <2> QED BY <1>0, <1>5, <1>o, <2>1 DEF BeginClear, CallerOut
<1>6. CASE \/ \E x \in Clears : ClearStep(x)
           \/ \E e \in Epochs : AdvanceEpoch(e)
           \/ \E k \in Keys : Replace(k)
  <2>1. UNCHANGED <<caller, owner>>
    BY <1>6 DEF ClearStep, SetClearing, CancelAll, DrainInflight, DrainAdmitted,
                DrainTimeout, Wipe, EndClearing, EndClear, AdvanceEpoch, Replace, taskVars
  <2> QED BY <1>c, <1>o, <2>1
<1>7. CASE Restart
  BY <1>7, IdleTyped, NoOwnerTyped DEF Restart, CallerOut, OwnerOut
<1> QED BY <1>1, <1>2, <1>3, <1>4, <1>5, <1>6, <1>7 DEF Next

LEMMA GatesStep ==
  ASSUME OneClear, Typed, GatesShut, Next
  PROVE  GatesShut'
<1>0. clear \in [Clears -> {"idle", "begun", "bump", "drain", "drain2", "wipe", "reopen",
                            "guard", "done"}]
  BY DEF Typed, TypeOK
<1>1. CASE UNCHANGED <<gate, clearing, clear>>
  <2> SUFFICES ASSUME NEW x \in Clears
               PROVE  /\ clear[x] \in {"drain2", "wipe"} => entries' = EmptyMap
                      /\ clear[x] = "wipe" => (Admitted = {})'
    BY <1>1 DEF GatesShut
  <2>1. CASE clear[x] \in {"drain2", "wipe"}
    BY <2>1, EmptyStaysEmpty, OutStaysOut DEF GatesShut
  <2> QED BY <2>1
<1>2. ASSUME NEW x \in Clears, BeginClear(x) \/ ClearStep(x)
      PROVE  GatesShut'
  <2>1. \A y \in Clears : y = x
    BY DEF OneClear
  <2>2. CASE \/ BeginClear(x) \/ SetClearing(x) \/ CancelAll(x) \/ DrainTimeout(x) \/ Wipe(x)
             \/ EndClearing(x) \/ EndClear(x)
    BY <1>0, <2>1, <2>2
       DEF BeginClear, SetClearing, CancelAll, DrainTimeout, Wipe, EndClearing, EndClear,
           ClearTo, GatesShut, memVars
  <2>3. CASE DrainInflight(x)
    <3>1. entries = EmptyMap
      BY <2>3 DEF DrainInflight, Typed, TypeOK, EmptyMap
    <3> QED BY <1>0, <2>1, <2>3, <3>1 DEF DrainInflight, ClearTo, GatesShut, memVars
  <2>4. CASE DrainAdmitted(x)
    <3>1. (Admitted = {})'
      BY <2>4 DEF DrainAdmitted, Quiet, Admitted
    <3> QED BY <1>0, <2>1, <2>4, <3>1 DEF DrainAdmitted, ClearTo, GatesShut, memVars
  <2> QED BY <1>2, <2>2, <2>3, <2>4 DEF ClearStep
<1>3. CASE Restart
  BY <1>3 DEF Restart, GatesShut
<1>4. \/ UNCHANGED <<gate, clearing, clear>>
      \/ \E x \in Clears : BeginClear(x) \/ ClearStep(x)
      \/ Restart
  <2>1. ASSUME \/ \E c \in Callers, k \in Keys, e \in {Forced} \cup Epochs : Call(c, k, e)
               \/ \E c \in Callers : CallStep(c) \/ Cancel(c) \/ DropCall(c)
               \/ \E o \in Owners : OwnerStep(o)
               \/ \E e \in Epochs : AdvanceEpoch(e)
               \/ \E k \in Keys : Replace(k)
        PROVE  UNCHANGED <<gate, clearing, clear>>
    BY <2>1
       DEF Call, CallStep, ReadRow, Stat, Judge, DropRow, Unlink, Reread, RedropRow,
           Register, Told, Leave, Detach, Cancel, DropCall, OwnerStep, Dropped, StartOwner,
           Snapshot, Open, Account, Loop, Read, Write, Drained, Recheck, Rename, Check,
           Upsert, Budget, Reclaim, Finish, AdvanceEpoch, Replace, memVars, taskVars
  <2> QED BY <2>1 DEF Next
<1> QED BY <1>1, <1>2, <1>3, <1>4

LEMMA GatesInv ==
  ASSUME OneClear
  PROVE  Spec => []GatesShut
<1>1. Init => GatesShut
  BY DEF Init, GatesShut
<1>2. Typed /\ GatesShut /\ [Next]_vars => GatesShut'
  <2>1. ASSUME GatesShut, UNCHANGED vars PROVE GatesShut'
    BY <2>1 DEF vars, memVars, taskVars, GatesShut, Admitted
  <2> QED BY <2>1, GatesStep
<1> QED BY <1>1, <1>2, TypedInit, TypedStep, PTL DEF Spec

\* While the clear command deletes rows and files, no call, download or eviction
\* has one in its hands and none is registered: what begin_clear, begin_clearing
\* and the two drains are for.  For one clear at a time: when two overlap, the
\* first to end opens the gates of the second.
THEOREM ClearIsAlone ==
  ASSUME OneClear
  PROVE  Spec => []WipeIsExclusive
<1>1. GatesShut => WipeIsExclusive
  BY DEF GatesShut, WipeIsExclusive
<1> QED BY <1>1, GatesInv, PTL

-----------------------------------------------------------------------------
\* The generation of a deletion is never ahead of the counter that a download
\* compares its own with at every checkpoint.
Cleared == wiped_gen <= cancel_gen

Under == {"read", "write", "account", "restat", "rename", "check", "upsert"}

\* An owner gets to a step that adds to the cache from another one, keeping its
\* generation, or past a checkpoint, its generation being the current one.
LEMMA Underway ==
  ASSUME Typed, NEW o \in Owners, OwnerStep(o), NEW p \in Owners, owner'[p].pc \in Under
  PROVE  \/ owner'[p].gen = cancel_gen
         \/ owner[p].pc \in Under /\ owner'[p].gen = owner[p].gen
<1>0. owner \in [Owners -> Owner] /\ owner[o] \in Owner
  BY DEF Typed, TypeOK
<1>1. CASE p # o
  <2>1. PICK new : Own(o, new)
    BY DEF OwnerStep, Dropped, StartOwner, Snapshot, Open, Account, Loop, Read, Write,
           Drained, Recheck, Rename, Check, Upsert, Budget, Reclaim, Finish, End, Proceed, Own
  <2>2. owner'[p] = owner[p]
    BY <1>0, <1>1, <2>1 DEF Own
  <2> QED BY <2>2
<1>2. CASE p = o
  <2>e. ASSUME NEW r, NEW hd, End(o, r, hd)
        PROVE  FALSE
    BY <1>0, <1>2, <2>e DEF End, Own, NoOwner, Under
  <2>p. ASSUME NEW pc, Proceed(o, pc)
        PROVE  owner'[o].gen = owner[o].gen /\ owner'[o].pc = pc
    BY <1>0, <2>p DEF Proceed, Own, Owner
  <2>1. CASE Dropped(o) \/ Finish(o)
    BY <1>0, <1>2, <2>1, NoOwnerTyped DEF Dropped, Finish, Own, Under
  <2>2. CASE Budget(o)
    <3>1. owner'[p].pc = "evict"
      BY <1>0, <1>2, <2>2 DEF Budget, Own, Owner
    <3> QED BY <3>1 DEF Under
  <2>3. CASE StartOwner(o)
    BY <1>2, <2>e, <2>p, <2>3 DEF StartOwner, Under
  <2>4. CASE Snapshot(o)
    <3>1. owner'[p].pc = "open"
      BY <1>0, <1>2, <2>e, <2>4 DEF Snapshot, Own, Owner
    <3> QED BY <3>1 DEF Under
  <2>5. CASE Open(o)
    <3>1. owner'[p].pc = "init"
      BY <1>0, <1>2, <2>5 DEF Open, Own, Owner
    <3> QED BY <3>1 DEF Under
  <2>6. CASE Account(o)
    BY <1>2, <2>e, <2>p, <2>6 DEF Account, Under
  <2>7. CASE Loop(o)
    BY <1>2, <2>e, <2>p, <2>7 DEF Loop, Superseded, Under
  <2>8. CASE Read(o)
    <3>1. owner[p].pc = "read" /\ owner'[p].gen = owner[p].gen
      BY <1>0, <1>2, <2>e, <2>8 DEF Read, Answered, Own, Owner
    <3> QED BY <3>1 DEF Under
  <2>9. CASE Write(o)
    <3>1. owner[p].pc = "write" /\ owner'[p].gen = owner[p].gen
      BY <1>0, <1>2, <2>9 DEF Write, Own, Owner
    <3> QED BY <3>1 DEF Under
  <2>10. CASE Drained(o)
    BY <1>2, <2>e, <2>p, <2>10 DEF Drained, Under
  <2>11. CASE Recheck(o)
    BY <1>0, <1>2, <2>e, <2>p, <2>11 DEF Recheck, Answered, Own, NoOwner, Under, Owner
  <2>12. CASE Rename(o) \/ Check(o)
    BY <1>2, <2>e, <2>p, <2>12 DEF Rename, Check, Under
  <2>13. CASE Upsert(o)
    <3>1. owner'[p].pc = "budget"
      <4>1. [NoOwner EXCEPT !.pc = "budget", !.key = owner[o].key,
                            !.aborted = owner[o].aborted].pc = "budget"
        BY NoOwnerTyped DEF Owner
      <4>2. Own(o, [NoOwner EXCEPT !.pc = "budget", !.key = owner[o].key,
                                   !.aborted = owner[o].aborted])
        BY <2>e, <2>13 DEF Upsert
      <4> QED BY <1>0, <1>2, <4>1, <4>2 DEF Own
    <3> QED BY <3>1 DEF Under
  <2>14. CASE Reclaim(o)
    <3>1. owner'[p].pc = "finish"
      BY <1>0, <1>2, <2>14, EndedTyped DEF Reclaim, Own, Results
    <3> QED BY <3>1 DEF Under
  <2> QED BY <2>1, <2>2, <2>3, <2>4, <2>5, <2>6, <2>7, <2>8, <2>9, <2>10, <2>11, <2>12, <2>13,
           <2>14 DEF OwnerStep
<1> QED BY <1>1, <1>2

\* Nothing but an owner's own step moves it on.
LEMMA OwnersAlone ==
  ASSUME Typed, NEW c \in Callers, CallStep(c) \/ Cancel(c), NEW p \in Owners,
         owner'[p].pc \in Under
  PROVE  owner[p].pc \in Under /\ owner'[p].gen = owner[p].gen
<1>0. owner \in [Owners -> Owner]
  BY DEF Typed, TypeOK
<1>1. CASE UNCHANGED owner
  BY <1>1
<1>2. ASSUME NEW o, owner' = [owner EXCEPT ![o].aborted = TRUE]
      PROVE  owner[p].pc \in Under /\ owner'[p].gen = owner[p].gen
  BY <1>0, <1>2 DEF Owner
<1>3. CASE Register(c)
  <2>1. CASE UNCHANGED owner
    BY <1>1, <2>1
  <2>2. CASE owner' # owner
    <3>1. PICK o \in Owners :
            owner' = [owner EXCEPT ![o] =
                        [NoOwner EXCEPT !.pc = "spawned", !.key = caller[c].key,
                           !.expected = caller[c].expected, !.gen = cancel_gen]]
      BY <1>3, <2>2 DEF Register
    <3> QED BY <1>0, <3>1 DEF NoOwner, Under
  <2> QED BY <2>1, <2>2
<1>4. CASE Detach(c) \/ Cancel(c)
  <2>1. UNCHANGED owner \/ \E o : owner' = [owner EXCEPT ![o].aborted = TRUE]
    BY <1>4 DEF Detach, Cancel, Unsubscribe
  <2> QED BY <1>1, <1>2, <2>1
<1>5. CASE \/ ReadRow(c) \/ Stat(c) \/ Judge(c) \/ DropRow(c) \/ Unlink(c) \/ Reread(c)
           \/ RedropRow(c) \/ Told(c) \/ Leave(c)
  BY <1>1, <1>5 DEF ReadRow, Stat, Judge, DropRow, Unlink, Reread, RedropRow, Told, Leave
<1> QED BY <1>3, <1>4, <1>5 DEF CallStep

LEMMA ClearedStep ==
  ASSUME Typed, GatesShut, Cleared, ClearIsFinal, Next
  PROVE  Cleared' /\ ClearIsFinal'
<1>0. wiped_gen \in Nat /\ cancel_gen \in Nat /\ owner \in [Owners -> Owner]
      /\ \A o \in Owners : owner[o].gen \in Nat
  BY DEF Typed, TypeOK, Owner
<1>f. ClearIsFinal <=> \A o \in Owners : owner[o].pc \in Under => owner[o].gen >= wiped_gen
  BY DEF ClearIsFinal, Under
<1> SUFFICES Cleared' /\ \A o \in Owners : owner'[o].pc \in Under => owner'[o].gen >= wiped_gen'
  BY DEF ClearIsFinal, Under
<1>u. ASSUME UNCHANGED <<owner, wiped_gen, cancel_gen>>
      PROVE  Cleared' /\ \A o \in Owners : owner'[o].pc \in Under => owner'[o].gen >= wiped_gen'
  BY <1>f, <1>u DEF Cleared
<1>1. ASSUME NEW o \in Owners, OwnerStep(o)
      PROVE  Cleared' /\ \A p \in Owners : owner'[p].pc \in Under => owner'[p].gen >= wiped_gen'
  <2>1. UNCHANGED <<wiped_gen, cancel_gen>>
    BY <1>1
       DEF OwnerStep, Dropped, StartOwner, Snapshot, Open, Account, Loop, Read, Write,
           Drained, Recheck, Rename, Check, Upsert, Budget, Reclaim, Finish, memVars
  <2>2. ASSUME NEW p \in Owners, owner'[p].pc \in Under
        PROVE  owner'[p].gen >= wiped_gen
    BY <1>0, <1>1, <1>f, <2>2, Underway DEF Cleared
  <2> QED BY <2>1, <2>2 DEF Cleared
<1>2. ASSUME NEW c \in Callers, CallStep(c) \/ Cancel(c)
      PROVE  Cleared' /\ \A p \in Owners : owner'[p].pc \in Under => owner'[p].gen >= wiped_gen'
  <2>1. UNCHANGED <<wiped_gen, cancel_gen>>
    BY <1>2
       DEF CallStep, ReadRow, Stat, Judge, DropRow, Unlink, Reread, RedropRow,
           Register, Told, Leave, Detach, Cancel, memVars
  <2> QED BY <1>2, <1>f, <2>1, OwnersAlone DEF Cleared
<1>3. ASSUME NEW x \in Clears, BeginClear(x) \/ ClearStep(x)
      PROVE  Cleared' /\ \A p \in Owners : owner'[p].pc \in Under => owner'[p].gen >= wiped_gen'
  <2>1. CASE Wipe(x)
    <3>1. UNCHANGED <<owner, cancel_gen>> /\ wiped_gen' = cancel_gen /\ clear[x] = "wipe"
      BY <2>1 DEF Wipe, ClearTo, memVars
    <3>2. \A p \in Owners : owner[p].pc \notin Under
      BY <3>1, NobodyAdmitted DEF GatesShut, OwnerOut, Under
    <3> QED BY <1>0, <3>1, <3>2 DEF Cleared
  <2>2. CASE CancelAll(x)
    <3>1. UNCHANGED <<owner, wiped_gen>> /\ cancel_gen' = cancel_gen + 1
      BY <2>2 DEF CancelAll
    <3> QED BY <1>0, <1>f, <3>1 DEF Cleared
  <2>3. CASE ~ Wipe(x) /\ ~ CancelAll(x)
    <3>1. UNCHANGED <<owner, wiped_gen, cancel_gen>>
      BY <1>3, <2>3 DEF BeginClear, ClearStep, SetClearing, DrainInflight, DrainAdmitted,
                        DrainTimeout, EndClearing, EndClear, memVars
    <3> QED BY <1>u, <3>1
  <2> QED BY <2>1, <2>2, <2>3
<1>4. CASE \/ \E c \in Callers, k \in Keys, e \in {Forced} \cup Epochs : Call(c, k, e)
           \/ \E c \in Callers : DropCall(c)
           \/ \E e \in Epochs : AdvanceEpoch(e)
           \/ \E k \in Keys : Replace(k)
  <2>1. UNCHANGED <<owner, wiped_gen, cancel_gen>>
    BY <1>4 DEF Call, DropCall, AdvanceEpoch, Replace, memVars, taskVars
  <2> QED BY <1>u, <2>1
<1>5. CASE Restart
  BY <1>5, NoOwnerTyped DEF Restart, Cleared, Under
<1> QED BY <1>1, <1>2, <1>3, <1>4, <1>5 DEF Next

\* What a clear has deleted stays deleted: a download registered before the
\* deletion never gets to write, rename or register anything afterwards, even if
\* it gets to run only then (the four checkpoints of run_owner and download).
\* For one clear at a time.
THEOREM DeletedStaysDeleted ==
  ASSUME OneClear
  PROVE  Spec => []ClearIsFinal
<1>1. Init => Cleared /\ ClearIsFinal
  BY NoOwnerTyped DEF Init, Cleared, ClearIsFinal
<1>2. Typed /\ GatesShut /\ Cleared /\ ClearIsFinal /\ [Next]_vars => Cleared' /\ ClearIsFinal'
  <2>1. ASSUME Cleared, ClearIsFinal, UNCHANGED vars PROVE Cleared' /\ ClearIsFinal'
    BY <2>1 DEF vars, memVars, taskVars, Cleared, ClearIsFinal
  <2> QED BY <2>1, ClearedStep
<1> QED BY <1>1, <1>2, TypedInit, TypedStep, GatesInv, PTL DEF Spec

-----------------------------------------------------------------------------
(***************************************************************************)
(* What the user asked for is not given up for a window's sake.             *)
(***************************************************************************)

\* An entry of the table belongs to an owner that is still there.
EntriesLive ==
  \A k \in DOMAIN entries :
    LET o == entries[k].owner IN
    owner[o].pc # "none" /\ owner[o].key = k /\ ~ owner[o].aborted

\* A subscriber waits, or is about to leave, under the key of the entry.
SubscribersWait ==
  \A k \in DOMAIN entries : \A c \in entries[k].subscribers :
    caller[c].pc \in {"wait", "detach"} /\ caller[c].key = k

\* The gate is shut: whoever is inside has seen the clear begin.
InsideIsWarned == gate => \A c \in Callers : CallerOut(c) \/ caller[c].cleared

\* Only a clear bars the table.
BarredByClear ==
  clearing => \E x \in Clears : clear[x] \in {"bump", "drain", "drain2", "wipe", "reopen"}

OwnersWait == \A c \in Callers : caller[c].owns => caller[c].pc \in {"wait", "told"}

Ending == {"budget", "evict", "finish"}

\* The download a forced call has registered is itself forced; a clear is all
\* that can have cancelled it.
ForcedDownload ==
  \A c \in Callers :
    caller[c].pc = "wait" /\ caller[c].owns /\ caller[c].expected = Forced =>
      LET o == entries[caller[c].key].owner IN
      /\ owner[o].expected = Forced
      /\ owner[o].pc \in Ending \/ owner[o].gen = cancel_gen \/ caller[c].cleared
      /\ owner[o].pc = "finish" /\ owner[o].result = "cancelled" => caller[c].cleared

\* A forced call that is cancelled has a reason.
Reason(call) == call.cancelled \/ call.cleared \/ call.misled

CancelledForAReason ==
  \A c \in Callers :
    /\ caller[c].expected = Forced /\ caller[c].result = "cancelled"
    /\ caller[c].pc = "done" \/ (caller[c].pc = "told" /\ caller[c].owns)
    => Reason(caller[c])

ForcedInv == /\ EntriesLive /\ SubscribersWait /\ InsideIsWarned /\ BarredByClear
             /\ OwnersWait /\ ForcedDownload /\ CancelledForAReason

Inv == Typed /\ WaitersSubscribed /\ GatesShut /\ ForcedInv

-----------------------------------------------------------------------------
\* What becomes of a call that moves.
Same(a, b) ==
  /\ b.key = a.key /\ b.expected = a.expected /\ b.cancelled = a.cancelled
  /\ b.cleared = a.cleared /\ b.misled = a.misled

BackToIdle(b) == b = Idle
Dropping(a, b) == b.pc = "detach" /\ b.key = a.key /\ a.pc \in {"wait", "told"} /\ ~ b.owns
Returned(b) ==
  /\ b.pc = "done" /\ ~ b.owns
  /\ b.expected = Forced /\ b.result = "cancelled" => Reason(b)
GoesOn(a, b) ==
  /\ Same(a, b) /\ a.pc \notin {"idle", "detach", "done", "wait"}
  /\ b.pc \notin {"idle", "detach", "done", "wait", "told"} /\ ~ b.owns
Admits(b) == ~ gate /\ b.pc = "row" /\ ~ b.owns
Waits(a, b) == Same(a, b) /\ a.pc = "register" /\ b.pc = "wait"
GetsCancelled(a, b) ==
  /\ a.pc = "wait" /\ b.pc = "told" /\ b.cancelled /\ b.cleared = a.cleared

Outcome(a, b) ==
  \/ BackToIdle(b) \/ Dropping(a, b) \/ Returned(b) \/ GoesOn(a, b) \/ Admits(b)
  \/ Waits(a, b) \/ GetsCancelled(a, b) \/ b = a

LEMMA IdleFacts == /\ Idle.pc = "idle" /\ Idle.owns = FALSE /\ Idle.expected = Forced
                   /\ Idle.result = "none" /\ Idle.key = "none"
BY DEF Idle

LEMMA ReturnOutcome ==
  ASSUME Typed, NEW c \in Callers, NEW r \in Results, Return(c, r),
         r = "cancelled" /\ caller[c].expected = Forced => Reason(caller[c])
  PROVE  Returned(caller'[c])
<1>0. caller \in [Callers -> Caller] /\ caller[c] \in Caller
  BY DEF Typed, TypeOK
<1>1. CASE r = "cancelled" /\ caller[c].expected = Forced
  BY <1>0, <1>1 DEF Return, Set, Idle, Returned, Reason
<1>2. CASE ~ (r = "cancelled" /\ caller[c].expected = Forced)
  BY <1>0, <1>2 DEF Return, Set, Idle, Returned
<1> QED BY <1>1, <1>2

LEMMA GoesOnOutcome ==
  ASSUME Typed, OwnersWait, NEW c \in Callers,
         caller[c].pc \notin {"idle", "detach", "done", "wait", "told"},
         \/ \E pc \in {"drop", "unlink", "reread", "relink"} : Goto(c, pc)
         \/ ToRegister(c)
         \/ \E pc \in {"stat", "redrop"}, row \in Versions :
              Set(c, [caller[c] EXCEPT !.pc = pc, !.row = row])
         \/ \E version \in Versions :
              Set(c, [caller[c] EXCEPT !.pc = "judge", !.cur = version])
  PROVE  GoesOn(caller[c], caller'[c])
<1>0. caller \in [Callers -> Caller] /\ caller[c] \in Caller /\ ~ caller[c].owns
  BY DEF Typed, TypeOK, OwnersWait
<1>1. ASSUME NEW pc \in {"drop", "unlink", "reread", "relink"}, Goto(c, pc)
      PROVE  GoesOn(caller[c], caller'[c])
  BY <1>0, <1>1 DEF Goto, Set, Caller, GoesOn, Same
<1>2. CASE ToRegister(c)
  BY <1>0, <1>2 DEF ToRegister, Set, Caller, GoesOn, Same
<1>3. ASSUME NEW pc \in {"stat", "redrop"}, NEW row \in Versions,
             Set(c, [caller[c] EXCEPT !.pc = pc, !.row = row])
      PROVE  GoesOn(caller[c], caller'[c])
  BY <1>0, <1>3 DEF Set, Caller, GoesOn, Same
<1>4. ASSUME NEW version \in Versions,
             Set(c, [caller[c] EXCEPT !.pc = "judge", !.cur = version])
      PROVE  GoesOn(caller[c], caller'[c])
  BY <1>0, <1>4 DEF Set, Caller, GoesOn, Same
<1> QED BY <1>1, <1>2, <1>3, <1>4

LEMMA NextRoundOutcome ==
  ASSUME Typed, NEW c \in Callers, NextRound(c),
         caller[c].pc \notin {"idle", "detach", "done", "wait"}
  PROVE  GoesOn(caller[c], caller'[c]) \/ Returned(caller'[c])
<1>0. caller \in [Callers -> Caller] /\ caller[c] \in Caller
  BY DEF Typed, TypeOK
<1>1. CASE caller[c].round = Rounds
  BY <1>1, ReturnOutcome DEF NextRound, Results
<1>2. CASE caller[c].round # Rounds
  <2> DEFINE new == [caller[c] EXCEPT !.pc = "row", !.row = 0, !.cur = 0, !.round = @ + 1,
                                      !.owns = FALSE, !.result = "none"]
  <2>1. new.pc = "row" /\ new.owns = FALSE /\ Same(caller[c], new)
    BY <1>0 DEF Caller, Same
  <2>2. caller'[c] = new
    BY <1>0, <1>2 DEF NextRound, Set
  <2> QED BY <2>1, <2>2 DEF GoesOn
<1> QED BY <1>1, <1>2

\* Whatever it does, a call that moves has one of these outcomes.
LEMMA CallOutcome ==
  ASSUME Inv, NEW c \in Callers,
         \/ CallStep(c) \/ Cancel(c) \/ DropCall(c)
         \/ \E k \in Keys, e \in {Forced} \cup Epochs : Call(c, k, e)
  PROVE  /\ Outcome(caller[c], caller'[c])
         /\ caller'[c].pc = "wait" => Register(c) /\ Waits(caller[c], caller'[c])
         /\ Waits(caller[c], caller'[c]) => Register(c)
<1>0. /\ caller \in [Callers -> Caller] /\ caller[c] \in Caller /\ Typed
      /\ rows \in [DOMAIN rows -> Versions] /\ remote \in [Keys -> Versions]
      /\ caller[c].pc \notin {"idle", "done"} => caller[c].key \in Keys
      /\ OwnersWait /\ InsideIsWarned /\ CancelledForAReason /\ BarredByClear
  BY CallTyped DEF Inv, ForcedInv, Typed, TypeOK
<1>r. "ok" \in Results /\ "failed" \in Results /\ "cancelled" \in Results
  BY DEF Results
<1>s. ASSUME NEW r \in {"ok", "failed"}, Return(c, r)
      PROVE  Returned(caller'[c])
  BY <1>0, <1>r, <1>s, ReturnOutcome
<1> DEFINE Goal == /\ Outcome(caller[c], caller'[c])
                   /\ caller'[c].pc = "wait" => Register(c) /\ Waits(caller[c], caller'[c])
                   /\ Waits(caller[c], caller'[c]) => Register(c)
<1>g. ASSUME GoesOn(caller[c], caller'[c]) \/ Returned(caller'[c])
      PROVE  Goal
  BY <1>g DEF GoesOn, Returned, Outcome, Waits
<1>1. CASE ReadRow(c)
  <2>1. caller[c].pc = "row" /\ caller[c].key \in Keys
    BY <1>0, <1>1 DEF ReadRow
  <2>2. CASE caller[c].key \in DOMAIN rows
    <3>1. rows[caller[c].key] \in Versions
      BY <1>0, <2>2
    <3>2. Set(c, [caller[c] EXCEPT !.pc = "stat", !.row = rows[caller[c].key]])
      BY <1>1, <2>2 DEF ReadRow
    <3> QED BY <1>0, <1>g, <2>1, <3>1, <3>2, GoesOnOutcome
  <2>3. CASE caller[c].key \notin DOMAIN rows
    BY <1>0, <1>1, <1>g, <2>1, <2>3, GoesOnOutcome DEF ReadRow
  <2> QED BY <2>2, <2>3
<1>2. CASE Stat(c)
  <2>1. caller[c].pc = "stat" /\ remote[caller[c].key] \in Versions
    BY <1>0, <1>2 DEF Stat
  <2>2. \/ Set(c, [caller[c] EXCEPT !.pc = "judge", !.cur = remote[caller[c].key]])
        \/ Return(c, "failed")
    BY <1>2 DEF Stat
  <2> QED BY <1>0, <1>g, <1>s, <2>1, <2>2, GoesOnOutcome
<1>3. CASE Judge(c)
  <2>1. caller[c].pc = "judge" /\ (Return(c, "ok") \/ Goto(c, "drop"))
    BY <1>3 DEF Judge
  <2> QED BY <1>0, <1>g, <1>s, <2>1, GoesOnOutcome
<1>4. CASE DropRow(c)
  <2>1. caller[c].pc = "drop" /\ (Goto(c, "unlink") \/ NextRound(c) \/ Goto(c, "reread"))
    BY <1>4 DEF DropRow
  <2> QED BY <1>0, <1>g, <2>1, GoesOnOutcome, NextRoundOutcome
<1>5. CASE Unlink(c)
  <2>1. caller[c].pc \in {"unlink", "relink"} /\ (NextRound(c) \/ ToRegister(c))
    BY <1>5 DEF Unlink
  <2> QED BY <1>0, <1>g, <2>1, GoesOnOutcome, NextRoundOutcome
<1>6. CASE Reread(c)
  <2>1. caller[c].pc = "reread"
    BY <1>6 DEF Reread
  <2>2. CASE caller[c].key \in DOMAIN rows /\ rows[caller[c].key] = caller[c].cur
    <3>1. rows[caller[c].key] \in Versions
      BY <1>0, <2>2
    <3>2. \/ Return(c, "ok")
          \/ Set(c, [caller[c] EXCEPT !.pc = "redrop", !.row = rows[caller[c].key]])
      BY <1>6, <2>2 DEF Reread
    <3> QED BY <1>0, <1>g, <1>s, <2>1, <3>1, <3>2, GoesOnOutcome
  <2>3. CASE ~(caller[c].key \in DOMAIN rows /\ rows[caller[c].key] = caller[c].cur)
    BY <1>0, <1>6, <1>g, <2>1, <2>3, GoesOnOutcome DEF Reread
  <2> QED BY <2>2, <2>3
<1>7. CASE RedropRow(c)
  <2>1. caller[c].pc = "redrop" /\ (Goto(c, "relink") \/ ToRegister(c))
    BY <1>7 DEF RedropRow
  <2> QED BY <1>0, <1>g, <2>1, GoesOnOutcome
<1>8. CASE Register(c)
  <2>0. caller[c].pc = "register"
    BY <1>8 DEF Register
  <2>1. CASE Barred(c) /\ Return(c, "cancelled")
    <3>1. caller[c].expected = Forced => clearing
      BY <2>1 DEF Barred, Outdated
    <3>2. clearing => gate
      BY <1>0 DEF BarredByClear, Inv, GatesShut
    <3>3. gate => caller[c].cleared
      BY <1>0, <2>0 DEF InsideIsWarned, CallerOut
    <3>4. Returned(caller'[c])
      BY <1>0, <1>r, <2>1, <3>1, <3>2, <3>3, ReturnOutcome DEF Reason
    <3> QED BY <1>g, <3>4
  <2>2. CASE \/ Goto(c, "wait")
             \/ Set(c, [caller[c] EXCEPT !.pc = "wait", !.owns = TRUE])
    <3>1. Waits(caller[c], caller'[c])
      <4>1. CASE Goto(c, "wait")
        BY <1>0, <2>0, <4>1 DEF Goto, Set, Caller, Waits, Same
      <4>2. CASE Set(c, [caller[c] EXCEPT !.pc = "wait", !.owns = TRUE])
        BY <1>0, <2>0, <4>2 DEF Set, Caller, Waits, Same
      <4> QED BY <2>2, <4>1, <4>2
    <3> QED BY <1>8, <3>1 DEF Outcome
  <2> QED BY <1>8, <2>1, <2>2 DEF Register
<1>9. CASE Told(c)
  <2>0. caller[c].pc = "told" /\ caller[c].result \in Results
    BY <1>0, <1>9 DEF Told, Caller
  <2>1. CASE Return(c, caller[c].result) /\ (caller[c].result = "ok" \/ caller[c].owns
                                             \/ caller[c].cancelled)
    <3>1. caller[c].result = "cancelled" /\ caller[c].expected = Forced => Reason(caller[c])
      BY <1>0, <2>0, <2>1 DEF CancelledForAReason, Reason
    <3> QED BY <1>0, <1>g, <2>0, <2>1, <3>1, ReturnOutcome
  <2>2. CASE Outdated(c) /\ Return(c, "cancelled")
    BY <1>0, <1>g, <1>r, <2>2, ReturnOutcome DEF Outdated
  <2>3. CASE NextRound(c)
    BY <1>0, <1>g, <2>0, <2>3, NextRoundOutcome
  <2> QED BY <1>9, <2>1, <2>2, <2>3 DEF Told
<1>10. CASE Leave(c) \/ Detach(c)
  <2>1. caller'[c] = Idle
    BY <1>0, <1>10 DEF Leave, Detach, Set
  <2> QED BY <2>1, IdleFacts DEF Outcome, BackToIdle, Waits
<1>11. CASE Cancel(c)
  <2>1. CASE caller[c].pc = "wait"
    <3>1. GetsCancelled(caller[c], caller'[c])
      BY <1>0, <1>11, <2>1 DEF Cancel, Set, Caller, GetsCancelled
    <3> QED BY <3>1 DEF Outcome, GetsCancelled, Waits
  <2>2. CASE caller[c].pc # "wait"
    BY <1>0, <1>11, <2>2 DEF Cancel, Set, Outcome, Waits
  <2> QED BY <2>1, <2>2
<1>12. CASE DropCall(c)
  <2>1. CASE caller[c].pc \in {"wait", "told"}
    <3>1. Dropping(caller[c], caller'[c])
      BY <1>0, <1>12, <2>1 DEF DropCall, Set, Idle, Dropping
    <3> QED BY <3>1 DEF Outcome, Dropping, Waits
  <2>2. CASE caller[c].pc \notin {"wait", "told"}
    BY <1>0, <1>12, <2>2, IdleFacts DEF DropCall, Set, Outcome, BackToIdle, Waits
  <2> QED BY <2>1, <2>2
<1>13. ASSUME NEW k \in Keys, NEW e \in {Forced} \cup Epochs, Call(c, k, e)
       PROVE  Goal
  <2>1. CASE gate
    <3>1. Returned(caller'[c])
      BY <1>0, <1>13, <2>1 DEF Call, Set, Idle, Returned, Reason
    <3> QED BY <1>g, <3>1
  <2>2. CASE ~ gate
    <3>1. Admits(caller'[c])
      BY <1>0, <1>13, <2>2 DEF Call, Set, Idle, Admits
    <3> QED BY <3>1 DEF Admits, Outcome, Waits
  <2> QED BY <2>1, <2>2
<1> QED BY <1>1, <1>2, <1>3, <1>4, <1>5, <1>6, <1>7, <1>8, <1>9, <1>10, <1>11, <1>12, <1>13
        DEF CallStep

\* A step of an owner that does not take it away.
LEMMA OwnerOutcome ==
  ASSUME Typed, NEW o \in Owners, OwnerStep(o), ~ Dropped(o), ~ Finish(o)
  PROVE  /\ \A p \in Owners \ {o} : owner'[p] = owner[p]
         /\ owner[o].pc # "none" /\ owner'[o].pc # "none" /\ owner'[o].key = owner[o].key
         /\ owner[o].aborted \/ ~ owner'[o].aborted
         /\ owner[o].expected = Forced => owner'[o].expected = Forced
         /\ owner'[o].pc \notin Ending =>
              owner[o].pc \notin Ending /\ owner'[o].gen = owner[o].gen
         /\ owner'[o].pc = "finish" /\ owner'[o].result = "cancelled" =>
              /\ owner[o].pc \notin Ending
              /\ gate \/ cancel_gen # owner[o].gen \/ owner[o].expected # Forced
         /\ UNCHANGED <<caller, entries, cancel_gen>>
<1>0. owner \in [Owners -> Owner] /\ owner[o] \in Owner
  BY DEF Typed, TypeOK
<1> DEFINE Others == \A p \in Owners \ {o} : owner'[p] = owner[p]
           Goal == /\ Others
                   /\ owner[o].pc # "none" /\ owner'[o].pc # "none"
                   /\ owner'[o].key = owner[o].key
                   /\ owner[o].aborted \/ ~ owner'[o].aborted
                   /\ owner[o].expected = Forced => owner'[o].expected = Forced
                   /\ owner'[o].pc \notin Ending =>
                        owner[o].pc \notin Ending /\ owner'[o].gen = owner[o].gen
                   /\ owner'[o].pc = "finish" /\ owner'[o].result = "cancelled" =>
                        /\ owner[o].pc \notin Ending
                        /\ gate \/ cancel_gen # owner[o].gen \/ owner[o].expected # Forced
<1>p. ASSUME NEW pc \in {"stat", "loop", "read", "drained", "restat", "rename", "check", "upsert"},
             Proceed(o, pc), owner[o].pc \notin Ending \cup {"none"}
      PROVE  Goal
  BY <1>0, <1>p DEF Proceed, Own, Owner, Ending
<1>e. ASSUME NEW r \in Results, NEW pc \in {"budget", "finish"}, owner[o].pc # "none",
             Own(o, [NoOwner EXCEPT !.pc = pc, !.key = owner[o].key, !.result = r,
                                    !.aborted = owner[o].aborted]),
             r = "cancelled" =>
               /\ owner[o].pc \notin Ending
               /\ gate \/ cancel_gen # owner[o].gen \/ owner[o].expected # Forced
      PROVE  Goal
  <2> DEFINE new == [NoOwner EXCEPT !.pc = pc, !.key = owner[o].key, !.result = r,
                                    !.aborted = owner[o].aborted]
  <2>1. /\ new.pc = pc /\ new.key = owner[o].key /\ new.result = r
        /\ new.aborted = owner[o].aborted /\ new.expected = Forced
    BY DEF NoOwner
  <2>2. owner'[o] = new /\ Others
    BY <1>0, <1>e DEF Own
  <2> HIDE DEF new
  <2> QED BY <1>e, <2>1, <2>2 DEF Ending
<1>r. "failed" \in Results /\ "cancelled" \in Results /\ "ok" \in Results /\ "none" \in Results
  BY DEF Results
<1>f. ASSUME NEW hd, End(o, "failed", hd), owner[o].pc # "none"
      PROVE  Goal
  BY <1>e, <1>f, <1>r DEF End
<1>c. ASSUME NEW hd, End(o, "cancelled", hd), owner[o].pc \notin Ending \cup {"none"},
             gate \/ cancel_gen # owner[o].gen \/ owner[o].expected # Forced
      PROVE  Goal
  BY <1>e, <1>c, <1>r DEF End
<1>s. ASSUME NEW new, Own(o, new), owner[o].pc \notin Ending \cup {"none"},
             new.pc \in {"open", "init", "write", "account"}, new.key = owner[o].key,
             new.aborted = owner[o].aborted, new.expected = owner[o].expected,
             new.gen = owner[o].gen
      PROVE  Goal
  BY <1>0, <1>s DEF Own, Ending
<1>u. UNCHANGED <<caller, entries, cancel_gen>>
  BY DEF OwnerStep, StartOwner, Snapshot, Open, Account, Loop, Read, Write, Drained, Recheck,
         Rename, Check, Upsert, Budget, Reclaim, memVars
<1> HIDE DEF Goal
<1> SUFFICES Goal
  BY <1>u DEF Goal
<1>1. CASE StartOwner(o)
  <2>1. owner[o].pc = "spawned"
    BY <1>1 DEF StartOwner, Answered
  <2>2. CASE gate /\ End(o, "cancelled", handle)
    BY <1>c, <2>1, <2>2 DEF Ending
  <2>3. CASE Proceed(o, "stat")
    BY <1>p, <2>1, <2>3 DEF Ending
  <2> QED BY <1>1, <2>2, <2>3 DEF StartOwner
<1>2. CASE Snapshot(o)
  <2>1. owner[o].pc = "stat"
    BY <1>2 DEF Snapshot, Answered
  <2> DEFINE new == [owner[o] EXCEPT !.pc = "open", !.snap = remote[owner[o].key]]
  <2>2. new.pc = "open" /\ new.key = owner[o].key /\ new.aborted = owner[o].aborted
        /\ new.expected = owner[o].expected /\ new.gen = owner[o].gen
    BY <1>0 DEF Owner
  <2>3. Own(o, new) \/ End(o, "failed", handle)
    BY <1>2 DEF Snapshot
  <2> HIDE DEF new
  <2> QED BY <1>f, <1>s, <2>1, <2>2, <2>3 DEF Ending
<1>3. CASE Open(o)
  <2>1. owner[o].pc = "open"
    BY <1>3 DEF Open
  <2> DEFINE new == [owner[o] EXCEPT !.pc = "init",
                       !.offset = IF Resumable(owner[o].key, owner[o].snap)
                                    THEN Len(part[owner[o].key]) ELSE 0]
  <2>2. new.pc = "init" /\ new.key = owner[o].key /\ new.aborted = owner[o].aborted
        /\ new.expected = owner[o].expected /\ new.gen = owner[o].gen
    BY <1>0 DEF Owner
  <2>3. Own(o, new)
    BY <1>3 DEF Open
  <2> HIDE DEF new
  <2> QED BY <1>s, <2>1, <2>2, <2>3 DEF Ending
<1>4. CASE Account(o)
  <2>1. owner[o].pc \in {"init", "account"} /\ (Proceed(o, "loop") \/ End(o, "failed", handle))
    BY <1>4 DEF Account
  <2> QED BY <1>f, <1>p, <2>1 DEF Ending
<1>5. CASE Loop(o)
  <2>1. owner[o].pc = "loop"
    BY <1>5 DEF Loop
  <2>2. \/ Proceed(o, "drained") \/ Proceed(o, "read")
        \/ Superseded(o) /\ End(o, "cancelled", handle)
    BY <1>5 DEF Loop
  <2> QED BY <1>c, <1>p, <2>1, <2>2 DEF Ending, Superseded
<1>6. CASE Read(o)
  <2>1. owner[o].pc = "read"
    BY <1>6 DEF Read, Answered
  <2> DEFINE new == [owner[o] EXCEPT !.pc = "write", !.chunk = remote[owner[o].key]]
  <2>2. new.pc = "write" /\ new.key = owner[o].key /\ new.aborted = owner[o].aborted
        /\ new.expected = owner[o].expected /\ new.gen = owner[o].gen
    BY <1>0 DEF Owner
  <2>3. Own(o, new) \/ End(o, "failed", handle)
    BY <1>6 DEF Read
  <2> HIDE DEF new
  <2> QED BY <1>f, <1>s, <2>1, <2>2, <2>3 DEF Ending
<1>7. CASE Write(o)
  <2>1. owner[o].pc = "write"
    BY <1>7 DEF Write
  <2> DEFINE new == [owner[o] EXCEPT !.pc = "account", !.chunk = 0, !.offset = @ + 1]
  <2>2. new.pc = "account" /\ new.key = owner[o].key /\ new.aborted = owner[o].aborted
        /\ new.expected = owner[o].expected /\ new.gen = owner[o].gen
    BY <1>0 DEF Owner
  <2>3. Own(o, new)
    BY <1>7 DEF Write
  <2> HIDE DEF new
  <2> QED BY <1>s, <2>1, <2>2, <2>3 DEF Ending
<1>8. CASE Drained(o)
  <2>1. owner[o].pc = "drained"
    BY <1>8 DEF Drained
  <2>2. \/ Proceed(o, "restat")
        \/ /\ cancel_gen # owner[o].gen
           /\ End(o, "cancelled", [Unlinked(owner[o].key, "part") EXCEPT ![o] = "none"])
    BY <1>8 DEF Drained
  <2> QED BY <1>c, <1>p, <2>1, <2>2 DEF Ending
<1>9. CASE Recheck(o)
  <2>1. owner[o].pc = "restat" /\ ~ owner[o].aborted
    BY <1>9 DEF Recheck, Answered
  <2> DEFINE new == [NoOwner EXCEPT !.pc = "stat", !.key = owner[o].key, !.attempt = 1,
                       !.expected = owner[o].expected, !.gen = owner[o].gen]
  <2>2. /\ new.pc = "stat" /\ new.key = owner[o].key /\ ~ new.aborted
        /\ new.expected = owner[o].expected /\ new.gen = owner[o].gen
    BY DEF NoOwner
  <2>3. CASE Own(o, new)
    <3>1. owner'[o] = new /\ Others
      BY <1>0, <2>3 DEF Own
    <3> HIDE DEF new
    <3> QED BY <2>1, <2>2, <3>1 DEF Ending, Goal
  <2>4. \/ Proceed(o, "rename") \/ Own(o, new) \/ End(o, "failed", handle)
        \/ End(o, "failed", Unlinked(owner[o].key, "part"))
    BY <1>9 DEF Recheck
  <2> HIDE DEF new
  <2>5. CASE Proceed(o, "rename")
    BY <1>p, <2>1, <2>5 DEF Ending
  <2> QED BY <1>f, <2>1, <2>3, <2>4, <2>5
<1>10. CASE Rename(o)
  <2>1. owner[o].pc = "rename"
    BY <1>10 DEF Rename
  <2>2. \/ cancel_gen # owner[o].gen /\ End(o, "cancelled", Unlinked(owner[o].key, "part"))
        \/ \E hd : End(o, "failed", hd)
        \/ Proceed(o, "check")
    BY <1>10 DEF Rename
  <2> QED BY <1>c, <1>f, <1>p, <2>1, <2>2 DEF Ending
<1>11. CASE Check(o)
  <2>1. owner[o].pc = "check"
    BY <1>11 DEF Check
  <2>2. \/ cancel_gen # owner[o].gen /\ End(o, "cancelled", Unlinked(owner[o].key, "final"))
        \/ Proceed(o, "upsert")
    BY <1>11 DEF Check
  <2> QED BY <1>c, <1>p, <2>1, <2>2 DEF Ending
<1>12. CASE Upsert(o)
  <2>1. owner[o].pc = "upsert"
    BY <1>12 DEF Upsert
  <2>2. \/ Own(o, [NoOwner EXCEPT !.pc = "budget", !.key = owner[o].key,
                                  !.aborted = owner[o].aborted])
        \/ End(o, "failed", handle)
    BY <1>12 DEF Upsert
  <2> DEFINE new == [NoOwner EXCEPT !.pc = "budget", !.key = owner[o].key,
                                    !.aborted = owner[o].aborted]
  <2>3. new.pc = "budget" /\ new.key = owner[o].key /\ new.aborted = owner[o].aborted
        /\ new.expected = Forced
    BY DEF NoOwner
  <2>4. CASE Own(o, new)
    <3>1. owner'[o] = new /\ Others
      BY <1>0, <2>4 DEF Own
    <3> HIDE DEF new
    <3> QED BY <2>1, <2>3, <3>1 DEF Ending, Goal
  <2> QED BY <1>f, <2>1, <2>2, <2>4
<1>13. CASE Budget(o)
  <2>1. owner[o].pc = "budget" /\ owner'[o].pc = "evict" /\ owner'[o].key = owner[o].key
        /\ owner'[o].aborted = owner[o].aborted /\ owner'[o].expected = owner[o].expected
        /\ Others
    BY <1>0, <1>13 DEF Budget, Own, Owner
  <2> QED BY <2>1 DEF Ending, Goal
<1>14. CASE Reclaim(o)
  <2>1. /\ owner[o].pc = "evict"
        /\ Own(o, [NoOwner EXCEPT !.pc = "finish", !.key = owner[o].key, !.result = "ok",
                                  !.aborted = owner[o].aborted])
    BY <1>14 DEF Reclaim
  <2> QED BY <1>e, <1>r, <2>1
<1> QED BY <1>1, <1>2, <1>3, <1>4, <1>5, <1>6, <1>7, <1>8, <1>9, <1>10, <1>11, <1>12, <1>13,
           <1>14 DEF OwnerStep

-----------------------------------------------------------------------------
\* What a call does to the table.
Attaches(c) ==
  /\ caller[c].pc = "register" /\ Goto(c, "wait")
  /\ caller[c].key \in DOMAIN entries
  /\ entries' = [entries EXCEPT ![caller[c].key].subscribers = @ \cup {c}]
  /\ UNCHANGED owner

Founds(c, o) ==
  /\ caller[c].pc = "register" /\ Set(c, [caller[c] EXCEPT !.pc = "wait", !.owns = TRUE])
  /\ caller[c].key \notin DOMAIN entries /\ owner[o].pc = "none"
  /\ entries' = Put(entries, caller[c].key, [owner |-> o, subscribers |-> {c}])
  /\ owner' = [owner EXCEPT ![o] =
                 [NoOwner EXCEPT !.pc = "spawned", !.key = caller[c].key,
                    !.expected = caller[c].expected, !.gen = cancel_gen]]

Withdraws(c) ==
  Subscribed(c) /\ Unsubscribe(c, caller[c].key) /\ caller'[c].pc # "wait"

\* A call that is subscribed and leaves the table alone is about to leave it.
Keeps(c) ==
  /\ UNCHANGED <<entries, owner>> /\ caller'[c].pc # "wait"
  /\ Subscribed(c) => caller'[c].pc = "detach" /\ caller'[c].key = caller[c].key

LEMMA TableMoves ==
  ASSUME Inv, NEW c \in Callers,
         \/ CallStep(c) \/ Cancel(c) \/ DropCall(c)
         \/ \E k \in Keys, e \in {Forced} \cup Epochs : Call(c, k, e)
  PROVE  Keeps(c) \/ Attaches(c) \/ Withdraws(c) \/ \E o \in Owners : Founds(c, o)
<1>0. /\ caller \in [Callers -> Caller] /\ caller[c] \in Caller /\ Typed
      /\ Subscribed(c) => caller[c].pc \in {"wait", "detach"}
  BY DEF Inv, Typed, TypeOK, ForcedInv, SubscribersWait, Subscribed
<1>1. CASE Register(c)
  <2>1. CASE Return(c, "cancelled") /\ UNCHANGED <<entries, owner>>
    <3>1. caller'[c].pc # "wait"
      BY <1>0, <2>1 DEF Return, Set, Idle
    <3>2. ~ Subscribed(c)
      BY <1>0, <1>1 DEF Register
    <3> QED BY <2>1, <3>1, <3>2 DEF Keeps
  <2>2. CASE ~ (Return(c, "cancelled") /\ UNCHANGED <<entries, owner>>)
    BY <1>1, <2>2 DEF Register, Attaches, Founds
  <2> QED BY <2>1, <2>2
<1>2. CASE ~ Register(c)
  <2>0. caller'[c].pc # "wait"
    BY <1>0, <1>2, CallMoves
  <2>1. CASE Detach(c) \/ Cancel(c)
    BY <2>0, <2>1 DEF Detach, Cancel, Keeps, Withdraws
  <2>2. CASE DropCall(c)
    <3>1. caller[c].pc = "wait" => caller'[c].pc = "detach" /\ caller'[c].key = caller[c].key
      BY <1>0, <2>2 DEF DropCall, Set, Idle
    <3>2. caller[c].pc # "detach" /\ UNCHANGED <<entries, owner>>
      BY <2>2 DEF DropCall, memVars
    <3> QED BY <1>0, <2>0, <3>1, <3>2 DEF Keeps
  <2>3. CASE \/ ReadRow(c) \/ Stat(c) \/ Judge(c) \/ DropRow(c) \/ Unlink(c) \/ Reread(c)
             \/ RedropRow(c) \/ Told(c) \/ Leave(c)
             \/ \E k \in Keys, e \in {Forced} \cup Epochs : Call(c, k, e)
    <3>1. UNCHANGED <<entries, owner>> /\ caller[c].pc \notin {"wait", "detach"}
      BY <2>3 DEF ReadRow, Stat, Judge, DropRow, Unlink, Reread, RedropRow, Told, Leave, Call,
                  memVars
    <3> QED BY <1>0, <2>0, <3>1 DEF Keeps
  <2> QED BY <1>2, <2>1, <2>2, <2>3 DEF CallStep
<1> QED BY <1>1, <1>2

LEMMA LiveStep ==
  ASSUME Inv, Next
  PROVE  EntriesLive'
<1>0. /\ Typed /\ EntriesLive /\ owner \in [Owners -> Owner]
      /\ entries \in [DOMAIN entries -> Entry] /\ DOMAIN entries \subseteq Keys
      /\ \A k \in DOMAIN entries : entries[k].owner \in Owners
  BY DEF Inv, Typed, TypeOK, ForcedInv, Entry
<1>u. ASSUME UNCHANGED <<entries, owner>>
      PROVE  EntriesLive'
  BY <1>0, <1>u DEF EntriesLive
<1>1. ASSUME NEW c \in Callers,
             \/ CallStep(c) \/ Cancel(c) \/ DropCall(c)
             \/ \E k \in Keys, e \in {Forced} \cup Epochs : Call(c, k, e)
      PROVE  EntriesLive'
  <2>1. CASE Keeps(c)
    BY <1>u, <2>1 DEF Keeps
  <2>2. CASE Attaches(c)
    <3>1. DOMAIN entries' = DOMAIN entries /\ UNCHANGED owner
          /\ \A k \in DOMAIN entries : entries'[k].owner = entries[k].owner
      BY <1>0, <2>2 DEF Attaches, Entry
    <3> QED BY <1>0, <3>1 DEF EntriesLive
  <2>3. CASE Withdraws(c)
    <3> DEFINE k == caller[c].key
               rest == entries[k].subscribers \ {c}
    <3>0. k \in DOMAIN entries /\ Unsubscribe(c, k)
      BY <2>3 DEF Withdraws, Subscribed
    <3>1. CASE rest = {}
      <4>1. /\ entries' = Without(entries, {k})
            /\ owner' = [owner EXCEPT ![entries[k].owner].aborted = TRUE]
        BY <3>0, <3>1 DEF Unsubscribe
      <4>2. ASSUME NEW j \in DOMAIN entries'
            PROVE  /\ owner'[entries'[j].owner] = owner[entries[j].owner]
                   /\ j \in DOMAIN entries /\ entries'[j].owner = entries[j].owner
        <5>1. j \in DOMAIN entries /\ j # k /\ entries'[j] = entries[j]
          BY <4>1 DEF Without
        <5>2. entries[j].owner # entries[k].owner
          BY <1>0, <3>0, <5>1 DEF EntriesLive
        <5> QED BY <1>0, <4>1, <5>1, <5>2
      <4> QED BY <1>0, <4>2 DEF EntriesLive
    <3>2. CASE rest # {}
      <4>1. entries' = [entries EXCEPT ![k].subscribers = rest] /\ UNCHANGED owner
        BY <3>0, <3>2 DEF Unsubscribe
      <4>2. DOMAIN entries' = DOMAIN entries
            /\ \A j \in DOMAIN entries : entries'[j].owner = entries[j].owner
        BY <1>0, <4>1 DEF Entry
      <4> QED BY <1>0, <4>1, <4>2 DEF EntriesLive
    <3> QED BY <3>1, <3>2
  <2>4. ASSUME NEW o \in Owners, Founds(c, o)
        PROVE  EntriesLive'
    <3> DEFINE k == caller[c].key
               new == [NoOwner EXCEPT !.pc = "spawned", !.key = k,
                         !.expected = caller[c].expected, !.gen = cancel_gen]
    <3>1. new.pc = "spawned" /\ new.key = k /\ ~ new.aborted
      BY DEF NoOwner
    <3>2. owner'[o] = new /\ \A p \in Owners \ {o} : owner'[p] = owner[p]
      BY <1>0, <2>4 DEF Founds
    <3> HIDE DEF new
    <3>3. ASSUME NEW j \in DOMAIN entries'
          PROVE  LET p == entries'[j].owner IN
                 owner'[p].pc # "none" /\ owner'[p].key = j /\ ~ owner'[p].aborted
      <4>1. CASE j = k
        BY <2>4, <3>1, <3>2, <4>1 DEF Founds, Put
      <4>2. CASE j # k
        <5>1. j \in DOMAIN entries /\ entries'[j] = entries[j]
          BY <2>4, <4>2 DEF Founds, Put
        <5>2. entries[j].owner # o
          BY <2>4, <5>1, <1>0 DEF Founds, EntriesLive
        <5> QED BY <1>0, <3>2, <5>1, <5>2 DEF EntriesLive
      <4> QED BY <4>1, <4>2
    <3> QED BY <3>3 DEF EntriesLive
  <2> QED BY <1>1, <2>1, <2>2, <2>3, <2>4, TableMoves
<1>2. ASSUME NEW o \in Owners, OwnerStep(o)
      PROVE  EntriesLive'
  <2>1. CASE Dropped(o)
    <3>1. /\ owner[o].aborted /\ UNCHANGED entries
          /\ \A p \in Owners \ {o} : owner'[p] = owner[p]
      BY <1>0, <2>1 DEF Dropped, Own, memVars
    <3>2. \A k \in DOMAIN entries : entries[k].owner # o
      BY <1>0, <3>1 DEF EntriesLive
    <3>3. \A k \in DOMAIN entries' :
            k \in DOMAIN entries /\ owner'[entries'[k].owner] = owner[entries[k].owner]
      BY <1>0, <3>1, <3>2
    <3> QED BY <1>0, <3>1, <3>3 DEF EntriesLive
  <2>2. CASE Finish(o)
    <3>1. /\ entries' = Without(entries, {owner[o].key})
          /\ \A p \in Owners \ {o} : owner'[p] = owner[p]
      BY <1>0, <2>2 DEF Finish, Own
    <3>2. ASSUME NEW j \in DOMAIN entries'
          PROVE  /\ j \in DOMAIN entries /\ entries'[j] = entries[j]
                 /\ entries[j].owner # o
      BY <1>0, <3>1 DEF Without, EntriesLive
    <3>3. \A j \in DOMAIN entries' :
            /\ j \in DOMAIN entries /\ entries'[j].owner = entries[j].owner
            /\ owner'[entries'[j].owner] = owner[entries[j].owner]
      BY <1>0, <3>1, <3>2
    <3> QED BY <1>0, <3>3 DEF EntriesLive
  <2>3. CASE ~ Dropped(o) /\ ~ Finish(o)
    BY <1>0, <1>2, <2>3, OwnerOutcome DEF EntriesLive
  <2> QED BY <2>1, <2>2, <2>3
<1>3. CASE \/ \E x \in Clears : BeginClear(x) \/ ClearStep(x)
           \/ \E e \in Epochs : AdvanceEpoch(e)
           \/ \E k \in Keys : Replace(k)
  <2>1. UNCHANGED <<entries, owner>>
    BY <1>3 DEF BeginClear, ClearStep, SetClearing, CancelAll, DrainInflight, DrainAdmitted,
                DrainTimeout, Wipe, EndClearing, EndClear, AdvanceEpoch, Replace, memVars, taskVars
  <2> QED BY <1>u, <2>1
<1>4. CASE Restart
  BY <1>4, EmptyMapFacts DEF Restart, EntriesLive
<1> QED BY <1>1, <1>2, <1>3, <1>4 DEF Next

-----------------------------------------------------------------------------
\* The end of an owner, and the beginning of a clear, as the calls see them.
LEMMA Delivered ==
  ASSUME Inv, NEW o \in Owners, Finish(o), NEW c \in Callers
  PROVE  \/ caller'[c] = caller[c]
         \/ /\ caller[c].pc = "wait" /\ caller[c].key = owner[o].key /\ Subscribed(c)
            /\ caller'[c].pc = "told" /\ caller'[c].owns = caller[c].owns
            /\ caller'[c].expected = caller[c].expected
            /\ caller'[c].result = owner[o].result
            /\ caller'[c].cleared = caller[c].cleared
            /\ entries[caller[c].key].owner # o => caller'[c].misled
<1> DEFINE k == owner[o].key
<1>0. caller \in [Callers -> Caller] /\ caller[c] \in Caller /\ SubscribersWait
  BY DEF Inv, Typed, TypeOK, ForcedInv
<1>1. CASE k \in DOMAIN entries /\ c \in entries[k].subscribers /\ caller[c].pc = "wait"
  <2>1. caller[c].key = k /\ Subscribed(c)
    BY <1>0, <1>1 DEF SubscribersWait, Subscribed
  <2>2. caller'[c] = [caller[c] EXCEPT !.pc = "told", !.result = owner[o].result,
                        !.misled = @ \/ entries[k].owner # o]
    BY <1>1 DEF Finish, Deliver
  <2>3. ASSUME entries[k].owner # o
        PROVE  caller'[c].misled
    BY <1>0, <2>2, <2>3 DEF Caller
  <2>4. /\ caller'[c].pc = "told" /\ caller'[c].owns = caller[c].owns
        /\ caller'[c].expected = caller[c].expected
        /\ caller'[c].result = owner[o].result
        /\ caller'[c].cleared = caller[c].cleared
    BY <1>0, <2>2 DEF Caller
  <2> QED BY <1>1, <2>1, <2>3, <2>4
<1>2. CASE ~ (k \in DOMAIN entries /\ c \in entries[k].subscribers /\ caller[c].pc = "wait")
  BY <1>2 DEF Finish, Deliver
<1> QED BY <1>1, <1>2

LEMMA ClearBegins ==
  ASSUME Typed, NEW x \in Clears, BeginClear(x), NEW c \in Callers
  PROVE  /\ caller'[c].pc = caller[c].pc /\ caller'[c].key = caller[c].key
         /\ caller'[c].owns = caller[c].owns /\ caller'[c].expected = caller[c].expected
         /\ caller'[c].result = caller[c].result /\ caller'[c].cancelled = caller[c].cancelled
         /\ caller'[c].misled = caller[c].misled
         /\ caller[c].cleared => caller'[c].cleared
         /\ CallerOut(c) \/ caller'[c].cleared
<1>0. caller \in [Callers -> Caller] /\ caller[c] \in Caller
  BY DEF Typed, TypeOK
<1>1. caller'[c] = [caller[c] EXCEPT
                      !.cleared = @ \/ caller[c].pc \notin {"idle", "detach", "done"}]
  BY DEF BeginClear
<1> QED BY <1>0, <1>1 DEF Caller, CallerOut

LEMMA SubscribersStep ==
  ASSUME Inv, Next
  PROVE  SubscribersWait'
<1>0. /\ Typed /\ SubscribersWait /\ caller \in [Callers -> Caller]
      /\ entries \in [DOMAIN entries -> Entry]
      /\ \A k \in DOMAIN entries : entries[k].subscribers \in SUBSET Callers
  BY DEF Inv, Typed, TypeOK, ForcedInv, Entry
<1>u. ASSUME UNCHANGED entries,
             \A c \in Callers : caller'[c].pc = caller[c].pc /\ caller'[c].key = caller[c].key
      PROVE  SubscribersWait'
  BY <1>0, <1>u DEF SubscribersWait
<1>1. ASSUME NEW c \in Callers,
             \/ CallStep(c) \/ Cancel(c) \/ DropCall(c)
             \/ \E k \in Keys, e \in {Forced} \cup Epochs : Call(c, k, e)
      PROVE  SubscribersWait'
  <2>0. \A d \in Callers \ {c} : caller'[d] = caller[d]
    BY <1>0, <1>1, CallMoves
  <2>1. CASE Keeps(c)
    <3>1. ASSUME NEW k \in DOMAIN entries, c \in entries[k].subscribers
          PROVE  caller'[c].pc = "detach" /\ caller'[c].key = k
      BY <1>0, <2>1, <3>1 DEF Keeps, SubscribersWait, Subscribed
    <3> QED BY <1>0, <2>0, <2>1, <3>1 DEF Keeps, SubscribersWait
  <2>2. ASSUME caller'[c].pc = "wait", caller'[c].key = caller[c].key,
               caller[c].pc = "register",
               \A k \in DOMAIN entries', d \in Callers :
                 d \in entries'[k].subscribers =>
                   \/ d = c /\ k = caller[c].key
                   \/ k \in DOMAIN entries /\ d \in entries[k].subscribers,
               \A k \in DOMAIN entries' : entries'[k].subscribers \subseteq Callers
        PROVE  SubscribersWait'
    <3> SUFFICES ASSUME NEW k \in DOMAIN entries', NEW d \in entries'[k].subscribers
                 PROVE  caller'[d].pc \in {"wait", "detach"} /\ caller'[d].key = k
      BY DEF SubscribersWait
    <3>1. d \in Callers
      BY <2>2
    <3>2. CASE d = c
      <4>1. k = caller[c].key
        BY <1>0, <2>2, <3>1, <3>2 DEF SubscribersWait
      <4> QED BY <2>2, <3>2, <4>1
    <3>3. CASE d # c
      BY <1>0, <2>0, <2>2, <3>1, <3>3 DEF SubscribersWait
    <3> QED BY <3>2, <3>3
  <2>3. CASE Attaches(c)
    <3>1. caller'[c].pc = "wait" /\ caller'[c].key = caller[c].key
      BY <1>0, <2>3 DEF Attaches, Goto, Set, Caller
    <3>2. /\ DOMAIN entries' = DOMAIN entries
          /\ \A k \in DOMAIN entries :
               entries'[k].subscribers = IF k = caller[c].key
                                           THEN entries[k].subscribers \cup {c}
                                           ELSE entries[k].subscribers
      BY <1>0, <2>3 DEF Attaches, Entry
    <3> QED BY <1>0, <2>2, <2>3, <3>1, <3>2 DEF Attaches
  <2>4. ASSUME NEW o \in Owners, Founds(c, o)
        PROVE  SubscribersWait'
    <3>1. caller'[c].pc = "wait" /\ caller'[c].key = caller[c].key
      BY <1>0, <2>4 DEF Founds, Set, Caller
    <3>2. \A k \in DOMAIN entries' :
            \/ k = caller[c].key /\ entries'[k].subscribers = {c}
            \/ k \in DOMAIN entries /\ entries'[k].subscribers = entries[k].subscribers
      BY <2>4 DEF Founds, Put
    <3>3. \A k \in DOMAIN entries', d \in Callers :
            d \in entries'[k].subscribers =>
              \/ d = c /\ k = caller[c].key
              \/ k \in DOMAIN entries /\ d \in entries[k].subscribers
      BY <3>2
    <3>4. \A k \in DOMAIN entries' : entries'[k].subscribers \subseteq Callers
      BY <1>0, <3>2
    <3>5. caller[c].pc = "register"
      BY <2>4 DEF Founds
    <3> QED BY <2>2, <3>1, <3>3, <3>4, <3>5
  <2>5. CASE Withdraws(c)
    <3>1. caller[c].key \in DOMAIN entries /\ Unsubscribe(c, caller[c].key)
      BY <2>5 DEF Withdraws, Subscribed
    <3>2. \A k \in DOMAIN entries' :
            /\ k \in DOMAIN entries
            /\ entries'[k].subscribers \subseteq entries[k].subscribers
            /\ k = caller[c].key => c \notin entries'[k].subscribers
      <4>1. CASE entries' = Without(entries, {caller[c].key})
        BY <4>1 DEF Without
      <4>2. CASE entries' = [entries EXCEPT ![caller[c].key].subscribers =
                               entries[caller[c].key].subscribers \ {c}]
        BY <1>0, <3>1, <4>2 DEF Entry
      <4> QED BY <3>1, <4>1, <4>2 DEF Unsubscribe
    <3> SUFFICES ASSUME NEW k \in DOMAIN entries', NEW d \in entries'[k].subscribers
                 PROVE  caller'[d].pc \in {"wait", "detach"} /\ caller'[d].key = k
      BY DEF SubscribersWait
    <3>3. k \in DOMAIN entries /\ d \in entries[k].subscribers /\ d \in Callers
      BY <1>0, <3>2
    <3>4. d # c
      BY <1>0, <3>2, <3>3 DEF SubscribersWait
    <3> QED BY <1>0, <2>0, <3>3, <3>4 DEF SubscribersWait
  <2> QED BY <1>1, <2>1, <2>3, <2>4, <2>5, TableMoves
<1>2. ASSUME NEW o \in Owners, OwnerStep(o)
      PROVE  SubscribersWait'
  <2>1. CASE Finish(o)
    <3> SUFFICES ASSUME NEW k \in DOMAIN entries', NEW d \in entries'[k].subscribers
                 PROVE  caller'[d].pc \in {"wait", "detach"} /\ caller'[d].key = k
      BY DEF SubscribersWait
    <3>1. k \in DOMAIN entries /\ k # owner[o].key /\ entries'[k] = entries[k]
      BY <2>1 DEF Finish, Without
    <3>2. d \in Callers /\ caller[d].key = k /\ caller[d].pc \in {"wait", "detach"}
      BY <1>0, <3>1 DEF SubscribersWait
    <3>3. caller'[d] = caller[d]
      BY <2>1, <3>1, <3>2, Delivered
    <3> QED BY <3>2, <3>3
  <2>2. CASE ~ Finish(o)
    <3>1. UNCHANGED <<entries, caller>>
      BY <1>2, <2>2
         DEF OwnerStep, Dropped, StartOwner, Snapshot, Open, Account, Loop, Read, Write,
             Drained, Recheck, Rename, Check, Upsert, Budget, Reclaim, memVars
    <3> QED BY <1>u, <3>1
  <2> QED BY <2>1, <2>2
<1>3. ASSUME NEW x \in Clears, BeginClear(x)
      PROVE  SubscribersWait'
  <2>1. UNCHANGED entries
    BY <1>3 DEF BeginClear
  <2> QED BY <1>0, <1>3, <1>u, <2>1, ClearBegins
<1>4. CASE \/ \E x \in Clears : ClearStep(x)
           \/ \E e \in Epochs : AdvanceEpoch(e)
           \/ \E k \in Keys : Replace(k)
  <2>1. UNCHANGED <<entries, caller>>
    BY <1>4 DEF ClearStep, SetClearing, CancelAll, DrainInflight, DrainAdmitted,
                DrainTimeout, Wipe, EndClearing, EndClear, AdvanceEpoch, Replace, memVars, taskVars
  <2> QED BY <1>u, <2>1
<1>5. CASE Restart
  BY <1>5, EmptyMapFacts DEF Restart, SubscribersWait
<1> QED BY <1>1, <1>2, <1>3, <1>4, <1>5 DEF Next

-----------------------------------------------------------------------------
\* Which steps touch neither the calls, the owners nor the gates.
LEMMA Elsewhere ==
  ASSUME \/ \E e \in Epochs : AdvanceEpoch(e)
         \/ \E k \in Keys : Replace(k)
  PROVE  UNCHANGED <<caller, owner, entries, gate, clearing, clear, cancel_gen>>
BY DEF AdvanceEpoch, Replace, memVars, taskVars

LEMMA CallGates ==
  ASSUME NEW c \in Callers,
         \/ CallStep(c) \/ Cancel(c) \/ DropCall(c)
         \/ \E k \in Keys, e \in {Forced} \cup Epochs : Call(c, k, e)
  PROVE  UNCHANGED <<gate, clearing, clear, cancel_gen>>
BY DEF CallStep, ReadRow, Stat, Judge, DropRow, Unlink, Reread, RedropRow, Register, Told,
       Leave, Detach, Cancel, DropCall, Call, memVars

LEMMA OwnerGates ==
  ASSUME NEW o \in Owners, OwnerStep(o)
  PROVE  /\ UNCHANGED <<gate, clearing, clear, cancel_gen>>
         /\ UNCHANGED caller \/ Finish(o)
BY DEF OwnerStep, Dropped, StartOwner, Snapshot, Open, Account, Loop, Read, Write, Drained,
       Recheck, Rename, Check, Upsert, Budget, Reclaim, Finish, memVars

LEMMA ClearSteps ==
  ASSUME NEW x \in Clears, ClearStep(x)
  PROVE  /\ UNCHANGED <<caller, owner, entries>>
         /\ gate' = gate \/ gate' = FALSE
         /\ UNCHANGED cancel_gen \/ CancelAll(x)
BY DEF ClearStep, SetClearing, CancelAll, DrainInflight, DrainAdmitted, DrainTimeout, Wipe,
       EndClearing, EndClear, memVars

LEMMA WarnedStep ==
  ASSUME Inv, Next
  PROVE  InsideIsWarned'
<1>0. Typed /\ InsideIsWarned
  BY DEF Inv, ForcedInv
<1>1. ASSUME NEW c \in Callers,
             \/ CallStep(c) \/ Cancel(c) \/ DropCall(c)
             \/ \E k \in Keys, e \in {Forced} \cup Epochs : Call(c, k, e)
      PROVE  InsideIsWarned'
  <2>1. gate' = gate /\ \A d \in Callers \ {c} : caller'[d] = caller[d]
    BY <1>0, <1>1, CallGates, CallMoves
  <2>2. gate => caller'[c].pc \in {"idle", "detach", "done"} \/ caller'[c].cleared
    <3>1. Outcome(caller[c], caller'[c])
      BY <1>1, CallOutcome
    <3>2. gate => caller[c].pc \in {"idle", "detach", "done"} \/ caller[c].cleared
      BY <1>0 DEF InsideIsWarned, CallerOut
    <3> QED BY <3>1, <3>2, IdleFacts
            DEF Outcome, BackToIdle, Dropping, Returned, GoesOn, Admits, Waits, GetsCancelled, Same
  <2> QED BY <1>0, <2>1, <2>2 DEF InsideIsWarned, CallerOut
<1>2. ASSUME NEW o \in Owners, OwnerStep(o)
      PROVE  InsideIsWarned'
  <2>1. gate' = gate
    BY <1>2, OwnerGates
  <2>2. CASE UNCHANGED caller
    BY <1>0, <2>1, <2>2 DEF InsideIsWarned, CallerOut
  <2>3. CASE Finish(o)
    BY <1>0, <2>1, <2>3, Delivered DEF InsideIsWarned, CallerOut
  <2> QED BY <1>2, <2>2, <2>3, OwnerGates
<1>3. ASSUME NEW x \in Clears, BeginClear(x)
      PROVE  InsideIsWarned'
  BY <1>0, <1>3, ClearBegins DEF InsideIsWarned, CallerOut
<1>4. ASSUME NEW x \in Clears, ClearStep(x)
      PROVE  InsideIsWarned'
  BY <1>0, <1>4, ClearSteps DEF InsideIsWarned, CallerOut
<1>5. CASE \/ \E e \in Epochs : AdvanceEpoch(e)
           \/ \E k \in Keys : Replace(k)
  BY <1>0, <1>5, Elsewhere DEF InsideIsWarned, CallerOut
<1>6. CASE Restart
  BY <1>6 DEF Restart, InsideIsWarned
<1> QED BY <1>1, <1>2, <1>3, <1>4, <1>5, <1>6 DEF Next

LEMMA BarredStep ==
  ASSUME OneClear, Inv, Next
  PROVE  BarredByClear'
<1>0. /\ BarredByClear
      /\ clear \in [Clears -> {"idle", "begun", "bump", "drain", "drain2", "wipe", "reopen",
                               "guard", "done"}]
  BY DEF Inv, ForcedInv, Typed, TypeOK
<1>u. ASSUME UNCHANGED <<clearing, clear>>
      PROVE  BarredByClear'
  BY <1>0, <1>u DEF BarredByClear
<1>1. ASSUME NEW x \in Clears, BeginClear(x) \/ ClearStep(x)
      PROVE  BarredByClear'
  <2>1. \A y \in Clears : y = x
    BY DEF OneClear
  <2>2. CASE BeginClear(x) \/ EndClear(x)
    <3>1. ~ clearing /\ UNCHANGED clearing
      BY <1>0, <2>1, <2>2 DEF BeginClear, EndClear, ClearTo, BarredByClear
    <3> QED BY <3>1 DEF BarredByClear
  <2>3. CASE SetClearing(x) \/ CancelAll(x) \/ DrainInflight(x) \/ DrainAdmitted(x)
             \/ DrainTimeout(x) \/ Wipe(x)
    <3>1. clear'[x] \in {"bump", "drain", "drain2", "wipe", "reopen"}
      BY <1>0, <2>3
         DEF SetClearing, CancelAll, DrainInflight, DrainAdmitted, DrainTimeout, Wipe, ClearTo
    <3> QED BY <3>1 DEF BarredByClear
  <2>4. CASE EndClearing(x)
    BY <2>4 DEF EndClearing, BarredByClear
  <2> QED BY <1>1, <2>2, <2>3, <2>4 DEF ClearStep
<1>2. CASE \/ \E c \in Callers, k \in Keys, e \in {Forced} \cup Epochs : Call(c, k, e)
           \/ \E c \in Callers : CallStep(c) \/ Cancel(c) \/ DropCall(c)
           \/ \E o \in Owners : OwnerStep(o)
           \/ \E e \in Epochs : AdvanceEpoch(e)
           \/ \E k \in Keys : Replace(k)
  BY <1>2, <1>u, CallGates, OwnerGates, Elsewhere
<1>3. CASE Restart
  BY <1>3 DEF Restart, BarredByClear
<1> QED BY <1>1, <1>2, <1>3 DEF Next

LEMMA OwnersWaitStep ==
  ASSUME Inv, Next
  PROVE  OwnersWait'
<1>0. Typed /\ OwnersWait
  BY DEF Inv, ForcedInv
<1>u. ASSUME UNCHANGED caller
      PROVE  OwnersWait'
  BY <1>0, <1>u DEF OwnersWait
<1>1. ASSUME NEW c \in Callers,
             \/ CallStep(c) \/ Cancel(c) \/ DropCall(c)
             \/ \E k \in Keys, e \in {Forced} \cup Epochs : Call(c, k, e)
      PROVE  OwnersWait'
  <2>1. \A d \in Callers \ {c} : caller'[d] = caller[d]
    BY <1>0, <1>1, CallMoves
  <2>2. caller'[c].owns => caller'[c].pc \in {"wait", "told"}
    <3>1. Outcome(caller[c], caller'[c])
      BY <1>1, CallOutcome
    <3> QED BY <1>0, <3>1, IdleFacts
            DEF Outcome, BackToIdle, Dropping, Returned, GoesOn, Admits, Waits, GetsCancelled,
                OwnersWait
  <2> QED BY <1>0, <2>1, <2>2 DEF OwnersWait
<1>2. ASSUME NEW o \in Owners, OwnerStep(o)
      PROVE  OwnersWait'
  <2>1. CASE Finish(o)
    BY <1>0, <2>1, Delivered DEF OwnersWait
  <2> QED BY <1>2, <1>u, <2>1, OwnerGates
<1>3. ASSUME NEW x \in Clears, BeginClear(x)
      PROVE  OwnersWait'
  BY <1>0, <1>3, ClearBegins DEF OwnersWait
<1>4. CASE Restart
  BY <1>4, IdleFacts DEF Restart, OwnersWait
<1> QED BY <1>1, <1>2, <1>3, <1>4, <1>u, ClearSteps, Elsewhere DEF Next

\* What ForcedDownload says of the call c and the owner o of its entry.
Fine(call, o) ==
  /\ o.expected = Forced
  /\ o.pc \in Ending \/ o.gen = cancel_gen \/ call.cleared
  /\ o.pc = "finish" /\ o.result = "cancelled" => call.cleared

LEMMA ForcedStep ==
  ASSUME Inv, Next
  PROVE  ForcedDownload'
<1>0. /\ Typed /\ EntriesLive /\ SubscribersWait /\ InsideIsWarned /\ OwnersWait
      /\ ForcedDownload /\ WaitersSubscribed /\ WaitersSubscribed'
      /\ caller \in [Callers -> Caller] /\ owner \in [Owners -> Owner]
      /\ entries \in [DOMAIN entries -> Entry]
      /\ \A k \in DOMAIN entries : entries[k].owner \in Owners
  BY SubscriptionsStep DEF Inv, Typed, TypeOK, ForcedInv, Entry
<1>w. ASSUME NEW c \in Callers, caller[c].pc = "wait", caller[c].owns,
             caller[c].expected = Forced
      PROVE  /\ Fine(caller[c], owner[entries[caller[c].key].owner])
             /\ caller[c].key \in DOMAIN entries /\ c \in entries[caller[c].key].subscribers
             /\ gate => caller[c].cleared
  BY <1>0, <1>w DEF ForcedDownload, Fine, WaitersSubscribed, Subscribed, InsideIsWarned, CallerOut
<1> SUFFICES ASSUME NEW c \in Callers, caller'[c].pc = "wait", caller'[c].owns,
                    caller'[c].expected = Forced
             PROVE  LET o == entries'[caller'[c].key].owner IN
                    /\ owner'[o].expected = Forced
                    /\ \/ owner'[o].pc \in Ending \/ owner'[o].gen = cancel_gen'
                       \/ caller'[c].cleared
                    /\ owner'[o].pc = "finish" /\ owner'[o].result = "cancelled"
                         => caller'[c].cleared
  BY DEF ForcedDownload
<1> DEFINE k == caller[c].key
           p == entries[k].owner
           Goal == LET o == entries'[caller'[c].key].owner IN
                   /\ owner'[o].expected = Forced
                   /\ \/ owner'[o].pc \in Ending \/ owner'[o].gen = cancel_gen'
                      \/ caller'[c].cleared
                   /\ owner'[o].pc = "finish" /\ owner'[o].result = "cancelled"
                        => caller'[c].cleared
\* The call stays where it is, and so does what matters of its owner.
<1>s. ASSUME caller'[c] = caller[c], entries'[k].owner = p, UNCHANGED cancel_gen,
             owner'[p].expected = owner[p].expected, owner'[p].pc = owner[p].pc,
             owner'[p].gen = owner[p].gen, owner'[p].result = owner[p].result
      PROVE  Goal
  BY <1>w, <1>s DEF Fine
<1>1. ASSUME NEW d \in Callers,
             \/ CallStep(d) \/ Cancel(d) \/ DropCall(d)
             \/ \E j \in Keys, e \in {Forced} \cup Epochs : Call(d, j, e)
      PROVE  Goal
  <2>0. UNCHANGED cancel_gen
    BY <1>1, CallGates
  <2>1. CASE d = c
    <3>1. Waits(caller[c], caller'[c])
      BY <1>1, <2>1, CallOutcome
    <3>2. ~ Keeps(c) /\ ~ Withdraws(c)
      BY DEF Keeps, Withdraws
    <3>3. CASE Attaches(c)
      <4>1. caller'[c].owns = caller[c].owns
        BY <1>0, <3>3 DEF Attaches, Goto, Set, Caller
      <4> QED BY <1>0, <3>3, <4>1 DEF Attaches, OwnersWait
    <3>4. ASSUME NEW o \in Owners, Founds(c, o)
          PROVE  Goal
      <4> DEFINE new == [NoOwner EXCEPT !.pc = "spawned", !.key = k,
                           !.expected = caller[c].expected, !.gen = cancel_gen]
      <4>1. new.pc = "spawned" /\ new.expected = caller[c].expected /\ new.gen = cancel_gen
        BY DEF NoOwner
      <4>2. entries'[k].owner = o /\ owner'[o] = new
        BY <1>0, <3>4 DEF Founds, Put
      <4>3. caller'[c].key = k /\ caller'[c].expected = caller[c].expected
        BY <3>1 DEF Waits, Same
      <4> HIDE DEF new
      <4> QED BY <2>0, <4>1, <4>2, <4>3
    <3> QED BY <1>1, <2>1, <3>2, <3>3, <3>4, TableMoves
  <2>2. CASE d # c
    <3>0. caller'[c] = caller[c]
      BY <1>0, <1>1, <2>2, CallMoves
    <3>w. k \in DOMAIN entries /\ c \in entries[k].subscribers /\ p \in Owners
      BY <1>0, <1>w, <3>0
    <3>1. CASE Keeps(d)
      BY <1>s, <2>0, <3>0, <3>1 DEF Keeps
    <3>2. CASE Attaches(d)
      <4>1. entries'[k].owner = p /\ UNCHANGED owner
        BY <1>0, <3>2, <3>w DEF Attaches, Entry
      <4> QED BY <1>s, <2>0, <3>0, <4>1
    <3>3. ASSUME NEW o \in Owners, Founds(d, o)
          PROVE  Goal
      <4>1. entries'[k] = entries[k]
        BY <3>3, <3>w DEF Founds, Put
      <4>2. p # o
        BY <1>0, <3>3, <3>w DEF Founds, EntriesLive
      <4>3. owner'[p] = owner[p]
        BY <1>0, <3>3, <3>w, <4>2 DEF Founds
      <4> QED BY <1>s, <2>0, <3>0, <4>1, <4>3
    <3>4. CASE Withdraws(d)
      <4> DEFINE j == caller[d].key
      <4>0. j \in DOMAIN entries /\ Unsubscribe(d, j)
        BY <3>4 DEF Withdraws, Subscribed
      <4>1. k \in DOMAIN entries'
        BY <1>0, <2>2, <3>w, <4>0, OthersStaySubscribed
      <4>2. entries'[k].owner = p
        BY <1>0, <4>0, <4>1 DEF Unsubscribe, Without, Entry
      <4>3. UNCHANGED owner \/ owner' = [owner EXCEPT ![entries[j].owner].aborted = TRUE]
        BY <4>0 DEF Unsubscribe
      <4>4. owner'[p].expected = owner[p].expected /\ owner'[p].pc = owner[p].pc
            /\ owner'[p].gen = owner[p].gen /\ owner'[p].result = owner[p].result
        BY <1>0, <3>w, <4>3 DEF Owner
      <4> QED BY <1>s, <2>0, <3>0, <4>2, <4>4
    <3> QED BY <1>1, <3>1, <3>2, <3>3, <3>4, TableMoves
  <2> QED BY <2>1, <2>2
<1>2. ASSUME NEW o \in Owners, OwnerStep(o)
      PROVE  Goal
  <2>0. UNCHANGED cancel_gen /\ caller'[c] = caller[c]
    BY <1>2, OwnerGates, Delivered
  <2>w. /\ k \in DOMAIN entries /\ p \in Owners /\ Fine(caller[c], owner[p])
        /\ gate => caller[c].cleared
        /\ owner[p].pc # "none" /\ owner[p].key = k /\ ~ owner[p].aborted
    BY <1>0, <1>w, <2>0 DEF EntriesLive
  <2>1. CASE Finish(o)
    <3>1. k \in DOMAIN entries'
      BY <1>0, <2>0 DEF WaitersSubscribed, Subscribed
    <3>2. k # owner[o].key /\ entries'[k] = entries[k]
      BY <2>1, <3>1 DEF Finish, Without
    <3>3. owner'[p] = owner[p]
      BY <1>0, <2>1, <2>w, <3>2 DEF Finish, Own
    <3> QED BY <1>s, <2>0, <3>2, <3>3
  <2>2. CASE Dropped(o)
    <3>1. p # o /\ UNCHANGED entries
      BY <2>2, <2>w DEF Dropped, memVars
    <3>2. owner'[p] = owner[p]
      BY <1>0, <2>2, <2>w, <3>1 DEF Dropped, Own
    <3> QED BY <1>s, <2>0, <3>1, <3>2
  <2>3. CASE ~ Dropped(o) /\ ~ Finish(o)
    <3>1. UNCHANGED entries
      BY <1>0, <1>2, <2>3, OwnerOutcome
    <3>2. CASE p # o
      BY <1>0, <1>2, <1>s, <2>0, <2>3, <2>w, <3>1, <3>2, OwnerOutcome
    <3>3. CASE p = o
      <4>1. /\ owner[p].expected = Forced => owner'[p].expected = Forced
            /\ owner'[p].pc \notin Ending =>
                 owner[p].pc \notin Ending /\ owner'[p].gen = owner[p].gen
            /\ owner'[p].pc = "finish" /\ owner'[p].result = "cancelled" =>
                 /\ owner[p].pc \notin Ending
                 /\ gate \/ cancel_gen # owner[p].gen \/ owner[p].expected # Forced
        BY <1>0, <1>2, <2>3, <3>3, OwnerOutcome
      <4>2. entries'[caller'[c].key].owner = p /\ caller'[c] = caller[c] /\ cancel_gen' = cancel_gen
        BY <2>0, <3>1
      <4> HIDE DEF p
      <4> QED BY <2>w, <4>1, <4>2 DEF Fine
    <3> QED BY <3>2, <3>3
  <2> QED BY <2>1, <2>2, <2>3
<1>3. ASSUME NEW x \in Clears, BeginClear(x)
      PROVE  Goal
  <2>1. UNCHANGED <<entries, owner, cancel_gen>>
    BY <1>3 DEF BeginClear
  <2>2. /\ caller'[c].pc = caller[c].pc /\ caller'[c].key = caller[c].key
        /\ caller'[c].owns = caller[c].owns /\ caller'[c].expected = caller[c].expected
        /\ caller[c].cleared => caller'[c].cleared
    BY <1>0, <1>3, ClearBegins
  <2> QED BY <1>w, <2>1, <2>2 DEF Fine
<1>4. ASSUME NEW x \in Clears, ClearStep(x)
      PROVE  Goal
  <2>0. UNCHANGED <<caller, owner, entries>>
    BY <1>4, ClearSteps
  <2>1. CASE CancelAll(x)
    <3>1. gate
      BY <2>1 DEF CancelAll, ClearTo, Inv, GatesShut
    <3> QED BY <1>w, <2>0, <3>1 DEF Fine
  <2>2. CASE UNCHANGED cancel_gen
    BY <1>s, <2>0, <2>2
  <2> QED BY <1>4, <2>1, <2>2, ClearSteps
<1>5. CASE \/ \E e \in Epochs : AdvanceEpoch(e)
           \/ \E j \in Keys : Replace(j)
  BY <1>5, <1>s, Elsewhere
<1>6. CASE Restart
  BY <1>6, IdleFacts DEF Restart
<1> QED BY <1>1, <1>2, <1>3, <1>4, <1>5, <1>6 DEF Next

LEMMA ReasonStep ==
  ASSUME Inv, Next
  PROVE  CancelledForAReason'
<1>0. Typed /\ CancelledForAReason /\ ForcedDownload
  BY DEF Inv, ForcedInv
<1>u. ASSUME UNCHANGED caller
      PROVE  CancelledForAReason'
  BY <1>0, <1>u DEF CancelledForAReason
<1>1. ASSUME NEW c \in Callers,
             \/ CallStep(c) \/ Cancel(c) \/ DropCall(c)
             \/ \E k \in Keys, e \in {Forced} \cup Epochs : Call(c, k, e)
      PROVE  CancelledForAReason'
  <2>1. \A d \in Callers \ {c} : caller'[d] = caller[d]
    BY <1>0, <1>1, CallMoves
  <2>2. /\ caller'[c].expected = Forced /\ caller'[c].result = "cancelled"
        /\ caller'[c].pc = "done" \/ (caller'[c].pc = "told" /\ caller'[c].owns)
        => Reason(caller'[c])
    <3>1. Outcome(caller[c], caller'[c])
      BY <1>1, CallOutcome
    <3> QED BY <1>0, <3>1, IdleFacts
            DEF Outcome, BackToIdle, Dropping, Returned, GoesOn, Admits, Waits, GetsCancelled,
                CancelledForAReason, Reason
  <2> QED BY <1>0, <2>1, <2>2 DEF CancelledForAReason
<1>2. ASSUME NEW o \in Owners, OwnerStep(o)
      PROVE  CancelledForAReason'
  <2>1. CASE Finish(o)
    <3> SUFFICES ASSUME NEW c \in Callers,
                        caller'[c].expected = Forced, caller'[c].result = "cancelled",
                        caller'[c].pc = "done" \/ (caller'[c].pc = "told" /\ caller'[c].owns)
                 PROVE  Reason(caller'[c])
      BY DEF CancelledForAReason
    <3>1. CASE caller'[c] = caller[c]
      BY <1>0, <3>1 DEF CancelledForAReason
    <3>2. CASE caller'[c] # caller[c]
      <4>1. /\ caller[c].pc = "wait" /\ caller[c].owns /\ caller[c].expected = Forced
            /\ owner[o].pc = "finish" /\ owner[o].result = "cancelled"
            /\ caller'[c].cleared = caller[c].cleared
            /\ entries[caller[c].key].owner # o => caller'[c].misled
        BY <2>1, <3>2, Delivered DEF Finish
      <4>2. CASE entries[caller[c].key].owner # o
        BY <4>1, <4>2 DEF Reason
      <4>3. CASE entries[caller[c].key].owner = o
        BY <1>0, <4>1, <4>3 DEF ForcedDownload, Reason
      <4> QED BY <4>2, <4>3
    <3> QED BY <3>1, <3>2
  <2> QED BY <1>2, <1>u, <2>1, OwnerGates
<1>3. ASSUME NEW x \in Clears, BeginClear(x)
      PROVE  CancelledForAReason'
  BY <1>0, <1>3, ClearBegins DEF CancelledForAReason, Reason
<1>4. CASE Restart
  BY <1>4, IdleFacts DEF Restart, CancelledForAReason
<1> QED BY <1>1, <1>2, <1>3, <1>4, <1>u, ClearSteps, Elsewhere DEF Next

\* An archive the user opens is not given up because a window moves on, nor
\* because the prefetch it waits for is given up: a forced call of ensure_cached
\* ends as cancelled only if its request was cancelled, if a clear began during
\* the call, or if the answer came from an owner that was replaced.  For one
\* clear at a time.
THEOREM ForcedIsKept ==
  ASSUME OneClear
  PROVE  Spec => []ForcedOutlivesWindow
<1>1. Init => Inv
  <2> SUFFICES ASSUME Init PROVE Inv
    OBVIOUS
  <2>1. Typed /\ WaitersSubscribed /\ GatesShut
    BY TypedInit, IdleFacts DEF Init, WaitersSubscribed, GatesShut
  <2>2. EntriesLive /\ SubscribersWait
    BY EmptyMapFacts DEF Init, EntriesLive, SubscribersWait
  <2>3. /\ InsideIsWarned /\ BarredByClear /\ OwnersWait /\ ForcedDownload
        /\ CancelledForAReason
    BY IdleFacts
       DEF Init, InsideIsWarned, BarredByClear, OwnersWait, ForcedDownload, CancelledForAReason
  <2> QED BY <2>1, <2>2, <2>3 DEF Inv, ForcedInv
<1>2. Inv /\ [Next]_vars => Inv'
  <2>1. CASE Inv /\ Next
    BY <2>1, TypedStep, SubscriptionsStep, GatesStep, LiveStep, SubscribersStep, WarnedStep,
       BarredStep, OwnersWaitStep, ForcedStep, ReasonStep DEF Inv, ForcedInv
  <2>2. CASE Inv /\ UNCHANGED vars
    <3>1. Typed' /\ UNCHANGED <<caller, owner, entries, gate, clearing, clear, cancel_gen>>
      BY <2>2, TypedStep DEF Inv, vars, memVars, taskVars
    <3>2. WaitersSubscribed' /\ GatesShut'
      BY <2>2, <3>1 DEF Inv, WaitersSubscribed, Subscribed, GatesShut, Admitted
    <3>3. EntriesLive' /\ SubscribersWait' /\ OwnersWait' /\ ForcedDownload'
      BY <2>2, <3>1 DEF Inv, ForcedInv, EntriesLive, SubscribersWait, OwnersWait, ForcedDownload
    <3>4. InsideIsWarned' /\ BarredByClear' /\ CancelledForAReason'
      BY <2>2, <3>1 DEF Inv, ForcedInv, InsideIsWarned, CallerOut, BarredByClear,
                        CancelledForAReason
    <3> QED BY <3>1, <3>2, <3>3, <3>4 DEF Inv, ForcedInv
  <2> QED BY <2>1, <2>2
<1>3. Inv => ForcedOutlivesWindow
  BY DEF Inv, ForcedInv, CancelledForAReason, Reason, ForcedOutlivesWindow
<1> QED BY <1>1, <1>2, <1>3, PTL DEF Spec

-----------------------------------------------------------------------------
(***************************************************************************)
(* What is served as fresh is fresh.  Nobody compares chunks with the       *)
(* version they should be of, and several owners may be at work on the      *)
(* files of one key: an aborted one runs on to its next wait, and Finish    *)
(* may take the entry of a later owner off the table.  What holds is a      *)
(* lower bound.  A version somebody knows of a key (a row, a sidecar, an    *)
(* owner that has opened the .part file) was the origin's when it was asked *)
(* for; every chunk in the .part file was read after that, or the file      *)
(* would have been started anew, and so is no older.  A file that is        *)
(* renamed hands this on to the final file.  Versions only go up, so a row  *)
(* of the version the origin has now stands for chunks of that version.     *)
(***************************************************************************)

Opened == {"init", "loop", "read", "write", "account", "drained", "restat", "rename", "check",
           "upsert"}
Renamed == {"check", "upsert"}

\* The owner p is about to append to the file of k that is at the place `at'.
Appends(p, at, k) == owner[p].pc = "write" /\ owner[p].key = k /\ handle[p] = at

\* A chunk of version v is in the file of k, or about to be.
Has(f, at, k, v) ==
  \/ k \in DOMAIN f /\ \E i \in DOMAIN f[k] : f[k][i] = v
  \/ \E p \in Owners : Appends(p, at, k) /\ owner[p].chunk = v
PartHas(k, v) == Has(part, "part", k, v)
FinalHas(k, v) == Has(final, "final", k, v)

\* What the final file of k is, or is about to be, said to be.
Promised(k, s) ==
  \/ k \in DOMAIN rows /\ rows[k] = s
  \/ \E o \in Owners : owner[o].pc \in Renamed /\ owner[o].key = k /\ owner[o].snap = s

\* The versions of k that somebody has seen and works with.
Known(k, s) ==
  \/ k \in DOMAIN rows /\ rows[k] = s
  \/ k \in DOMAIN sidecar /\ sidecar[k].version = s
  \/ \E o \in Owners : owner[o].pc \in Opened /\ owner[o].key = k /\ owner[o].snap = s

AboutToOpen == \A o \in Owners : owner[o].pc = "open" => owner[o].snap <= remote[owner[o].key]

FreshInv ==
  /\ AboutToOpen
  /\ \A k \in Keys, s \in Versions :
       /\ Known(k, s) => s <= remote[k] /\ \A v \in Versions : PartHas(k, v) => s <= v
       /\ Promised(k, s) => \A v \in Versions : FinalHas(k, v) => s <= v
       /\ PartHas(k, s) \/ FinalHas(k, s) => s <= remote[k]

\* What a step may add: chunks the origin has now, a version for which the .part
\* file is started anew, a promise for a file that is just renamed.
Adds(k) ==
  /\ remote'[k] \in Versions /\ remote[k] <= remote'[k]
  /\ \A v \in Versions : PartHas(k, v)' => PartHas(k, v) \/ v = remote[k]
  /\ \A v \in Versions : FinalHas(k, v)' => FinalHas(k, v) \/ PartHas(k, v) \/ v = remote[k]
  /\ \A s \in Versions : Known(k, s)' => \/ Known(k, s)
                                         \/ s <= remote[k] /\ \A v \in Versions : ~ PartHas(k, v)'
  /\ \A s \in Versions : Promised(k, s)' =>
       \/ Promised(k, s)
       \/ Known(k, s) /\ \A v \in Versions : FinalHas(k, v)' => PartHas(k, v)

LEMMA PromisedIsKnown == ASSUME NEW k, NEW s, Promised(k, s) PROVE Known(k, s)
BY DEF Promised, Known, Renamed, Opened

LEMMA AddsKeep ==
  ASSUME Typed, FreshInv, AboutToOpen', \A k \in Keys : Adds(k)
  PROVE  FreshInv'
<1> SUFFICES ASSUME NEW k \in Keys, NEW s \in Versions
             PROVE  /\ Known(k, s)' => s <= remote'[k] /\ \A v \in Versions : PartHas(k, v)' => s <= v
                    /\ Promised(k, s)' => \A v \in Versions : FinalHas(k, v)' => s <= v
                    /\ PartHas(k, s)' \/ FinalHas(k, s)' => s <= remote'[k]
  BY DEF FreshInv
<1>1. /\ remote[k] \in Int /\ remote'[k] \in Int /\ remote[k] <= remote'[k]
      /\ \A v \in Versions : v \in Int
  BY DEF Adds, Typed, TypeOK, Versions
<1>2. /\ Known(k, s) => s <= remote[k] /\ \A v \in Versions : PartHas(k, v) => s <= v
      /\ Promised(k, s) => \A v \in Versions : FinalHas(k, v) => s <= v
      /\ \A v \in Versions : PartHas(k, v) \/ FinalHas(k, v) => v <= remote[k]
  BY DEF FreshInv
<1>3. Adds(k)
  OBVIOUS
<1>4. ASSUME Known(k, s)'
      PROVE  s <= remote'[k] /\ \A v \in Versions : PartHas(k, v)' => s <= v
  BY <1>1, <1>2, <1>3, <1>4 DEF Adds
<1>5. ASSUME Promised(k, s)'
      PROVE  \A v \in Versions : FinalHas(k, v)' => s <= v
  <2>1. CASE Promised(k, s)
    BY <1>1, <1>2, <1>3, <2>1, PromisedIsKnown DEF Adds
  <2>2. CASE Known(k, s) /\ \A v \in Versions : FinalHas(k, v)' => PartHas(k, v)
    BY <1>2, <2>2
  <2> QED BY <1>3, <1>5, <2>1, <2>2 DEF Adds
<1>6. ASSUME PartHas(k, s)' \/ FinalHas(k, s)'
      PROVE  s <= remote'[k]
  BY <1>1, <1>2, <1>3, <1>6 DEF Adds
<1> QED BY <1>4, <1>5, <1>6

-----------------------------------------------------------------------------
(***************************************************************************)
(* Steps that add nothing.                                                  *)
(***************************************************************************)

\* The map g is a part of the map f.
Within(g, f) == \A k \in DOMAIN g : k \in DOMAIN f /\ g[k] = f[k]

DiskShrinks == Within(part', part) /\ Within(final', final) /\ Within(rows', rows) /\ Within(sidecar', sidecar)

NoNews(p) ==
  /\ handle'[p] \in {handle[p], "gone", "none"}
  /\ owner'[p].pc = "write" => owner[p].pc = "write" /\ owner'[p].key = owner[p].key
                               /\ owner'[p].chunk = owner[p].chunk
  /\ owner'[p].pc \in Opened => owner[p].pc \in Opened /\ owner'[p].key = owner[p].key
                                /\ owner'[p].snap = owner[p].snap
  /\ owner'[p].pc \in Renamed => owner[p].pc \in Renamed

\* The origin's versions go up, if at all.
RemoteGrows == \A k \in Keys : remote'[k] \in Versions /\ remote[k] <= remote'[k]

LEMMA NothingAdded ==
  ASSUME DiskShrinks, \A p \in Owners : NoNews(p), RemoteGrows
  PROVE  \A k \in Keys : Adds(k)
<1> SUFFICES ASSUME NEW k \in Keys, NEW v
             PROVE  /\ PartHas(k, v)' => PartHas(k, v)
                    /\ FinalHas(k, v)' => FinalHas(k, v)
                    /\ Known(k, v)' => Known(k, v)
                    /\ Promised(k, v)' => Promised(k, v)
  BY DEF Adds, RemoteGrows
<1>1. PartHas(k, v)' => PartHas(k, v)
  BY DEF PartHas, Has, Appends, DiskShrinks, Within, NoNews
<1>2. FinalHas(k, v)' => FinalHas(k, v)
  BY DEF FinalHas, Has, Appends, DiskShrinks, Within, NoNews
<1>3. Known(k, v)' => Known(k, v)
  BY DEF Known, DiskShrinks, Within, NoNews
<1>4. Promised(k, v)' => Promised(k, v)
  BY DEF Promised, DiskShrinks, Within, NoNews, Opened, Renamed
<1> QED BY <1>1, <1>2, <1>3, <1>4

\* What stays is within what was.
LEMMA WithinFacts ==
  /\ \A f : Within(f, f)
  /\ \A f, S : Within(Without(f, S), f)
  /\ \A f, S : S \subseteq DOMAIN f => Within([k \in S |-> f[k]], f)
  /\ \A f : Within(EmptyMap, f)
BY DEF Within, Without, EmptyMap

LEMMA RemoteStays == ASSUME Typed, UNCHANGED remote PROVE RemoteGrows
<1>1. \A k \in Keys : remote[k] \in Versions /\ remote[k] <= remote[k]
  BY DEF Typed, TypeOK, Versions
<1> QED BY <1>1 DEF RemoteGrows

\* An owner that has changed in nothing but that it is told to abort.
LEMMA SameWork ==
  ASSUME NEW p, owner'[p].pc = owner[p].pc, owner'[p].key = owner[p].key,
         owner'[p].chunk = owner[p].chunk, owner'[p].snap = owner[p].snap,
         handle'[p] \in {handle[p], "gone", "none"}
  PROVE  NoNews(p)
BY DEF NoNews

\* Nobody begins to open a file: what was about to be opened still is recent.
LEMMA StillAboutToOpen ==
  ASSUME Typed, FreshInv, RemoteGrows,
         \A p \in Owners : owner'[p].pc = "open" =>
           owner[p].pc = "open" /\ owner'[p].key = owner[p].key /\ owner'[p].snap = owner[p].snap
  PROVE  AboutToOpen'
<1> SUFFICES ASSUME NEW p \in Owners, owner'[p].pc = "open" PROVE owner'[p].snap <= remote'[owner'[p].key]
  BY DEF AboutToOpen
<1>1. /\ owner[p].pc = "open" /\ owner'[p].key = owner[p].key /\ owner'[p].snap = owner[p].snap
      /\ owner[p].snap <= remote[owner[p].key] /\ owner[p].key \in Keys /\ owner[p].snap \in Versions
  BY OwnerTyped DEF FreshInv, AboutToOpen, Typed, OwnersWellFormed, Downloading
<1>2. /\ remote[owner[p].key] \in Int /\ remote'[owner[p].key] \in Int /\ owner[p].snap \in Int
      /\ remote[owner[p].key] <= remote'[owner[p].key]
  BY <1>1 DEF RemoteGrows, Typed, TypeOK, Versions
<1> QED BY <1>1, <1>2

\* The owners of a step of a call: one may be registered, one may be told to abort.
LEMMA OwnersOfCalls ==
  ASSUME Typed, NEW c \in Callers, CallStep(c) \/ Cancel(c) \/ DropCall(c), NEW p \in Owners
  PROVE  \/ owner'[p].pc = "spawned"
         \/ /\ owner'[p].pc = owner[p].pc /\ owner'[p].key = owner[p].key
            /\ owner'[p].chunk = owner[p].chunk /\ owner'[p].snap = owner[p].snap
<1>0. owner \in [Owners -> Owner]
  BY DEF Typed, TypeOK
<1>1. CASE Register(c)
  <2>1. \/ UNCHANGED owner
        \/ \E o \in Owners : owner' = [owner EXCEPT ![o] =
                    [NoOwner EXCEPT !.pc = "spawned", !.key = caller[c].key,
                               !.expected = caller[c].expected, !.gen = cancel_gen]]
    BY <1>1 DEF Register
  <2> QED BY <1>0, <2>1 DEF NoOwner
<1>2. CASE Cancel(c) \/ Detach(c)
  <2>1. UNCHANGED owner \/ \E o : owner' = [owner EXCEPT ![o].aborted = TRUE]
    BY <1>2 DEF Cancel, Detach, Unsubscribe
  <2> QED BY <1>0, <2>1 DEF Owner
<1>3. CASE UNCHANGED owner
  BY <1>3
<1>4. Register(c) \/ Cancel(c) \/ Detach(c) \/ UNCHANGED owner
  BY DEF CallStep, ReadRow, Stat, Judge, DropRow, Unlink, Reread, RedropRow, Told, Leave, DropCall
<1> QED BY <1>1, <1>2, <1>3, <1>4

LEMMA CallsAdd ==
  ASSUME Typed, FreshInv, NEW c \in Callers, CallStep(c) \/ Cancel(c) \/ DropCall(c)
  PROVE  AboutToOpen' /\ \A k \in Keys : Adds(k)
<1>1. RemoteGrows
  <2>1. UNCHANGED remote
    BY DEF CallStep, ReadRow, Stat, Judge, DropRow, Unlink, Reread, RedropRow, Register, Told, Leave, Detach,
           Cancel, DropCall
  <2> QED BY <2>1, RemoteStays
<1>2. DiskShrinks
  <2>1. CASE DropRow(c) \/ RedropRow(c)
    <3>1. UNCHANGED <<final, part, sidecar>> /\ (UNCHANGED rows \/ rows' = Without(rows, {caller[c].key}))
      BY <2>1 DEF DropRow, RedropRow
    <3> QED BY <3>1, WithinFacts DEF DiskShrinks
  <2>2. CASE Unlink(c)
    <3>1. UNCHANGED <<rows, part, sidecar>> /\ final' = Without(final, {caller[c].key})
      BY <2>2 DEF Unlink
    <3> QED BY <3>1, WithinFacts DEF DiskShrinks
  <2>3. CASE ~ (DropRow(c) \/ RedropRow(c) \/ Unlink(c))
    <3>1. UNCHANGED <<rows, final, part, sidecar>>
      BY <2>3 DEF CallStep, ReadRow, Stat, Judge, Reread, Register, Told, Leave, Detach, Cancel, DropCall, diskVars
    <3> QED BY <3>1, WithinFacts DEF DiskShrinks
  <2> QED BY <2>1, <2>2, <2>3
<1>3. ASSUME NEW p \in Owners PROVE handle'[p] \in {handle[p], "gone", "none"}
  <2>1. UNCHANGED handle \/ handle' = Unlinked(caller[c].key, "final")
    BY DEF CallStep, ReadRow, Stat, Judge, DropRow, Unlink, Reread, RedropRow, Register, Told, Leave, Detach,
           Cancel, DropCall
  <2> QED BY <2>1 DEF Unlinked
<1>4. ASSUME NEW p \in Owners PROVE NoNews(p)
  <2>1. CASE owner'[p].pc = "spawned"
    BY <1>3, <2>1 DEF NoNews, Opened, Renamed
  <2> QED BY <1>3, <2>1, OwnersOfCalls, SameWork
<1>5. AboutToOpen'
  BY <1>1, OwnersOfCalls, StillAboutToOpen
<1> QED BY <1>1, <1>2, <1>4, <1>5, NothingAdded

\* Everything but the calls and the owners.
LEMMA OthersAdd ==
  ASSUME Typed, FreshInv,
         \/ \E c \in Callers, k \in Keys, e \in {Forced} \cup Epochs : Call(c, k, e)
         \/ \E x \in Clears : BeginClear(x) \/ ClearStep(x)
         \/ \E e \in Epochs : AdvanceEpoch(e)
         \/ \E k \in Keys : Replace(k)
         \/ Restart
         \/ UNCHANGED vars
  PROVE  AboutToOpen' /\ \A k \in Keys : Adds(k)
<1>f. ASSUME RemoteGrows, DiskShrinks, UNCHANGED owner,
             \A p \in Owners : handle'[p] \in {handle[p], "gone", "none"}
      PROVE  AboutToOpen' /\ \A k \in Keys : Adds(k)
  BY <1>f, StillAboutToOpen, SameWork, NothingAdded
<1>u. ASSUME UNCHANGED <<remote, rows, final, part, sidecar, owner, handle>>
      PROVE  AboutToOpen' /\ \A k \in Keys : Adds(k)
  <2>1. RemoteGrows
    BY <1>u, RemoteStays
  <2>2. DiskShrinks
    BY <1>u, WithinFacts DEF DiskShrinks
  <2> QED BY <1>f, <1>u, <2>1, <2>2
<1>1. CASE \E c \in Callers, k \in Keys, e \in {Forced} \cup Epochs : Call(c, k, e)
  BY <1>1, <1>u DEF Call, diskVars
<1>2. ASSUME NEW x \in Clears, Wipe(x)
      PROVE  AboutToOpen' /\ \A k \in Keys : Adds(k)
  <2>1. RemoteGrows
    BY <1>2, RemoteStays DEF Wipe
  <2>2. DiskShrinks
    <3>1. rows' = EmptyMap /\ final' = Without(final, DOMAIN rows) /\ part' = EmptyMap /\ sidecar' = EmptyMap
      BY <1>2 DEF Wipe
    <3> QED BY <3>1, WithinFacts DEF DiskShrinks
  <2>3. UNCHANGED owner /\ \A p \in Owners : handle'[p] \in {handle[p], "gone", "none"}
    BY <1>2 DEF Wipe
  <2> QED BY <1>f, <2>1, <2>2, <2>3
<1>3. ASSUME NEW x \in Clears, BeginClear(x) \/ ClearStep(x), ~ Wipe(x)
      PROVE  AboutToOpen' /\ \A k \in Keys : Adds(k)
  BY <1>3, <1>u DEF BeginClear, ClearStep, SetClearing, CancelAll, DrainInflight, DrainAdmitted,
                    DrainTimeout, EndClearing, EndClear, diskVars
<1>4. CASE \E e \in Epochs : AdvanceEpoch(e)
  BY <1>4, <1>u DEF AdvanceEpoch, diskVars, taskVars
<1>5. ASSUME NEW k \in Keys, Replace(k)
      PROVE  AboutToOpen' /\ \A j \in Keys : Adds(j)
  <2>1. UNCHANGED <<rows, final, part, sidecar, owner, handle>>
    BY <1>5 DEF Replace, diskVars, taskVars
  <2>2. DiskShrinks
    BY <2>1, WithinFacts DEF DiskShrinks
  <2>3. RemoteGrows
    BY <1>5, ConstantFacts DEF Replace, RemoteGrows, Typed, TypeOK, Versions
  <2> QED BY <1>f, <2>1, <2>2, <2>3
<1>6. CASE Restart
  <2>1. PICK parts \in SUBSET DOMAIN part, ready \in SUBSET DOMAIN rows :
          /\ part' = [k \in parts |-> part[k]]
          /\ sidecar' = Without(sidecar, DOMAIN part \ parts)
          /\ rows' = [k \in ready |-> rows[k]]
          /\ final' = [k \in ready |-> final[k]]
          /\ ready \subseteq DOMAIN final
    BY <1>6 DEF Restart, FileMatches
  <2>2. DiskShrinks
    BY <2>1, WithinFacts DEF DiskShrinks
  <2>3. RemoteGrows
    BY <1>6, RemoteStays DEF Restart
  <2>4. \A p \in Owners : owner'[p].pc = "none" /\ handle'[p] = "none"
    BY <1>6, NoOwnerTyped DEF Restart
  <2>5. \A p \in Owners : NoNews(p)
    BY <2>4 DEF NoNews, Opened, Renamed
  <2>6. AboutToOpen'
    BY <2>4 DEF AboutToOpen
  <2> QED BY <2>2, <2>3, <2>5, <2>6, NothingAdded
<1>7. CASE UNCHANGED vars
  BY <1>7, <1>u DEF vars, diskVars, taskVars
<1> QED BY <1>1, <1>2, <1>3, <1>4, <1>5, <1>6, <1>7

-----------------------------------------------------------------------------
(***************************************************************************)
(* The steps of an owner.                                                   *)
(***************************************************************************)
Outside == {"none", "spawned", "stat", "open", "budget", "evict", "finish"}

\* The owner o is done with its file, or has not begun with it.
Leaves(o) == owner'[o].pc \in Outside
\* It goes on with it, with nothing to append.
Continues(o) ==
  /\ owner[o].pc \in Opened /\ owner'[o].pc \in Opened \ {"write"}
  /\ owner'[o].key = owner[o].key /\ owner'[o].snap = owner[o].snap
  /\ owner'[o].pc \in Renamed => owner[o].pc \in Renamed

LEMMA OwnerAlone ==
  ASSUME Typed, NEW o \in Owners, NEW new, Own(o, new)
  PROVE  owner'[o] = new /\ \A p \in Owners \ {o} : owner'[p] = owner[p]
BY DEF Own, Typed, TypeOK

LEMMA EndLeaves ==
  ASSUME Typed, NEW o \in Owners, NEW r, NEW hd, End(o, r, hd)
  PROVE  /\ owner'[o].pc = "finish" /\ Leaves(o) /\ \A p \in Owners \ {o} : owner'[p] = owner[p]
         /\ handle' = [hd EXCEPT ![o] = "none"]
<1> DEFINE new == [NoOwner EXCEPT !.pc = "finish", !.key = owner[o].key, !.result = r,
                                  !.aborted = owner[o].aborted]
<1>1. Own(o, new) /\ handle' = [hd EXCEPT ![o] = "none"]
  BY DEF End
<1>2. new.pc = "finish"
  BY DEF NoOwner
<1> HIDE DEF new
<1>3. owner'[o] = new /\ \A p \in Owners \ {o} : owner'[p] = owner[p]
  BY <1>1, OwnerAlone
<1> QED BY <1>1, <1>2, <1>3 DEF Leaves, Outside

LEMMA ProceedsAlone ==
  ASSUME Typed, NEW o \in Owners, NEW pc, Proceed(o, pc)
  PROVE  /\ owner'[o].pc = pc /\ owner'[o].key = owner[o].key /\ owner'[o].snap = owner[o].snap
         /\ owner'[o].chunk = owner[o].chunk /\ \A p \in Owners \ {o} : owner'[p] = owner[p]
<1>1. owner[o] \in Owner /\ owner'[o] = [owner[o] EXCEPT !.pc = pc]
  BY OwnerAlone DEF Proceed, Typed, TypeOK
<1> QED BY <1>1, OwnerAlone DEF Owner, Proceed

\* A step of an owner that adds nothing.
LEMMA QuietOwner ==
  ASSUME Typed, FreshInv, NEW o \in Owners, UNCHANGED remote, DiskShrinks,
         \A p \in Owners \ {o} : owner'[p] = owner[p],
         \A p \in Owners : handle'[p] \in {handle[p], "gone", "none"},
         Leaves(o) \/ Continues(o)
  PROVE  \A k \in Keys : Adds(k)
<1>1. NoNews(o)
  BY DEF NoNews, Leaves, Continues, Outside, Opened, Renamed
<1>2. \A p \in Owners \ {o} : NoNews(p)
  BY SameWork
<1> QED BY <1>1, <1>2, RemoteStays, NothingAdded

LEMMA OwnerOpens ==
  ASSUME Typed, FreshInv, NEW o \in Owners, OwnerStep(o)
  PROVE  AboutToOpen'
<1>0. owner[o] \in Owner /\ UNCHANGED remote
  BY DEF Typed, TypeOK, OwnerStep, Dropped, StartOwner, Snapshot, Open, Account, Loop, Read, Write, Drained,
         Recheck, Rename, Check, Upsert, Budget, Reclaim, Finish
<1>1. RemoteGrows
  BY <1>0, RemoteStays
<1>2. CASE Snapshot(o) /\ owner'[o].pc = "open"
  <2> DEFINE new == [owner[o] EXCEPT !.pc = "open", !.snap = remote[owner[o].key]]
  <2>1. Own(o, new)
    BY <1>2, EndLeaves DEF Snapshot
  <2>n. new.snap = remote[owner[o].key] /\ new.key = owner[o].key
    BY <1>0 DEF Owner
  <2> HIDE DEF new
  <2>2. /\ owner'[o].snap = remote[owner[o].key] /\ owner'[o].key = owner[o].key
        /\ \A p \in Owners \ {o} : owner'[p] = owner[p]
    BY <2>1, <2>n, OwnerAlone
  <2>3. owner[o].key \in Keys
    BY <1>2, OwnerTyped DEF Snapshot, Answered
  <2>4. remote[owner[o].key] <= remote[owner[o].key]
    BY <2>3 DEF Typed, TypeOK, Versions
  <2> QED BY <1>0, <2>2, <2>4 DEF AboutToOpen, FreshInv
<1>3. CASE (\A p \in Owners \ {o} : owner'[p] = owner[p]) /\ owner'[o].pc # "open"
  BY <1>1, <1>3, StillAboutToOpen
<1>4. \A p \in Owners \ {o} : owner'[p] = owner[p]
  <2>1. \E new : Own(o, new)
    BY DEF OwnerStep, Dropped, StartOwner, Snapshot, Open, Account, Loop, Read, Write, Drained, Recheck,
           Rename, Check, Upsert, Budget, Reclaim, Finish, End, Proceed
  <2> QED BY <2>1, OwnerAlone
<1>5. Snapshot(o) \/ owner'[o].pc # "open"
  <2>1. ASSUME NEW r, NEW hd, End(o, r, hd) PROVE owner'[o].pc # "open"
    BY <2>1, EndLeaves
  <2>2. ASSUME NEW pc \in Opened \cup {"stat"}, Proceed(o, pc) PROVE owner'[o].pc # "open"
    BY <2>2, ProceedsAlone DEF Opened
  <2>3. ASSUME NEW new, Own(o, new), new.pc # "open" PROVE owner'[o].pc # "open"
    BY <2>3, OwnerAlone
  <2>4. CASE Dropped(o) \/ Reclaim(o) \/ Finish(o)
    BY <2>3, <2>4 DEF Dropped, Reclaim, Finish, NoOwner
  <2>5. CASE StartOwner(o) \/ Loop(o)
    BY <2>1, <2>2, <2>5 DEF StartOwner, Loop, Opened
  <2>6. CASE Open(o) \/ Write(o) \/ Budget(o)
    <3> DEFINE opened(n) == [owner[o] EXCEPT !.pc = "init", !.offset = n]
               written(n) == [owner[o] EXCEPT !.pc = "account", !.chunk = 0, !.offset = n]
               asked == [owner[o] EXCEPT !.pc = "evict", !.protected = DOMAIN entries]
    <3>1. (\E n : Own(o, opened(n))) \/ (\E n : Own(o, written(n))) \/ Own(o, asked)
      BY <2>6 DEF Open, Write, Budget
    <3>2. (\A n : opened(n).pc = "init" /\ written(n).pc = "account") /\ asked.pc = "evict"
      BY <1>0 DEF Owner
    <3> HIDE DEF opened, written, asked
    <3>3. PICK new : Own(o, new) /\ new.pc \in {"init", "account", "evict"}
      BY <3>1, <3>2
    <3> QED BY <3>3, <2>3
  <2>7. CASE Account(o) \/ Drained(o) \/ Rename(o) \/ Check(o)
    BY <2>1, <2>2, <2>7 DEF Account, Drained, Rename, Check, Opened
  <2>8. CASE Read(o) \/ Recheck(o) \/ Upsert(o)
    <3> DEFINE got == [owner[o] EXCEPT !.pc = "write", !.chunk = remote[owner[o].key]]
               again == [NoOwner EXCEPT !.pc = "stat", !.key = owner[o].key, !.attempt = 1,
                               !.expected = owner[o].expected, !.gen = owner[o].gen]
               stored == [NoOwner EXCEPT !.pc = "budget", !.key = owner[o].key,
                                  !.aborted = owner[o].aborted]
    <3>1. \/ Own(o, got) \/ Own(o, again) \/ Own(o, stored)
          \/ Proceed(o, "rename")
          \/ \E r, hd : End(o, r, hd)
      BY <2>8 DEF Read, Recheck, Upsert
    <3>2. got.pc = "write" /\ again.pc = "stat" /\ stored.pc = "budget"
      BY <1>0 DEF Owner, NoOwner
    <3> HIDE DEF got, again, stored
    <3>3. CASE Own(o, got) \/ Own(o, again) \/ Own(o, stored)
      BY <2>3, <3>2, <3>3
    <3> QED BY <2>1, <2>2, <3>1, <3>3 DEF Opened
  <2> QED BY <2>4, <2>5, <2>6, <2>7, <2>8 DEF OwnerStep
<1> QED BY <1>2, <1>3, <1>4, <1>5

\* Making room removes files, rows and what is appended to them.
LEMMA EvictShrinks ==
  ASSUME NEW P, NEW hd, Evict(P, hd)
  PROVE  DiskShrinks /\ \A p \in Owners : handle'[p] \in {hd[p], "gone"}
<1>1. PICK parts \in SUBSET (DOMAIN part \ P), ready \in SUBSET (DOMAIN rows \ P) :
        /\ part' = Without(part, parts) /\ sidecar' = Without(sidecar, parts)
        /\ rows' = Without(rows, ready) /\ final' = Without(final, ready)
        /\ handle' = [o \in Owners |->
                    IF \/ owner[o].key \in parts /\ hd[o] = "part"
                       \/ owner[o].key \in ready /\ hd[o] = "final"
                      THEN "gone" ELSE hd[o]]
  BY DEF Evict
<1> QED BY <1>1, WithinFacts DEF DiskShrinks

LEMMA DiscardShrinks ==
  ASSUME NEW k, Discard(k) \/ UNCHANGED <<part, sidecar>>
  PROVE  Within(part', part) /\ Within(sidecar', sidecar)
BY WithinFacts DEF Discard

\* A step that ends the owner, its files staying or going.
LEMMA EndAdds ==
  ASSUME Typed, FreshInv, NEW o \in Owners, UNCHANGED remote, DiskShrinks, NEW r, NEW hd, End(o, r, hd),
         \A p \in Owners : hd[p] \in {handle[p], "gone", "none"}, hd \in [Owners -> Places]
  PROVE  \A k \in Keys : Adds(k)
<1>1. /\ Leaves(o) /\ \A p \in Owners \ {o} : owner'[p] = owner[p]
      /\ handle' = [hd EXCEPT ![o] = "none"]
  BY EndLeaves
<1>2. \A p \in Owners : handle'[p] \in {handle[p], "gone", "none"}
  BY <1>1
<1> QED BY <1>1, <1>2, QuietOwner

\* One that goes on with its file.
LEMMA ProceedAdds ==
  ASSUME Typed, FreshInv, NEW o \in Owners, UNCHANGED remote, DiskShrinks,
         NEW pc \in (Opened \ {"write"}) \cup {"stat"}, Proceed(o, pc),
         pc # "stat" => owner[o].pc \in Opened /\ (pc \in Renamed => owner[o].pc \in Renamed),
         \A p \in Owners : handle'[p] \in {handle[p], "gone", "none"}
  PROVE  \A k \in Keys : Adds(k)
<1>1. /\ owner'[o].pc = pc /\ owner'[o].key = owner[o].key /\ owner'[o].snap = owner[o].snap
      /\ \A p \in Owners \ {o} : owner'[p] = owner[p]
  BY ProceedsAlone
<1>2. Leaves(o) \/ Continues(o)
  BY <1>1 DEF Leaves, Continues, Outside
<1> QED BY <1>1, <1>2, QuietOwner

\* One whose new record has nothing to do with a file.
LEMMA LeaveAdds ==
  ASSUME Typed, FreshInv, NEW o \in Owners, UNCHANGED remote, DiskShrinks, NEW new, Own(o, new), new.pc \in Outside,
         \A p \in Owners : handle'[p] \in {handle[p], "gone", "none"}
  PROVE  \A k \in Keys : Adds(k)
BY OwnerAlone, QuietOwner DEF Leaves

LEMMA PlainHandles ==
  ASSUME Typed
  PROVE  /\ \A p \in Owners : handle[p] \in {handle[p], "gone", "none"}
         /\ \A k, at : \A p \in Owners : Unlinked(k, at)[p] \in {handle[p], "gone", "none"}
         /\ handle \in [Owners -> Places] /\ \A k, at : Unlinked(k, at) \in [Owners -> Places]
         /\ \A hd \in [Owners -> Places], o \in Owners :
              (\A p \in Owners : hd[p] \in {handle[p], "gone", "none"})
                => /\ [hd EXCEPT ![o] = "none"] \in [Owners -> Places]
                   /\ \A p \in Owners : [hd EXCEPT ![o] = "none"][p] \in {handle[p], "gone", "none"}
BY HandleTyped, UnlinkedTyped DEF Unlinked, Places

LEMMA QuietSteps ==
  ASSUME Typed, FreshInv, NEW o \in Owners,
         \/ Dropped(o) \/ StartOwner(o) \/ Snapshot(o) \/ Loop(o) \/ Drained(o) \/ Recheck(o) \/ Check(o)
         \/ Budget(o) \/ Reclaim(o) \/ Finish(o)
  PROVE  \A k \in Keys : Adds(k)
<1> DEFINE k == owner[o].key
<1>0. UNCHANGED remote /\ owner[o] \in Owner
  BY DEF Typed, TypeOK, Dropped, StartOwner, Snapshot, Loop, Drained, Recheck, Check, Budget, Reclaim, Finish
<1>u. UNCHANGED <<rows, final, part, sidecar>> => DiskShrinks
  BY WithinFacts DEF DiskShrinks
<1>h. UNCHANGED handle => \A p \in Owners : handle'[p] \in {handle[p], "gone", "none"}
  OBVIOUS
<1>1. CASE Dropped(o)
  <2>1. UNCHANGED <<rows, final, part, sidecar>> /\ Own(o, NoOwner) /\ handle' = [handle EXCEPT ![o] = "none"]
    BY <1>1 DEF Dropped, diskVars
  <2> QED BY <1>0, <1>u, <2>1, NoOwnerTyped, PlainHandles, LeaveAdds DEF Outside
<1>2. CASE StartOwner(o)
  <2>1. UNCHANGED <<rows, final, part, sidecar>>
        /\ (End(o, "cancelled", handle) \/ (Proceed(o, "stat") /\ UNCHANGED handle))
    BY <1>2 DEF StartOwner, diskVars
  <2> QED BY <1>0, <1>u, <2>1, PlainHandles, EndAdds, ProceedAdds
<1>3. CASE Snapshot(o)
  <2> DEFINE new == [owner[o] EXCEPT !.pc = "open", !.snap = remote[k]]
  <2>1. UNCHANGED <<rows, final, part, sidecar>>
        /\ (End(o, "failed", handle) \/ (Own(o, new) /\ UNCHANGED handle))
    BY <1>3 DEF Snapshot, diskVars
  <2>2. new.pc \in Outside
    BY <1>0 DEF Owner, Outside
  <2> HIDE DEF new
  <2> QED BY <1>0, <1>u, <2>1, <2>2, PlainHandles, EndAdds, LeaveAdds
<1>4. CASE Loop(o)
  <2>1. UNCHANGED <<rows, final, part, sidecar>> /\ owner[o].pc = "loop"
    BY <1>4 DEF Loop, diskVars
  <2>2. \/ End(o, "cancelled", handle)
        \/ \E pc \in {"drained", "read"} : Proceed(o, pc) /\ UNCHANGED handle
    BY <1>4 DEF Loop
  <2> QED BY <1>0, <1>u, <2>1, <2>2, PlainHandles, EndAdds, ProceedAdds DEF Opened, Renamed
<1>5. CASE Drained(o)
  <2>1. UNCHANGED <<rows, final>> /\ owner[o].pc = "drained" /\ (Discard(k) \/ UNCHANGED <<part, sidecar>>)
    BY <1>5 DEF Drained
  <2>2. DiskShrinks
    BY <2>1, WithinFacts, DiscardShrinks DEF DiskShrinks
  <2>3. \/ End(o, "cancelled", [Unlinked(k, "part") EXCEPT ![o] = "none"])
        \/ Proceed(o, "restat") /\ handle' = [handle EXCEPT ![o] = "none"]
    BY <1>5 DEF Drained
  <2>4. CASE End(o, "cancelled", [Unlinked(k, "part") EXCEPT ![o] = "none"])
    <3> DEFINE hd == [Unlinked(k, "part") EXCEPT ![o] = "none"]
    <3>1. hd \in [Owners -> Places] /\ \A p \in Owners : hd[p] \in {handle[p], "gone", "none"}
      BY PlainHandles
    <3> HIDE DEF hd
    <3>2. End(o, "cancelled", hd)
      BY <2>4 DEF hd
    <3> QED BY <1>0, <2>2, <3>1, <3>2, EndAdds
  <2>5. CASE Proceed(o, "restat") /\ handle' = [handle EXCEPT ![o] = "none"]
    BY <1>0, <2>1, <2>2, <2>5, PlainHandles, ProceedAdds DEF Opened, Renamed
  <2> QED BY <2>3, <2>4, <2>5
<1>6. CASE Recheck(o)
  <2> DEFINE new == [NoOwner EXCEPT !.pc = "stat", !.key = k, !.attempt = 1,
                               !.expected = owner[o].expected, !.gen = owner[o].gen]
  <2>1. UNCHANGED <<rows, final>> /\ owner[o].pc = "restat" /\ (Discard(k) \/ UNCHANGED <<part, sidecar>>)
    BY <1>6 DEF Recheck, Answered
  <2>2. DiskShrinks
    BY <2>1, WithinFacts, DiscardShrinks DEF DiskShrinks
  <2>3. \/ Proceed(o, "rename") /\ UNCHANGED handle
        \/ Own(o, new) /\ handle' = Unlinked(k, "part")
        \/ End(o, "failed", Unlinked(k, "part"))
        \/ End(o, "failed", handle)
    BY <1>6 DEF Recheck
  <2>4. new.pc \in Outside
    BY DEF NoOwner, Outside
  <2> HIDE DEF new
  <2>5. CASE Own(o, new) /\ handle' = Unlinked(k, "part")
    BY <1>0, <2>2, <2>4, <2>5, PlainHandles, LeaveAdds
  <2>6. CASE Proceed(o, "rename") /\ UNCHANGED handle
    BY <1>0, <2>1, <2>2, <2>6, PlainHandles, ProceedAdds DEF Opened, Renamed
  <2>7. CASE End(o, "failed", Unlinked(k, "part")) \/ End(o, "failed", handle)
    BY <1>0, <2>2, <2>7, PlainHandles, EndAdds
  <2> QED BY <2>3, <2>5, <2>6, <2>7
<1>7. CASE Check(o)
  <2>1. /\ UNCHANGED <<rows, part, sidecar>> /\ owner[o].pc = "check"
        /\ (UNCHANGED final \/ final' = Without(final, {k}))
    BY <1>7 DEF Check
  <2>2. DiskShrinks
    BY <2>1, WithinFacts DEF DiskShrinks
  <2>3. \/ End(o, "cancelled", Unlinked(k, "final"))
        \/ Proceed(o, "upsert") /\ UNCHANGED handle
    BY <1>7 DEF Check
  <2> QED BY <1>0, <2>1, <2>2, <2>3, PlainHandles, EndAdds, ProceedAdds DEF Opened, Renamed
<1>8. CASE Budget(o)
  <2> DEFINE new == [owner[o] EXCEPT !.pc = "evict", !.protected = DOMAIN entries]
  <2>1. UNCHANGED <<rows, final, part, sidecar, handle>> /\ Own(o, new)
    BY <1>8 DEF Budget, diskVars
  <2>2. new.pc \in Outside
    BY <1>0 DEF Owner, Outside
  <2> HIDE DEF new
  <2> QED BY <1>0, <1>u, <2>1, <2>2, PlainHandles, LeaveAdds
<1>9. CASE Reclaim(o)
  <2> DEFINE new == [NoOwner EXCEPT !.pc = "finish", !.key = owner[o].key, !.result = "ok",
                            !.aborted = owner[o].aborted]
             hd == [handle EXCEPT ![o] = "none"]
  <2>1. Own(o, new) /\ Evict(owner[o].protected, hd)
    BY <1>9 DEF Reclaim
  <2>2. new.pc \in Outside /\ \A p \in Owners : hd[p] \in {handle[p], "none"}
    BY PlainHandles DEF NoOwner, Outside
  <2> HIDE DEF new, hd
  <2>3. DiskShrinks /\ \A p \in Owners : handle'[p] \in {hd[p], "gone"}
    BY <2>1, EvictShrinks
  <2>4. \A p \in Owners : handle'[p] \in {handle[p], "gone", "none"}
    BY <2>2, <2>3
  <2> QED BY <1>0, <2>1, <2>2, <2>3, <2>4, LeaveAdds
<1>10. CASE Finish(o)
  <2>1. Own(o, NoOwner) /\ (UNCHANGED <<diskVars, handle>> \/ Evict(DOMAIN entries \ {k}, handle))
    BY <1>10 DEF Finish
  <2>2. DiskShrinks /\ \A p \in Owners : handle'[p] \in {handle[p], "gone", "none"}
    BY <1>u, <1>h, <2>1, EvictShrinks DEF diskVars
  <2> QED BY <1>0, <2>1, <2>2, NoOwnerTyped, LeaveAdds DEF Outside
<1> QED BY <1>1, <1>2, <1>3, <1>4, <1>5, <1>6, <1>7, <1>8, <1>9, <1>10

\* The owner o gets the record new; everybody else stays as he is.
Becomes(o, new) == owner'[o] = new /\ \A p \in Owners \ {o} : owner'[p] = owner[p]

LEMMA OpenAdds ==
  ASSUME Typed, FreshInv, NEW o \in Owners, Open(o)
  PROVE  \A j \in Keys : Adds(j)
<1> DEFINE k == owner[o].key
           s == owner[o].snap
           resume == Resumable(k, s)
           new == [owner[o] EXCEPT !.pc = "init", !.offset = IF resume THEN Len(part[k]) ELSE 0]
<1>1. /\ k \in Keys /\ s \in Versions /\ s <= remote[k] /\ owner[o].pc = "open" /\ owner[o] \in Owner
  BY OwnerTyped DEF Open, Downloading, FreshInv, AboutToOpen, Typed, TypeOK
<1>2. /\ new.pc = "init" /\ new.key = k /\ new.snap = s
  BY <1>1 DEF Owner
<1>3. Own(o, new) /\ UNCHANGED <<remote, rows, final>>
  BY DEF Open
<1> HIDE DEF new
<1>4. Becomes(o, new)
  BY <1>3, OwnerAlone DEF Becomes
<1>5. CASE resume
  <2>1. UNCHANGED <<part, sidecar>> /\ handle' = [handle EXCEPT ![o] = "part"]
    BY <1>5 DEF Open
  <2>2. k \in DOMAIN sidecar /\ sidecar[k].version = s
    BY <1>5 DEF Resumable
  <2>3. \A p \in Owners \ {o} : handle'[p] = handle[p]
    BY <2>1
  <2> SUFFICES ASSUME NEW j \in Keys PROVE Adds(j)
    OBVIOUS
  <2>4. \A v : PartHas(j, v)' => PartHas(j, v)
    BY <1>2, <1>4, <2>1, <2>3 DEF PartHas, Has, Appends, Becomes
  <2>5. \A v : FinalHas(j, v)' => FinalHas(j, v)
    BY <1>2, <1>3, <1>4, <2>3 DEF FinalHas, Has, Appends, Becomes
  <2>6. \A t : Known(j, t)' => Known(j, t)
    BY <1>2, <1>3, <1>4, <2>1, <2>2 DEF Known, Becomes
  <2>7. \A t : Promised(j, t)' => Promised(j, t)
    BY <1>2, <1>3, <1>4 DEF Promised, Becomes, Renamed
  <2> QED BY <1>3, <2>4, <2>5, <2>6, <2>7, RemoteStays DEF Adds, RemoteGrows
<1>6. CASE ~ resume
  <2>1. /\ part' = Put(part, k, <<>>) /\ (UNCHANGED sidecar \/ sidecar' = Without(sidecar, {k}))
        /\ handle' = [Unlinked(k, "part") EXCEPT ![o] = "part"]
    BY <1>6 DEF Open
  <2>2. \A p \in Owners \ {o} : /\ handle'[p] = "part" => handle[p] = "part" /\ owner[p].key # k
                                /\ handle'[p] = "final" => handle[p] = "final"
    BY <2>1 DEF Unlinked
  <2> SUFFICES ASSUME NEW j \in Keys PROVE Adds(j)
    OBVIOUS
  <2>3. \A v : PartHas(j, v)' => PartHas(j, v) /\ j # k
    <3>1. /\ DOMAIN part' = DOMAIN part \cup {k} /\ part'[k] = <<>>
          /\ j # k /\ j \in DOMAIN part' => j \in DOMAIN part /\ part'[j] = part[j]
      BY <2>1 DEF Put
    <3>2. DOMAIN part'[k] = {}
      BY <3>1
    <3> QED BY <1>2, <1>4, <2>2, <3>1, <3>2 DEF PartHas, Has, Appends, Becomes
  <2>4. \A v : FinalHas(j, v)' => FinalHas(j, v)
    BY <1>2, <1>3, <1>4, <2>2 DEF FinalHas, Has, Appends, Becomes
  <2>5. \A t : Known(j, t)' => Known(j, t) \/ (j = k /\ t = s)
    <3>1. j \in DOMAIN sidecar' => j \in DOMAIN sidecar /\ sidecar'[j] = sidecar[j]
      BY <2>1 DEF Without
    <3> QED BY <1>2, <1>3, <1>4, <3>1 DEF Known, Becomes
  <2>6. \A t : Promised(j, t)' => Promised(j, t)
    BY <1>2, <1>3, <1>4 DEF Promised, Becomes, Renamed
  <2>7. \A t \in Versions : Known(j, t)' => Known(j, t) \/ (t <= remote[j] /\ \A v \in Versions : ~ PartHas(j, v)')
    BY <1>1, <2>3, <2>5
  <2>8. remote'[j] \in Versions /\ remote[j] <= remote'[j]
    BY <1>3, RemoteStays DEF RemoteGrows
  <2> QED BY <2>3, <2>4, <2>6, <2>7, <2>8 DEF Adds
<1> QED BY <1>5, <1>6

LEMMA AccountAdds ==
  ASSUME Typed, FreshInv, NEW o \in Owners, Account(o)
  PROVE  \A j \in Keys : Adds(j)
<1> DEFINE k == owner[o].key
           s == owner[o].snap
           new == [version |-> s, downloaded |-> owner[o].offset]
<1>1. owner[o].pc \in {"init", "account"} /\ UNCHANGED <<remote, rows, final, part>>
  BY DEF Account
<1>2. CASE End(o, "failed", handle) /\ UNCHANGED sidecar
  <2>1. DiskShrinks
    BY <1>1, <1>2, WithinFacts DEF DiskShrinks
  <2> QED BY <1>1, <1>2, <2>1, PlainHandles, EndAdds
<1>3. CASE sidecar' = Put(sidecar, k, new) /\ Proceed(o, "loop") /\ UNCHANGED handle
  <2>1. owner'[o].pc = "loop" /\ owner'[o].key = k /\ owner'[o].snap = s /\ \A p \in Owners \ {o} : owner'[p] = owner[p]
    BY <1>3, ProceedsAlone
  <2>2. /\ sidecar'[k] = new /\ new.version = s
        /\ \A j \in DOMAIN sidecar' : j # k => j \in DOMAIN sidecar /\ sidecar'[j] = sidecar[j]
    BY <1>3 DEF Put
  <2> HIDE DEF new
  <2> SUFFICES ASSUME NEW j \in Keys PROVE Adds(j)
    OBVIOUS
  <2>3. \A v : PartHas(j, v)' => PartHas(j, v)
    BY <1>1, <1>3, <2>1 DEF PartHas, Has, Appends
  <2>4. \A v : FinalHas(j, v)' => FinalHas(j, v)
    BY <1>1, <1>3, <2>1 DEF FinalHas, Has, Appends
  <2>5. \A t : Known(j, t)' => Known(j, t)
    <3>1. owner[o].pc \in Opened
      BY <1>1 DEF Opened
    <3>2. Known(k, s)
      BY <3>1 DEF Known
    <3>3. ASSUME NEW t, j \in DOMAIN sidecar' /\ sidecar'[j].version = t PROVE Known(j, t)
      BY <2>2, <3>2, <3>3 DEF Known
    <3>4. ASSUME NEW t, NEW p \in Owners, owner'[p].pc \in Opened /\ owner'[p].key = j /\ owner'[p].snap = t
          PROVE  Known(j, t)
      BY <2>1, <3>2, <3>4 DEF Known
    <3> QED BY <1>1, <3>3, <3>4 DEF Known
  <2>6. \A t : Promised(j, t)' => Promised(j, t)
    BY <1>1, <2>1 DEF Promised, Renamed
  <2>7. remote'[j] \in Versions /\ remote[j] <= remote'[j]
    BY <1>1, RemoteStays DEF RemoteGrows
  <2> QED BY <2>3, <2>4, <2>5, <2>6, <2>7 DEF Adds
<1> QED BY <1>2, <1>3 DEF Account

LEMMA ReadAdds ==
  ASSUME Typed, FreshInv, NEW o \in Owners, Read(o)
  PROVE  \A j \in Keys : Adds(j)
<1> DEFINE k == owner[o].key
           new == [owner[o] EXCEPT !.pc = "write", !.chunk = remote[k]]
<1>1. /\ owner[o].pc = "read" /\ owner[o] \in Owner /\ UNCHANGED <<remote, rows, final, part, sidecar>>
  BY DEF Read, Answered, diskVars, Typed, TypeOK
<1>2. CASE End(o, "failed", handle)
  <2>1. DiskShrinks
    BY <1>1, WithinFacts DEF DiskShrinks
  <2> QED BY <1>1, <1>2, <2>1, PlainHandles, EndAdds
<1>3. CASE Own(o, new) /\ UNCHANGED handle
  <2>1. /\ new.pc = "write" /\ new.key = k /\ new.snap = owner[o].snap /\ new.chunk = remote[k]
    BY <1>1 DEF Owner
  <2> HIDE DEF new
  <2>2. Becomes(o, new)
    BY <1>3, OwnerAlone DEF Becomes
  <2> SUFFICES ASSUME NEW j \in Keys PROVE Adds(j)
    OBVIOUS
  <2>3. \A v : PartHas(j, v)' => PartHas(j, v) \/ v = remote[j]
    BY <1>1, <1>3, <2>1, <2>2 DEF PartHas, Has, Appends, Becomes
  <2>4. \A v : FinalHas(j, v)' => FinalHas(j, v) \/ v = remote[j]
    BY <1>1, <1>3, <2>1, <2>2 DEF FinalHas, Has, Appends, Becomes
  <2>5. \A t : Known(j, t)' => Known(j, t)
    BY <1>1, <2>1, <2>2 DEF Known, Becomes, Opened
  <2>6. \A t : Promised(j, t)' => Promised(j, t)
    BY <1>1, <2>1, <2>2 DEF Promised, Becomes, Renamed
  <2>7. remote'[j] \in Versions /\ remote[j] <= remote'[j]
    BY <1>1, RemoteStays DEF RemoteGrows
  <2> QED BY <2>3, <2>4, <2>5, <2>6, <2>7 DEF Adds
<1> QED BY <1>2, <1>3 DEF Read

\* One more chunk at the end of a file.
LEMMA OneMoreChunk ==
  ASSUME NEW f, Chunks(f), NEW k, NEW chunk, NEW j, NEW v,
         NEW g, g = [f EXCEPT ![k] = Append(@, chunk)],
         j \in DOMAIN g, \E i \in DOMAIN g[j] : g[j][i] = v
  PROVE  j \in DOMAIN f /\ (\/ \E i \in DOMAIN f[j] : f[j][i] = v
                            \/ j = k /\ v = chunk)
<1>1. j \in DOMAIN f /\ f[j] \in Seq(Versions)
  BY DEF Chunks
<1>2. CASE j = k
  <2>1. g[j] = Append(f[j], chunk)
    BY <1>1, <1>2
  <2>2. PICK i \in DOMAIN g[j] : g[j][i] = v
    OBVIOUS
  <2>3. /\ DOMAIN f[j] = 1 .. Len(f[j]) /\ Len(f[j]) \in Nat
        /\ DOMAIN g[j] = 1 .. Len(f[j]) + 1
        /\ \A n \in 1 .. Len(f[j]) : g[j][n] = f[j][n]
        /\ g[j][Len(f[j]) + 1] = chunk
    BY <1>1, <2>1
  <2> QED BY <1>1, <1>2, <2>2, <2>3
<1>3. CASE j # k
  BY <1>1, <1>3
<1> QED BY <1>2, <1>3

LEMMA WriteAdds ==
  ASSUME Typed, FreshInv, NEW o \in Owners, Write(o)
  PROVE  \A j \in Keys : Adds(j)
<1> DEFINE k == owner[o].key
           chunk == owner[o].chunk
           new == [owner[o] EXCEPT !.pc = "account", !.chunk = 0, !.offset = @ + 1]
           more(file) == [file EXCEPT ![k] = Append(@, chunk)]
<1>1. /\ owner[o].pc = "write" /\ owner[o] \in Owner /\ UNCHANGED <<remote, rows, sidecar, handle>>
      /\ part' = IF handle[o] = "part" THEN more(part) ELSE part
      /\ final' = IF handle[o] = "final" THEN more(final) ELSE final
      /\ Own(o, new)
  BY DEF Write, Typed, TypeOK
<1>2. new.pc = "account" /\ new.key = k /\ new.snap = owner[o].snap
  BY <1>1 DEF Owner
<1> HIDE DEF new
<1>3. Becomes(o, new)
  BY <1>1, OwnerAlone DEF Becomes
<1>c. Chunks(part) /\ Chunks(final)
  BY DEF Typed, TypeOK
<1> SUFFICES ASSUME NEW j \in Keys PROVE Adds(j)
  OBVIOUS
<1>4. ASSUME NEW v, PartHas(j, v)' PROVE PartHas(j, v)
  <2>1. CASE \E p \in Owners : Appends(p, "part", j)' /\ owner'[p].chunk = v
    BY <1>1, <1>2, <1>3, <2>1 DEF PartHas, Has, Appends, Becomes
  <2>2. CASE j \in DOMAIN part' /\ \E i \in DOMAIN part'[j] : part'[j][i] = v
    <3>1. CASE handle[o] = "part"
      <4>1. part' = [part EXCEPT ![k] = Append(@, chunk)]
        BY <1>1, <3>1
      <4>2. j \in DOMAIN part /\ ((\E i \in DOMAIN part[j] : part[j][i] = v) \/ (j = k /\ v = chunk))
        BY <1>c, <2>2, <4>1, OneMoreChunk
      <4> QED BY <1>1, <3>1, <4>2 DEF PartHas, Has, Appends
    <3>2. CASE handle[o] # "part"
      BY <1>1, <2>2, <3>2 DEF PartHas, Has
    <3> QED BY <3>1, <3>2
  <2> QED BY <1>4, <2>1, <2>2 DEF PartHas, Has
<1>5. ASSUME NEW v, FinalHas(j, v)' PROVE FinalHas(j, v)
  <2>1. CASE \E p \in Owners : Appends(p, "final", j)' /\ owner'[p].chunk = v
    BY <1>1, <1>2, <1>3, <2>1 DEF FinalHas, Has, Appends, Becomes
  <2>2. CASE j \in DOMAIN final' /\ \E i \in DOMAIN final'[j] : final'[j][i] = v
    <3>1. CASE handle[o] = "final"
      <4>1. final' = [final EXCEPT ![k] = Append(@, chunk)]
        BY <1>1, <3>1
      <4>2. j \in DOMAIN final /\ ((\E i \in DOMAIN final[j] : final[j][i] = v) \/ (j = k /\ v = chunk))
        BY <1>c, <2>2, <4>1, OneMoreChunk
      <4> QED BY <1>1, <3>1, <4>2 DEF FinalHas, Has, Appends
    <3>2. CASE handle[o] # "final"
      BY <1>1, <2>2, <3>2 DEF FinalHas, Has
    <3> QED BY <3>1, <3>2
  <2> QED BY <1>5, <2>1, <2>2 DEF FinalHas, Has
<1>6. \A t : Known(j, t)' => Known(j, t)
  BY <1>1, <1>2, <1>3 DEF Known, Becomes, Opened
<1>7. \A t : Promised(j, t)' => Promised(j, t)
  BY <1>1, <1>2, <1>3 DEF Promised, Becomes, Renamed
<1>8. remote'[j] \in Versions /\ remote[j] <= remote'[j]
  BY <1>1, RemoteStays DEF RemoteGrows
<1> QED BY <1>4, <1>5, <1>6, <1>7, <1>8 DEF Adds

LEMMA RenameAdds ==
  ASSUME Typed, FreshInv, NEW o \in Owners, Rename(o)
  PROVE  \A j \in Keys : Adds(j)
<1> DEFINE k == owner[o].key
<1>1. owner[o].pc = "rename" /\ UNCHANGED <<remote, rows>>
  BY DEF Rename
<1>2. CASE /\ Discard(k) \/ UNCHANGED <<part, sidecar>>
           /\ UNCHANGED final \/ final' = Without(final, {k})
           /\ \E r, hd : /\ End(o, r, hd) /\ hd \in [Owners -> Places]
                         /\ \A p \in Owners : hd[p] \in {handle[p], "gone", "none"}
  <2>1. DiskShrinks
    BY <1>1, <1>2, WithinFacts, DiscardShrinks DEF DiskShrinks
  <2> QED BY <1>1, <1>2, <2>1, EndAdds
<1>3. CASE /\ k \in DOMAIN part /\ Discard(k) /\ final' = Put(final, k, part[k])
           /\ handle' = [p \in Owners |->
                 CASE owner[p].key = k /\ handle[p] = "part"  -> "final"
                   [] owner[p].key = k /\ handle[p] = "final" -> "gone"
                   [] OTHER -> handle[p]]
           /\ Proceed(o, "check")
  <2>1. owner'[o].pc = "check" /\ owner'[o].key = k /\ owner'[o].snap = owner[o].snap /\ \A p \in Owners \ {o} : owner'[p] = owner[p]
    BY <1>3, ProceedsAlone
  <2>2. ASSUME NEW p \in Owners
        PROVE  /\ handle'[p] = "part" => handle[p] = "part" /\ owner[p].key # k
               /\ handle'[p] = "final" => IF owner[p].key = k THEN handle[p] = "part" ELSE handle[p] = "final"
    BY <1>3
  <2>3. /\ \A j \in DOMAIN part' : j # k /\ j \in DOMAIN part /\ part'[j] = part[j]
        /\ \A j \in DOMAIN sidecar' : j \in DOMAIN sidecar /\ sidecar'[j] = sidecar[j]
        /\ \A j \in DOMAIN final' : IF j = k THEN final'[j] = part[j] ELSE j \in DOMAIN final /\ final'[j] = final[j]
    BY <1>3 DEF Discard, Without, Put
  <2> SUFFICES ASSUME NEW j \in Keys PROVE Adds(j)
    OBVIOUS
  <2>4. \A v : PartHas(j, v)' => PartHas(j, v)
    BY <2>1, <2>2, <2>3 DEF PartHas, Has, Appends
  <2>5. \A v : FinalHas(j, v)' => IF j = k THEN PartHas(j, v) ELSE FinalHas(j, v)
    BY <1>3, <2>1, <2>2, <2>3 DEF FinalHas, PartHas, Has, Appends
  <2>6. \A t : Known(j, t)' => Known(j, t)
    BY <1>1, <2>1, <2>3 DEF Known, Opened
  <2>7. \A t : Promised(j, t)' => Promised(j, t) \/ (j = k /\ Known(j, t))
    BY <1>1, <2>1 DEF Promised, Known, Opened, Renamed
  <2>8. remote'[j] \in Versions /\ remote[j] <= remote'[j]
    BY <1>1, RemoteStays DEF RemoteGrows
  <2> QED BY <2>4, <2>5, <2>6, <2>7, <2>8 DEF Adds
<1>4. CASE ~ (/\ cancel_gen = owner[o].gen /\ k \in DOMAIN part /\ Len(part[k]) = Size[owner[o].snap])
  <2> DEFINE gone == [p \in Owners |-> IF owner[p].key = k /\ handle[p] # "none" THEN "gone" ELSE handle[p]]
  <2>1. gone \in [Owners -> Places] /\ \A p \in Owners : gone[p] \in {handle[p], "gone", "none"}
    BY HandleTyped DEF Places
  <2>2. \/ Discard(k) /\ UNCHANGED final /\ End(o, "cancelled", Unlinked(k, "part"))
        \/ End(o, "failed", handle) /\ UNCHANGED <<part, sidecar, final>>
        \/ Discard(k) /\ final' = Without(final, {k}) /\ End(o, "failed", gone)
    BY <1>4 DEF Rename
  <2> HIDE DEF gone
  <2> QED BY <1>2, <2>1, <2>2, PlainHandles
<1> QED BY <1>3, <1>4 DEF Rename

LEMMA UpsertAdds ==
  ASSUME Typed, FreshInv, NEW o \in Owners, Upsert(o)
  PROVE  \A j \in Keys : Adds(j)
<1> DEFINE k == owner[o].key
           s == owner[o].snap
           new == [NoOwner EXCEPT !.pc = "budget", !.key = k, !.aborted = owner[o].aborted]
<1>1. owner[o].pc = "upsert" /\ UNCHANGED <<remote, final, part, sidecar>>
  BY DEF Upsert
<1>2. CASE End(o, "failed", handle) /\ UNCHANGED rows
  <2>1. DiskShrinks
    BY <1>1, <1>2, WithinFacts DEF DiskShrinks
  <2> QED BY <1>1, <1>2, <2>1, PlainHandles, EndAdds
<1>3. CASE rows' = Put(rows, k, s) /\ Own(o, new) /\ UNCHANGED handle
  <2>1. new.pc = "budget"
    BY DEF NoOwner
  <2> HIDE DEF new
  <2>2. Becomes(o, new)
    BY <1>3, OwnerAlone DEF Becomes
  <2>3. \A j \in DOMAIN rows' : IF j = k THEN rows'[j] = s ELSE j \in DOMAIN rows /\ rows'[j] = rows[j]
    BY <1>3 DEF Put
  <2> SUFFICES ASSUME NEW j \in Keys PROVE Adds(j)
    OBVIOUS
  <2>4. \A v : (PartHas(j, v)' => PartHas(j, v)) /\ (FinalHas(j, v)' => FinalHas(j, v))
    BY <1>1, <1>3, <2>1, <2>2 DEF PartHas, FinalHas, Has, Appends, Becomes
  <2>5. \A t : Known(j, t)' => Known(j, t)
    BY <1>1, <2>1, <2>2, <2>3 DEF Known, Becomes, Opened
  <2>6. \A t : Promised(j, t)' => Promised(j, t)
    BY <1>1, <2>1, <2>2, <2>3 DEF Promised, Becomes, Renamed
  <2>7. remote'[j] \in Versions /\ remote[j] <= remote'[j]
    BY <1>1, RemoteStays DEF RemoteGrows
  <2> QED BY <2>4, <2>5, <2>6, <2>7 DEF Adds
<1> QED BY <1>2, <1>3 DEF Upsert

-----------------------------------------------------------------------------
LEMMA FreshInit == Init => FreshInv
<1> SUFFICES ASSUME Init PROVE FreshInv
  OBVIOUS
<1>1. /\ \A o \in Owners : owner[o].pc = "none"
      /\ DOMAIN rows = {} /\ DOMAIN sidecar = {} /\ DOMAIN part = {} /\ DOMAIN final = {}
  BY NoOwnerTyped, EmptyMapFacts DEF Init
<1>2. \A k, s : ~ Known(k, s) /\ ~ Promised(k, s) /\ ~ PartHas(k, s) /\ ~ FinalHas(k, s)
  BY <1>1 DEF Known, Promised, PartHas, FinalHas, Has, Appends, Opened, Renamed
<1> QED BY <1>1, <1>2 DEF FreshInv, AboutToOpen

LEMMA FreshStep == Typed /\ FreshInv /\ [Next]_vars => FreshInv'
<1> SUFFICES ASSUME Typed, FreshInv, [Next]_vars PROVE FreshInv'
  OBVIOUS
<1>1. ASSUME NEW o \in Owners, OwnerStep(o)
      PROVE  FreshInv'
  <2>1. \A k \in Keys : Adds(k)
    BY <1>1, QuietSteps, OpenAdds, AccountAdds, ReadAdds, WriteAdds, RenameAdds, UpsertAdds DEF OwnerStep
  <2> QED BY <1>1, <2>1, OwnerOpens, AddsKeep
<1>2. ASSUME NEW c \in Callers, CallStep(c) \/ Cancel(c) \/ DropCall(c)
      PROVE  FreshInv'
  BY <1>2, CallsAdd, AddsKeep
<1>3. CASE \/ \E c \in Callers, k \in Keys, e \in {Forced} \cup Epochs : Call(c, k, e)
           \/ \E x \in Clears : BeginClear(x) \/ ClearStep(x)
           \/ \E e \in Epochs : AdvanceEpoch(e)
           \/ \E k \in Keys : Replace(k)
           \/ Restart
           \/ UNCHANGED vars
  BY <1>3, OthersAdd, AddsKeep
<1> QED BY <1>1, <1>2, <1>3 DEF Next

\* A row of the version the origin has now stands for a file of that version
\* from its first chunk to its last, whatever was resumed, aborted, evicted or
\* interrupted by a restart on the way.
THEOREM FreshIsContent == Spec => []FreshMeansContent
<1>1. Typed /\ FreshInv => FreshMeansContent
  <2> SUFFICES ASSUME Typed, FreshInv, NEW k \in DOMAIN rows, rows[k] = remote[k], FileMatches(k, rows[k]),
                      NEW i \in 1 .. Len(final[k])
               PROVE  final[k][i] = rows[k]
    BY DEF FreshMeansContent
  <2>1. k \in Keys /\ rows[k] \in Versions /\ k \in DOMAIN final /\ final[k] \in Seq(Versions)
    BY DEF FileMatches, Typed, TypeOK, Chunks
  <2>2. final[k][i] \in Versions /\ FinalHas(k, final[k][i])
    BY <2>1 DEF FinalHas, Has
  <2>3. Promised(k, rows[k])
    BY DEF Promised
  <2>4. rows[k] <= final[k][i] /\ final[k][i] <= remote[k]
    BY <2>1, <2>2, <2>3 DEF FreshInv
  <2> QED BY <2>1, <2>2, <2>4 DEF Versions
<1> QED BY <1>1, TypedInit, TypedStep, FreshInit, FreshStep, PTL DEF Spec
=============================================================================
