----------------------------- MODULE RequestsProofs -----------------------------
(***************************************************************************)
(* Theorems about what a page asks for: the cache of media under any number *)
(* of requests, warm tasks and account commands, and the prefetch of any    *)
(* windows told in any order.                                               *)
(***************************************************************************)
EXTENDS MediaCache, ArchivePrefetch, SumLemmas

-----------------------------------------------------------------------------
(***************************************************************************)
(* Archive prefetch: the epoch of the materializer is the newest told.      *)
(***************************************************************************)

\* What a batch of the prefetcher is: what it asks for does not matter here.
IsBatch(batch) == DOMAIN batch = {"rels", "call"}

PrefetchInv ==
  /\ epoch_seq \in Nat /\ epoch \in Nat /\ newest = epoch
  /\ \A command \in sent : command.epoch \in Nat
  /\ \A e \in DOMAIN batches : IsBatch(batches[e])

LEMMA SendsTyped ==
  ASSUME PrefetchInv, NEW window, Sends(window)
  PROVE  epoch_seq' \in Nat /\ \A command \in sent' : command.epoch \in Nat
BY DEF PrefetchInv, Sends

LEMMA PageStepsKeep ==
  ASSUME PrefetchInv,
         (\E window \in Windows : Schedule(window)) \/ DebounceEnds \/ Dispose \/ Mount
  PROVE  PrefetchInv' /\ batches' = batches
<1>2. CASE \E window \in Windows : Schedule(window)
  BY <1>2 DEF Schedule, serverVars, PrefetchInv
<1>3. CASE DebounceEnds
  <2>1. epoch_seq' \in Nat /\ \A command \in sent' : command.epoch \in Nat
    BY <1>3, SendsTyped DEF DebounceEnds, PrefetchInv
  <2>. QED BY <1>3, <2>1 DEF DebounceEnds, serverVars, PrefetchInv
<1>4. CASE Dispose
  <2>1. epoch_seq' \in Nat /\ \A command \in sent' : command.epoch \in Nat
    BY <1>4, SendsTyped DEF Dispose
  <2>. QED BY <1>4, <2>1 DEF Dispose, serverVars, PrefetchInv
<1>5. CASE Mount
  BY <1>5 DEF Mount, serverVars, PrefetchInv
<1>. QED BY <1>2, <1>3, <1>4, <1>5

\* A window that is told makes the epoch at least its own.
LEMMA NotifyKeeps ==
  ASSUME PrefetchInv, NEW command \in sent, NotifyWindow(command)
  PROVE  PrefetchInv' /\ \A e \in DOMAIN batches' :
                           batches'[e].call # NoCall => e \in DOMAIN batches /\ batches[e] = batches'[e]
<1>1. command.epoch \in Nat /\ sent' \subseteq sent
  BY DEF PrefetchInv, NotifyWindow
<1>2. UNCHANGED <<epoch_seq, timer>>
  BY DEF NotifyWindow
<1>3. CASE ~enabled
  BY <1>1, <1>2, <1>3 DEF NotifyWindow, PrefetchInv
<1>4. CASE enabled
  <2> DEFINE told == [rels |-> command.rels, call |-> NoCall]
  <2>1. batches' = [e \in DOMAIN batches \cup {command.epoch} |->
                      IF e = command.epoch THEN told ELSE batches[e]]
    BY <1>4 DEF NotifyWindow
  <2>2. IsBatch(told) /\ told.call = NoCall
    BY DEF IsBatch
  <2> HIDE DEF told
  <2>3. \A e \in DOMAIN batches' : batches'[e] = IF e = command.epoch THEN told ELSE batches[e]
    BY <2>1
  <2>4. \A e \in DOMAIN batches' : IsBatch(batches'[e])
    BY <2>1, <2>2, <2>3 DEF PrefetchInv
  <2>5. epoch' \in Nat /\ newest' = epoch'
    BY <1>1, <1>4 DEF NotifyWindow, Advance, PrefetchInv
  <2>6. PrefetchInv'
    BY <1>1, <1>2, <2>4, <2>5 DEF PrefetchInv
  <2>7. ASSUME NEW e \in DOMAIN batches', batches'[e].call # NoCall
        PROVE  e \in DOMAIN batches /\ batches[e] = batches'[e]
    BY <2>1, <2>2, <2>3, <2>7
  <2>. QED BY <2>6, <2>7
<1>. QED BY <1>3, <1>4

\* What begins is of the batch of the materializer's epoch.
LEMMA NextRelKeeps ==
  ASSUME PrefetchInv, NEW e \in DOMAIN batches, NextRel(e)
  PROVE  /\ PrefetchInv'
         /\ \A o \in DOMAIN batches' : o \in DOMAIN batches
         /\ \A o \in DOMAIN batches' : (o # e \/ epoch # e \/ ~enabled) => batches'[o] = batches[o]
<1>1. UNCHANGED <<epoch_seq, timer, sent, epoch, newest>>
  BY DEF NextRel
<1>2. CASE batches[e].rels = <<>> \/ epoch # e \/ ~enabled
  <2>1. batches' = [o \in DOMAIN batches \ {e} |-> batches[o]]
    BY <1>2 DEF NextRel, Ended
  <2>. QED BY <1>1, <2>1 DEF PrefetchInv
<1>3. CASE ~(batches[e].rels = <<>> \/ epoch # e \/ ~enabled)
  <2> DEFINE new == [rels |-> Tail(batches[e].rels),
                     call |-> IF Head(batches[e].rels) \in Supported THEN Head(batches[e].rels) ELSE NoCall]
  <2>1. batches' = [batches EXCEPT ![e] = new]
    BY <1>3 DEF NextRel
  <2>3. IsBatch(new)
    BY DEF IsBatch
  <2> HIDE DEF new
  <2>4. DOMAIN batches' = DOMAIN batches /\ \A o \in DOMAIN batches : batches'[o] = IF o = e THEN new ELSE batches[o]
    BY <2>1
  <2>5. \A o \in DOMAIN batches' : IsBatch(batches'[o])
    BY <2>3, <2>4 DEF PrefetchInv
  <2>6. PrefetchInv'
    BY <1>1, <2>5 DEF PrefetchInv
  <2>. QED BY <1>3, <2>4, <2>6
<1>. QED BY <1>2, <1>3

LEMMA CallEndsKeeps ==
  ASSUME PrefetchInv, NEW e \in DOMAIN batches, CallEnds(e)
  PROVE  /\ PrefetchInv'
         /\ \A o \in DOMAIN batches' : o \in DOMAIN batches /\ (o # e => batches'[o] = batches[o])
         /\ batches'[e].call = NoCall
<1> DEFINE new == [batches[e] EXCEPT !.call = NoCall]
<1>1. UNCHANGED <<epoch_seq, timer, sent, epoch, newest>>
  BY DEF CallEnds
<1>2. batches' = [batches EXCEPT ![e] = new]
  BY DEF CallEnds
<1>3. IsBatch(new) /\ new.call = NoCall
  BY DEF PrefetchInv, IsBatch
<1> HIDE DEF new
<1>4. DOMAIN batches' = DOMAIN batches /\ \A o \in DOMAIN batches : batches'[o] = IF o = e THEN new ELSE batches[o]
  BY <1>2
<1>5. PrefetchInv'
  BY <1>1, <1>3, <1>4 DEF PrefetchInv
<1>. QED BY <1>3, <1>4, <1>5

LEMMA PrefetchStep ==
  ASSUME PrefetchInv, [PrefetchNext]_prefetchVars
  PROVE  PrefetchInv' /\ \A e \in 1 .. MaxEpoch : BeginsCall(e) => e = newest /\ enabled
<1>1. CASE (\E window \in Windows : Schedule(window)) \/ DebounceEnds \/ Dispose \/ Mount
  BY <1>1, PageStepsKeep DEF BeginsCall
<1>2. CASE \E value \in BOOLEAN : SetEnabled(value)
  BY <1>2 DEF SetEnabled, PrefetchInv, BeginsCall
<1>3. CASE \E command \in sent : NotifyWindow(command)
  BY <1>3, NotifyKeeps DEF BeginsCall
<1>4. CASE Prefetches
  <2>1. PICK e \in DOMAIN batches : NextRel(e) \/ CallEnds(e)
    BY <1>4 DEF Prefetches
  <2>2. CASE NextRel(e)
    BY <2>2, NextRelKeeps DEF BeginsCall, PrefetchInv
  <2>3. CASE CallEnds(e)
    BY <2>3, CallEndsKeeps DEF BeginsCall
  <2>. QED BY <2>1, <2>2, <2>3
<1>5. CASE UNCHANGED prefetchVars
  BY <1>5 DEF prefetchVars, PrefetchInv, BeginsCall
<1>. QED BY <1>1, <1>2, <1>3, <1>4, <1>5 DEF PrefetchNext

(* Whatever windows there are and in whatever order they arrive: a download  *)
(* begins only for the newest window told while prefetching was on, and only *)
(* while it is on (notify_window, advance_epoch, ensure_cached_cancellable). *)
THEOREM PrefetchForNewest == PrefetchSpec => BeginsForNewest
<1>1. PrefetchInit => PrefetchInv
  BY DEF PrefetchInit, PrefetchInv
<1>2. PrefetchInv /\ [PrefetchNext]_prefetchVars => PrefetchInv'
  BY PrefetchStep
<1>3. PrefetchInv /\ [PrefetchNext]_prefetchVars
        => [\A e \in 1 .. MaxEpoch : BeginsCall(e) => e = newest /\ enabled]_prefetchVars
  BY PrefetchStep
<1>. QED BY <1>1, <1>2, <1>3, PTL DEF PrefetchSpec, BeginsForNewest

-----------------------------------------------------------------------------
(***************************************************************************)
(* The cache of media: nothing but what was downloaded in the generation of *)
(* the cache is in its list, whatever the links between its entries are.    *)
(***************************************************************************)

EntryOK(entry, gen) == DOMAIN entry = {"media", "prev", "next"} /\ entry.media.gen = gen

MapOK(map, gen) == IsFiniteSet(DOMAIN map) /\ \A key \in DOMAIN map : EntryOK(map[key], gen)

LruOK(l) == DOMAIN l = {"map", "head", "tail", "bytes", "gen"} /\ MapOK(l.map, l.gen)

\* A link changes no page.
LEMMA LinkOK ==
  ASSUME NEW gen, NEW map, MapOK(map, gen), NEW key, NEW field \in {"prev", "next"}, NEW to
  PROVE  MapOK(Link(map, key, field, to), gen) /\ DOMAIN Link(map, key, field, to) = DOMAIN map
<1>1. CASE key = Nil
  BY <1>1 DEF Link
<1>2. CASE key # Nil
  <2> DEFINE new == [map[key] EXCEPT ![field] = to]
             linked == [map EXCEPT ![key] = new]
  <2>1. Link(map, key, field, to) = linked
    BY <1>2 DEF Link
  <2>2. ASSUME key \in DOMAIN map PROVE EntryOK(new, gen)
    BY <2>2 DEF MapOK, EntryOK
  <2> HIDE DEF new
  <2>3. DOMAIN linked = DOMAIN map /\ \A k \in DOMAIN map : linked[k] = IF k = key THEN new ELSE map[k]
    OBVIOUS
  <2>. QED BY <2>1, <2>2, <2>3 DEF MapOK
<1>. QED BY <1>1, <1>2

\* An entry less, or one more of the same generation.
LEMMA WithoutOK ==
  ASSUME NEW gen, NEW map, MapOK(map, gen), NEW S PROVE MapOK(Without(map, S), gen)
<1>1. DOMAIN Without(map, S) = DOMAIN map \ S
  BY DEF Without
<1>2. IsFiniteSet(DOMAIN map \ S)
  BY FS_Subset DEF MapOK
<1>3. \A key \in DOMAIN map \ S : Without(map, S)[key] = map[key]
  BY DEF Without
<1>. QED BY <1>1, <1>2, <1>3 DEF MapOK

LEMMA PutOK ==
  ASSUME NEW gen, NEW map, MapOK(map, gen), NEW key, NEW media, media.gen = gen, NEW next
  PROVE  MapOK(Put(map, key, Entry(media, next)), gen)
<1> DEFINE put == Put(map, key, Entry(media, next))
<1>1. DOMAIN put = DOMAIN map \cup {key}
  BY DEF Put
<1>2. IsFiniteSet(DOMAIN map \cup {key})
  BY FS_AddElement DEF MapOK
<1>3. \A k \in DOMAIN map \cup {key} : put[k] = IF k = key THEN Entry(media, next) ELSE map[k]
  BY DEF Put
<1>4. EntryOK(Entry(media, next), gen)
  BY DEF EntryOK, Entry
<1>. QED BY <1>1, <1>2, <1>3, <1>4 DEF MapOK

LEMMA DetachOK ==
  ASSUME NEW l, LruOK(l), NEW key
  PROVE  LruOK(Detach(l, key)) /\ Detach(l, key).gen = l.gen
<1> DEFINE e == l.map[key]
           map == Link(Link(Without(l.map, {key}), e.prev, "next", e.next), e.next, "prev", e.prev)
           bytes == l.bytes - SizeOf[e.media.page]
           head == IF l.head = key THEN e.next ELSE l.head
           tail == IF l.tail = key THEN e.prev ELSE l.tail
<1>1. MapOK(map, l.gen)
  BY WithoutOK, LinkOK DEF LruOK
<1>2. Detach(l, key) = [l EXCEPT !.map = map, !.bytes = bytes, !.head = head, !.tail = tail]
  BY DEF Detach
<1> HIDE DEF map, bytes, head, tail
<1>. QED BY <1>1, <1>2 DEF LruOK

LEMMA AtHeadOK ==
  ASSUME NEW l, LruOK(l), NEW key, NEW media, media.gen = l.gen
  PROVE  LruOK(AtHead(l, key, media)) /\ AtHead(l, key, media).gen = l.gen
<1> DEFINE map == Link(Put(l.map, key, Entry(media, l.head)), l.head, "prev", key)
           bytes == l.bytes + SizeOf[media.page]
           tail == IF l.head = Nil THEN key ELSE l.tail
<1>1. MapOK(map, l.gen)
  BY PutOK, LinkOK DEF LruOK
<1>2. AtHead(l, key, media) = [l EXCEPT !.map = map, !.bytes = bytes, !.head = key, !.tail = tail]
  BY DEF AtHead
<1> HIDE DEF map, bytes, tail
<1>. QED BY <1>1, <1>2 DEF LruOK

LEMMA TouchOK ==
  ASSUME NEW l, LruOK(l), NEW key \in DOMAIN l.map
  PROVE  LruOK(Touch(l, key)) /\ Touch(l, key).gen = l.gen
<1>1. l.map[key].media.gen = l.gen
  BY DEF LruOK, MapOK, EntryOK
<1> DEFINE media == l.map[key].media
<1> HIDE DEF media
<1>2. LruOK(AtHead(Detach(l, key), key, media)) /\ AtHead(Detach(l, key), key, media).gen = l.gen
  BY <1>1, DetachOK, AtHeadOK DEF media
<1>. QED BY <1>2 DEF Touch, media

-----------------------------------------------------------------------------
(***************************************************************************)
(* Making room is a fold over as many rounds as there are entries: what it  *)
(* returns, as the table of what is left after each set of rounds.          *)
(***************************************************************************)

RoomRow(l, size, g, s) == IF s = {} THEN l ELSE EvictTail(g[s \ {Max(s)}], size)

IsRoomTable(l, size, D, g) == g = [s \in SUBSET D |-> RoomRow(l, size, g, s)]

RoomTable(l, size, D) == CHOOSE g : IsRoomTable(l, size, D, g)

LEMMA RoomIsTable ==
  ASSUME NEW l, NEW size, NEW seq
  PROVE  FoldLeft(LAMBDA m, i : EvictTail(m, size), l, seq) = RoomTable(l, size, DOMAIN seq)[DOMAIN seq]
BY DEF FoldLeft, MapThenFoldSet, RoomTable, IsRoomTable, RoomRow

LEMMA RoomTableExists ==
  ASSUME NEW l, NEW size, NEW D \in SUBSET Nat, IsFiniteSet(D)
  PROVE  IsRoomTable(l, size, D, RoomTable(l, size, D))
<1> DEFINE Small(n) == {s \in SUBSET D : Cardinality(s) <= n}
           Upto(n, g) == g = [s \in Small(n) |-> RoomRow(l, size, g, s)]
           N == {n \in Nat : \E g : Upto(n, g)}
<1>1. ASSUME NEW s \in SUBSET D
      PROVE  /\ IsFiniteSet(s) /\ Cardinality(s) \in Nat
             /\ s # {} => /\ s \ {Max(s)} \in SUBSET D
                          /\ Cardinality(s \ {Max(s)}) = Cardinality(s) - 1
  <2>1. IsFiniteSet(s) /\ Cardinality(s) \in Nat
    BY FS_Subset, FS_CardinalityType
  <2>2. ASSUME s # {} PROVE Max(s) \in s
    BY <2>1, <2>2, MaxOfNats
  <2>3. ASSUME s # {} PROVE Cardinality(s \ {Max(s)}) = Cardinality(s) - 1
    BY <2>1, <2>2, <2>3, FS_RemoveElement
  <2>. QED BY <2>1, <2>3
<1>2. 0 \in N
  <2> DEFINE g == [s \in Small(0) |-> l]
  <2>1. ASSUME NEW s \in Small(0) PROVE s = {}
    <3>1. s \in SUBSET D /\ Cardinality(s) <= 0
      OBVIOUS
    <3>2. IsFiniteSet(s) /\ Cardinality(s) = 0
      <4>1. IsFiniteSet(s) /\ Cardinality(s) \in Nat
        BY <1>1, <3>1
      <4>. QED BY <4>1, <3>1
    <3>. QED BY <3>2, FS_EmptySet
  <2>2. Upto(0, g)
    BY <2>1 DEF RoomRow
  <2>. QED BY <2>2
<1>3. ASSUME NEW n \in N PROVE n + 1 \in N
  <2>1. n \in Nat
    OBVIOUS
  <2>2. PICK g : Upto(n, g)
    OBVIOUS
  <2> DEFINE h == [s \in Small(n + 1) |-> RoomRow(l, size, g, s)]
  <2>3. ASSUME NEW s \in Small(n) PROVE s \in Small(n + 1) /\ h[s] = g[s]
    <3>1. s \in SUBSET D /\ Cardinality(s) <= n
      OBVIOUS
    <3>2. Cardinality(s) <= n + 1
      <4>1. Cardinality(s) \in Nat
        BY <1>1, <3>1
      <4>. QED BY <4>1, <2>1, <3>1
    <3>3. s \in Small(n + 1)
      BY <3>1, <3>2
    <3>. QED BY <3>3, <2>2
  <2>4. ASSUME NEW s \in Small(n + 1) PROVE RoomRow(l, size, h, s) = RoomRow(l, size, g, s)
    <3>1. CASE s = {}
      BY <3>1 DEF RoomRow
    <3>2. CASE s # {}
      <4>1. s \ {Max(s)} \in Small(n)
        BY <1>1, <2>1, <3>2
      <4>2. h[s \ {Max(s)}] = g[s \ {Max(s)}]
        BY <4>1, <2>3
      <4>. QED BY <4>2, <3>2 DEF RoomRow
    <3>. QED BY <3>1, <3>2
  <2>5. Upto(n + 1, h)
    BY <2>4
  <2>6. \E q : Upto(n + 1, q)
    BY <2>5
  <2> HIDE DEF Upto
  <2>. QED BY <2>1, <2>6
<1>4. N = Nat
  <2>1. N \in SUBSET Nat
    OBVIOUS
  <2> HIDE DEF N
  <2>. QED BY <1>2, <1>3, <2>1, SetInduction
<1>5. Cardinality(D) \in N
  BY <1>4, FS_CardinalityType
<1>6. PICK g : Upto(Cardinality(D), g)
  BY <1>5
<1>7. Small(Cardinality(D)) = SUBSET D
  <2>1. ASSUME NEW s \in SUBSET D PROVE Cardinality(s) <= Cardinality(D)
    BY FS_Subset
  <2>. QED BY <2>1
<1>8. IsRoomTable(l, size, D, g)
  BY <1>6, <1>7 DEF IsRoomTable
<1>. QED BY <1>8 DEF RoomTable

\* A table of lists of the same generation.
LEMMA RoomTableOK ==
  ASSUME NEW l, LruOK(l), NEW size, NEW D \in SUBSET Nat, IsFiniteSet(D)
  PROVE  LruOK(RoomTable(l, size, D)[D]) /\ RoomTable(l, size, D)[D].gen = l.gen
<1> DEFINE T == RoomTable(l, size, D)
           Q == {s \in SUBSET D : LruOK(T[s]) /\ T[s].gen = l.gen}
<1>0. IsRoomTable(l, size, D, T)
  BY RoomTableExists
<1> HIDE DEF T
<1>1. T = [s \in SUBSET D |-> RoomRow(l, size, T, s)]
  BY <1>0 DEF IsRoomTable
<1>2. ASSUME NEW m, LruOK(m), m.gen = l.gen
      PROVE  LruOK(EvictTail(m, size)) /\ EvictTail(m, size).gen = l.gen
  BY <1>2, DetachOK DEF EvictTail
<1>3. ASSUME NEW s \in SUBSET D, \A x \in s : s \ {x} \in Q PROVE s \in Q
  <2>1. T[s] = RoomRow(l, size, T, s)
    BY <1>1
  <2>2. CASE s = {}
    BY <2>1, <2>2 DEF RoomRow
  <2>3. CASE s # {}
    <3>1. Max(s) \in s
      BY <2>3, FS_Subset, MaxOfNats
    <3>2. LruOK(T[s \ {Max(s)}]) /\ T[s \ {Max(s)}].gen = l.gen
      BY <3>1, <1>3
    <3>3. T[s] = EvictTail(T[s \ {Max(s)}], size)
      BY <2>1, <2>3 DEF RoomRow
    <3>. QED BY <3>2, <3>3, <1>2
  <2>. QED BY <2>2, <2>3
<1>4. Q \in SUBSET SUBSET D
  OBVIOUS
<1> HIDE DEF Q
<1>5. Q = SUBSET D
  BY <1>3, <1>4, SubsetInduction
<1>6. D \in Q
  BY <1>5
<1>. QED BY <1>6 DEF Q, T

\* The loop leaves a list of the same generation.
LEMMA RoomOK ==
  ASSUME NEW l, LruOK(l), NEW size
  PROVE  LruOK(MakeRoom(l, size)) /\ MakeRoom(l, size).gen = l.gen
<1> DEFINE n == Cardinality(DOMAIN l.map)
           rounds == [i \in 1 .. n |-> i]
<1>1. n \in Nat
  BY FS_CardinalityType DEF LruOK, MapOK
<1> HIDE DEF n
<1>2. DOMAIN rounds \in SUBSET Nat /\ IsFiniteSet(DOMAIN rounds)
  BY <1>1, FS_Interval
<1>3. MakeRoom(l, size) = FoldLeft(LAMBDA m, i : EvictTail(m, size), l, rounds)
  BY DEF MakeRoom, n
<1> HIDE DEF rounds
<1>4. MakeRoom(l, size) = RoomTable(l, size, DOMAIN rounds)[DOMAIN rounds]
  BY <1>3, RoomIsTable
<1>. QED BY <1>2, <1>4, RoomTableOK

LEMMA PutMediaOK ==
  ASSUME NEW l, LruOK(l), NEW key, NEW media, media.gen = l.gen
  PROVE  LruOK(PutMedia(l, key, media)) /\ PutMedia(l, key, media).gen = l.gen
<1> DEFINE size == SizeOf[media.page]
           old == IF key \in DOMAIN l.map THEN Detach(l, key) ELSE l
           room == MakeRoom(old, size)
<1>1. PutMedia(l, key, media) = IF size > Cap THEN l ELSE AtHead(room, key, media)
  BY DEF PutMedia
<1>2. LruOK(old) /\ old.gen = l.gen
  BY DetachOK
<1> HIDE DEF size, old
<1>3. LruOK(room) /\ room.gen = l.gen
  BY <1>2, RoomOK
<1> HIDE DEF room
<1>4. LruOK(AtHead(room, key, media)) /\ AtHead(room, key, media).gen = l.gen
  BY <1>3, AtHeadOK
<1>. QED BY <1>1, <1>4

-----------------------------------------------------------------------------
(***************************************************************************)
(* The invariant: what the list holds, who is in the registry and for whom  *)
(* its waiters wait, and what the account keeps while a command is under way.*)
(***************************************************************************)

Busy(t) == tasks[t].phase \in {"begin", "fetching", "stored", "failed", "leave", "leave failed"}

Pending(t) == tasks[t].outcome = "pending"

TasksShaped ==
  /\ DOMAIN tasks = Tasks
  /\ \A t \in Tasks :
       DOMAIN tasks[t] = {"phase", "warm", "page", "ver", "gen", "owner", "outcome", "session"}

\* Who downloads is in the registry, and nobody else is.
BusyRegistered == \A t \in Tasks : Busy(t) => Key(t) \in DOMAIN inflight /\ inflight[Key(t)] = t
RegisteredBusy ==
  \A key \in DOMAIN inflight : inflight[key] \in Tasks /\ Busy(inflight[key]) /\ Key(inflight[key]) = key

\* Who leaves has told its waiters, and a waiter that was not told waits for
\* one that still downloads its page.
LeaversTold == \A t \in Tasks : tasks[t].phase \in {"leave", "leave failed"} => ~Pending(t)
WaitersWait ==
  \A t \in Tasks : tasks[t].phase = "wait" =>
    /\ tasks[t].owner \in Tasks
    /\ Pending(tasks[t].owner) => Busy(tasks[t].owner) /\ Key(tasks[t].owner) = Key(t)

RegistryInv == TasksShaped /\ BusyRegistered /\ RegisteredBusy /\ LeaversTold /\ WaitersWait

\* Unless a statement failed beside the keyring, an edit can go back to the row
\* of the password that is kept, and a deletion that kept the password to its row.
AccountInv ==
  /\ DOMAIN account = {"row", "secret", "torn", "command"} /\ account.torn \in BOOLEAN /\ edits \in Nat
  /\ account.row \in Rows \cup {Nil} /\ account.command \in Commands \cup {Nil}
  /\ SecretOfRow
  /\ ~Free /\ account.command.kind = "edit" =>
       /\ account.row \in Rows /\ account.command.old \in Rows
       /\ ~account.torn => account.secret = account.command.old.secret
       /\ ~account.command.password => account.row.secret = account.command.old.secret
  /\ ~Free /\ account.command.kind = "delete" =>
       /\ account.row \in Rows
       /\ ~account.torn /\ ~account.command.forgets => account.secret = account.row.secret

MediaInv == LruOK(lru) /\ RegistryInv /\ AccountInv

-----------------------------------------------------------------------------
(***************************************************************************)
(* Requests and warm tasks, and the registry.                               *)
(***************************************************************************)

BusyPhases == {"begin", "fetching", "stored", "failed", "leave", "leave failed"}

\* A step of one task that changes neither the registry nor whose page it
\* downloads, and takes back nothing it has told.
Quiet(t, new) ==
  /\ tasks' = [tasks EXCEPT ![t] = new] /\ inflight' = inflight
  /\ DOMAIN new = {"phase", "warm", "page", "ver", "gen", "owner", "outcome", "session"}
  /\ new.phase # "wait"
  /\ new.phase \in {"leave", "leave failed"} => new.outcome # "pending"
  /\ new.phase \in BusyPhases <=> Busy(t)
  /\ Busy(t) => new.warm = tasks[t].warm /\ new.page = tasks[t].page
  /\ new.outcome = "pending" => Pending(t) \/ Waiters(t) = {}

LEMMA QuietKeeps ==
  ASSUME RegistryInv, NEW t \in Tasks, NEW new, Quiet(t, new) PROVE RegistryInv'
<1>1. DOMAIN tasks' = Tasks /\ tasks'[t] = new /\ \A u \in Tasks : u # t => tasks'[u] = tasks[u]
  BY DEF RegistryInv, TasksShaped, Quiet
<1>2. TasksShaped'
  BY <1>1 DEF RegistryInv, TasksShaped, Quiet
<1>3. \A u \in Tasks : u # t => Key(u)' = Key(u) /\ (Busy(u)' <=> Busy(u)) /\ (Pending(u)' <=> Pending(u))
  BY <1>1 DEF Key, Busy, Pending
<1>4. Busy(t)' <=> Busy(t)
  BY <1>1 DEF Quiet, Busy, BusyPhases
<1>5. Busy(t) => Key(t)' = Key(t)
  BY <1>1 DEF Quiet, Key
<1>6. \A u \in Tasks : (Busy(u)' <=> Busy(u)) /\ (Busy(u) => Key(u)' = Key(u))
  BY <1>3, <1>4, <1>5
<1>7. inflight' = inflight
  BY DEF Quiet
<1>8. BusyRegistered'
  BY <1>6, <1>7 DEF RegistryInv, BusyRegistered
<1>9. RegisteredBusy'
  BY <1>6, <1>7 DEF RegistryInv, RegisteredBusy
<1>10. LeaversTold'
  BY <1>1 DEF RegistryInv, LeaversTold, Quiet, Pending
<1>11. WaitersWait'
  <2>1. SUFFICES ASSUME NEW u \in Tasks, tasks'[u].phase = "wait"
                 PROVE  /\ tasks'[u].owner \in Tasks
                        /\ Pending(tasks[u].owner)' => Busy(tasks[u].owner)' /\ Key(tasks[u].owner)' = Key(u)'
    BY DEF WaitersWait
  <2>2. u # t /\ tasks'[u] = tasks[u] /\ Key(u)' = Key(u)
    BY <1>1, <1>3, <2>1 DEF Quiet
  <2>3. PICK o \in Tasks : o = tasks[u].owner /\ (Pending(o) => Busy(o) /\ Key(o) = Key(u))
    BY <2>1, <2>2 DEF RegistryInv, WaitersWait
  <2>4. u \in Waiters(o)
    BY <2>1, <2>2, <2>3 DEF Waiters
  <2>5. Pending(o)' => Pending(o)
    <3>1. CASE o = t
      BY <1>1, <2>4, <3>1 DEF Quiet, Pending
    <3>2. CASE o # t
      BY <1>3, <3>2
    <3>. QED BY <3>1, <3>2
  <2>6. Pending(o)' => Busy(o)' /\ Key(o)' = Key(u)'
    BY <1>6, <2>2, <2>3, <2>5
  <2>7. tasks'[u].owner = o
    BY <2>2, <2>3
  <2>. QED BY <2>6, <2>7 DEF Pending, Busy, Key
<1>. QED BY <1>2, <1>8, <1>9, <1>10, <1>11 DEF RegistryInv

\* A task that goes on, and one that ends without having downloaded.
LEMMA GoesKeeps ==
  ASSUME RegistryInv, NEW t \in Tasks, NEW phase, Goes(t, phase), inflight' = inflight,
         phase \notin {"wait", "leave", "leave failed"}, phase \in BusyPhases <=> Busy(t)
  PROVE  RegistryInv'
<1> DEFINE new == [tasks[t] EXCEPT !.phase = phase]
<1>1. tasks' = [tasks EXCEPT ![t] = new]
  BY DEF Goes
<1>2. DOMAIN new = DOMAIN tasks[t] /\ new.phase = phase /\ new.warm = tasks[t].warm
      /\ new.page = tasks[t].page /\ new.outcome = tasks[t].outcome
  BY DEF RegistryInv, TasksShaped
<1> HIDE DEF new
<1>3. Quiet(t, new)
  BY <1>1, <1>2 DEF Quiet, RegistryInv, TasksShaped, Pending
<1>. QED BY <1>3, QuietKeeps

LEMMA EndsKeeps ==
  ASSUME RegistryInv, NEW t \in Tasks, Ends(t), inflight' = inflight, ~Busy(t)
  PROVE  RegistryInv'
<1> DEFINE new == [Idle EXCEPT !.outcome = tasks[t].outcome]
<1>1. tasks' = [tasks EXCEPT ![t] = new]
  BY DEF Ends
<1>2. DOMAIN new = {"phase", "warm", "page", "ver", "gen", "owner", "outcome", "session"}
      /\ new.phase = "idle" /\ new.outcome = tasks[t].outcome
  BY DEF Idle
<1> HIDE DEF new
<1>3. Quiet(t, new)
  BY <1>1, <1>2 DEF Quiet, BusyPhases, Pending
<1>. QED BY <1>3, QuietKeeps

\* A task that begins anew has nobody left to tell.
LEMMA BeginsKeep ==
  ASSUME RegistryInv, NEW t \in Tasks, NEW page \in Pages, Ask(t, page) \/ Warm(t, page)
  PROVE  RegistryInv'
<1>1. ~Busy(t) /\ Waiters(t) = {} /\ inflight' = inflight
  BY DEF Ask, Warm, Busy
<1>2. CASE Ask(t, page)
  <2> DEFINE ver == IF page \in LocalPages THEN Nil ELSE account.row.ver
             new == [Idle EXCEPT !.phase = "stat", !.page = page, !.ver = ver]
  <2>1. tasks' = [tasks EXCEPT ![t] = new]
    BY <1>2 DEF Ask
  <2> HIDE DEF ver
  <2>2. DOMAIN new = {"phase", "warm", "page", "ver", "gen", "owner", "outcome", "session"}
        /\ new.phase = "stat"
    BY DEF Idle
  <2> HIDE DEF new
  <2>3. Quiet(t, new)
    BY <1>1, <2>1, <2>2 DEF Quiet, BusyPhases
  <2>. QED BY <2>3, QuietKeeps
<1>3. CASE Warm(t, page)
  <2> DEFINE new == [Idle EXCEPT !.phase = "check", !.warm = TRUE, !.page = page, !.session = session]
  <2>1. tasks' = [tasks EXCEPT ![t] = new]
    BY <1>3 DEF Warm
  <2>2. DOMAIN new = {"phase", "warm", "page", "ver", "gen", "owner", "outcome", "session"}
        /\ new.phase = "check"
    BY DEF Idle
  <2> HIDE DEF new
  <2>3. Quiet(t, new)
    BY <1>1, <2>1, <2>2 DEF Quiet, BusyPhases
  <2>. QED BY <2>3, QuietKeeps
<1>. QED BY <1>2, <1>3

LEMMA WarmStartsKeeps ==
  ASSUME RegistryInv, NEW t \in Tasks, WarmStarts(t) PROVE RegistryInv'
<1>1. ~Busy(t) /\ inflight' = inflight
  BY DEF WarmStarts, Busy
<1>2. CASE Ends(t)
  BY <1>1, <1>2, EndsKeeps
<1>3. CASE tasks' = [tasks EXCEPT ![t] = [@ EXCEPT !.phase = "join", !.ver = account.row.ver, !.session = Nil]]
  <2> DEFINE new == [tasks[t] EXCEPT !.phase = "join", !.ver = account.row.ver, !.session = Nil]
  <2>1. tasks' = [tasks EXCEPT ![t] = new]
    BY <1>3
  <2>2. DOMAIN new = DOMAIN tasks[t] /\ new.phase = "join" /\ new.outcome = tasks[t].outcome
    BY DEF RegistryInv, TasksShaped
  <2> HIDE DEF new
  <2>3. Quiet(t, new)
    BY <1>1, <2>1, <2>2 DEF Quiet, BusyPhases, RegistryInv, TasksShaped, Pending
  <2>. QED BY <2>3, QuietKeeps
<1>. QED BY <1>2, <1>3 DEF WarmStarts

LEMMA TakeGenerationKeeps ==
  ASSUME RegistryInv, NEW t \in Tasks, TakeGeneration(t) PROVE RegistryInv'
<1> DEFINE new == [tasks[t] EXCEPT !.phase = "fetching", !.gen = lru.gen]
<1>1. Busy(t) /\ inflight' = inflight
  BY DEF TakeGeneration, Busy
<1>2. tasks' = [tasks EXCEPT ![t] = new]
  BY DEF TakeGeneration
<1>3. DOMAIN new = DOMAIN tasks[t] /\ new.phase = "fetching" /\ new.warm = tasks[t].warm
      /\ new.page = tasks[t].page /\ new.outcome = tasks[t].outcome
  BY DEF RegistryInv, TasksShaped
<1> HIDE DEF new
<1>4. Quiet(t, new)
  BY <1>1, <1>2, <1>3 DEF Quiet, BusyPhases, RegistryInv, TasksShaped, Pending
<1>. QED BY <1>4, QuietKeeps

\* The outcome is told before the registry is left.
LEMMA SendKeeps ==
  ASSUME RegistryInv, NEW t \in Tasks, Send(t) PROVE RegistryInv'
<1> DEFINE outcome == IF tasks[t].phase = "stored" THEN "done" ELSE "failed"
           phase == IF tasks[t].phase = "stored" THEN "leave" ELSE "leave failed"
           new == [tasks[t] EXCEPT !.outcome = outcome, !.phase = phase]
<1>1. Busy(t) /\ inflight' = inflight
  BY DEF Send, Busy
<1>2. tasks' = [tasks EXCEPT ![t] = new]
  BY DEF Send
<1>3. outcome # "pending" /\ phase \in {"leave", "leave failed"}
  OBVIOUS
<1> HIDE DEF outcome, phase
<1>4. DOMAIN new = DOMAIN tasks[t] /\ new.phase = phase /\ new.warm = tasks[t].warm
      /\ new.page = tasks[t].page /\ new.outcome = outcome
  BY DEF RegistryInv, TasksShaped
<1> HIDE DEF new
<1>5. Quiet(t, new)
  BY <1>1, <1>2, <1>3, <1>4 DEF Quiet, BusyPhases, RegistryInv, TasksShaped
<1>. QED BY <1>5, QuietKeeps

\* Whoever comes waits for the one of the registry, or enters it.
LEMMA JoinKeeps ==
  ASSUME RegistryInv, NEW t \in Tasks, Join(t) PROVE RegistryInv'
<1>1. tasks[t].phase = "join" /\ ~Busy(t)
  BY DEF Join, Busy
<1>2. CASE Key(t) \in DOMAIN inflight
  <2> DEFINE o == inflight[Key(t)]
             new == [tasks[t] EXCEPT !.phase = "wait", !.owner = o]
  <2>1. tasks' = [tasks EXCEPT ![t] = new] /\ inflight' = inflight
    BY <1>2 DEF Join
  <2>2. o \in Tasks /\ Busy(o) /\ Key(o) = Key(t)
    BY <1>2 DEF RegistryInv, RegisteredBusy
  <2>3. o # t
    BY <1>1, <2>2
  <2> HIDE DEF o
  <2>4. DOMAIN new = DOMAIN tasks[t] /\ new.phase = "wait" /\ new.owner = o /\ new.warm = tasks[t].warm
        /\ new.page = tasks[t].page /\ new.outcome = tasks[t].outcome
    BY DEF RegistryInv, TasksShaped
  <2> HIDE DEF new
  <2>5. DOMAIN tasks' = Tasks /\ tasks'[t] = new /\ \A u \in Tasks : u # t => tasks'[u] = tasks[u]
    BY <2>1 DEF RegistryInv, TasksShaped
  <2>6. \A u \in Tasks : Key(u)' = Key(u) /\ (Busy(u)' <=> Busy(u)) /\ (Pending(u)' <=> Pending(u))
    BY <1>1, <2>4, <2>5 DEF Key, Busy, Pending
  <2>7. TasksShaped'
    BY <2>4, <2>5 DEF RegistryInv, TasksShaped
  <2>8. BusyRegistered' /\ RegisteredBusy'
    BY <2>1, <2>6 DEF RegistryInv, BusyRegistered, RegisteredBusy
  <2>9. LeaversTold'
    BY <2>4, <2>5, <2>6 DEF RegistryInv, LeaversTold
  <2>10. ASSUME NEW u \in Tasks, tasks'[u].phase = "wait"
         PROVE  \E w \in Tasks : w = tasks'[u].owner /\ (Pending(w)' => Busy(w)' /\ Key(w)' = Key(u)')
    <3>1. CASE u = t
      BY <2>2, <2>4, <2>5, <2>6, <3>1
    <3>2. CASE u # t
      BY <2>5, <2>6, <2>10, <3>2 DEF RegistryInv, WaitersWait
    <3>. QED BY <3>1, <3>2
  <2>11. WaitersWait'
    <3>1. SUFFICES ASSUME NEW u \in Tasks, tasks'[u].phase = "wait"
                   PROVE  /\ tasks'[u].owner \in Tasks
                          /\ Pending(tasks[u].owner)' => Busy(tasks[u].owner)' /\ Key(tasks[u].owner)' = Key(u)'
      BY DEF WaitersWait
    <3>2. PICK w \in Tasks : w = tasks'[u].owner /\ (Pending(w)' => Busy(w)' /\ Key(w)' = Key(u)')
      BY <2>10, <3>1
    <3>. QED BY <3>2 DEF Pending, Busy, Key
  <2>. QED BY <2>7, <2>8, <2>9, <2>11 DEF RegistryInv
<1>3. CASE Key(t) \notin DOMAIN inflight
  <2> DEFINE new == [tasks[t] EXCEPT !.phase = "begin"]
  <2>1. tasks' = [tasks EXCEPT ![t] = new] /\ inflight' = Put(inflight, Key(t), t)
    BY <1>3 DEF Join, Goes
  <2>2. DOMAIN new = DOMAIN tasks[t] /\ new.phase = "begin" /\ new.warm = tasks[t].warm
        /\ new.page = tasks[t].page /\ new.outcome = tasks[t].outcome
    BY DEF RegistryInv, TasksShaped
  <2> HIDE DEF new
  <2>3. DOMAIN tasks' = Tasks /\ tasks'[t] = new /\ \A u \in Tasks : u # t => tasks'[u] = tasks[u]
    BY <2>1 DEF RegistryInv, TasksShaped
  <2>4. \A u \in Tasks : Key(u)' = Key(u) /\ (Busy(u)' <=> Busy(u) \/ u = t) /\ (Pending(u)' <=> Pending(u))
    BY <2>2, <2>3 DEF Key, Busy, Pending
  <2>5. /\ DOMAIN inflight' = DOMAIN inflight \cup {Key(t)} /\ inflight'[Key(t)] = t
        /\ \A key \in DOMAIN inflight : inflight'[key] = inflight[key]
    BY <1>3, <2>1 DEF Put
  <2>6. TasksShaped'
    BY <2>2, <2>3 DEF RegistryInv, TasksShaped
  <2>7. BusyRegistered'
    BY <2>4, <2>5 DEF RegistryInv, BusyRegistered
  <2>8. RegisteredBusy'
    BY <2>4, <2>5 DEF RegistryInv, RegisteredBusy
  <2>9. LeaversTold'
    BY <2>2, <2>3, <2>4 DEF RegistryInv, LeaversTold
  <2>10. ASSUME NEW u \in Tasks, tasks'[u].phase = "wait"
         PROVE  \E w \in Tasks : w = tasks'[u].owner /\ (Pending(w)' => Busy(w)' /\ Key(w)' = Key(u)')
    <3>1. u # t
      BY <2>2, <2>3, <2>10
    <3>. QED BY <2>3, <2>4, <2>10, <3>1 DEF RegistryInv, WaitersWait
  <2>11. WaitersWait'
    <3>1. SUFFICES ASSUME NEW u \in Tasks, tasks'[u].phase = "wait"
                   PROVE  /\ tasks'[u].owner \in Tasks
                          /\ Pending(tasks[u].owner)' => Busy(tasks[u].owner)' /\ Key(tasks[u].owner)' = Key(u)'
      BY DEF WaitersWait
    <3>2. PICK w \in Tasks : w = tasks'[u].owner /\ (Pending(w)' => Busy(w)' /\ Key(w)' = Key(u)')
      BY <2>10, <3>1
    <3>. QED BY <3>2 DEF Pending, Busy, Key
  <2>. QED BY <2>6, <2>7, <2>8, <2>9, <2>11 DEF RegistryInv
<1>. QED BY <1>2, <1>3

\* Whoever leaves takes its own entry, and has told all who wait for it.
LEMMA LeaveKeeps ==
  ASSUME RegistryInv, NEW t \in Tasks, Leave(t) PROVE RegistryInv'
<1>1. Busy(t) /\ ~Pending(t)
  BY DEF Leave, Busy, RegistryInv, LeaversTold
<1>2. PICK new : /\ tasks' = [tasks EXCEPT ![t] = new]
                 /\ DOMAIN new = {"phase", "warm", "page", "ver", "gen", "owner", "outcome", "session"}
                 /\ new.phase \in {"idle", "again"} /\ new.outcome = tasks[t].outcome
  <2>1. CASE Goes(t, "again")
    <3> DEFINE new == [tasks[t] EXCEPT !.phase = "again"]
    <3>1. tasks' = [tasks EXCEPT ![t] = new]
      BY <2>1 DEF Goes
    <3>2. /\ DOMAIN new = {"phase", "warm", "page", "ver", "gen", "owner", "outcome", "session"}
          /\ new.phase = "again" /\ new.outcome = tasks[t].outcome
      BY DEF RegistryInv, TasksShaped
    <3> HIDE DEF new
    <3>. QED BY <3>1, <3>2
  <2>2. CASE Ends(t)
    <3> DEFINE new == [Idle EXCEPT !.outcome = tasks[t].outcome]
    <3>1. tasks' = [tasks EXCEPT ![t] = new]
      BY <2>2 DEF Ends
    <3>2. /\ DOMAIN new = {"phase", "warm", "page", "ver", "gen", "owner", "outcome", "session"}
          /\ new.phase = "idle" /\ new.outcome = tasks[t].outcome
      BY DEF Idle
    <3> HIDE DEF new
    <3>. QED BY <3>1, <3>2
  <2>. QED BY <2>1, <2>2 DEF Leave
<1>3. DOMAIN tasks' = Tasks /\ tasks'[t] = new /\ \A u \in Tasks : u # t => tasks'[u] = tasks[u]
  BY <1>2 DEF RegistryInv, TasksShaped
<1>4. \A u \in Tasks : u # t => Key(u)' = Key(u) /\ (Busy(u)' <=> Busy(u))
  BY <1>3 DEF Key, Busy
<1>5. ~Busy(t)' /\ \A u \in Tasks : Pending(u)' <=> Pending(u)
  BY <1>2, <1>3 DEF Busy, Pending
<1>6. inflight[Key(t)] = t
  BY <1>1 DEF RegistryInv, BusyRegistered
<1>7. DOMAIN inflight' = DOMAIN inflight \ {Key(t)} /\ \A key \in DOMAIN inflight' : inflight'[key] = inflight[key]
  BY DEF Leave, Without
<1>8. TasksShaped'
  BY <1>2, <1>3 DEF RegistryInv, TasksShaped
<1>9. BusyRegistered'
  <2>1. ASSUME NEW u \in Tasks, Busy(u)' PROVE Key(u)' \in DOMAIN inflight' /\ inflight'[Key(u)'] = u
    <3>1. u # t
      BY <1>5, <2>1
    <3>2. Key(u)' = Key(u) /\ Key(u) \in DOMAIN inflight /\ inflight[Key(u)] = u
      BY <1>4, <2>1, <3>1 DEF RegistryInv, BusyRegistered
    <3>3. Key(u) # Key(t)
      BY <1>6, <3>1, <3>2
    <3>. QED BY <1>7, <3>2, <3>3
  <2>. QED BY <2>1 DEF BusyRegistered
<1>10. RegisteredBusy'
  <2>1. ASSUME NEW key \in DOMAIN inflight'
        PROVE  \E w \in Tasks : w = inflight'[key] /\ Busy(w)' /\ Key(w)' = key
    <3>1. key \in DOMAIN inflight /\ key # Key(t) /\ inflight'[key] = inflight[key]
      BY <1>7
    <3>2. inflight[key] \in Tasks /\ Busy(inflight[key]) /\ Key(inflight[key]) = key
      BY <3>1 DEF RegistryInv, RegisteredBusy
    <3>. QED BY <1>4, <3>1, <3>2
  <2>2. SUFFICES ASSUME NEW key \in DOMAIN inflight'
                 PROVE  inflight'[key] \in Tasks /\ Busy(inflight[key])' /\ Key(inflight[key])' = key
    BY DEF RegisteredBusy
  <2>. QED BY <2>1, <2>2 DEF Busy, Key
<1>11. LeaversTold'
  BY <1>2, <1>3, <1>5 DEF RegistryInv, LeaversTold
<1>12. WaitersWait'
  <2>1. SUFFICES ASSUME NEW u \in Tasks, tasks'[u].phase = "wait"
                 PROVE  /\ tasks'[u].owner \in Tasks
                        /\ Pending(tasks[u].owner)' => Busy(tasks[u].owner)' /\ Key(tasks[u].owner)' = Key(u)'
    BY DEF WaitersWait
  <2>2. u # t /\ tasks'[u] = tasks[u]
    BY <1>2, <1>3, <2>1
  <2>3. PICK o \in Tasks : o = tasks[u].owner /\ (Pending(o) => Busy(o) /\ Key(o) = Key(u))
    BY <2>1, <2>2 DEF RegistryInv, WaitersWait
  <2>4. Pending(o)' => Busy(o)' /\ Key(o)' = Key(u)'
    BY <1>1, <1>4, <1>5, <2>2, <2>3
  <2>5. tasks'[u].owner = o
    BY <2>2, <2>3
  <2>. QED BY <2>4, <2>5 DEF Pending, Busy, Key
<1>. QED BY <1>8, <1>9, <1>10, <1>11, <1>12 DEF RegistryInv

LEMMA MovesKeepRegistry ==
  ASSUME RegistryInv, NEW t \in Tasks, Moves(t) PROVE RegistryInv'
<1>1. CASE StatOrStraight(t)
  BY <1>1, EndsKeeps DEF StatOrStraight, Busy
<1>2. CASE Look(t)
  BY <1>2, EndsKeeps, GoesKeeps DEF Look, Busy, BusyPhases
<1>3. CASE WarmStarts(t)
  BY <1>3, WarmStartsKeeps
<1>4. CASE Join(t)
  BY <1>4, JoinKeeps
<1>5. CASE Woken(t)
  BY <1>5, EndsKeeps, GoesKeeps DEF Woken, Busy, BusyPhases
<1>6. CASE TakeGeneration(t)
  BY <1>6, TakeGenerationKeeps
<1>7. CASE FetchFails(t)
  BY <1>7, GoesKeeps DEF FetchFails, Busy, BusyPhases
<1>8. CASE Store(t)
  <2>1. Busy(t) /\ inflight' = inflight /\ (Goes(t, "stored") \/ Goes(t, "failed"))
    BY <1>8 DEF Store, Busy
  <2>. QED BY <2>1, GoesKeeps DEF BusyPhases
<1>9. CASE Send(t)
  BY <1>9, SendKeeps
<1>10. CASE Leave(t)
  BY <1>10, LeaveKeeps
<1>11. CASE LookAgain(t)
  BY <1>11, EndsKeeps DEF LookAgain, Busy
<1>. QED BY <1>1, <1>2, <1>3, <1>4, <1>5, <1>6, <1>7, <1>8, <1>9, <1>10, <1>11 DEF Moves

-----------------------------------------------------------------------------
(***************************************************************************)
(* What tasks do to the list, and what account commands do.                 *)
(***************************************************************************)

LEMMA MovesKeepList ==
  ASSUME LruOK(lru), NEW t \in Tasks, Moves(t) PROVE LruOK(lru')
<1>1. CASE lru' = lru
  BY <1>1
<1>2. CASE Key(t) \in DOMAIN lru.map /\ lru' = Touch(lru, Key(t))
  BY <1>2, TouchOK
<1>3. CASE Store(t)
  <2> DEFINE media == [page |-> tasks[t].page, ver |-> tasks[t].ver, gen |-> tasks[t].gen]
             key == Key(t)
  <2>1. lru' = IF lru.gen = tasks[t].gen THEN PutMedia(lru, key, media) ELSE lru
    BY <1>3 DEF Store, PutIfGeneration
  <2>2. media.gen = tasks[t].gen
    OBVIOUS
  <2> HIDE DEF media, key
  <2>. QED BY <2>1, <2>2, PutMediaOK
<1>. QED BY <1>1, <1>2, <1>3
  DEF Moves, StatOrStraight, Look, WarmStarts, Join, Woken, TakeGeneration, FetchFails, Send, Leave, LookAgain

LEMMA ClearedOK == ASSUME ClearAndBump PROVE LruOK(lru')
<1>1. lru'.map = EmptyMap /\ DOMAIN lru' = {"map", "head", "tail", "bytes", "gen"}
  BY DEF ClearAndBump
<1>2. DOMAIN EmptyMap = {}
  BY DEF EmptyMap
<1>3. IsFiniteSet({})
  BY FS_EmptySet
<1>. QED BY <1>1, <1>2, <1>3 DEF LruOK, MapOK

\* A command is none of the rows, and neither is a row Nil.
LEMMA NoneIsNil ==
  ASSUME MediaAssumption
  PROVE  /\ Nil \notin Rows /\ Nil \notin Commands
         /\ \A row \in Rows, password \in BOOLEAN :
              [kind |-> "edit", old |-> row, password |-> password] \in Commands
         /\ \A forgets \in BOOLEAN : [kind |-> "delete", forgets |-> forgets] \in Commands
         /\ \A c \in Commands : c.kind = "delete" => c.forgets \in BOOLEAN
BY DEF MediaAssumption, Commands

LEMMA EditKeeps ==
  ASSUME MediaAssumption, AccountInv, NEW password \in BOOLEAN, EditAccount(password)
  PROVE  AccountInv'
<1> DEFINE row == [ver |-> edits + 1, secret |-> IF password THEN edits + 1 ELSE account.row.secret]
           command == [kind |-> "edit", old |-> account.row, password |-> password]
<1>1. account' = [account EXCEPT !.row = row, !.command = command] /\ edits' = edits + 1
  BY DEF EditAccount, Begins
<1>2. account.row \in Rows /\ account.row # Nil /\ Free /\ edits \in Nat
  BY DEF EditAccount, Begins, AccountInv
<1>3. account.row.secret \in Nat
  BY <1>2 DEF Rows
<1>4. row \in Rows
  BY <1>2, <1>3 DEF Rows
<1>5. command \in Commands /\ command # Nil
  BY <1>2, NoneIsNil
<1>6. /\ command.kind = "edit" /\ command.old = account.row /\ command.password = password
      /\ ~password => row.secret = account.row.secret
  OBVIOUS
<1> HIDE DEF row, command
<1>7. /\ DOMAIN account' = {"row", "secret", "torn", "command"} /\ account'.row = row
      /\ account'.secret = account.secret /\ account'.command = command /\ account'.torn = account.torn
      /\ account'.torn \in BOOLEAN
  BY <1>1 DEF AccountInv
<1>8. ~account.torn => account.secret = account.row.secret
  BY <1>2 DEF AccountInv, SecretOfRow
<1>. QED BY <1>1, <1>2, <1>4, <1>5, <1>6, <1>7, <1>8 DEF AccountInv, SecretOfRow, Free

LEMMA DeleteKeeps ==
  ASSUME MediaAssumption, AccountInv, DeleteAccount PROVE AccountInv'
<1>1. PICK forgets \in BOOLEAN :
         account' = [account EXCEPT !.secret = IF forgets THEN Nil ELSE @,
                                    !.command = [kind |-> "delete", forgets |-> forgets]]
  BY DEF DeleteAccount, Begins
<1> DEFINE command == [kind |-> "delete", forgets |-> forgets]
<1>2. command \in Commands /\ command # Nil /\ command.kind = "delete" /\ command.forgets = forgets
  BY NoneIsNil
<1>3. /\ DOMAIN account' = {"row", "secret", "torn", "command"} /\ account'.row = account.row
      /\ ~forgets => account'.secret = account.secret
      /\ account'.command = command /\ account'.torn = account.torn /\ account'.torn \in BOOLEAN
  BY <1>1 DEF AccountInv
<1> HIDE DEF command
<1>4. edits' \in Nat /\ account.row \in Rows
  BY DEF DeleteAccount, Begins, AccountInv
<1>5. ~account.torn => account.secret = account.row.secret
  BY DEF DeleteAccount, Begins, AccountInv, SecretOfRow
<1>. QED BY <1>2, <1>3, <1>4, <1>5 DEF AccountInv, SecretOfRow, Free

\* The ways a command returns.
LEMMA ReturnsKeep ==
  ASSUME MediaAssumption, AccountInv, PasswordFails \/ EditSaved \/ DeleteFails \/ Deleted
  PROVE  AccountInv'
<1>1. Nil \notin Rows /\ edits' = edits /\ edits \in Nat
  BY NoneIsNil DEF PasswordFails, EditSaved, DeleteFails, Deleted, AccountInv
<1>2. CASE PasswordFails
  <2>1. account.command.old \in Rows /\ account.row \in Rows
        /\ (~account.torn => account.secret = account.command.old.secret)
    BY <1>2 DEF PasswordFails, AccountInv
  <2>2. CASE account' = [account EXCEPT !.row = account.command.old, !.command = Nil]
    <3>1. /\ DOMAIN account' = {"row", "secret", "torn", "command"} /\ account'.row = account.command.old
          /\ account'.secret = account.secret /\ account'.command = Nil
          /\ account'.torn = account.torn /\ account'.torn \in BOOLEAN
      BY <2>2 DEF AccountInv
    <3>. QED BY <1>1, <2>1, <3>1 DEF AccountInv, SecretOfRow, Free
  <2>3. CASE account' = [account EXCEPT !.torn = TRUE, !.command = Nil]
    <3>1. /\ DOMAIN account' = {"row", "secret", "torn", "command"} /\ account'.row = account.row
          /\ account'.torn = TRUE /\ account'.command = Nil
      BY <2>3 DEF AccountInv
    <3>. QED BY <1>1, <2>1, <3>1 DEF AccountInv, SecretOfRow, Free
  <2>. QED BY <1>2, <2>2, <2>3 DEF PasswordFails
<1>3. CASE EditSaved
  <2>1. /\ account.row \in Rows
        /\ ~account.torn => account.secret = account.command.old.secret
        /\ ~account.command.password => account.row.secret = account.command.old.secret
    BY <1>3 DEF EditSaved, AccountInv
  <2>2. CASE account.command.password
    <3>1. /\ DOMAIN account' = {"row", "secret", "torn", "command"} /\ account'.row = account.row
          /\ account'.secret = account.row.secret /\ account'.command = Nil /\ account'.torn = FALSE
      BY <1>3, <2>2 DEF EditSaved, AccountInv
    <3>. QED BY <1>1, <2>1, <3>1 DEF AccountInv, SecretOfRow, Free
  <2>3. CASE ~account.command.password
    <3>1. /\ DOMAIN account' = {"row", "secret", "torn", "command"} /\ account'.row = account.row
          /\ account'.secret = account.secret /\ account'.command = Nil
          /\ account'.torn = account.torn /\ account'.torn \in BOOLEAN
      BY <1>3, <2>3 DEF EditSaved, AccountInv
    <3>. QED BY <1>1, <2>1, <2>3, <3>1 DEF AccountInv, SecretOfRow, Free
  <2>. QED BY <2>2, <2>3
<1>4. CASE DeleteFails
  <2>1. account.command.forgets \in BOOLEAN
    BY <1>4, NoneIsNil DEF DeleteFails, AccountInv, Free
  <2>2. /\ account.row \in Rows
        /\ ~account.torn /\ ~account.command.forgets => account.secret = account.row.secret
    BY <1>4 DEF DeleteFails, AccountInv
  <2> DEFINE torn == account.torn \/ account.command.forgets
  <2>3. torn \in BOOLEAN /\ (~torn => ~account.torn /\ ~account.command.forgets)
    BY <2>1 DEF AccountInv
  <2>4. account' = [account EXCEPT !.torn = torn, !.command = Nil]
    BY <1>4 DEF DeleteFails
  <2> HIDE DEF torn
  <2>5. /\ DOMAIN account' = {"row", "secret", "torn", "command"} /\ account'.row = account.row
        /\ account'.secret = account.secret /\ account'.command = Nil /\ account'.torn = torn
    BY <2>4 DEF AccountInv
  <2>. QED BY <1>1, <2>2, <2>3, <2>5 DEF AccountInv, SecretOfRow, Free
<1>5. CASE Deleted
  <2>1. /\ DOMAIN account' = {"row", "secret", "torn", "command"} /\ account'.row = Nil
        /\ account'.command = Nil /\ account'.torn = account.torn /\ account'.torn \in BOOLEAN
    BY <1>5 DEF Deleted, AccountInv
  <2>. QED BY <1>1, <2>1 DEF AccountInv, SecretOfRow, Free
<1>. QED BY <1>2, <1>3, <1>4, <1>5

LEMMA CommandsKeep ==
  ASSUME MediaAssumption, MediaInv, AccountCommands PROVE MediaInv'
<1>1. lru' = lru \/ ClearAndBump
  BY DEF AccountCommands, EditAccount, PasswordFails, EditSaved, CreateAnother, DeleteAccount, DeleteFails, Deleted
<1>2. LruOK(lru')
  BY <1>1, ClearedOK DEF MediaInv
<1>3. UNCHANGED <<inflight, tasks>>
  BY DEF AccountCommands, EditAccount, PasswordFails, EditSaved, CreateAnother, DeleteAccount, DeleteFails, Deleted, Rest
<1>4. RegistryInv'
  BY <1>3 DEF MediaInv, RegistryInv, TasksShaped, BusyRegistered, RegisteredBusy, LeaversTold, WaitersWait,
              Busy, Pending, Key
<1>5. AccountInv'
  <2>1. CASE \E password \in BOOLEAN : EditAccount(password)
    BY <2>1, EditKeeps DEF MediaInv
  <2>2. CASE PasswordFails \/ EditSaved \/ DeleteFails \/ Deleted
    BY <2>2, ReturnsKeep DEF MediaInv
  <2>3. CASE CreateAnother
    <3>1. account' = account /\ edits' = edits + 1
      BY <2>3 DEF CreateAnother, Begins
    <3>. QED BY <3>1 DEF MediaInv, AccountInv, SecretOfRow, Free
  <2>4. CASE DeleteAccount
    BY <2>4, DeleteKeeps DEF MediaInv
  <2>. QED BY <2>1, <2>2, <2>3, <2>4 DEF AccountCommands
<1>. QED BY <1>2, <1>4, <1>5 DEF MediaInv

-----------------------------------------------------------------------------
(***************************************************************************)
(* The theorem.                                                             *)
(***************************************************************************)

\* A step that leaves the account alone.
LEMMA AccountStays ==
  ASSUME AccountInv, account' = account, edits' = edits PROVE AccountInv'
BY DEF AccountInv, SecretOfRow, Free

LEMMA MediaInitInv == ASSUME MediaAssumption, MediaInit PROVE MediaInv
<1>1. DOMAIN EmptyMap = {} /\ IsFiniteSet({})
  BY FS_EmptySet DEF EmptyMap
<1>2. LruOK(lru)
  <2>1. lru.map = EmptyMap /\ DOMAIN lru = {"map", "head", "tail", "bytes", "gen"}
    BY DEF MediaInit
  <2>. QED BY <1>1, <2>1 DEF LruOK, MapOK
<1>3. RegistryInv
  <2>1. DOMAIN tasks = Tasks /\ \A t \in Tasks : tasks[t] = Idle
    BY DEF MediaInit
  <2>2. DOMAIN Idle = {"phase", "warm", "page", "ver", "gen", "owner", "outcome", "session"} /\ Idle.phase = "idle"
    BY DEF Idle
  <2>3. DOMAIN inflight = {}
    BY <1>1 DEF MediaInit
  <2>. QED BY <2>1, <2>2, <2>3
       DEF RegistryInv, TasksShaped, BusyRegistered, RegisteredBusy, LeaversTold, WaitersWait, Busy
<1>4. AccountInv
  <2> DEFINE row == [ver |-> 0, secret |-> 0]
  <2>1. row \in Rows /\ row.secret = 0
    BY DEF Rows
  <2>2. account = [row |-> row, secret |-> 0, torn |-> FALSE, command |-> Nil] /\ edits = 0
    BY DEF MediaInit
  <2> HIDE DEF row
  <2>3. /\ DOMAIN account = {"row", "secret", "torn", "command"} /\ account.row = row /\ account.secret = 0
        /\ account.command = Nil /\ account.torn = FALSE
    BY <2>2
  <2>. QED BY <2>1, <2>2, <2>3 DEF AccountInv, SecretOfRow, Free
<1>. QED BY <1>2, <1>3, <1>4 DEF MediaInv

LEMMA MediaStep ==
  ASSUME MediaAssumption, MediaInv, [MediaNext]_mediaVars PROVE MediaInv'
<1>1. ASSUME NEW t \in Tasks, Moves(t) PROVE MediaInv'
  <2>1. LruOK(lru') /\ RegistryInv'
    BY <1>1, MovesKeepList, MovesKeepRegistry DEF MediaInv
  <2>2. account' = account /\ edits' = edits
    BY <1>1 DEF Moves, StatOrStraight, Look, WarmStarts, Join, Woken, TakeGeneration, FetchFails, Store,
                Send, Leave, LookAgain, Others
  <2>. QED BY <2>1, <2>2, AccountStays DEF MediaInv
<1>2. ASSUME NEW t \in Tasks, NEW page \in Pages, Ask(t, page) \/ Warm(t, page) PROVE MediaInv'
  <2>1. RegistryInv'
    BY <1>2, BeginsKeep DEF MediaInv
  <2>2. lru' = lru /\ account' = account /\ edits' = edits
    BY <1>2 DEF Ask, Warm, Others
  <2>. QED BY <2>1, <2>2, AccountStays DEF MediaInv
<1>3. CASE (\E s \in Sessions : AdvanceSession(s)) \/ UNCHANGED mediaVars
  <2>1. UNCHANGED <<account, lru, inflight, tasks, edits>>
    BY <1>3 DEF AdvanceSession, mediaVars
  <2>2. RegistryInv'
    BY <2>1 DEF MediaInv, RegistryInv, TasksShaped, BusyRegistered, RegisteredBusy, LeaversTold, WaitersWait,
                Busy, Pending, Key
  <2>. QED BY <2>1, <2>2, AccountStays DEF MediaInv
<1>. QED BY <1>1, <1>2, <1>3, CommandsKeep DEF MediaNext

LEMMA MediaInvSound == ASSUME MediaInv PROVE DownloadsSound
<1>1. OldDownloadsDiscarded
  BY DEF MediaInv, LruOK, MapOK, EntryOK, OldDownloadsDiscarded
<1>2. OneDownload
  <2>1. ASSUME NEW t \in Tasks, NEW u \in Tasks, Downloading(t), Downloading(u), Key(t) = Key(u) PROVE t = u
    BY <2>1 DEF MediaInv, RegistryInv, BusyRegistered, Busy, Downloading
  <2>2. ASSUME NEW t \in Tasks, tasks[t].phase = "wait", tasks[tasks[t].owner].outcome = "pending"
        PROVE  Key(t) \in DOMAIN inflight /\ inflight[Key(t)] = tasks[t].owner
    <3>1. PICK o \in Tasks : o = tasks[t].owner /\ Busy(o) /\ Key(o) = Key(t)
      BY <2>2 DEF MediaInv, RegistryInv, WaitersWait, Pending
    <3>. QED BY <3>1 DEF MediaInv, RegistryInv, BusyRegistered
  <2>. QED BY <2>1, <2>2 DEF OneDownload
<1>. QED BY <1>1, <1>2 DEF DownloadsSound, MediaInv, AccountInv

(* For any number of requests, warm tasks, pages and account commands, and   *)
(* any size of the cache: what was downloaded before the cache was last      *)
(* cleared is not in it, a key has one download and whoever waits waits for   *)
(* one that will tell, and outside a command the password kept is the row's, *)
(* whatever the keyring refuses, until a statement of the database fails     *)
(* beside it, and again from the next password saved (put_if_generation,     *)
(* clear_all, fetch_remote_to_cache_with, upsert_account_impl,               *)
(* delete_account_impl).                                                     *)
THEOREM PagesKeptSound == ASSUME MediaAssumption PROVE MediaSpec => []DownloadsSound
<1>1. MediaInit => MediaInv
  BY MediaInitInv
<1>2. MediaInv /\ [MediaNext]_mediaVars => MediaInv'
  BY MediaStep
<1>3. MediaInv => DownloadsSound
  BY MediaInvSound
<1>. QED BY <1>1, <1>2, <1>3, PTL DEF MediaSpec

-----------------------------------------------------------------------------
(***************************************************************************)
(* The list of the cache as a sequence of keys.                            *)
(***************************************************************************)

Nth(s, n, i) == IF i \in 1 .. n THEN s[i] ELSE Nil

Joined(l, s, n) ==
  /\ l.head = Nth(s, n, 1) /\ l.tail = Nth(s, n, n)
  /\ \A i \in 1 .. n : l.map[s[i]].prev = Nth(s, n, i - 1) /\ l.map[s[i]].next = Nth(s, n, i + 1)

\* The entries of l are linked in the order of s, which has n keys.
Chain(l, s, n) ==
  /\ n \in Nat /\ s \in [1 .. n -> DOMAIN l.map]
  /\ \A i, j \in 1 .. n : s[i] = s[j] => i = j
  /\ \A key \in DOMAIN l.map : \E i \in 1 .. n : s[i] = key
  /\ Joined(l, s, n)

LEMMA ChainCard ==
  ASSUME NEW l, NEW s, NEW n, Chain(l, s, n)
  PROVE  Cardinality(DOMAIN l.map) = n /\ s \in Bijection(1 .. n, DOMAIN l.map)
<1>1. s \in Bijection(1 .. n, DOMAIN l.map)
  BY DEF Chain, Bijection, Injection, Surjection, IsInjective
<1>2. n \in Nat /\ ExistsBijection(1 .. n, DOMAIN l.map)
  BY <1>1 DEF ExistsBijection, Chain
<1>. QED BY <1>1, <1>2, FS_CountingElements

LEMMA LinkedIs ==
  ASSUME NEW l, NEW n \in Nat, NEW keys, DOMAIN keys = 1 .. n
  PROVE  Linked(l, keys) <=> Joined(l, keys, n)
<1>1. Cardinality(DOMAIN keys) = n
  <2>1. Cardinality(1 .. n) = IF 1 > n THEN 0 ELSE n - 1 + 1
    BY FS_Interval
  <2>. QED BY <2>1
<1>. QED BY <1>1 DEF Linked, Joined, Nth

\* There is one order that fits the links.
LEMMA ChainIsOrder ==
  ASSUME NEW l, NEW s, NEW n, Chain(l, s, n)
  PROVE  Order(l) = s
<1> DEFINE D == DOMAIN l.map
           t == Order(l)
<1>1. Cardinality(D) = n /\ s \in Bijection(1 .. n, D)
  BY ChainCard
<1>2. DOMAIN s = 1 .. n /\ n \in Nat
  BY DEF Chain
<1>5. Linked(l, s)
  BY <1>1, <1>2, LinkedIs DEF Chain
<1>6. t \in Bijection(1 .. n, D) /\ Linked(l, t)
  BY <1>1, <1>5 DEF Order
<1> HIDE DEF t
<1>7. DOMAIN t = 1 .. n /\ t \in [1 .. n -> D]
  BY <1>6 DEF Bijection, Injection
<1>8. Joined(l, t, n)
  BY <1>2, <1>6, <1>7, LinkedIs
<1>11. n > 0 => t[1] = s[1]
  <2>1. l.head = Nth(t, n, 1) /\ l.head = Nth(s, n, 1)
    BY <1>8 DEF Chain, Joined
  <2>. QED BY <1>2, <2>1 DEF Nth
<1> DEFINE Q == {i \in Nat : i + 1 \in 1 .. n => t[i + 1] = s[i + 1]}
<1>12. 0 \in Q
  BY <1>2, <1>11
<1>13. ASSUME NEW i \in Q PROVE i + 1 \in Q
  <2>1. ASSUME (i + 1) + 1 \in 1 .. n PROVE t[(i + 1) + 1] = s[(i + 1) + 1]
    <3>1. i + 1 \in 1 .. n
      BY <1>2, <2>1
    <3>2. l.map[s[i + 1]].next = Nth(s, n, (i + 1) + 1)
      BY <3>1 DEF Chain, Joined
    <3>3. l.map[t[i + 1]].next = Nth(t, n, (i + 1) + 1)
      BY <1>8, <3>1 DEF Joined
    <3>4. t[i + 1] = s[i + 1]
      BY <1>13, <3>1
    <3>. QED BY <2>1, <3>2, <3>3, <3>4 DEF Nth
  <2>. QED BY <2>1
<1> HIDE DEF Q
<1>14. Q = Nat
  BY <1>12, <1>13, SetInduction DEF Q
<1>15. \A i \in 1 .. n : t[i] = s[i]
  <2>1. ASSUME NEW i \in 1 .. n PROVE t[i] = s[i]
    <3>1. i - 1 \in Q /\ (i - 1) + 1 = i
      BY <1>2, <1>14
    <3>. QED BY <3>1 DEF Q
  <2>. QED BY <2>1
<1>16. t = s
  BY <1>7, <1>15 DEF Chain
<1>. QED BY <1>16 DEF t

-----------------------------------------------------------------------------
(***************************************************************************)
(* What the two operations on the links do.                                *)
(***************************************************************************)

Fields == {"media", "prev", "next"}

Entries(map) == Nil \notin DOMAIN map /\ \A x \in DOMAIN map : DOMAIN map[x] = Fields

\* A link sets one field of one entry.
PrevSet(m, map, key, to) ==
  /\ Entries(m) /\ DOMAIN m = DOMAIN map
  /\ \A x \in DOMAIN map : /\ m[x].media = map[x].media /\ m[x].next = map[x].next
                           /\ m[x].prev = IF x = key THEN to ELSE map[x].prev

NextSet(m, map, key, to) ==
  /\ Entries(m) /\ DOMAIN m = DOMAIN map
  /\ \A x \in DOMAIN map : /\ m[x].media = map[x].media /\ m[x].prev = map[x].prev
                           /\ m[x].next = IF x = key THEN to ELSE map[x].next

LEMMA LinkSets ==
  ASSUME NEW map, Entries(map), NEW key \in DOMAIN map \cup {Nil}, NEW to
  PROVE  /\ PrevSet(Link(map, key, "prev", to), map, key, to)
         /\ NextSet(Link(map, key, "next", to), map, key, to)
<1>1. CASE key = Nil
  BY <1>1 DEF Link, PrevSet, NextSet, Entries
<1>2. CASE key # Nil
  <2>1. PrevSet(Link(map, key, "prev", to), map, key, to)
    <3> DEFINE new == [map[key] EXCEPT !.prev = to]
               m == [map EXCEPT ![key] = new]
    <3>1. Link(map, key, "prev", to) = m
      BY <1>2 DEF Link
    <3>2. DOMAIN new = Fields /\ new.media = map[key].media /\ new.next = map[key].next /\ new.prev = to
      BY <1>2 DEF Entries, Fields
    <3> HIDE DEF new
    <3>3. DOMAIN m = DOMAIN map /\ \A x \in DOMAIN map : m[x] = IF x = key THEN new ELSE map[x]
      OBVIOUS
    <3>. QED BY <1>2, <3>1, <3>2, <3>3 DEF PrevSet, Entries
  <2>2. NextSet(Link(map, key, "next", to), map, key, to)
    <3> DEFINE new == [map[key] EXCEPT !.next = to]
               m == [map EXCEPT ![key] = new]
    <3>1. Link(map, key, "next", to) = m
      BY <1>2 DEF Link
    <3>2. DOMAIN new = Fields /\ new.media = map[key].media /\ new.prev = map[key].prev /\ new.next = to
      BY <1>2 DEF Entries, Fields
    <3> HIDE DEF new
    <3>3. DOMAIN m = DOMAIN map /\ \A x \in DOMAIN map : m[x] = IF x = key THEN new ELSE map[x]
      OBVIOUS
    <3>. QED BY <1>2, <3>1, <3>2, <3>3 DEF NextSet, Entries
  <2>. QED BY <2>1, <2>2
<1>. QED BY <1>1, <1>2

\* Detaching takes one entry away and joins those beside it.
LEMMA DetachIs ==
  ASSUME NEW l, LruOK(l), Nil \notin DOMAIN l.map, NEW key \in DOMAIN l.map,
         l.map[key].prev \in (DOMAIN l.map \ {key}) \cup {Nil}, l.map[key].next \in (DOMAIN l.map \ {key}) \cup {Nil}
  PROVE  LET d == Detach(l, key)
             e == l.map[key]
         IN /\ DOMAIN d.map = DOMAIN l.map \ {key}
            /\ \A x \in DOMAIN d.map :
                 /\ d.map[x].media = l.map[x].media
                 /\ d.map[x].next = IF x = e.prev THEN e.next ELSE l.map[x].next
                 /\ d.map[x].prev = IF x = e.next THEN e.prev ELSE l.map[x].prev
            /\ d.head = IF l.head = key THEN e.next ELSE l.head
            /\ d.tail = IF l.tail = key THEN e.prev ELSE l.tail
            /\ d.bytes = l.bytes - SizeOf[e.media.page]
<1> DEFINE d == Detach(l, key)
           e == l.map[key]
           left == Without(l.map, {key})
           once == Link(left, e.prev, "next", e.next)
           twice == Link(once, e.next, "prev", e.prev)
           bytes == l.bytes - SizeOf[e.media.page]
           head == IF l.head = key THEN e.next ELSE l.head
           tail == IF l.tail = key THEN e.prev ELSE l.tail
<1>1. DOMAIN left = DOMAIN l.map \ {key} /\ \A x \in DOMAIN left : left[x] = l.map[x]
  BY DEF Without
<1>2. Entries(left)
  BY <1>1 DEF LruOK, MapOK, EntryOK, Entries, Fields
<1>3. d = [l EXCEPT !.map = twice, !.bytes = bytes, !.head = head, !.tail = tail]
  BY DEF Detach
<1>4. e.prev \in DOMAIN left \cup {Nil} /\ e.next \in DOMAIN left \cup {Nil}
  BY <1>1
<1> HIDE DEF left, e
<1>5. NextSet(once, left, e.prev, e.next)
  BY <1>2, <1>4, LinkSets
<1> HIDE DEF once
<1>8. PrevSet(twice, once, e.next, e.prev)
  BY <1>4, <1>5, LinkSets DEF NextSet
<1> HIDE DEF twice, bytes, head, tail
<1>6. d.map = twice /\ d.bytes = bytes /\ d.head = head /\ d.tail = tail
  BY <1>3 DEF LruOK
<1> HIDE DEF d
<1>7. /\ DOMAIN d.map = DOMAIN l.map \ {key}
      /\ \A x \in DOMAIN d.map :
           /\ d.map[x].media = l.map[x].media
           /\ d.map[x].next = IF x = e.prev THEN e.next ELSE l.map[x].next
           /\ d.map[x].prev = IF x = e.next THEN e.prev ELSE l.map[x].prev
  BY <1>1, <1>5, <1>6, <1>8 DEF NextSet, PrevSet
<1>. QED BY <1>6, <1>7 DEF d, e, bytes, head, tail

\* What is put at the head comes before what was there.
LEMMA AtHeadIs ==
  ASSUME NEW l, LruOK(l), Nil \notin DOMAIN l.map, NEW key, key \notin DOMAIN l.map, key # Nil, NEW media,
         l.head \in DOMAIN l.map \cup {Nil}
  PROVE  LET a == AtHead(l, key, media)
         IN /\ DOMAIN a.map = DOMAIN l.map \cup {key}
            /\ a.map[key].media = media /\ a.map[key].next = l.head
            /\ l.head # key => a.map[key].prev = Nil
            /\ \A x \in DOMAIN l.map :
                 /\ a.map[x].media = l.map[x].media /\ a.map[x].next = l.map[x].next
                 /\ a.map[x].prev = IF x = l.head THEN key ELSE l.map[x].prev
            /\ a.head = key
            /\ a.tail = IF l.head = Nil THEN key ELSE l.tail
            /\ a.bytes = l.bytes + SizeOf[media.page]
<1> DEFINE a == AtHead(l, key, media)
           new == Entry(media, l.head)
           more == Put(l.map, key, new)
           linked == Link(more, l.head, "prev", key)
           bytes == l.bytes + SizeOf[media.page]
           tail == IF l.head = Nil THEN key ELSE l.tail
<1>1. DOMAIN new = Fields /\ new.media = media /\ new.next = l.head /\ new.prev = Nil
  BY DEF Entry, Fields
<1>2. a = [l EXCEPT !.map = linked, !.bytes = bytes, !.head = key, !.tail = tail]
  BY DEF AtHead
<1> HIDE DEF new
<1>3. DOMAIN more = DOMAIN l.map \cup {key} /\ more[key] = new /\ \A x \in DOMAIN l.map : more[x] = l.map[x]
  BY DEF Put
<1>4. Entries(more) /\ l.head \in DOMAIN more \cup {Nil}
  BY <1>1, <1>3 DEF LruOK, MapOK, EntryOK, Entries, Fields
<1> HIDE DEF more
<1>5. PrevSet(linked, more, l.head, key)
  BY <1>4, LinkSets
<1> HIDE DEF linked, bytes, tail
<1>6. a.map = linked /\ a.bytes = bytes /\ a.head = key /\ a.tail = tail
  BY <1>2 DEF LruOK
<1> HIDE DEF a
<1>7. /\ DOMAIN a.map = DOMAIN l.map \cup {key}
      /\ a.map[key].media = media /\ a.map[key].next = l.head
      /\ l.head # key => a.map[key].prev = Nil
  BY <1>1, <1>3, <1>5, <1>6 DEF PrevSet
<1>8. \A x \in DOMAIN l.map :
        /\ a.map[x].media = l.map[x].media /\ a.map[x].next = l.map[x].next
        /\ a.map[x].prev = IF x = l.head THEN key ELSE l.map[x].prev
  BY <1>3, <1>5, <1>6 DEF PrevSet
<1>. QED BY <1>6, <1>7, <1>8 DEF a, bytes, tail

-----------------------------------------------------------------------------
(***************************************************************************)
(* Detach and AtHead keep the links in the order of a sequence.            *)
(***************************************************************************)

LEMMA DetachChain ==
  ASSUME NEW l, LruOK(l), Nil \notin DOMAIN l.map, NEW s, NEW n, Chain(l, s, n), NEW j \in 1 .. n
  PROVE  Chain(Detach(l, s[j]), Drop(s, n, j), n - 1)
<1> DEFINE key == s[j]
           d == Detach(l, key)
           r == Drop(s, n, j)
           e == l.map[key]
           D == DOMAIN l.map
<1>1. /\ n \in Nat /\ s \in [1 .. n -> D] /\ Joined(l, s, n)
      /\ \A i, k \in 1 .. n : s[i] = s[k] => i = k
      /\ \A x \in D : \E i \in 1 .. n : s[i] = x
  BY DEF Chain
<1>2. /\ key \in D /\ n - 1 \in Nat /\ j \in Nat /\ j <= n /\ 1 <= j
  BY <1>1
<1>17. e.prev = Nth(s, n, j - 1) /\ e.next = Nth(s, n, j + 1)
  BY <1>1 DEF Joined
<1>18. e.prev \in (D \ {key}) \cup {Nil} /\ e.next \in (D \ {key}) \cup {Nil}
  BY <1>1, <1>2, <1>17 DEF Nth
<1>3. /\ DOMAIN d.map = D \ {key}
      /\ \A x \in DOMAIN d.map :
           /\ d.map[x].next = IF x = e.prev THEN e.next ELSE l.map[x].next
           /\ d.map[x].prev = IF x = e.next THEN e.prev ELSE l.map[x].prev
      /\ d.head = IF l.head = key THEN e.next ELSE l.head
      /\ d.tail = IF l.tail = key THEN e.prev ELSE l.tail
  BY <1>2, <1>18, DetachIs
<1>5. /\ DOMAIN r = 1 .. n - 1
      /\ \A i \in 1 .. n - 1 : r[i] = IF i < j THEN s[i] ELSE s[i + 1]
  BY DEF Drop
<1> HIDE DEF d, r, e
\* The place in s of the element at a place in r.
<1> DEFINE was(i) == IF i < j THEN i ELSE i + 1
<1>6. \A i \in 1 .. n - 1 : was(i) \in 1 .. n /\ was(i) # j /\ r[i] = s[was(i)]
  BY <1>1, <1>2, <1>5
<1>7. \A i, k \in 1 .. n - 1 : was(i) = was(k) => i = k
  BY <1>1, <1>2
<1>8. \A k \in 1 .. n : k # j => \E i \in 1 .. n - 1 : was(i) = k
  <2>1. ASSUME NEW k \in 1 .. n, k # j PROVE \E i \in 1 .. n - 1 : was(i) = k
    <3>1. CASE k < j
      BY <1>1, <1>2, <3>1
    <3>2. CASE k > j
      <4>1. k - 1 \in 1 .. n - 1 /\ was(k - 1) = k
        BY <1>1, <1>2, <3>2
      <4>. QED BY <4>1
    <3>. QED BY <1>1, <1>2, <2>1, <3>1, <3>2
  <2>. QED BY <2>1
<1> HIDE DEF was
<1>9. r \in [1 .. n - 1 -> DOMAIN d.map]
  <2>1. \A i \in 1 .. n - 1 : r[i] \in DOMAIN d.map
    BY <1>1, <1>3, <1>6
  <2>2. r = [i \in 1 .. n - 1 |-> r[i]]
    BY DEF r, Drop
  <2>. QED BY <2>1, <2>2
<1>10. \A i, k \in 1 .. n - 1 : r[i] = r[k] => i = k
  BY <1>1, <1>6, <1>7
<1>11. \A x \in DOMAIN d.map : \E i \in 1 .. n - 1 : r[i] = x
  <2>1. ASSUME NEW x \in DOMAIN d.map PROVE \E i \in 1 .. n - 1 : r[i] = x
    <3>1. PICK k \in 1 .. n : s[k] = x
      BY <1>1, <1>3
    <3>2. k # j
      BY <1>3, <3>1
    <3>. QED BY <1>6, <1>8, <3>1, <3>2
  <2>. QED BY <2>1
<1>12. d.head = Nth(r, n - 1, 1)
  <2>1. CASE j = 1
    BY <1>1, <1>2, <1>3, <1>17, <1>5, <2>1 DEF Joined, Nth
  <2>2. CASE j # 1
    BY <1>1, <1>2, <1>3, <1>17, <1>5, <2>2 DEF Joined, Nth
  <2>. QED BY <2>1, <2>2
<1>13. d.tail = Nth(r, n - 1, n - 1)
  <2>1. CASE j = n
    BY <1>1, <1>2, <1>3, <1>17, <1>5, <2>1 DEF Joined, Nth
  <2>2. CASE j # n
    <3>1. l.tail = s[n] /\ l.tail # key
      BY <1>1, <1>2, <2>2 DEF Joined, Nth
    <3>2. r[n - 1] = s[n] /\ n - 1 \in 1 .. n - 1
      BY <1>1, <1>2, <1>5, <2>2
    <3>. QED BY <1>3, <3>1, <3>2 DEF Nth
  <2>. QED BY <2>1, <2>2
<1>14. ASSUME NEW i \in 1 .. n - 1
       PROVE  d.map[r[i]].prev = Nth(r, n - 1, i - 1) /\ d.map[r[i]].next = Nth(r, n - 1, i + 1)
  <2>1. r[i] \in DOMAIN d.map
    BY <1>9
  <2>2. CASE i < j
    <3>1. r[i] = s[i] /\ i \in 1 .. n /\ i \in Nat
      BY <1>1, <1>2, <1>5, <2>2
    <3>2. l.map[s[i]].prev = Nth(s, n, i - 1) /\ l.map[s[i]].next = Nth(s, n, i + 1)
      BY <1>1, <3>1 DEF Joined
    <3>3. Nth(s, n, i - 1) = Nth(r, n - 1, i - 1)
      BY <1>1, <1>2, <1>5, <2>2, <3>1 DEF Nth
    <3>4. s[i] # e.next
      BY <1>1, <1>2, <1>17, <2>2, <3>1 DEF Nth
    <3>5. d.map[r[i]].prev = Nth(r, n - 1, i - 1)
      BY <1>3, <2>1, <3>1, <3>2, <3>3, <3>4
    <3>6. CASE i = j - 1
      <4>1. s[i] = e.prev
        BY <1>1, <1>2, <1>17, <3>1, <3>6 DEF Nth
      <4>2. Nth(s, n, j + 1) = Nth(r, n - 1, i + 1)
        BY <1>1, <1>2, <1>5, <3>6 DEF Nth
      <4>. QED BY <1>3, <1>17, <2>1, <3>1, <3>5, <4>1, <4>2
    <3>7. CASE i # j - 1
      <4>1. s[i] # e.prev
        BY <1>1, <1>2, <1>17, <3>1, <3>7 DEF Nth
      <4>2. Nth(s, n, i + 1) = Nth(r, n - 1, i + 1)
        BY <1>1, <1>2, <1>5, <2>2, <3>1, <3>7 DEF Nth
      <4>. QED BY <1>3, <2>1, <3>1, <3>2, <3>5, <4>1, <4>2
    <3>. QED BY <3>6, <3>7
  <2>3. CASE ~(i < j)
    <3>1. r[i] = s[i + 1] /\ i + 1 \in 1 .. n /\ i \in Nat /\ i >= j
      BY <1>1, <1>2, <1>5, <2>3
    <3>2. l.map[s[i + 1]].prev = Nth(s, n, i) /\ l.map[s[i + 1]].next = Nth(s, n, i + 2)
      <4>1. (i + 1) - 1 = i /\ (i + 1) + 1 = i + 2
        BY <3>1
      <4>2. /\ l.map[s[i + 1]].prev = Nth(s, n, (i + 1) - 1)
            /\ l.map[s[i + 1]].next = Nth(s, n, (i + 1) + 1)
        BY <1>1, <3>1 DEF Joined
      <4>. QED BY <4>1, <4>2
    <3>3. Nth(s, n, i + 2) = Nth(r, n - 1, i + 1)
      BY <1>1, <1>2, <1>5, <3>1 DEF Nth
    <3>4. s[i + 1] # e.prev
      BY <1>1, <1>2, <1>17, <3>1 DEF Nth
    <3>5. d.map[r[i]].next = Nth(r, n - 1, i + 1)
      BY <1>3, <2>1, <3>1, <3>2, <3>3, <3>4
    <3>6. CASE i = j
      <4>1. s[i + 1] = e.next
        BY <1>1, <1>2, <1>17, <3>1, <3>6 DEF Nth
      <4>2. Nth(s, n, j - 1) = Nth(r, n - 1, i - 1)
        BY <1>1, <1>2, <1>5, <3>6 DEF Nth
      <4>. QED BY <1>3, <1>17, <2>1, <3>1, <3>5, <4>1, <4>2
    <3>7. CASE i # j
      <4>1. s[i + 1] # e.next
        BY <1>1, <1>2, <1>17, <3>1, <3>7 DEF Nth
      <4>2. Nth(s, n, i) = Nth(r, n - 1, i - 1)
        BY <1>1, <1>2, <1>5, <3>1, <3>7 DEF Nth
      <4>. QED BY <1>3, <2>1, <3>1, <3>2, <3>5, <4>1, <4>2
    <3>. QED BY <3>6, <3>7
  <2>. QED BY <2>2, <2>3
<1>15. Joined(d, r, n - 1)
  BY <1>12, <1>13, <1>14 DEF Joined
<1>16. Chain(d, r, n - 1)
  BY <1>2, <1>9, <1>10, <1>11, <1>15 DEF Chain
<1>. QED BY <1>16 DEF d, r

LEMMA AtHeadChain ==
  ASSUME NEW l, LruOK(l), Nil \notin DOMAIN l.map, NEW s, NEW n, Chain(l, s, n),
         NEW key, key \notin DOMAIN l.map, key # Nil, NEW media
  PROVE  Chain(AtHead(l, key, media), Push(s, n, key), n + 1)
<1> DEFINE a == AtHead(l, key, media)
           r == Push(s, n, key)
           D == DOMAIN l.map
<1>1. /\ n \in Nat /\ s \in [1 .. n -> D] /\ Joined(l, s, n)
      /\ \A i, k \in 1 .. n : s[i] = s[k] => i = k
      /\ \A x \in D : \E i \in 1 .. n : s[i] = x
  BY DEF Chain
<1>2. l.head = Nth(s, n, 1) /\ l.tail = Nth(s, n, n)
  BY <1>1 DEF Joined
<1>3. l.head \in D \cup {Nil}
  BY <1>1, <1>2 DEF Nth
<1>4. /\ DOMAIN a.map = D \cup {key}
      /\ a.map[key].next = l.head /\ (l.head # key => a.map[key].prev = Nil)
      /\ \A x \in D : /\ a.map[x].next = l.map[x].next
                      /\ a.map[x].prev = IF x = l.head THEN key ELSE l.map[x].prev
      /\ a.head = key /\ a.tail = IF l.head = Nil THEN key ELSE l.tail
  BY <1>3, AtHeadIs
<1>5. DOMAIN r = 1 .. n + 1 /\ \A i \in 1 .. n + 1 : r[i] = IF i = 1 THEN key ELSE s[i - 1]
  BY DEF Push
<1> HIDE DEF a, r
<1>6. r[1] = key /\ \A i \in 1 .. n : r[i + 1] = s[i] /\ s[i] \in D /\ s[i] # key
  BY <1>1, <1>5
<1>7. r \in [1 .. n + 1 -> DOMAIN a.map]
  <2>1. \A i \in 1 .. n + 1 : r[i] \in DOMAIN a.map
    BY <1>1, <1>4, <1>5
  <2>2. r = [i \in 1 .. n + 1 |-> r[i]]
    BY DEF r, Push
  <2>. QED BY <2>1, <2>2
<1>8. \A i, k \in 1 .. n + 1 : r[i] = r[k] => i = k
  <2>1. SUFFICES ASSUME NEW i \in 1 .. n + 1, NEW k \in 1 .. n + 1, r[i] = r[k] PROVE i = k
    OBVIOUS
  <2>2. CASE i = 1 \/ k = 1
    <3>1. \A x \in 1 .. n + 1 : x # 1 => r[x] # key
      BY <1>1, <1>5
    <3>. QED BY <1>6, <2>1, <2>2, <3>1
  <2>3. CASE i # 1 /\ k # 1
    <3>1. i - 1 \in 1 .. n /\ k - 1 \in 1 .. n /\ s[i - 1] = s[k - 1]
      BY <1>1, <1>5, <2>1, <2>3
    <3>. QED BY <1>1, <3>1
  <2>. QED BY <2>2, <2>3
<1>9. \A x \in DOMAIN a.map : \E i \in 1 .. n + 1 : r[i] = x
  <2>1. ASSUME NEW x \in DOMAIN a.map PROVE \E i \in 1 .. n + 1 : r[i] = x
    <3>1. CASE x = key
      BY <1>1, <1>6, <3>1
    <3>2. CASE x # key
      <4>1. PICK i \in 1 .. n : s[i] = x
        BY <1>1, <1>4, <3>2
      <4>2. i + 1 \in 1 .. n + 1 /\ r[i + 1] = x
        BY <1>1, <1>6, <4>1
      <4>. QED BY <4>2
    <3>. QED BY <3>1, <3>2
  <2>. QED BY <2>1
<1>10. a.head = Nth(r, n + 1, 1)
  BY <1>1, <1>4, <1>6 DEF Nth
<1>11. a.tail = Nth(r, n + 1, n + 1)
  <2>1. CASE n = 0
    BY <1>1, <1>2, <1>4, <1>6, <2>1 DEF Nth
  <2>2. CASE n # 0
    <3>1. n \in 1 .. n /\ 1 \in 1 .. n
      BY <1>1, <2>2
    <3>2. l.head # Nil /\ l.tail = s[n]
      BY <1>2, <1>6, <3>1 DEF Nth
    <3>3. r[n + 1] = s[n] /\ n + 1 \in 1 .. n + 1
      BY <1>1, <1>6, <3>1
    <3>. QED BY <1>4, <3>2, <3>3 DEF Nth
  <2>. QED BY <2>1, <2>2
<1>12. ASSUME NEW i \in 1 .. n + 1
       PROVE  a.map[r[i]].prev = Nth(r, n + 1, i - 1) /\ a.map[r[i]].next = Nth(r, n + 1, i + 1)
  <2>1. CASE i = 1
    <3>1. Nth(r, n + 1, i - 1) = Nil /\ Nth(r, n + 1, i + 1) = Nth(s, n, 1)
      BY <1>1, <1>6, <2>1 DEF Nth
    <3>2. l.head # key
      BY <1>3
    <3>. QED BY <1>2, <1>4, <1>6, <2>1, <3>1, <3>2
  <2>2. CASE i # 1
    <3> DEFINE k == i - 1
    <3>1. k \in 1 .. n /\ i = k + 1 /\ k \in Nat
      BY <1>1, <2>2
    <3> HIDE DEF k
    <3>2. r[i] = s[k] /\ s[k] \in D /\ s[k] # key
      BY <1>6, <3>1
    <3>3. l.map[s[k]].prev = Nth(s, n, k - 1) /\ l.map[s[k]].next = Nth(s, n, k + 1)
      BY <1>1, <3>1 DEF Joined
    <3>4. Nth(s, n, k + 1) = Nth(r, n + 1, i + 1)
      <4>1. k + 1 \in 1 .. n <=> i + 1 \in 1 .. n + 1
        BY <1>1, <3>1
      <4>2. k + 1 \in 1 .. n => r[i + 1] = s[k + 1]
        BY <1>6, <3>1
      <4>. QED BY <4>1, <4>2 DEF Nth
    <3>5. CASE k = 1
      <4>1. s[k] = l.head
        BY <1>2, <3>1, <3>5 DEF Nth
      <4>2. Nth(r, n + 1, i - 1) = key
        BY <1>1, <1>6, <3>1, <3>5 DEF Nth
      <4>. QED BY <1>4, <3>2, <3>3, <3>4, <4>1, <4>2
    <3>6. CASE k # 1
      <4>1. s[k] # l.head
        BY <1>1, <1>2, <3>1, <3>2, <3>6 DEF Nth
      <4>2. k - 1 \in 1 .. n /\ i - 1 = (k - 1) + 1 /\ i - 1 \in 1 .. n + 1
        BY <1>1, <3>1, <3>6
      <4>3. Nth(r, n + 1, i - 1) = Nth(s, n, k - 1)
        BY <1>6, <4>2 DEF Nth
      <4>. QED BY <1>4, <3>2, <3>3, <3>4, <4>1, <4>3
    <3>. QED BY <3>5, <3>6
  <2>. QED BY <2>1, <2>2
<1>13. Joined(a, r, n + 1)
  BY <1>10, <1>11, <1>12 DEF Joined
<1>14. Chain(a, r, n + 1)
  BY <1>1, <1>7, <1>8, <1>9, <1>13 DEF Chain
<1>. QED BY <1>14 DEF a, r

-----------------------------------------------------------------------------
(***************************************************************************)
(* The bytes of the list are those of its entries.                         *)
(***************************************************************************)

Medias == [page : Pages, ver : 0 .. MaxEdits, gen : 0 .. MaxEdits]

Ent(l, key) == [key |-> key, item |-> l.map[key].media]
Kept(l) == {Ent(l, key) : key \in DOMAIN l.map}
Total(E) == SumFunction([e \in E |-> SizeOf[e.item.page]])

Weighed(E) == IsFiniteSet(E) /\ \A e \in E : SizeOf[e.item.page] \in Nat

LEMMA TotalIsNat == ASSUME NEW E, Weighed(E) PROVE Total(E) \in Nat
<1> DEFINE f == [e \in E |-> SizeOf[e.item.page]]
<1>1. DOMAIN f = E /\ \A e \in DOMAIN f : f[e] \in Nat
  BY DEF Weighed
<1> HIDE DEF f
<1>2. SumFunction(f) \in Nat
  BY <1>1, SumIsNat DEF Weighed
<1>. QED BY <1>2 DEF Total, f

LEMMA TotalOfNone == Total({}) = 0
<1> DEFINE f == [e \in {} |-> SizeOf[e.item.page]]
<1>1. DOMAIN f = {}
  OBVIOUS
<1> HIDE DEF f
<1>2. SumFunction(f) = 0
  BY <1>1, SumOfNothing
<1>. QED BY <1>2 DEF Total, f

LEMMA TotalSplit ==
  ASSUME NEW E, Weighed(E), NEW a \in E
  PROVE  Weighed(E \ {a}) /\ Total(E) = SizeOf[a.item.page] + Total(E \ {a})
<1> DEFINE f == [e \in E |-> SizeOf[e.item.page]]
           g == [e \in E \ {a} |-> SizeOf[e.item.page]]
<1>1. DOMAIN f = E /\ \A e \in DOMAIN f : f[e] \in Nat
  BY DEF Weighed
<1>2. DOMAIN g = DOMAIN f \ {a} /\ \A e \in DOMAIN g : g[e] = f[e]
  OBVIOUS
<1>3. f[a] = SizeOf[a.item.page]
  OBVIOUS
<1> HIDE DEF f, g
<1>4. SumFunction(f) = f[a] + SumFunction(g)
  BY <1>1, <1>2, SumSplit DEF Weighed
<1>5. Weighed(E \ {a})
  BY FS_RemoveElement DEF Weighed
<1>. QED BY <1>3, <1>4, <1>5 DEF Total, f, g

\* l is a list of pages in the order of s, with its bytes.
IsList(l, s, n) ==
  /\ LruOK(l) /\ Chain(l, s, n)
  /\ DOMAIN l.map \subseteq Keys /\ \A key \in DOMAIN l.map : l.map[key].media \in Medias
  /\ l.bytes = Total(Kept(l))

LEMMA KeptWeighed ==
  ASSUME MediaAssumption, NEW l, NEW s, NEW n, IsList(l, s, n)
  PROVE  Weighed(Kept(l)) /\ Nil \notin DOMAIN l.map
<1> DEFINE f == [key \in DOMAIN l.map |-> Ent(l, key)]
<1>1. f \in Surjection(DOMAIN l.map, Kept(l))
  BY DEF Surjection, Kept
<1>2. IsFiniteSet(DOMAIN l.map)
  BY DEF IsList, LruOK, MapOK
<1>3. IsFiniteSet(Kept(l))
  BY <1>1, <1>2, FS_Surjection
<1>4. \A e \in Kept(l) : e.item.page \in Pages
  BY DEF Kept, Ent, IsList, Medias
<1>5. Nil \notin DOMAIN l.map
  BY DEF MediaAssumption, IsList
<1>. QED BY <1>3, <1>4, <1>5 DEF Weighed, MediaAssumption

LEMMA DetachList ==
  ASSUME MediaAssumption, NEW l, NEW s, NEW n, IsList(l, s, n), NEW j \in 1 .. n
  PROVE  LET d == Detach(l, s[j])
         IN /\ IsList(d, Drop(s, n, j), n - 1)
            /\ Kept(d) = Kept(l) \ {Ent(l, s[j])}
            /\ DOMAIN d.map = DOMAIN l.map \ {s[j]} /\ d.gen = l.gen
            /\ \A x \in DOMAIN l.map : x # s[j] => x \in DOMAIN d.map /\ d.map[x].media = l.map[x].media
<1> DEFINE key == s[j]
           d == Detach(l, key)
<1>1. Weighed(Kept(l)) /\ Nil \notin DOMAIN l.map
  BY KeptWeighed
<1>2. key \in DOMAIN l.map /\ LruOK(l) /\ Chain(l, s, n)
  BY DEF IsList, Chain
<1>3. Chain(d, Drop(s, n, j), n - 1)
  BY <1>1, <1>2, DetachChain
<1>4. LruOK(d) /\ d.gen = l.gen
  BY <1>2, DetachOK
<1>5. l.map[key].prev \in (DOMAIN l.map \ {key}) \cup {Nil} /\ l.map[key].next \in (DOMAIN l.map \ {key}) \cup {Nil}
  <2>1. /\ n \in Nat /\ s \in [1 .. n -> DOMAIN l.map] /\ \A i, k \in 1 .. n : s[i] = s[k] => i = k
        /\ l.map[key].prev = Nth(s, n, j - 1) /\ l.map[key].next = Nth(s, n, j + 1)
    BY <1>2 DEF Chain, Joined
  <2>. QED BY <2>1 DEF Nth
<1>6. /\ DOMAIN d.map = DOMAIN l.map \ {key}
      /\ \A x \in DOMAIN d.map : d.map[x].media = l.map[x].media
      /\ d.bytes = l.bytes - SizeOf[l.map[key].media.page]
  BY <1>1, <1>2, <1>5, DetachIs
<1> HIDE DEF d
<1>7. Kept(d) = Kept(l) \ {Ent(l, key)}
  BY <1>2, <1>6 DEF Kept, Ent
<1>8. d.bytes = Total(Kept(d))
  <2>1. Ent(l, key) \in Kept(l) /\ Ent(l, key).item.page = l.map[key].media.page
    BY <1>2 DEF Kept, Ent
  <2>2. Weighed(Kept(d)) /\ Total(Kept(l)) = SizeOf[l.map[key].media.page] + Total(Kept(d))
    BY <1>1, <1>7, <2>1, TotalSplit
  <2>3. Total(Kept(d)) \in Nat /\ SizeOf[l.map[key].media.page] \in Nat
    BY <1>1, <2>1, <2>2, TotalIsNat DEF Weighed
  <2>4. l.bytes = Total(Kept(l))
    BY DEF IsList
  <2>. QED BY <1>6, <2>2, <2>3, <2>4
<1>9. DOMAIN d.map \subseteq Keys /\ \A x \in DOMAIN d.map : d.map[x].media \in Medias
  BY <1>6 DEF IsList
<1>10. IsList(d, Drop(s, n, j), n - 1)
  BY <1>3, <1>4, <1>8, <1>9 DEF IsList
<1>. QED BY <1>4, <1>6, <1>7, <1>10 DEF d

LEMMA AtHeadList ==
  ASSUME MediaAssumption, NEW l, NEW s, NEW n, IsList(l, s, n),
         NEW key \in Keys, key \notin DOMAIN l.map, NEW media \in Medias, media.gen = l.gen
  PROVE  LET a == AtHead(l, key, media)
         IN /\ IsList(a, Push(s, n, key), n + 1)
            /\ a.map[key].media = media
            /\ \A x \in DOMAIN l.map : a.map[x].media = l.map[x].media
<1> DEFINE a == AtHead(l, key, media)
<1>1. Weighed(Kept(l)) /\ Nil \notin DOMAIN l.map /\ key # Nil
  BY KeptWeighed DEF MediaAssumption
<1>2. LruOK(l) /\ Chain(l, s, n)
  BY DEF IsList
<1>3. Chain(a, Push(s, n, key), n + 1)
  BY <1>1, <1>2, AtHeadChain
<1>4. LruOK(a)
  BY <1>2, AtHeadOK
<1>5. l.head \in DOMAIN l.map \cup {Nil}
  BY <1>2 DEF Chain, Joined, Nth
<1>6. /\ DOMAIN a.map = DOMAIN l.map \cup {key}
      /\ a.map[key].media = media /\ \A x \in DOMAIN l.map : a.map[x].media = l.map[x].media
      /\ a.bytes = l.bytes + SizeOf[media.page]
  BY <1>1, <1>2, <1>5, AtHeadIs
<1> HIDE DEF a
<1>7. Kept(l) = Kept(a) \ {Ent(a, key)} /\ Ent(a, key) \in Kept(a)
  BY <1>6 DEF Kept, Ent
<1>8. a.bytes = Total(Kept(a))
  <2>1. Ent(a, key).item = media /\ SizeOf[media.page] \in Nat
    BY <1>6 DEF Ent, MediaAssumption, Medias
  <2>2. Weighed(Kept(a))
    <3>1. Kept(a) = Kept(l) \cup {Ent(a, key)}
      BY <1>7
    <3>2. IsFiniteSet(Kept(a))
      BY <1>1, <3>1, FS_AddElement DEF Weighed
    <3>. QED BY <1>1, <2>1, <3>1, <3>2 DEF Weighed
  <2>3. Total(Kept(a)) = SizeOf[media.page] + Total(Kept(l))
    BY <1>7, <2>1, <2>2, TotalSplit
  <2>4. l.bytes = Total(Kept(l)) /\ Total(Kept(l)) \in Nat
    BY <1>1, TotalIsNat DEF IsList
  <2>. QED BY <1>6, <2>1, <2>3, <2>4
<1>9. DOMAIN a.map \subseteq Keys /\ \A x \in DOMAIN a.map : a.map[x].media \in Medias
  BY <1>6 DEF IsList
<1>10. IsList(a, Push(s, n, key), n + 1)
  BY <1>3, <1>4, <1>8, <1>9 DEF IsList
<1>. QED BY <1>6, <1>10 DEF a

-----------------------------------------------------------------------------
(***************************************************************************)
(* Making room leaves the newest that fit beside what comes.               *)
(***************************************************************************)

Prefix(l, s, k) == {Ent(l, s[i]) : i \in 1 .. k}

Fits(m, size) == m.bytes + size <= Cap

\* m is what is left of l when all but the first k have gone.
Left(m, l, s, n, size, k) ==
  /\ k \in 0 .. n
  /\ IsList(m, Firsts(s, k), k)
  /\ \A i \in 1 .. k : m.map[s[i]].media = l.map[s[i]].media
  /\ k = n \/ Total(Prefix(l, s, k + 1)) + size > Cap

LEMMA LeftKept ==
  ASSUME NEW m, NEW l, NEW s, NEW n, NEW size, NEW k, Left(m, l, s, n, size, k)
  PROVE  Kept(m) = Prefix(l, s, k)
<1>1. /\ k \in Nat /\ \A i \in 1 .. k : s[i] \in DOMAIN m.map /\ Firsts(s, k)[i] = s[i]
      /\ \A x \in DOMAIN m.map : \E i \in 1 .. k : Firsts(s, k)[i] = x
  BY DEF Left, IsList, Chain, Firsts
<1>2. \A i \in 1 .. k : Ent(m, s[i]) = Ent(l, s[i])
  BY DEF Left, Ent
<1>3. \A x \in DOMAIN m.map : \E i \in 1 .. k : s[i] = x
  BY <1>1
<1>. QED BY <1>1, <1>2, <1>3 DEF Kept, Prefix

LEMMA EvictLeft ==
  ASSUME MediaAssumption, NEW l, NEW s, NEW n \in Nat, s \in [1 .. n -> DOMAIN l.map], NEW size \in Nat, size <= Cap,
         NEW m, NEW k, Left(m, l, s, n, size, k)
  PROVE  \/ Fits(m, size) /\ EvictTail(m, size) = m
         \/ k # 0 /\ ~Fits(m, size) /\ Left(EvictTail(m, size), l, s, n, size, k - 1)
<1>1. k \in 0 .. n /\ IsList(m, Firsts(s, k), k)
  BY DEF Left
<1>2. Chain(m, Firsts(s, k), k) /\ m.tail = Nth(Firsts(s, k), k, k) /\ m.bytes = Total(Kept(m))
  BY <1>1 DEF IsList, Chain, Joined
<1>3. Weighed(Kept(m)) /\ Nil \notin DOMAIN m.map /\ m.bytes \in Nat
  BY <1>1, <1>2, KeptWeighed, TotalIsNat
<1>4. CASE Fits(m, size)
  <2>1. ~(m.bytes + size > Cap)
    BY <1>3, <1>4 DEF MediaAssumption, Fits
  <2>. QED BY <1>4, <2>1 DEF EvictTail
<1>5. CASE ~Fits(m, size)
  <2>1. m.bytes + size > Cap
    BY <1>3, <1>5 DEF MediaAssumption, Fits
  <2>2. k # 0
    <3>1. ASSUME k = 0 PROVE FALSE
      <4>1. Kept(m) = Prefix(l, s, 0)
        BY <3>1, LeftKept
      <4>2. Prefix(l, s, 0) = {}
        BY DEF Prefix
      <4>3. m.bytes = 0
        BY <1>2, <4>1, <4>2, TotalOfNone
      <4>. QED BY <1>5, <4>3 DEF MediaAssumption, Fits
    <3>. QED BY <3>1
  <2>3. k \in 1 .. n /\ k \in Nat /\ m.tail = s[k] /\ s[k] = Firsts(s, k)[k]
    BY <1>1, <1>2, <2>2 DEF Nth, Firsts
  <2>4. s[k] \in DOMAIN m.map /\ s[k] # Nil
    BY <1>2, <1>3, <2>3 DEF Chain
  <2>5. EvictTail(m, size) = Detach(m, s[k])
    BY <2>1, <2>3, <2>4 DEF EvictTail
  <2> DEFINE d == Detach(m, s[k])
  <2>6. /\ IsList(d, Drop(Firsts(s, k), k, k), k - 1)
        /\ \A x \in DOMAIN m.map : x # s[k] => d.map[x].media = m.map[x].media
    BY <1>1, <2>3, DetachList
  <2> HIDE DEF d
  <2>7. Drop(Firsts(s, k), k, k) = Firsts(s, k - 1)
    BY <2>3 DEF Drop, Firsts
  <2>8. ASSUME NEW i \in 1 .. k - 1 PROVE d.map[s[i]].media = l.map[s[i]].media
    <3>1. i \in 1 .. k /\ i # k /\ Firsts(s, k)[i] = s[i]
      BY <2>3 DEF Firsts
    <3>2. s[i] \in DOMAIN m.map /\ s[i] # s[k]
      BY <1>2, <2>3, <3>1 DEF Chain
    <3>. QED BY <2>6, <3>1, <3>2 DEF Left
  <2>9. Total(Prefix(l, s, (k - 1) + 1)) + size > Cap
    <3>1. (k - 1) + 1 = k
      BY <2>3
    <3>. QED BY <1>2, <2>1, <3>1, LeftKept
  <2>10. k - 1 \in 0 .. n
    BY <2>3
  <2>11. Left(d, l, s, n, size, k - 1)
    BY <2>6, <2>7, <2>8, <2>9, <2>10 DEF Left
  <2>. QED BY <1>5, <2>2, <2>5, <2>11 DEF d
<1>. QED BY <1>4, <1>5

LEMMA RoomIsLeft ==
  ASSUME MediaAssumption, NEW l, NEW s, NEW n, IsList(l, s, n), NEW size \in Nat, size <= Cap
  PROVE  \E k \in 0 .. n : Left(MakeRoom(l, size), l, s, n, size, k) /\ Fits(MakeRoom(l, size), size)
<1> DEFINE D == 1 .. n
           T == RoomTable(l, size, D)
           Q == {t \in SUBSET D : \E k \in 0 .. n : /\ Left(T[t], l, s, n, size, k)
                                                    /\ Fits(T[t], size) \/ k + Cardinality(t) = n}
<1>1. n \in Nat /\ Chain(l, s, n) /\ s \in [1 .. n -> DOMAIN l.map]
  BY DEF IsList, Chain
<1>2. D \in SUBSET Nat /\ IsFiniteSet(D) /\ Cardinality(D) = n /\ Cardinality(DOMAIN l.map) = n
  <2>1. IsFiniteSet(D) /\ Cardinality(D) = IF 1 > n THEN 0 ELSE n - 1 + 1
    BY <1>1, FS_Interval
  <2>2. Cardinality(DOMAIN l.map) = n
    BY <1>1, ChainCard
  <2>. QED BY <1>1, <2>1, <2>2
<1>3. IsRoomTable(l, size, D, T)
  BY <1>2, RoomTableExists
<1> HIDE DEF T
<1>4. T = [t \in SUBSET D |-> RoomRow(l, size, T, t)]
  BY <1>3 DEF IsRoomTable
<1>5. ASSUME NEW t \in SUBSET D, \A x \in t : t \ {x} \in Q PROVE t \in Q
  <2>1. T[t] = RoomRow(l, size, T, t)
    BY <1>4
  <2>2. CASE t = {}
    <3>1. T[t] = l /\ Cardinality(t) = 0
      BY <2>1, <2>2, FS_EmptySet DEF RoomRow
    <3>2. Firsts(s, n) = s
      BY <1>1 DEF Firsts
    <3>3. Left(l, l, s, n, size, n)
      BY <1>1, <3>2 DEF Left
    <3>. QED BY <1>1, <3>1, <3>3
  <2>3. CASE t # {}
    <3> DEFINE rest == t \ {Max(t)}
    <3>1. IsFiniteSet(t) /\ Max(t) \in t
      BY <1>2, <2>3, FS_Subset, MaxOfNats
    <3>2. rest \in Q
      BY <3>1, <1>5
    <3>3. Cardinality(rest) = Cardinality(t) - 1 /\ Cardinality(t) \in Nat
      BY <3>1, FS_RemoveElement, FS_CardinalityType
    <3>4. T[t] = EvictTail(T[rest], size)
      BY <2>1, <2>3 DEF RoomRow
    <3> HIDE DEF rest
    <3>5. PICK k \in 0 .. n : /\ Left(T[rest], l, s, n, size, k)
                              /\ Fits(T[rest], size) \/ k + Cardinality(rest) = n
      BY <3>2
    <3> DEFINE m == T[rest]
               c == Cardinality(t)
    <3>6. Left(m, l, s, n, size, k) /\ (Fits(m, size) \/ k + (c - 1) = n)
      BY <3>3, <3>5
    <3>7. T[t] = EvictTail(m, size) /\ c \in Nat
      BY <3>3, <3>4
    <3> HIDE DEF m, c
    <3>8. \E i \in 0 .. n : Left(T[t], l, s, n, size, i) /\ (Fits(T[t], size) \/ i + c = n)
      <4>1. \/ Fits(m, size) /\ EvictTail(m, size) = m
            \/ k # 0 /\ ~Fits(m, size) /\ Left(EvictTail(m, size), l, s, n, size, k - 1)
        BY <1>1, <3>6, EvictLeft
      <4>2. CASE EvictTail(m, size) = m /\ Fits(m, size)
        <5>1. T[t] = m
          BY <3>7, <4>2
        <5>. QED BY <3>6, <4>2, <5>1
      <4>3. CASE k # 0 /\ ~Fits(m, size) /\ Left(EvictTail(m, size), l, s, n, size, k - 1)
        <5>1. k - 1 \in 0 .. n
          BY <1>1, <4>3
        <5>2. Left(T[t], l, s, n, size, k - 1)
          BY <3>7, <4>3
        <5>3. (k - 1) + c = n
          BY <1>1, <3>6, <3>7, <4>3
        <5>. QED BY <5>1, <5>2, <5>3
      <4>. QED BY <4>1, <4>2, <4>3
    <3>. QED BY <3>8 DEF c
  <2>. QED BY <2>2, <2>3
<1>6. Q \in SUBSET SUBSET D
  OBVIOUS
<1> HIDE DEF Q
<1>7. Q = SUBSET D
  BY <1>2, <1>5, <1>6, SubsetInduction
<1>8. D \in Q
  BY <1>7
<1>9. PICK k \in 0 .. n : Left(T[D], l, s, n, size, k) /\ (Fits(T[D], size) \/ k + n = n)
  BY <1>2, <1>8 DEF Q
<1> DEFINE last == T[D]
<1>10. Fits(last, size)
  <2>1. ASSUME k = 0 PROVE Fits(last, size)
    <3> HIDE DEF last
    <3>1. Left(last, l, s, n, size, 0)
      BY <1>9, <2>1 DEF last
    <3>2. Kept(last) = Prefix(l, s, 0)
      BY <3>1, LeftKept
    <3>3. last.bytes = Total(Kept(last))
      BY <3>1 DEF Left, IsList
    <3>4. last.bytes = 0
      BY <3>2, <3>3, TotalOfNone DEF Prefix
    <3>. QED BY <3>4 DEF Fits, MediaAssumption
  <2>2. CASE k # 0
    <3>1. k + n # n
      BY <1>1, <2>2
    <3>. QED BY <1>9, <3>1
  <2>. QED BY <2>1, <2>2
<1>11. MakeRoom(l, size) = T[D]
  <2> DEFINE rounds == [i \in D |-> i]
  <2>1. MakeRoom(l, size) = FoldLeft(LAMBDA m, i : EvictTail(m, size), l, rounds)
    BY <1>2 DEF MakeRoom
  <2>2. DOMAIN rounds = D
    OBVIOUS
  <2> HIDE DEF rounds, D
  <2>3. MakeRoom(l, size) = RoomTable(l, size, DOMAIN rounds)[DOMAIN rounds]
    BY <2>1, RoomIsTable
  <2>. QED BY <2>2, <2>3 DEF T
<1>. QED BY <1>9, <1>10, <1>11

-----------------------------------------------------------------------------
(***************************************************************************)
(* The list as the abstract cache sees it.                                 *)
(***************************************************************************)

EntryRow(l, s, n) == [i \in 1 .. n |-> Ent(l, s[i])]

LEMMA BytesAre == ASSUME NEW p PROVE Lru!Bytes(p) = Total(Range(p))
<1>1. Lru!Bytes(p) = SumFunction([e \in Range(p) |-> SizeOf[e.item.page]])
  BY DEF Lru!Bytes, Lru!SumFunction, Lru!SumFunctionOnSet, Lru!FoldFunctionOnSet, Lru!MapThenFoldSet,
         SumFunction, SumFunctionOnSet, FoldFunctionOnSet, MapThenFoldSet, Lru!Range, Range, ItemSize
<1>. QED BY <1>1 DEF Total

LEMMA EntryRowIs ==
  ASSUME NEW l, NEW s, NEW n, Chain(l, s, n)
  PROVE  /\ EntryRow(l, s, n) \in Seq(Kept(l)) /\ Len(EntryRow(l, s, n)) = n /\ DOMAIN EntryRow(l, s, n) = 1 .. n
         /\ \A i \in 1 .. n : EntryRow(l, s, n)[i] = Ent(l, s[i])
         /\ Range(EntryRow(l, s, n)) = Kept(l)
<1> DEFINE p == EntryRow(l, s, n)
<1>1. n \in Nat /\ s \in [1 .. n -> DOMAIN l.map] /\ \A key \in DOMAIN l.map : \E i \in 1 .. n : s[i] = key
  BY DEF Chain
<1>2. p \in [1 .. n -> Kept(l)] /\ \A i \in 1 .. n : p[i] = Ent(l, s[i])
  BY <1>1 DEF EntryRow, Kept
<1> HIDE DEF p
<1>3. p \in Seq(Kept(l)) /\ Len(p) = n /\ DOMAIN p = 1 .. n
  BY <1>1, <1>2, SeqOfFunction
<1>4. Range(p) = Kept(l)
  <2>1. \A e \in Kept(l) : \E i \in 1 .. n : p[i] = e
    BY <1>1, <1>2 DEF Kept
  <2>. QED BY <1>2, <1>3, <2>1 DEF Range
<1>. QED BY <1>2, <1>3, <1>4 DEF p

LEMMA ListedIs ==
  ASSUME NEW l, NEW s, NEW n, IsList(l, s, n)
  PROVE  Listed(l) = EntryRow(l, s, n) /\ l.bytes = Lru!Bytes(Listed(l))
<1>1. Chain(l, s, n) /\ l.bytes = Total(Kept(l))
  BY DEF IsList
<1>2. Order(l) = s /\ DOMAIN s = 1 .. n
  BY <1>1, ChainIsOrder DEF Chain
<1>3. Listed(l) = EntryRow(l, s, n)
  BY <1>2 DEF Listed, EntryRow, Ent
<1>4. l.bytes = Lru!Bytes(EntryRow(l, s, n))
  BY <1>1, EntryRowIs, BytesAre
<1>. QED BY <1>3, <1>4

-----------------------------------------------------------------------------
(***************************************************************************)
(* Touching an entry is using it.                                          *)
(***************************************************************************)

LEMMA TouchList ==
  ASSUME MediaAssumption, NEW l, NEW s, NEW n, IsList(l, s, n), NEW j \in 1 .. n, l.head # s[j]
  PROVE  /\ IsList(Touch(l, s[j]), Push(Drop(s, n, j), n - 1, s[j]), (n - 1) + 1)
         /\ EntryRow(Touch(l, s[j]), Push(Drop(s, n, j), n - 1, s[j]), (n - 1) + 1)
              = Push(Drop(EntryRow(l, s, n), n, j), n - 1, EntryRow(l, s, n)[j])
<1> DEFINE key == s[j]
           d == Detach(l, key)
           media == l.map[key].media
           r == Drop(s, n, j)
           a == AtHead(d, key, media)
           q == Push(r, n - 1, key)
<1>1. Touch(l, key) = a
  BY DEF Touch
<1>2. key \in DOMAIN l.map /\ key \in Keys /\ media \in Medias /\ media.gen = l.gen /\ n \in Nat
  BY DEF IsList, Chain, LruOK, MapOK, EntryOK
<1>3. /\ IsList(d, r, n - 1)
      /\ DOMAIN d.map = DOMAIN l.map \ {key} /\ d.gen = l.gen
      /\ \A x \in DOMAIN l.map : x # key => x \in DOMAIN d.map /\ d.map[x].media = l.map[x].media
  BY DetachList
<1>4. key \notin DOMAIN d.map
  BY <1>3
<1>8. /\ \A i \in 1 .. n : s[i] \in DOMAIN l.map
      /\ \A i, k \in 1 .. n : s[i] = s[k] => i = k
  BY DEF IsList, Chain
<1>9. \A i \in 1 .. n - 1 : r[i] \in DOMAIN l.map /\ r[i] # key /\ Ent(l, r[i]) = Drop(EntryRow(l, s, n), n, j)[i]
  <2>1. ASSUME NEW i \in 1 .. n - 1
        PROVE  r[i] \in DOMAIN l.map /\ r[i] # key /\ Ent(l, r[i]) = Drop(EntryRow(l, s, n), n, j)[i]
    <3>1. CASE i < j
      <4>1. i \in 1 .. n /\ i # j
        BY <1>2, <3>1
      <4>. QED BY <1>8, <3>1, <4>1 DEF Drop, EntryRow
    <3>2. CASE ~(i < j)
      <4>1. i + 1 \in 1 .. n /\ i + 1 # j
        BY <1>2, <3>2
      <4>. QED BY <1>8, <3>2, <4>1 DEF Drop, EntryRow
    <3>. QED BY <3>1, <3>2
  <2>. QED BY <2>1
<1> HIDE DEF d, media, r
<1>5. /\ IsList(a, q, (n - 1) + 1)
      /\ a.map[key].media = media
      /\ \A x \in DOMAIN d.map : a.map[x].media = d.map[x].media
  BY <1>2, <1>3, <1>4, AtHeadList
<1> HIDE DEF a
<1>6. Ent(a, key) = EntryRow(l, s, n)[j]
  BY <1>5 DEF Ent, EntryRow, media
<1>7. \A i \in 1 .. n - 1 : Ent(a, r[i]) = Drop(EntryRow(l, s, n), n, j)[i]
  <2>1. ASSUME NEW i \in 1 .. n - 1 PROVE Ent(a, r[i]) = Drop(EntryRow(l, s, n), n, j)[i]
    <3>1. a.map[r[i]].media = l.map[r[i]].media
      BY <1>3, <1>5, <1>9
    <3>2. Ent(a, r[i]) = Ent(l, r[i])
      BY <3>1 DEF Ent
    <3>. QED BY <1>9, <3>2
  <2>. QED BY <2>1
<1>10. EntryRow(a, q, (n - 1) + 1) = Push(Drop(EntryRow(l, s, n), n, j), n - 1, EntryRow(l, s, n)[j])
  <2> DEFINE lhs == EntryRow(a, q, (n - 1) + 1)
             rhs == Push(Drop(EntryRow(l, s, n), n, j), n - 1, EntryRow(l, s, n)[j])
  <2>1. ASSUME NEW i \in 1 .. (n - 1) + 1
        PROVE  Ent(a, q[i]) = IF i = 1 THEN EntryRow(l, s, n)[j] ELSE Drop(EntryRow(l, s, n), n, j)[i - 1]
    <3>1. q[i] = IF i = 1 THEN key ELSE r[i - 1]
      BY DEF Push
    <3>2. i # 1 => i - 1 \in 1 .. n - 1
      BY <1>2
    <3> HIDE DEF q, key
    <3>. QED BY <1>6, <1>7, <3>1, <3>2
  <2>. QED BY <2>1 DEF EntryRow, Push
<1>11. Touch(l, s[j]) = a /\ q = Push(Drop(s, n, j), n - 1, s[j])
  BY <1>1 DEF r
<1> HIDE DEF q
<1>. QED BY <1>5, <1>10, <1>11

-----------------------------------------------------------------------------
(***************************************************************************)
(* Putting a page is inserting it.                                         *)
(***************************************************************************)

\* What is detached is dropped from the sequence.
LEMMA DetachRow ==
  ASSUME MediaAssumption, NEW l, NEW s, NEW n, IsList(l, s, n), NEW j \in 1 .. n
  PROVE  EntryRow(Detach(l, s[j]), Drop(s, n, j), n - 1) = Drop(EntryRow(l, s, n), n, j)
<1> DEFINE d == Detach(l, s[j])
<1>1. \A x \in DOMAIN l.map : x # s[j] => d.map[x].media = l.map[x].media
  BY DetachList
<1>2. /\ n \in Nat /\ \A i \in 1 .. n : s[i] \in DOMAIN l.map
      /\ \A i, k \in 1 .. n : s[i] = s[k] => i = k
  BY DEF IsList, Chain
<1> HIDE DEF d
<1>3. ASSUME NEW i \in 1 .. n - 1 PROVE Ent(d, Drop(s, n, j)[i]) = Drop(EntryRow(l, s, n), n, j)[i]
  <2>1. CASE i < j
    <3>1. i \in 1 .. n /\ i # j
      BY <1>2, <2>1
    <3>2. Ent(d, s[i]) = Ent(l, s[i])
      BY <1>1, <1>2, <3>1 DEF Ent
    <3>. QED BY <2>1, <3>1, <3>2 DEF Drop, EntryRow
  <2>2. CASE ~(i < j)
    <3>1. i + 1 \in 1 .. n /\ i + 1 # j
      BY <1>2, <2>2
    <3>2. Ent(d, s[i + 1]) = Ent(l, s[i + 1])
      BY <1>1, <1>2, <3>1 DEF Ent
    <3>. QED BY <2>2, <3>1, <3>2 DEF Drop, EntryRow
  <2>. QED BY <2>1, <2>2
<1>4. EntryRow(d, Drop(s, n, j), n - 1) = Drop(EntryRow(l, s, n), n, j)
  BY <1>3 DEF EntryRow, Drop
<1>. QED BY <1>4 DEF d

\* A new entry at the head takes what has room beside it, and no more would fit.
LEMMA NewAtHead ==
  ASSUME MediaAssumption, NEW l, NEW s, NEW n, IsList(l, s, n),
         NEW key \in Keys, key \notin DOMAIN l.map, NEW media \in Medias, media.gen = l.gen,
         SizeOf[media.page] <= Cap
  PROVE  LET a == AtHead(MakeRoom(l, SizeOf[media.page]), key, media)
             p == Push(EntryRow(l, s, n), n, [key |-> key, item |-> media])
         IN \E k \in 0 .. n :
              /\ IsList(a, Push(Firsts(s, k), k, key), k + 1)
              /\ EntryRow(a, Push(Firsts(s, k), k, key), k + 1) = Firsts(p, k + 1)
              /\ a.bytes <= Cap
              /\ k = n \/ Total(Range(Firsts(p, k + 2))) > Cap
<1> DEFINE size == SizeOf[media.page]
           m == MakeRoom(l, size)
           a == AtHead(m, key, media)
           e == [key |-> key, item |-> media]
           p == Push(EntryRow(l, s, n), n, e)
<1>1. size \in Nat /\ size <= Cap
  BY DEF MediaAssumption, Medias
<1>2. e.key = key /\ e.item = media /\ SizeOf[e.item.page] = size
  OBVIOUS
<1>3. n \in Nat /\ Chain(l, s, n) /\ s \in [1 .. n -> DOMAIN l.map] /\ LruOK(l)
  BY DEF IsList, Chain
<1>4. m.gen = l.gen
  BY <1>3, RoomOK
<1> HIDE DEF size
<1>5. PICK k \in 0 .. n : Left(m, l, s, n, size, k) /\ Fits(m, size)
  BY <1>1, RoomIsLeft
<1> HIDE DEF m
<1>6. IsList(m, Firsts(s, k), k) /\ DOMAIN m.map \subseteq DOMAIN l.map /\ k \in Nat
  <2>1. IsList(m, Firsts(s, k), k)
    BY <1>5 DEF Left
  <2>2. \A x \in DOMAIN m.map : \E i \in 1 .. k : s[i] = x
    BY <2>1 DEF IsList, Chain, Firsts
  <2>. QED BY <1>3, <2>1, <2>2
<1>7. /\ IsList(a, Push(Firsts(s, k), k, key), k + 1)
      /\ a.map[key].media = media
      /\ \A x \in DOMAIN m.map : a.map[x].media = m.map[x].media
  BY <1>4, <1>6, AtHeadList
<1>8. a.bytes <= Cap
  <2>1. AtHead(m, key, media).bytes = m.bytes + size
    BY <1>6 DEF AtHead, size, IsList, LruOK
  <2>. QED BY <1>5, <2>1 DEF Fits
<1> HIDE DEF a, e
<1>9. EntryRow(a, Push(Firsts(s, k), k, key), k + 1) = Firsts(p, k + 1)
  <2>1. Ent(a, key) = e
    BY <1>7 DEF Ent, e
  <2>2. ASSUME NEW i \in 1 .. k PROVE Ent(a, s[i]) = Ent(l, s[i])
    <3>1. s[i] \in DOMAIN m.map
      BY <1>6, <2>2 DEF IsList, Chain, Firsts
    <3>2. m.map[s[i]].media = l.map[s[i]].media
      BY <1>5 DEF Left
    <3>. QED BY <1>7, <3>1, <3>2 DEF Ent
  <2>3. ASSUME NEW i \in 1 .. k + 1 PROVE Ent(a, Push(Firsts(s, k), k, key)[i]) = p[i]
    <3>1. Push(Firsts(s, k), k, key)[i] = IF i = 1 THEN key ELSE Firsts(s, k)[i - 1]
      BY DEF Push
    <3>2. p[i] = IF i = 1 THEN e ELSE EntryRow(l, s, n)[i - 1]
      BY <1>3, <1>6 DEF Push
    <3>3. i # 1 => i - 1 \in 1 .. k /\ i - 1 \in 1 .. n
      BY <1>3, <1>6
    <3>4. i # 1 => Firsts(s, k)[i - 1] = s[i - 1] /\ EntryRow(l, s, n)[i - 1] = Ent(l, s[i - 1])
      BY <3>3 DEF Firsts, EntryRow
    <3>. QED BY <2>1, <2>2, <3>1, <3>2, <3>3, <3>4
  <2>. QED BY <2>3 DEF EntryRow, Firsts
<1>10. k = n \/ Total(Range(Firsts(p, k + 2))) > Cap
  <2>1. SUFFICES ASSUME k # n PROVE Total(Range(Firsts(p, k + 2))) > Cap
    OBVIOUS
  <2>2. k + 1 \in 1 .. n /\ k + 2 \in 1 .. n + 1
    BY <1>3, <1>6, <2>1
  <2>3. Total(Prefix(l, s, k + 1)) + size > Cap
    BY <1>5, <2>1 DEF Left
  <2> DEFINE F == Prefix(l, s, k + 1)
             E == Range(Firsts(p, k + 2))
  <2>4. F \subseteq Kept(l) /\ e \notin F
    <3>1. \A i \in 1 .. k + 1 : s[i] \in DOMAIN l.map
      BY <1>3, <2>2
    <3>. QED BY <1>2, <3>1 DEF Prefix, Kept, Ent
  <2>5. E = F \cup {e}
    <3>1. \A i \in 1 .. k + 2 : p[i] = IF i = 1 THEN e ELSE Ent(l, s[i - 1])
      <4>1. ASSUME NEW i \in 1 .. k + 2 PROVE p[i] = IF i = 1 THEN e ELSE Ent(l, s[i - 1])
        <5>1. i \in 1 .. n + 1 /\ (i # 1 => i - 1 \in 1 .. n)
          BY <1>3, <1>6, <2>2
        <5>2. p[i] = IF i = 1 THEN e ELSE EntryRow(l, s, n)[i - 1]
          BY <5>1 DEF Push
        <5>. QED BY <5>1, <5>2 DEF EntryRow
      <4>. QED BY <4>1
    <3>2. \A i \in 1 .. k + 1 : p[i + 1] = Ent(l, s[i]) /\ i + 1 \in 1 .. k + 2
      <4>1. ASSUME NEW i \in 1 .. k + 1 PROVE p[i + 1] = Ent(l, s[i]) /\ i + 1 \in 1 .. k + 2
        <5>1. i + 1 \in 1 .. k + 2 /\ i + 1 # 1 /\ (i + 1) - 1 = i
          BY <1>6
        <5>. QED BY <3>1, <5>1
      <4>. QED BY <4>1
    <3>3. \A i \in 1 .. k + 2 : i # 1 => i - 1 \in 1 .. k + 1
      BY <1>6
    <3>4. E = {p[i] : i \in 1 .. k + 2}
      BY DEF Range, Firsts
    <3>5. 1 \in 1 .. k + 2 /\ p[1] = e
      BY <1>6, <3>1
    <3> HIDE DEF p, E
    <3>6. \A x \in E : x \in F \cup {e}
      BY <3>1, <3>3, <3>4 DEF Prefix
    <3>7. \A x \in F : x \in E
      BY <3>2, <3>4 DEF Prefix
    <3>. QED BY <3>4, <3>5, <3>6, <3>7
  <2> HIDE DEF E, F
  <2>6. Weighed(E)
    <3>1. Weighed(Kept(l))
      BY KeptWeighed
    <3>2. IsFiniteSet(F)
      BY <2>4, <3>1, FS_Subset DEF Weighed
    <3>3. IsFiniteSet(E)
      BY <2>5, <3>2, FS_AddElement
    <3>. QED BY <1>1, <1>2, <2>4, <2>5, <3>1, <3>3 DEF Weighed
  <2>7. E \ {e} = F /\ e \in E
    BY <2>4, <2>5
  <2>8. Total(E) = size + Total(F) /\ Total(F) \in Nat
    BY <1>2, <2>6, <2>7, TotalSplit, TotalIsNat
  <2>9. Total(F) + size > Cap
    BY <2>3 DEF F
  <2>10. Total(E) > Cap
    BY <1>1, <2>8, <2>9
  <2>. QED BY <2>10 DEF E
<1> HIDE DEF p
<1>11. \E i \in 0 .. n :
         /\ IsList(a, Push(Firsts(s, i), i, key), i + 1)
         /\ EntryRow(a, Push(Firsts(s, i), i, key), i + 1) = Firsts(p, i + 1)
         /\ a.bytes <= Cap
         /\ i = n \/ Total(Range(Firsts(p, i + 2))) > Cap
  BY <1>7, <1>8, <1>9, <1>10
<1>. QED BY <1>11 DEF a, e, m, size, p

-----------------------------------------------------------------------------
(***************************************************************************)
(* The steps on the cache are steps of the list of bytes.                  *)
(***************************************************************************)

LEMMA BecomesIs ==
  ASSUME NEW p, Listed(lru)' = p, lru'.bytes = Lru!Bytes(p)
  PROVE  Lru!Becomes(p)
BY DEF Lru!Becomes

\* An entry's place among the entries.
LEMMA PlaceIs ==
  ASSUME NEW l, NEW s, NEW n, Chain(l, s, n)
  PROVE  /\ \A j \in 1 .. n : {i \in DOMAIN EntryRow(l, s, n) : EntryRow(l, s, n)[i].key = s[j]} = {j}
         /\ \A key : key \notin DOMAIN l.map => {i \in DOMAIN EntryRow(l, s, n) : EntryRow(l, s, n)[i].key = key} = {}
<1>1. /\ DOMAIN EntryRow(l, s, n) = 1 .. n /\ \A i \in 1 .. n : EntryRow(l, s, n)[i].key = s[i]
  BY DEF EntryRow, Ent
<1>2. /\ \A i, k \in 1 .. n : s[i] = s[k] => i = k
      /\ \A i \in 1 .. n : s[i] \in DOMAIN l.map
  BY DEF Chain
<1>. QED BY <1>1, <1>2

LEMMA UseStep ==
  ASSUME MediaAssumption, NEW s, NEW n, IsList(lru, s, n), NEW key \in DOMAIN lru.map, lru' = Touch(lru, key)
  PROVE  (\E r : \E m : IsList(lru', r, m)) /\ (lru' = lru \/ Lru!Use(key))
<1>1. CASE lru.head = key
  <2>1. lru' = lru
    BY <1>1 DEF Touch
  <2>. QED BY <2>1
<1>2. CASE lru.head # key
  <2>1. Chain(lru, s, n) /\ n \in Nat
    BY DEF IsList, Chain
  <2>2. PICK j \in 1 .. n : s[j] = key
    BY <2>1 DEF Chain
  <2> DEFINE p == EntryRow(lru, s, n)
             q == Push(Drop(s, n, j), n - 1, key)
             new == Push(Drop(p, n, j), n - 1, p[j])
  <2>3. IsList(Touch(lru, s[j]), q, (n - 1) + 1) /\ EntryRow(Touch(lru, s[j]), q, (n - 1) + 1) = new
    BY <1>2, <2>2, TouchList
  <2>4. IsList(lru', q, (n - 1) + 1) /\ EntryRow(lru', q, (n - 1) + 1) = new
    BY <2>2, <2>3
  <2>5. /\ Listed(lru) = p /\ p \in Seq(Kept(lru)) /\ Len(p) = n /\ DOMAIN p = 1 .. n
    BY <2>1, ListedIs, EntryRowIs
  <2>6. {i \in DOMAIN p : p[i].key = key} = {j}
    BY <2>1, <2>2, PlaceIs
  <2> HIDE DEF q, p
  <2>7. Listed(lru') = new /\ lru'.bytes = Lru!Bytes(new)
    BY <2>4, ListedIs
  <2>8. new = <<p[j]>> \o (SubSeq(p, 1, j - 1) \o SubSeq(p, j + 1, Len(p)))
    <3>1. SubSeq(p, 1, j - 1) \o SubSeq(p, j + 1, Len(p)) = Drop(p, n, j)
      BY <2>5, DropIs
    <3>2. Drop(p, n, j) \in [1 .. n - 1 -> Kept(lru)] /\ n - 1 \in Nat
      <4>1. \A i \in 1 .. n : p[i] \in Kept(lru)
        BY <2>5
      <4>2. n - 1 \in Nat
        BY <2>1
      <4>3. \A i \in 1 .. n - 1 : i \in 1 .. n /\ i + 1 \in 1 .. n
        BY <2>1
      <4>. QED BY <4>1, <4>2, <4>3 DEF Drop
    <3>3. Drop(p, n, j) \in Seq(Kept(lru)) /\ Len(Drop(p, n, j)) = n - 1
      BY <3>2, SeqOfFunction
    <3> DEFINE rest == Drop(p, n, j)
    <3> HIDE DEF rest
    <3>4. <<p[j]>> \o rest = Push(rest, n - 1, p[j])
      BY <3>3, PushIs DEF rest
    <3>. QED BY <3>1, <3>4 DEF rest
  <2> HIDE DEF new
  <2>9. Lru!Becomes(new)
    BY <2>7, BecomesIs
  <2>10. Lru!At(key) = {j}
    BY <2>5, <2>6 DEF Lru!At
  <2>11. Lru!Use(key)
    BY <2>5, <2>8, <2>9, <2>10 DEF Lru!Use, Lru!RemoveAt
  <2>. QED BY <2>4, <2>11
<1>. QED BY <1>1, <1>2

\* What is left when an entry of the same key is taken out.
OldOf(l, key) == IF key \in DOMAIN l.map THEN Detach(l, key) ELSE l

LEMMA ButIs ==
  ASSUME MediaAssumption, NEW s, NEW n, IsList(lru, s, n), NEW key
  PROVE  \E r : \E m : /\ IsList(OldOf(lru, key), r, m) /\ Lru!But(key) = EntryRow(OldOf(lru, key), r, m)
                       /\ key \notin DOMAIN OldOf(lru, key).map /\ OldOf(lru, key).gen = lru.gen
<1> DEFINE p == EntryRow(lru, s, n)
           old == OldOf(lru, key)
<1>1. Chain(lru, s, n) /\ n \in Nat
  BY DEF IsList, Chain
<1>2. Listed(lru) = p /\ p \in Seq(Kept(lru)) /\ Len(p) = n /\ DOMAIN p = 1 .. n
  BY <1>1, ListedIs, EntryRowIs
<1>3. CASE key \notin DOMAIN lru.map
  <2>1. {i \in DOMAIN p : p[i].key = key} = {}
    BY <1>1, <1>3, PlaceIs
  <2> HIDE DEF p
  <2>2. Lru!But(key) = p
    BY <1>2, <2>1 DEF Lru!But, Lru!At
  <2>3. old = lru
    BY <1>3 DEF OldOf
  <2>. QED BY <1>3, <2>2, <2>3 DEF p
<1>4. CASE key \in DOMAIN lru.map
  <2>1. PICK j \in 1 .. n : s[j] = key
    BY <1>1, <1>4 DEF Chain
  <2>2. {i \in DOMAIN p : p[i].key = key} = {j}
    BY <1>1, <2>1, PlaceIs
  <2>3. old = Detach(lru, s[j])
    BY <1>4, <2>1 DEF OldOf
  <2> DEFINE r == Drop(s, n, j)
  <2>4. IsList(old, r, n - 1) /\ DOMAIN old.map = DOMAIN lru.map \ {key} /\ old.gen = lru.gen
    BY <2>1, <2>3, DetachList
  <2>5. EntryRow(old, r, n - 1) = Drop(p, n, j)
    BY <2>3, DetachRow
  <2> HIDE DEF old, p, r
  <2>6. SubSeq(p, 1, j - 1) \o SubSeq(p, j + 1, Len(p)) = Drop(p, n, j)
    BY <1>2, DropIs
  <2>7. Lru!But(key) = Drop(p, n, j)
    BY <1>2, <2>2, <2>6 DEF Lru!But, Lru!At, Lru!RemoveAt
  <2>8. key \notin DOMAIN old.map /\ Lru!But(key) = EntryRow(old, r, n - 1)
    BY <2>4, <2>5, <2>7
  <2>. QED BY <2>4, <2>8 DEF old
<1>. QED BY <1>3, <1>4

LEMMA InsertStep ==
  ASSUME MediaAssumption, NEW s, NEW n, IsList(lru, s, n), NEW key \in Keys, NEW media \in Medias,
         media.gen = lru.gen, lru' = PutMedia(lru, key, media)
  PROVE  (\E r : \E m : IsList(lru', r, m)) /\ (lru' = lru \/ Lru!Insert(key, media))
<1> DEFINE size == SizeOf[media.page]
<1>1. size \in Nat /\ Cap \in Nat
  BY DEF MediaAssumption, Medias
<1>2. CASE size > Cap
  <2>1. lru' = lru
    BY <1>2 DEF PutMedia
  <2>. QED BY <2>1
<1>3. CASE ~(size > Cap)
  <2>1. size <= Cap
    BY <1>1, <1>3
  <2> DEFINE old == OldOf(lru, key)
             e == [key |-> key, item |-> media]
             a == AtHead(MakeRoom(old, size), key, media)
  <2>2. lru' = a
    BY <1>3 DEF PutMedia, OldOf
  <2>3. \E r : \E m : /\ IsList(old, r, m) /\ Lru!But(key) = EntryRow(old, r, m)
                      /\ key \notin DOMAIN old.map /\ old.gen = lru.gen
    BY ButIs
  <2> HIDE DEF old
  <2>4. PICK r : \E m : /\ IsList(old, r, m) /\ Lru!But(key) = EntryRow(old, r, m)
                        /\ key \notin DOMAIN old.map /\ old.gen = lru.gen
    BY <2>3
  <2>5. PICK m : /\ IsList(old, r, m) /\ Lru!But(key) = EntryRow(old, r, m)
                 /\ key \notin DOMAIN old.map /\ old.gen = lru.gen
    BY <2>4
  <2> DEFINE b == EntryRow(old, r, m)
             p == Push(b, m, e)
  <2>6. Chain(old, r, m) /\ m \in Nat
    BY <2>5 DEF IsList, Chain
  <2>7. b \in Seq(Kept(old)) /\ Len(b) = m
    BY <2>6, EntryRowIs
  <2>8. \E k \in 0 .. m :
          /\ IsList(a, Push(Firsts(r, k), k, key), k + 1)
          /\ EntryRow(a, Push(Firsts(r, k), k, key), k + 1) = Firsts(p, k + 1)
          /\ a.bytes <= Cap
          /\ k = m \/ Total(Range(Firsts(p, k + 2))) > Cap
    BY <2>1, <2>5, NewAtHead
  <2> HIDE DEF a, e, b
  <2>9. PICK k \in 0 .. m :
          /\ IsList(a, Push(Firsts(r, k), k, key), k + 1)
          /\ EntryRow(a, Push(Firsts(r, k), k, key), k + 1) = Firsts(p, k + 1)
          /\ a.bytes <= Cap
          /\ k = m \/ Total(Range(Firsts(p, k + 2))) > Cap
    BY <2>8
  <2>10. <<e>> \o b = p
    BY <2>7, PushIs
  <2>11. p \in Seq(Kept(old) \cup {e}) /\ Len(p) = m + 1
    <3> DEFINE T == Kept(old) \cup {e}
    <3>1. b \in Seq(T) /\ <<e>> \in Seq(T) /\ Len(<<e>>) = 1
      BY <2>7
    <3>2. <<e>> \o b \in Seq(T) /\ Len(<<e>> \o b) = 1 + m
      <4> HIDE DEF T
      <4>. QED BY <2>7, <3>1
    <3>. QED BY <2>6, <2>10, <3>2
  <2> HIDE DEF p
  <2> DEFINE i == k + 1
  <2>12. i \in 1 .. Len(p) /\ (k # m => i + 1 \in 0 .. Len(p)) /\ i + 1 = k + 2 /\ i \in 0 .. Len(p)
         /\ (k = m => i = Len(p))
    BY <2>6, <2>11
  <2>13. SubSeq(p, 1, i) = Firsts(p, i) /\ (k # m => SubSeq(p, 1, i + 1) = Firsts(p, i + 1))
    <3> HIDE DEF i
    <3>. QED BY <2>11, <2>12, PrefixIs
  <2>14. Listed(a) = Firsts(p, i) /\ a.bytes = Lru!Bytes(Firsts(p, i))
    BY <2>9, ListedIs
  <2>15. k # m => Lru!Bytes(Firsts(p, i + 1)) > Cap
    BY <2>9, <2>12, BytesAre
  <2>16. Lru!Becomes(SubSeq(p, 1, i))
    <3>1. Listed(lru') = Firsts(p, i) /\ lru'.bytes = Lru!Bytes(Firsts(p, i))
      BY <2>2, <2>14
    <3> HIDE DEF i
    <3>. QED BY <2>13, <3>1, BecomesIs
  <2>17. Lru!Bytes(SubSeq(p, 1, i)) <= Cap
    BY <2>9, <2>13, <2>14
  <2>18. i = Len(p) \/ Lru!Bytes(SubSeq(p, 1, i + 1)) > Cap
    BY <2>12, <2>13, <2>15
  <2>19. p = <<[key |-> key, item |-> media]>> \o Lru!But(key)
    BY <2>5, <2>10 DEF e, b
  <2>20. Lru!Insert(key, media)
    <3>1. ItemSize(media) <= Cap
      BY <2>1 DEF ItemSize
    <3> HIDE DEF i
    <3>. QED BY <2>12, <2>16, <2>17, <2>18, <2>19, <3>1 DEF Lru!Insert
  <2>21. \E r2 : \E m2 : IsList(lru', r2, m2)
    BY <2>2, <2>9
  <2>. QED BY <2>20, <2>21
<1>. QED BY <1>2, <1>3

LEMMA EmptyList ==
  ASSUME NEW l, LruOK(l), l.map = EmptyMap, l.head = Nil, l.tail = Nil, l.bytes = 0
  PROVE  /\ \E r : \E m : IsList(l, r, m)
         /\ Listed(l) = <<>> /\ Lru!Bytes(<<>>) = 0
<1> DEFINE r == [i \in 1 .. 0 |-> Nil]
<1>1. DOMAIN l.map = {} /\ 1 .. 0 = {}
  BY DEF EmptyMap
<1>2. Chain(l, r, 0)
  BY <1>1 DEF Chain, Joined, Nth
<1>3. Kept(l) = {}
  BY <1>1 DEF Kept
<1> HIDE DEF r
<1>4. IsList(l, r, 0)
  BY <1>1, <1>2, <1>3, TotalOfNone DEF IsList
<1>5. Listed(l) = EntryRow(l, r, 0) /\ l.bytes = Lru!Bytes(Listed(l))
  BY <1>4, ListedIs
<1>6. EntryRow(l, r, 0) \in Seq(Kept(l)) /\ Len(EntryRow(l, r, 0)) = 0
  BY <1>2, EntryRowIs
<1>7. EntryRow(l, r, 0) = <<>>
  BY <1>6
<1>. QED BY <1>4, <1>5, <1>7

LEMMA ClearStep ==
  ASSUME ClearAndBump
  PROVE  (\E r : \E m : IsList(lru', r, m)) /\ Lru!Clear
<1>1. LruOK(lru')
  BY ClearedOK
<1>2. lru'.map = EmptyMap /\ lru'.head = Nil /\ lru'.tail = Nil /\ lru'.bytes = 0
  BY DEF ClearAndBump
<1>3. (\E r : \E m : IsList(lru', r, m)) /\ Listed(lru') = <<>> /\ Lru!Bytes(<<>>) = 0
  BY <1>1, <1>2, EmptyList
<1>4. Lru!Becomes(<<>>)
  BY <1>2, <1>3, BecomesIs
<1>. QED BY <1>3, <1>4 DEF Lru!Clear

LEMMA InitMaps ==
  ASSUME MediaAssumption, MediaInit
  PROVE  (\E r : \E m : IsList(lru, r, m)) /\ Lru!Init
<1>1. LruOK(lru)
  BY MediaInitInv DEF MediaInv
<1>2. lru.map = EmptyMap /\ lru.head = Nil /\ lru.tail = Nil /\ lru.bytes = 0
  BY DEF MediaInit
<1>3. (\E r : \E m : IsList(lru, r, m)) /\ Listed(lru) = <<>>
  BY <1>1, <1>2, EmptyList
<1>. QED BY <1>2, <1>3 DEF Lru!Init

-----------------------------------------------------------------------------
(***************************************************************************)
(* What is inserted is a page of a version and a generation there was.     *)
(***************************************************************************)

\* What a request or warm task knows of its page in each phase.
Knows(x) ==
  /\ x.phase # "idle" => x.page \in Pages /\ x.warm \in BOOLEAN
  /\ x.phase \in {"join", "begin", "fetching"} \/ (x.phase = "stat" /\ x.page \notin LocalPages) =>
       x.ver \in 0 .. MaxEdits
  /\ x.phase = "fetching" => x.gen \in 0 .. MaxEdits

\* Every generation is that of an account command, and the one under way has
\* not made its own.
VersionsInv ==
  /\ edits \in 0 .. MaxEdits /\ lru.gen \in Nat
  /\ IF Free THEN lru.gen <= edits ELSE lru.gen < edits
  /\ account.row # Nil => account.row.ver \in 0 .. edits
  /\ ~Free /\ account.command.kind = "edit" => account.command.old.ver \in 0 .. edits

TasksKnow == \A t \in Tasks : Knows(tasks[t])

ListInv == \E s : \E n : IsList(lru, s, n)

CacheInv == MediaInv /\ VersionsInv /\ TasksKnow /\ ListInv

LEMMA KnowsKept ==
  ASSUME TasksShaped, TasksKnow, NEW t \in Tasks, NEW x, tasks' = [tasks EXCEPT ![t] = x], Knows(x)
  PROVE  TasksKnow'
<1>1. \A u \in Tasks : tasks'[u] = IF u = t THEN x ELSE tasks[u]
  BY DEF TasksShaped
<1>2. ASSUME NEW u \in Tasks PROVE Knows(tasks'[u])
  BY <1>1 DEF TasksKnow
<1>. QED BY <1>2 DEF TasksKnow

\* A task that goes on with what it knows.
LEMMA GoesOn ==
  ASSUME TasksShaped, TasksKnow, NEW t \in Tasks, NEW phase, Goes(t, phase), tasks[t].phase # "idle",
         phase \in {"join", "begin"} =>
           tasks[t].phase \in {"join", "begin", "fetching"} \/ (tasks[t].phase = "stat" /\ tasks[t].page \notin LocalPages),
         phase \notin {"fetching", "stat"}
  PROVE  TasksKnow'
<1> DEFINE x == [tasks[t] EXCEPT !.phase = phase]
<1>1. tasks' = [tasks EXCEPT ![t] = x]
  BY DEF Goes
<1>2. /\ x.phase = phase /\ x.page = tasks[t].page /\ x.warm = tasks[t].warm /\ x.ver = tasks[t].ver
  BY DEF TasksShaped
<1> HIDE DEF x
<1>3. Knows(tasks[t])
  BY DEF TasksKnow
<1>4. Knows(x)
  BY <1>2, <1>3 DEF Knows
<1>. QED BY <1>1, <1>4, KnowsKept

LEMMA EndsKnow ==
  ASSUME TasksShaped, TasksKnow, NEW t \in Tasks, Ends(t) PROVE TasksKnow'
<1> DEFINE x == [Idle EXCEPT !.outcome = tasks[t].outcome]
<1>1. x.phase = "idle"
  BY DEF Idle
<1>2. tasks' = [tasks EXCEPT ![t] = x]
  BY DEF Ends
<1> HIDE DEF x
<1>3. Knows(x)
  BY <1>1 DEF Knows
<1>. QED BY <1>2, <1>3, KnowsKept

LEMMA MovesKnow ==
  ASSUME TasksShaped, TasksKnow, VersionsInv, MediaAssumption, NEW t \in Tasks, Moves(t)
  PROVE  TasksKnow'
<1> DEFINE fields == {"phase", "warm", "page", "ver", "gen", "owner", "outcome", "session"}
<1>1. Knows(tasks[t]) /\ DOMAIN tasks[t] = fields
  BY DEF TasksKnow, TasksShaped
<1>2. ASSUME Ends(t) PROVE TasksKnow'
  BY <1>2, EndsKnow
<1>3. CASE StatOrStraight(t)
  BY <1>2, <1>3 DEF StatOrStraight
<1>4. CASE Look(t)
  <2>1. tasks[t].phase = "stat" /\ tasks[t].page \notin LocalPages
    BY <1>4 DEF Look
  <2>2. ASSUME Goes(t, "join") PROVE TasksKnow'
    BY <2>1, <2>2, GoesOn
  <2>. QED BY <1>2, <1>4, <2>2 DEF Look
<1>5. CASE WarmStarts(t)
  <2> DEFINE x == [tasks[t] EXCEPT !.phase = "join", !.ver = account.row.ver, !.session = Nil]
  <2>1. tasks[t].phase = "check"
    BY <1>5 DEF WarmStarts
  <2>2. ASSUME account.row # Nil, tasks' = [tasks EXCEPT ![t] = x] PROVE TasksKnow'
    <3>1. x.phase = "join" /\ x.ver = account.row.ver /\ x.page = tasks[t].page /\ x.warm = tasks[t].warm
      BY <1>1
    <3> HIDE DEF x
    <3>2. account.row.ver \in 0 .. MaxEdits
      BY <2>2 DEF VersionsInv, MediaAssumption
    <3>3. Knows(x)
      BY <1>1, <2>1, <3>1, <3>2 DEF Knows
    <3>. QED BY <2>2, <3>3, KnowsKept
  <2>3. Ends(t) \/ (account.row # Nil /\ tasks' = [tasks EXCEPT ![t] = x])
    BY <1>5 DEF WarmStarts
  <2>. QED BY <1>2, <2>2, <2>3
<1>6. CASE Join(t)
  <2> DEFINE x == [tasks[t] EXCEPT !.phase = "wait", !.owner = inflight[Key(t)]]
  <2>1. tasks[t].phase = "join"
    BY <1>6 DEF Join
  <2>2. ASSUME tasks' = [tasks EXCEPT ![t] = x] PROVE TasksKnow'
    <3>1. x.phase = "wait" /\ x.page = tasks[t].page /\ x.warm = tasks[t].warm
      BY <1>1
    <3> HIDE DEF x
    <3>2. Knows(x)
      BY <1>1, <2>1, <3>1 DEF Knows
    <3>. QED BY <2>2, <3>2, KnowsKept
  <2>3. ASSUME Goes(t, "begin") PROVE TasksKnow'
    BY <2>1, <2>3, GoesOn
  <2>4. tasks' = [tasks EXCEPT ![t] = x] \/ Goes(t, "begin")
    BY <1>6 DEF Join
  <2>. QED BY <2>2, <2>3, <2>4
<1>7. CASE TakeGeneration(t)
  <2> DEFINE x == [tasks[t] EXCEPT !.phase = "fetching", !.gen = lru.gen]
  <2>1. tasks[t].phase = "begin" /\ tasks' = [tasks EXCEPT ![t] = x]
    BY <1>7 DEF TakeGeneration
  <2>2. /\ x.phase = "fetching" /\ x.gen = lru.gen /\ x.ver = tasks[t].ver
        /\ x.page = tasks[t].page /\ x.warm = tasks[t].warm
    BY <1>1
  <2> HIDE DEF x
  <2>3. lru.gen \in 0 .. MaxEdits
    BY DEF VersionsInv, MediaAssumption
  <2>4. Knows(x)
    BY <1>1, <2>1, <2>2, <2>3 DEF Knows
  <2>. QED BY <2>1, <2>4, KnowsKept
<1>8. CASE Send(t)
  <2> DEFINE x == [tasks[t] EXCEPT !.outcome = IF tasks[t].phase = "stored" THEN "done" ELSE "failed",
                                   !.phase = IF tasks[t].phase = "stored" THEN "leave" ELSE "leave failed"]
  <2>1. tasks[t].phase \in {"stored", "failed"} /\ tasks' = [tasks EXCEPT ![t] = x]
    BY <1>8 DEF Send
  <2>2. x.phase \in {"leave", "leave failed"} /\ x.page = tasks[t].page /\ x.warm = tasks[t].warm
    BY <1>1
  <2> HIDE DEF x
  <2>3. Knows(x)
    BY <1>1, <2>1, <2>2 DEF Knows
  <2>. QED BY <2>1, <2>3, KnowsKept
<1>9. CASE Woken(t)
  <2>1. ASSUME Goes(t, "again") PROVE TasksKnow'
    <3>1. tasks[t].phase = "wait"
      BY <1>9 DEF Woken
    <3>. QED BY <2>1, <3>1, GoesOn
  <2>. QED BY <1>2, <1>9, <2>1 DEF Woken
<1>10. CASE FetchFails(t)
  <2>1. Goes(t, "failed") /\ tasks[t].phase = "fetching"
    BY <1>10 DEF FetchFails
  <2>. QED BY <2>1, GoesOn
<1>11. CASE Store(t)
  <2>1. tasks[t].phase = "fetching" /\ (Goes(t, "stored") \/ Goes(t, "failed"))
    BY <1>11 DEF Store
  <2>2. ASSUME Goes(t, "stored") PROVE TasksKnow'
    BY <2>1, <2>2, GoesOn
  <2>3. ASSUME Goes(t, "failed") PROVE TasksKnow'
    BY <2>1, <2>3, GoesOn
  <2>. QED BY <2>1, <2>2, <2>3
<1>12. CASE Leave(t)
  <2>1. ASSUME Goes(t, "again") PROVE TasksKnow'
    <3>1. tasks[t].phase \in {"leave", "leave failed"}
      BY <1>12 DEF Leave
    <3>. QED BY <2>1, <3>1, GoesOn
  <2>. QED BY <1>2, <1>12, <2>1 DEF Leave
<1>13. CASE LookAgain(t)
  BY <1>2, <1>13 DEF LookAgain
<1>. QED BY <1>3, <1>4, <1>5, <1>6, <1>7, <1>8, <1>9, <1>10, <1>11, <1>12, <1>13 DEF Moves

LEMMA BeginsKnow ==
  ASSUME TasksShaped, TasksKnow, VersionsInv, MediaAssumption, NEW t \in Tasks, NEW page \in Pages,
         Ask(t, page) \/ Warm(t, page)
  PROVE  TasksKnow'
<1>1. CASE Ask(t, page)
  <2> DEFINE ver == IF page \in LocalPages THEN Nil ELSE account.row.ver
             x == [Idle EXCEPT !.phase = "stat", !.page = page, !.ver = ver]
  <2>1. tasks' = [tasks EXCEPT ![t] = x] /\ (page \in LocalPages \/ account.row # Nil)
    BY <1>1 DEF Ask
  <2>2. x.phase = "stat" /\ x.page = page /\ x.warm = FALSE /\ x.ver = ver
    BY DEF Idle
  <2>3. page \notin LocalPages => ver \in 0 .. MaxEdits
    BY <2>1 DEF VersionsInv, MediaAssumption
  <2> HIDE DEF x, ver
  <2>4. Knows(x)
    BY <2>2, <2>3 DEF Knows
  <2>. QED BY <2>1, <2>4, KnowsKept
<1>2. CASE Warm(t, page)
  <2> DEFINE x == [Idle EXCEPT !.phase = "check", !.warm = TRUE, !.page = page, !.session = session]
  <2>1. tasks' = [tasks EXCEPT ![t] = x]
    BY <1>2 DEF Warm
  <2>2. x.phase = "check" /\ x.page = page /\ x.warm = TRUE
    BY DEF Idle
  <2> HIDE DEF x
  <2>3. Knows(x)
    BY <2>2 DEF Knows
  <2>. QED BY <2>1, <2>3, KnowsKept
<1>. QED BY <1>1, <1>2

-----------------------------------------------------------------------------
(***************************************************************************)
(* Every step is one of the list of bytes, or none.                        *)
(***************************************************************************)

LEMMA MovesMap ==
  ASSUME MediaAssumption, LruOK(lru), TasksKnow, ListInv, NEW t \in Tasks, Moves(t)
  PROVE  /\ ListInv' /\ lru'.gen = lru.gen
         /\ lru' = lru \/ \E key \in Keys : Lru!Use(key) \/ \E item \in Medias : Lru!Insert(key, item)
<1>1. PICK s : \E n : IsList(lru, s, n)
  BY DEF ListInv
<1>2. PICK n : IsList(lru, s, n)
  BY <1>1
<1>3. CASE lru' = lru
  BY <1>2, <1>3 DEF ListInv
<1>4. CASE Key(t) \in DOMAIN lru.map /\ lru' = Touch(lru, Key(t))
  <2> DEFINE key == Key(t)
  <2>1. key \in DOMAIN lru.map /\ lru' = Touch(lru, key) /\ key \in Keys
    BY <1>2, <1>4 DEF IsList
  <2> HIDE DEF key
  <2>2. (\E r : \E m : IsList(lru', r, m)) /\ (lru' = lru \/ Lru!Use(key))
    BY <1>2, <2>1, UseStep
  <2>3. lru'.gen = lru.gen
    BY <2>1, TouchOK
  <2>. QED BY <2>1, <2>2, <2>3 DEF ListInv
<1>5. CASE Store(t) /\ lru' # lru
  <2> DEFINE media == [page |-> tasks[t].page, ver |-> tasks[t].ver, gen |-> tasks[t].gen]
             key == Key(t)
  <2>1. tasks[t].phase = "fetching" /\ lru.gen = tasks[t].gen /\ lru' = PutMedia(lru, key, media)
    BY <1>5 DEF Store, PutIfGeneration
  <2>2. Knows(tasks[t])
    BY DEF TasksKnow
  <2>3. media \in Medias /\ key \in Keys /\ media.gen = lru.gen
    BY <2>1, <2>2 DEF Knows, Medias, Keys, Key
  <2> HIDE DEF media, key
  <2>4. (\E r : \E m : IsList(lru', r, m)) /\ (lru' = lru \/ Lru!Insert(key, media))
    BY <1>2, <2>1, <2>3, InsertStep
  <2>5. lru'.gen = lru.gen
    BY <2>1, <2>3, PutMediaOK
  <2>. QED BY <2>3, <2>4, <2>5 DEF ListInv
<1>. QED BY <1>3, <1>4, <1>5
  DEF Moves, StatOrStraight, Look, WarmStarts, Join, Woken, TakeGeneration, FetchFails, Send, Leave, LookAgain

LEMMA CommandsKeepVersions ==
  ASSUME MediaAssumption, AccountInv, VersionsInv, AccountCommands
  PROVE  VersionsInv'
<1>1. edits \in Nat /\ MaxEdits \in Nat /\ edits <= MaxEdits /\ lru.gen \in Nat /\ lru.gen <= edits
  BY DEF VersionsInv, MediaAssumption
<1>2. ClearAndBump => lru'.gen = lru.gen + 1
  BY DEF ClearAndBump
<1>3. ASSUME NEW password \in BOOLEAN, EditAccount(password) PROVE VersionsInv'
  <2> DEFINE row == [ver |-> edits + 1, secret |-> IF password THEN edits + 1 ELSE account.row.secret]
             command == [kind |-> "edit", old |-> account.row, password |-> password]
  <2>1. account' = [account EXCEPT !.row = row, !.command = command] /\ edits' = edits + 1 /\ edits < MaxEdits
        /\ lru' = lru
    BY <1>3 DEF EditAccount, Begins
  <2>2. account.row \in Rows /\ account.row # Nil
    BY <1>3 DEF EditAccount, AccountInv
  <2>3. command # Nil /\ command.kind = "edit" /\ command.old = account.row /\ row.ver = edits + 1
    BY <2>2, NoneIsNil
  <2> HIDE DEF row, command
  <2>4. account'.row = row /\ account'.command = command
    BY <2>1 DEF AccountInv
  <2>5. account.row.ver \in 0 .. edits
    BY <2>2 DEF VersionsInv
  <2>. QED BY <1>1, <2>1, <2>3, <2>4, <2>5 DEF VersionsInv, Free
<1>4. CASE PasswordFails \/ DeleteFails
  <2>1. /\ account'.row = account.row \/ (account'.row = account.command.old /\ account.command.kind = "edit")
        /\ account'.command = Nil /\ edits' = edits /\ lru' = lru /\ ~Free
    BY <1>4 DEF PasswordFails, DeleteFails, AccountInv
  <2>2. account'.row # Nil => account'.row.ver \in 0 .. edits
    BY <2>1 DEF VersionsInv
  <2>. QED BY <1>1, <2>1, <2>2 DEF VersionsInv, Free
<1>5. CASE EditSaved \/ Deleted
  <2>1. /\ account'.row \in {account.row, Nil} /\ account'.command = Nil /\ edits' = edits /\ ClearAndBump /\ ~Free
    BY <1>5 DEF EditSaved, Deleted, AccountInv
  <2>2. lru.gen < edits
    BY <2>1 DEF VersionsInv
  <2>3. account'.row # Nil => account'.row.ver \in 0 .. edits
    BY <2>1 DEF VersionsInv
  <2>. QED BY <1>1, <1>2, <2>1, <2>2, <2>3 DEF VersionsInv, Free
<1>6. CASE CreateAnother
  <2>1. /\ account' = account /\ edits' = edits + 1 /\ edits < MaxEdits /\ Free
        /\ lru' = lru \/ ClearAndBump
    BY <1>6 DEF CreateAnother, Begins
  <2>2. lru'.gen \in Nat /\ lru'.gen <= edits + 1
    BY <1>1, <1>2, <2>1
  <2>3. account.row # Nil => account.row.ver \in 0 .. edits
    BY DEF VersionsInv
  <2>. QED BY <1>1, <2>1, <2>2, <2>3 DEF VersionsInv, Free
<1>7. CASE DeleteAccount
  <2>1. PICK forgets \in BOOLEAN :
           account' = [account EXCEPT !.secret = IF forgets THEN Nil ELSE @,
                                      !.command = [kind |-> "delete", forgets |-> forgets]]
    BY <1>7 DEF DeleteAccount, Begins
  <2>2. edits' = edits + 1 /\ edits < MaxEdits /\ lru' = lru
    BY <1>7 DEF DeleteAccount, Begins
  <2> DEFINE command == [kind |-> "delete", forgets |-> forgets]
  <2>3. command # Nil /\ command.kind = "delete"
    BY NoneIsNil
  <2>4. account'.row = account.row /\ account'.command = command
    BY <2>1 DEF AccountInv
  <2>5. account.row # Nil => account.row.ver \in 0 .. edits
    BY DEF VersionsInv
  <2> HIDE DEF command
  <2>. QED BY <1>1, <2>2, <2>3, <2>4, <2>5 DEF VersionsInv, Free
<1>. QED BY <1>3, <1>4, <1>5, <1>6, <1>7 DEF AccountCommands

LEMMA CacheStep ==
  ASSUME MediaAssumption, CacheInv, [MediaNext]_mediaVars
  PROVE  CacheInv' /\ [Lru!Next]_Lru!vars
<1>1. LruOK(lru) /\ TasksShaped /\ AccountInv /\ VersionsInv /\ TasksKnow /\ ListInv /\ MediaInv
  BY DEF CacheInv, MediaInv, RegistryInv
<1>2. MediaInv'
  BY <1>1, MediaStep
<1>3. lru' = lru => [Lru!Next]_Lru!vars /\ ListInv'
  BY <1>1 DEF Lru!vars, ListInv
<1>4. ASSUME NEW t \in Tasks, Moves(t) PROVE CacheInv' /\ [Lru!Next]_Lru!vars
  <2>1. /\ ListInv' /\ lru'.gen = lru.gen
        /\ lru' = lru \/ \E key \in Keys : Lru!Use(key) \/ \E item \in Medias : Lru!Insert(key, item)
    BY <1>1, <1>4, MovesMap
  <2>2. TasksKnow'
    BY <1>1, <1>4, MovesKnow
  <2>3. account' = account /\ edits' = edits
    BY <1>4 DEF Moves, StatOrStraight, Look, WarmStarts, Join, Woken, TakeGeneration, FetchFails, Store,
                Send, Leave, LookAgain, Others
  <2>4. VersionsInv'
    BY <1>1, <2>1, <2>3 DEF VersionsInv, Free
  <2>5. [Lru!Next]_Lru!vars
    BY <1>3, <2>1 DEF Lru!Next, Medias
  <2>. QED BY <1>2, <2>1, <2>2, <2>4, <2>5 DEF CacheInv
<1>5. ASSUME NEW t \in Tasks, NEW page \in Pages, Ask(t, page) \/ Warm(t, page)
      PROVE  CacheInv' /\ [Lru!Next]_Lru!vars
  <2>1. lru' = lru /\ account' = account /\ edits' = edits
    BY <1>5 DEF Ask, Warm, Others
  <2>2. TasksKnow'
    BY <1>1, <1>5, BeginsKnow
  <2>3. VersionsInv'
    BY <1>1, <2>1 DEF VersionsInv, Free
  <2>. QED BY <1>2, <1>3, <2>1, <2>2, <2>3 DEF CacheInv
<1>6. CASE AccountCommands
  <2>1. tasks' = tasks /\ (lru' = lru \/ ClearAndBump)
    BY <1>6 DEF AccountCommands, EditAccount, PasswordFails, EditSaved, CreateAnother, DeleteAccount, DeleteFails, Deleted, Rest
  <2>2. ListInv' /\ [Lru!Next]_Lru!vars
    <3>1. CASE ClearAndBump
      <4>1. (\E r : \E m : IsList(lru', r, m)) /\ Lru!Clear
        BY <3>1, ClearStep
      <4>. QED BY <4>1 DEF ListInv, Lru!Next
    <3>. QED BY <1>3, <2>1, <3>1
  <2>3. TasksKnow'
    BY <1>1, <2>1 DEF TasksKnow
  <2>4. VersionsInv'
    BY <1>1, <1>6, CommandsKeepVersions
  <2>. QED BY <1>2, <2>2, <2>3, <2>4 DEF CacheInv
<1>7. CASE (\E s \in Sessions : AdvanceSession(s)) \/ UNCHANGED mediaVars
  <2>1. UNCHANGED <<account, lru, inflight, tasks, edits>>
    BY <1>7 DEF AdvanceSession, mediaVars
  <2>2. TasksKnow' /\ VersionsInv'
    BY <1>1, <2>1 DEF TasksKnow, VersionsInv, Free
  <2>. QED BY <1>2, <1>3, <2>1, <2>2 DEF CacheInv
<1>. QED BY <1>4, <1>5, <1>6, <1>7 DEF MediaNext

LEMMA CacheInitInv == ASSUME MediaAssumption, MediaInit PROVE CacheInv /\ Lru!Init
<1>1. MediaInv
  BY MediaInitInv
<1>2. ListInv /\ Lru!Init
  BY InitMaps DEF ListInv
<1>3. VersionsInv
  <2> DEFINE row == [ver |-> 0, secret |-> 0]
  <2>1. row.ver = 0
    OBVIOUS
  <2>2. account = [row |-> row, secret |-> 0, torn |-> FALSE, command |-> Nil] /\ edits = 0 /\ lru.gen = 0
    BY DEF MediaInit
  <2> HIDE DEF row
  <2>3. account.row = row /\ account.command = Nil
    BY <2>2
  <2>. QED BY <2>1, <2>2, <2>3 DEF VersionsInv, Free, MediaAssumption
<1>4. TasksKnow
  <2>1. \A t \in Tasks : tasks[t] = Idle
    BY DEF MediaInit
  <2>2. Idle.phase = "idle"
    BY DEF Idle
  <2>. QED BY <2>1, <2>2 DEF TasksKnow, Knows
<1>. QED BY <1>1, <1>2, <1>3, <1>4 DEF CacheInv

(* For any number of requests, warm tasks, pages and account commands, any    *)
(* sizes of pages and any cap: the linked list of MediaLru, with its map,     *)
(* head, tail and count of bytes, is the list of the entries used last within *)
(* that many bytes. Each lookup moves one entry to the front, each page kept  *)
(* comes to the front and leaves behind it the newest that still fit, all go  *)
(* when it is cleared, and nothing else changes it (MediaLru: get, put,       *)
(* detach, attach_head, clear).                                               *)
THEOREM ListIsByteLru == ASSUME MediaAssumption PROVE MediaSpec => ImplementsByteLru
<1>1. MediaInit => CacheInv /\ Lru!Init
  BY CacheInitInv
<1>2. CacheInv /\ [MediaNext]_mediaVars => CacheInv' /\ [Lru!Next]_Lru!vars
  BY CacheStep
<1>. QED BY <1>1, <1>2, PTL DEF MediaSpec, ImplementsByteLru, Lru!Spec
=============================================================================
