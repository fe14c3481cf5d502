------------------------------ MODULE RemoteProofs ------------------------------
(***************************************************************************)
(* Theorems about reads of remote files, for any number of readers and      *)
(* calls, any file and block size, any cache and any number of connections. *)
(***************************************************************************)
EXTENDS RangeBlocks, SmbReads, SumLemmas

-----------------------------------------------------------------------------
(***************************************************************************)
(* Calls of an SMB source: the invariant.                                   *)
(***************************************************************************)

Opened == 1 .. Len(transports)

Phases == {"idle", "gate", "resolve", "connect", "connected", "call", "evict", "invalidate"}

Call == [op : Ops \cup {"none"}, phase : Phases, initial : Seq(STRING), path : Seq(STRING),
         rel : Seq(STRING), share : STRING \cup {Nil}, transport : Opened \cup {Nil},
         failed : Opened \cup {Nil}, permit : BOOLEAN]

SmbTypeOK ==
  /\ account \in [share : STRING, edits : Nat]
  /\ slot \in Opened \cup {Nil}
  /\ transports \in Seq([share : STRING \cup {Nil}, health : {"sound", "broken", "hung"}])
  /\ troubles \in Nat
  /\ calls \in [Calls -> Call]

\* From the answer of resolve_params on a call knows the path it will ask for.
PathsNamed ==
  \A c \in Calls : calls[c].phase \in {"connect", "connected", "call"} =>
    /\ calls[c].rel = UncRel(calls[c].initial, calls[c].path)
    /\ ShareRootMatches(calls[c].initial, calls[c].share)

\* A connection just opened is its caller's alone until it is written back.
FreshIsOwn ==
  \A c \in Calls : calls[c].phase = "connected" =>
    /\ calls[c].transport # Nil
    /\ slot # calls[c].transport
    /\ \A d \in Calls : /\ d # c => calls[d].transport # calls[c].transport
                        /\ calls[d].failed # calls[c].transport

\* Once a call has evicted the connection it failed on, that one is neither in
\* the slot nor in its hands again.
FailedIsGone ==
  \A c \in Calls :
    /\ calls[c].phase = "gate" => calls[c].failed = Nil
    /\ calls[c].phase \in {"resolve", "connect", "connected", "call"} /\ calls[c].failed # Nil =>
         slot # calls[c].failed
    /\ calls[c].phase = "call" => /\ calls[c].transport # Nil
                                  /\ calls[c].transport # calls[c].failed

SmbInv == SmbTypeOK /\ PathsNamed /\ FreshIsOwn /\ FailedIsGone

-----------------------------------------------------------------------------
(***************************************************************************)
(* Paths.                                                                   *)
(***************************************************************************)

LEMMA UncRelTyped ==
  ASSUME NEW initial \in Seq(STRING), NEW path \in Seq(STRING)
  PROVE  UncRel(initial, path) \in Seq(STRING)
<1>1. CASE initial = <<>>
  BY <1>1 DEF UncRel
<1>2. CASE initial # <<>>
  BY <1>2 DEF UncRel
<1>. QED BY <1>1, <1>2

LEMMA ConsTail ==
  ASSUME NEW S, NEW s \in Seq(S), s # <<>>, NEW t \in Seq(S)
  PROVE  <<s[1]>> \o (Tail(s) \o t) = s \o t
<1> DEFINE a == <<s[1]>> \o (Tail(s) \o t)
           b == s \o t
<1>1. Len(s) \in Nat /\ Len(s) >= 1 /\ Len(t) \in Nat /\ s[1] \in S
  OBVIOUS
<1>2. /\ Tail(s) \in Seq(S) /\ Len(Tail(s)) = Len(s) - 1
      /\ \A i \in 1 .. Len(s) - 1 : Tail(s)[i] = s[i + 1]
  BY <1>1
<1>3. /\ Tail(s) \o t \in Seq(S) /\ Len(Tail(s) \o t) = Len(s) - 1 + Len(t)
      /\ \A i \in 1 .. Len(s) - 1 + Len(t) :
           (Tail(s) \o t)[i] = IF i <= Len(s) - 1 THEN Tail(s)[i] ELSE t[i - (Len(s) - 1)]
  BY <1>1, <1>2
<1>4. /\ a \in Seq(S) /\ Len(a) = Len(s) + Len(t)
      /\ \A i \in 1 .. Len(s) + Len(t) : a[i] = IF i <= 1 THEN s[1] ELSE (Tail(s) \o t)[i - 1]
  BY <1>1, <1>3
<1>5. /\ b \in Seq(S) /\ Len(b) = Len(s) + Len(t)
      /\ \A i \in 1 .. Len(s) + Len(t) : b[i] = IF i <= Len(s) THEN s[i] ELSE t[i - Len(s)]
  BY <1>1
<1> HIDE DEF a, b
<1>6. ASSUME NEW i \in 1 .. Len(s) + Len(t) PROVE a[i] = b[i]
  <2>1. CASE i = 1
    BY <2>1, <1>1, <1>4, <1>5
  <2>2. CASE i # 1
    <3>1. i - 1 \in 1 .. Len(s) - 1 + Len(t) /\ i \in Nat
      BY <1>1, <2>2
    <3>2. a[i] = (Tail(s) \o t)[i - 1]
      BY <1>4, <2>2, <3>1
    <3>3. CASE i <= Len(s)
      <4>1. i - 1 \in 1 .. Len(s) - 1 /\ (i - 1) + 1 = i
        BY <3>3, <3>1, <1>1
      <4>2. (Tail(s) \o t)[i - 1] = Tail(s)[i - 1]
        BY <4>1, <3>1, <1>3, <1>1
      <4>3. Tail(s)[i - 1] = s[i]
        BY <4>1, <1>2
      <4>. QED BY <3>2, <4>2, <4>3, <1>5, <3>3
    <3>4. CASE ~(i <= Len(s))
      <4>1. (Tail(s) \o t)[i - 1] = t[(i - 1) - (Len(s) - 1)]
        BY <3>4, <3>1, <1>3, <1>1
      <4>2. (i - 1) - (Len(s) - 1) = i - Len(s)
        BY <1>1, <3>1
      <4>. QED BY <3>2, <4>1, <4>2, <1>5, <3>4
    <3>. QED BY <3>3, <3>4
  <2>. QED BY <2>1, <2>2
<1>7. a = b
  BY <1>4, <1>5, <1>6, <1>1
<1>. QED BY <1>7 DEF a, b

\* What is asked for within the share is what the descriptor names.
LEMMA NamedInShare ==
  ASSUME NEW initial \in Seq(STRING), NEW path \in Seq(STRING), NEW share,
         ShareRootMatches(initial, share)
  PROVE  <<share>> \o UncRel(initial, path)
           = (IF initial = <<>> THEN <<share>> ELSE initial) \o path
<1>1. CASE initial = <<>>
  <2>1. UncRel(initial, path) = path
    <3>1. UncRel(initial, path) = <<>> \o path
      BY <1>1 DEF UncRel
    <3>. QED BY <3>1
  <2>. QED BY <2>1, <1>1
<1>2. CASE initial # <<>>
  BY <1>2, ConsTail DEF UncRel, ShareRootMatches
<1>. QED BY <1>1, <1>2

-----------------------------------------------------------------------------
(***************************************************************************)
(* The steps of the calls.                                                  *)
(***************************************************************************)

LEMMA IdleTyped == Idle \in Call /\ Idle.phase = "idle" /\ Idle.transport = Nil /\ Idle.failed = Nil
BY DEF Idle, Call, Phases, Opened, Ops

\* A step of one call that opens nothing, and leaves the slot or empties it:
\* what it then holds it held before, or found in the slot.
OneCallMoves(c, new) ==
  /\ calls' = [calls EXCEPT ![c] = new]
  /\ slot' \in {slot, Nil}
  /\ UNCHANGED <<account, transports, troubles>>
  /\ new.transport \in {Nil, slot, calls[c].transport}
  /\ new.failed \in {Nil, calls[c].failed, calls[c].transport}
  /\ new.phase # "connected"
  /\ new.phase = "gate" => new.failed = Nil
  /\ new.phase \in {"connect", "call"} => /\ new.rel = UncRel(new.initial, new.path)
                                          /\ ShareRootMatches(new.initial, new.share)
  /\ new.phase \in {"resolve", "connect", "call"} /\ new.failed # Nil => slot' # new.failed
  /\ new.phase = "call" => new.transport # Nil /\ new.transport # new.failed

LEMMA OneCallKeeps ==
  ASSUME SmbInv, NEW c \in Calls, NEW new \in Call, OneCallMoves(c, new)
  PROVE  SmbInv'
<1>1. /\ calls \in [Calls -> Call]
      /\ calls'[c] = new
      /\ \A d \in Calls : d # c => calls'[d] = calls[d]
      /\ \A d \in Calls : calls'[d] = IF d = c THEN new ELSE calls[d]
  BY DEF SmbInv, SmbTypeOK, OneCallMoves
<1>2. slot' = slot \/ slot' = Nil
  BY DEF OneCallMoves
<1>3. SmbTypeOK'
  <2>1. calls' \in [Calls -> Call]
    BY <1>1 DEF OneCallMoves
  <2>2. Call' = Call /\ Opened' = Opened
    BY DEF OneCallMoves, Call, Opened
  <2>. QED BY <2>1, <2>2, <1>2 DEF SmbInv, SmbTypeOK, OneCallMoves
<1>4. PathsNamed'
  BY <1>1 DEF PathsNamed, SmbInv, OneCallMoves
<1>5. FreshIsOwn'
  <2>1. SUFFICES ASSUME NEW d \in Calls, calls'[d].phase = "connected"
                 PROVE  /\ calls'[d].transport # Nil
                        /\ slot' # calls'[d].transport
                        /\ \A e \in Calls : /\ e # d => calls'[e].transport # calls'[d].transport
                                            /\ calls'[e].failed # calls'[d].transport
    BY DEF FreshIsOwn
  <2>2. d # c /\ calls'[d] = calls[d]
    BY <1>1, <2>1 DEF OneCallMoves
  <2>3. /\ calls[d].transport # Nil /\ slot # calls[d].transport
        /\ \A e \in Calls : /\ e # d => calls[e].transport # calls[d].transport
                            /\ calls[e].failed # calls[d].transport
    BY <2>1, <2>2 DEF SmbInv, FreshIsOwn
  <2>4. new.transport # calls[d].transport /\ new.failed # calls[d].transport
    BY <2>2, <2>3 DEF OneCallMoves
  <2>. QED BY <1>1, <1>2, <2>2, <2>3, <2>4
<1>6. FailedIsGone'
  <2>1. SUFFICES ASSUME NEW d \in Calls
                 PROVE  /\ calls'[d].phase = "gate" => calls'[d].failed = Nil
                        /\ calls'[d].phase \in {"resolve", "connect", "connected", "call"}
                           /\ calls'[d].failed # Nil => slot' # calls'[d].failed
                        /\ calls'[d].phase = "call" => /\ calls'[d].transport # Nil
                                                       /\ calls'[d].transport # calls'[d].failed
    BY DEF FailedIsGone
  <2>2. CASE d = c
    BY <1>1, <2>2 DEF OneCallMoves
  <2>3. CASE d # c
    BY <1>1, <1>2, <2>3 DEF SmbInv, FailedIsGone
  <2>. QED BY <2>2, <2>3
<1>. QED BY <1>3, <1>4, <1>5, <1>6 DEF SmbInv

\* To give up is always allowed.
LEMMA EndKeeps ==
  ASSUME SmbInv, NEW c \in Calls, Ends(c), slot' \in {slot, Nil},
         UNCHANGED <<account, transports, troubles>>
  PROVE  SmbInv'
<1>1. OneCallMoves(c, Idle)
  BY IdleTyped DEF OneCallMoves, Ends
<1>. QED BY <1>1, IdleTyped, OneCallKeeps

LEMMA GoKeeps ==
  ASSUME SmbInv, NEW c \in Calls, NEW phase \in {"resolve", "invalidate"}, Goes(c, phase),
         slot' \in {slot, Nil}, UNCHANGED <<account, transports, troubles>>,
         phase = "resolve" => slot' = Nil
  PROVE  SmbInv'
<1> DEFINE new == [calls[c] EXCEPT !.phase = phase]
<1>1. calls \in [Calls -> Call] /\ calls[c] \in Call
  BY DEF SmbInv, SmbTypeOK
<1>2. new \in Call
  BY <1>1 DEF Call, Phases
<1>3. /\ new.phase = phase /\ new.transport = calls[c].transport
      /\ new.failed = calls[c].failed
  BY <1>1 DEF Call
<1>4. calls' = [calls EXCEPT ![c] = new]
  BY <1>1 DEF Goes
<1> HIDE DEF new
<1>5. OneCallMoves(c, new)
  BY <1>3, <1>4 DEF OneCallMoves
<1>. QED BY <1>2, <1>5, OneCallKeeps

LEMMA AskKeeps ==
  ASSUME SmbAssumption, SmbInv, NEW c \in Calls, NEW op \in Ops, NEW initial \in Initials,
         NEW path \in Paths, Ask(c, op, initial, path)
  PROVE  SmbInv'
<1> DEFINE new == [Idle EXCEPT !.op = op, !.initial = initial, !.path = path,
                               !.phase = IF Timed(op) THEN "gate" ELSE "resolve"]
<1>1. new \in Call
  BY IdleTyped DEF Call, Phases, SmbAssumption
<1>2. /\ new.phase \in {"gate", "resolve"} /\ new.transport = Nil /\ new.failed = Nil
  BY IdleTyped DEF Call
<1>3. calls' = [calls EXCEPT ![c] = new]
  BY DEF Ask
<1> HIDE DEF new
<1>4. OneCallMoves(c, new)
  BY <1>2, <1>3 DEF OneCallMoves, Ask, Pool, World
<1>. QED BY <1>1, <1>4, OneCallKeeps

LEMMA EnterKeeps == ASSUME SmbInv, NEW c \in Calls, Enter(c) PROVE SmbInv'
<1> DEFINE new == [calls[c] EXCEPT !.permit = TRUE, !.phase = "resolve"]
<1>1. calls \in [Calls -> Call] /\ calls[c] \in Call
  BY DEF SmbInv, SmbTypeOK
<1>2. new \in Call
  BY <1>1 DEF Call, Phases
<1>3. new.phase = "resolve" /\ new.transport = calls[c].transport /\ new.failed = calls[c].failed
  BY <1>1 DEF Call
<1>4. calls' = [calls EXCEPT ![c] = new]
  BY DEF Enter
<1>5. calls[c].phase = "gate" /\ slot' = slot /\ UNCHANGED <<account, transports, troubles>>
  BY DEF Enter, At, Pool, World
<1>6. calls[c].failed = Nil
  BY <1>5 DEF SmbInv, FailedIsGone
<1> HIDE DEF new
<1>7. OneCallMoves(c, new)
  BY <1>3, <1>4, <1>5, <1>6 DEF OneCallMoves
<1>. QED BY <1>2, <1>7, OneCallKeeps

LEMMA ResolveKeeps == ASSUME SmbAssumption, SmbInv, NEW c \in Calls, Resolve(c) PROVE SmbInv'
<1>1. /\ calls \in [Calls -> Call] /\ calls[c] \in Call
      /\ account.share \in STRING /\ calls[c].initial \in Seq(STRING) /\ calls[c].path \in Seq(STRING)
  BY DEF SmbInv, SmbTypeOK, Call
<1>2. calls[c].phase = "resolve" /\ UNCHANGED <<account, transports, troubles>>
  BY DEF Resolve, At, World
<1>3. CASE ~ShareRootMatches(calls[c].initial, account.share)
  <2>1. Ends(c) /\ slot' = slot
    BY <1>3 DEF Resolve
  <2>. QED BY <2>1, <1>2, EndKeeps
<1>4. CASE ShareRootMatches(calls[c].initial, account.share)
  <2> DEFINE rel == UncRel(calls[c].initial, calls[c].path)
             new == [calls[c] EXCEPT !.share = account.share, !.rel = rel,
                             !.phase = IF slot' = Nil THEN "connect" ELSE "call", !.transport = slot']
  <2>1. slot' \in {slot, Nil} /\ calls' = [calls EXCEPT ![c] = new]
    BY <1>4 DEF Resolve
  <2>2. rel \in Seq(STRING)
    BY <1>1, UncRelTyped
  <2> HIDE DEF rel
  <2>3. slot \in Opened \cup {Nil} /\ slot' \in Opened \cup {Nil}
    BY <2>1 DEF SmbInv, SmbTypeOK
  <2>4. new \in Call
    BY <1>1, <2>2, <2>3 DEF Call, Phases
  <2>5. /\ new.phase = IF slot' = Nil THEN "connect" ELSE "call"
        /\ new.transport = slot' /\ new.failed = calls[c].failed
        /\ new.initial = calls[c].initial /\ new.path = calls[c].path
        /\ new.share = account.share /\ new.rel = rel
    BY <1>1 DEF Call
  <2>6. new.rel = UncRel(new.initial, new.path)
    BY <2>5 DEF rel
  <2>7. calls[c].failed # Nil => slot' # calls[c].failed
    BY <1>2, <2>1 DEF SmbInv, FailedIsGone
  <2> HIDE DEF new
  <2>8. OneCallMoves(c, new)
    BY <1>2, <1>4, <2>1, <2>5, <2>6, <2>7 DEF OneCallMoves
  <2>. QED BY <2>4, <2>8, OneCallKeeps
<1>. QED BY <1>3, <1>4

LEMMA DoneKeeps == ASSUME SmbInv, NEW c \in Calls, Done(c) PROVE SmbInv'
<1>1. calls \in [Calls -> Call] /\ calls[c] \in Call
  BY DEF SmbInv, SmbTypeOK
<1>2. slot' = slot /\ UNCHANGED <<account, transports, troubles>>
  BY DEF Done, Pool, World
<1>3. CASE calls[c].op = "size"
  <2> DEFINE new == [Idle EXCEPT !.op = "read", !.phase = "gate",
                         !.initial = calls[c].initial, !.path = calls[c].path]
  <2>1. calls' = [calls EXCEPT ![c] = new]
    BY <1>3 DEF Done
  <2>2. new \in Call
    BY <1>1, IdleTyped DEF Call, Phases, Ops
  <2>3. new.phase = "gate" /\ new.transport = Nil /\ new.failed = Nil
    BY IdleTyped DEF Call
  <2> HIDE DEF new
  <2>4. OneCallMoves(c, new)
    BY <1>2, <2>1, <2>3 DEF OneCallMoves
  <2>. QED BY <2>2, <2>4, OneCallKeeps
<1>4. CASE calls[c].op # "size"
  BY <1>2, <1>4, EndKeeps DEF Done
<1>. QED BY <1>3, <1>4

LEMMA BreaksKeeps == ASSUME SmbInv, NEW c \in Calls, Breaks(c) PROVE SmbInv'
<1>1. calls \in [Calls -> Call] /\ calls[c] \in Call
  BY DEF SmbInv, SmbTypeOK
<1>2. slot' = slot /\ UNCHANGED <<account, transports, troubles>>
  BY DEF Breaks, Pool, World
<1>3. CASE calls[c].failed = Nil
  <2> DEFINE new == [calls[c] EXCEPT !.phase = "evict", !.failed = calls[c].transport]
  <2>1. calls' = [calls EXCEPT ![c] = new]
    BY <1>3 DEF Breaks
  <2>2. new \in Call
    BY <1>1 DEF Call, Phases
  <2>3. /\ new.phase = "evict" /\ new.transport = calls[c].transport
        /\ new.failed = calls[c].transport
    BY <1>1 DEF Call
  <2> HIDE DEF new
  <2>4. OneCallMoves(c, new)
    BY <1>2, <2>1, <2>3 DEF OneCallMoves
  <2>. QED BY <2>2, <2>4, OneCallKeeps
<1>4. CASE calls[c].failed # Nil
  BY <1>2, <1>4, EndKeeps DEF Breaks
<1>. QED BY <1>3, <1>4

\* What is opened is new to all.
LEMMA ConnectKeeps == ASSUME SmbAssumption, SmbInv, NEW c \in Calls, Connect(c) PROVE SmbInv'
<1>1. /\ calls \in [Calls -> Call] /\ calls[c] \in Call
      /\ transports \in Seq([share : STRING \cup {Nil}, health : {"sound", "broken", "hung"}])
      /\ Len(transports) \in Nat /\ Nil \notin Nat
  BY DEF SmbInv, SmbTypeOK, SmbAssumption
<1>2. calls[c].phase = "connect" /\ slot' = slot /\ UNCHANGED <<account, troubles>>
  BY DEF Connect, At, World
<1>3. CASE Ends(c) /\ UNCHANGED transports
  BY <1>2, <1>3, EndKeeps
<1>4. CASE transports' = Append(transports, [share |-> calls[c].share, health |-> "sound"])
           /\ calls' = [calls EXCEPT ![c] = [@ EXCEPT !.phase = "connected", !.transport = Len(transports) + 1]]
  <2> DEFINE n == Len(transports) + 1
             new == [calls[c] EXCEPT !.phase = "connected", !.transport = n]
  <2>1. /\ Len(transports') = n /\ n \in Nat
        /\ transports' \in Seq([share : STRING \cup {Nil}, health : {"sound", "broken", "hung"}])
    BY <1>1, <1>4 DEF Call
  <2>2. Opened' = 1 .. n /\ Opened \subseteq Opened' /\ n \in Opened' /\ n \notin Opened \cup {Nil}
    BY <1>1, <2>1 DEF Opened
  <2> HIDE DEF n
  <2>3. Call \subseteq Call'
    BY <2>2 DEF Call
  <2>4. new \in Call'
    BY <1>1, <2>2 DEF Call, Phases
  <2>5. /\ new.phase = "connected" /\ new.transport = n /\ new.failed = calls[c].failed
        /\ new.rel = calls[c].rel /\ new.initial = calls[c].initial
        /\ new.path = calls[c].path /\ new.share = calls[c].share
    BY <1>1 DEF Call
  <2>6. calls' = [calls EXCEPT ![c] = new]
    BY <1>4 DEF n
  <2> HIDE DEF new
  <2>7. \A d \in Calls : calls'[d] = IF d = c THEN new ELSE calls[d]
    BY <1>1, <2>6
  <2>8. \A d \in Calls : calls[d].transport # n /\ calls[d].failed # n
    BY <1>1, <2>2 DEF Call
  <2>9. slot # n /\ slot \in Opened' \cup {Nil}
    BY <2>2 DEF SmbInv, SmbTypeOK
  <2>10. SmbTypeOK'
    <3>1. calls' \in [Calls -> Call']
      BY <1>1, <2>3, <2>4, <2>6
    <3>. QED BY <3>1, <1>2, <2>1, <2>9 DEF SmbInv, SmbTypeOK
  <2>11. PathsNamed'
    BY <1>2, <2>5, <2>7 DEF SmbInv, PathsNamed
  <2>12. FreshIsOwn'
    BY <1>1, <1>2, <2>2, <2>5, <2>7, <2>8, <2>9 DEF SmbInv, FreshIsOwn
  <2>13. FailedIsGone'
    BY <1>2, <2>5, <2>7 DEF SmbInv, FailedIsGone
  <2>. QED BY <2>10, <2>11, <2>12, <2>13 DEF SmbInv
<1>. QED BY <1>3, <1>4 DEF Connect

\* Who writes back gives his connection away, or drops it.
LEMMA WriteBackKeeps == ASSUME SmbInv, NEW c \in Calls, WriteBack(c) PROVE SmbInv'
<1> DEFINE new == [calls[c] EXCEPT !.phase = "call", !.transport = slot']
<1>1. /\ calls \in [Calls -> Call] /\ calls[c] \in Call
      /\ slot \in Opened \cup {Nil} /\ calls[c].transport \in Opened \cup {Nil}
  BY DEF SmbInv, SmbTypeOK, Call
<1>2. /\ calls[c].phase = "connected" /\ UNCHANGED <<account, transports, troubles>>
      /\ slot' = IF slot = Nil THEN calls[c].transport ELSE slot
      /\ calls' = [calls EXCEPT ![c] = new]
  BY DEF WriteBack, At, World
<1>3. new \in Call
  BY <1>1, <1>2 DEF Call, Phases
<1>4. /\ new.phase = "call" /\ new.transport = slot' /\ new.failed = calls[c].failed
      /\ new.rel = calls[c].rel /\ new.initial = calls[c].initial
      /\ new.path = calls[c].path /\ new.share = calls[c].share
  BY <1>1 DEF Call
<1> HIDE DEF new
<1>5. \A d \in Calls : calls'[d] = IF d = c THEN new ELSE calls[d]
  BY <1>1, <1>2
<1>6. /\ calls[c].transport # Nil /\ slot # calls[c].transport
      /\ \A d \in Calls : /\ d # c => calls[d].transport # calls[c].transport
                          /\ calls[d].failed # calls[c].transport
  BY <1>2 DEF SmbInv, FreshIsOwn
<1>7. SmbTypeOK'
  <2>1. Call' = Call /\ Opened' = Opened
    BY <1>2 DEF Call, Opened
  <2>2. calls' \in [Calls -> Call]
    BY <1>1, <1>2, <1>3
  <2>. QED BY <2>1, <2>2, <1>1, <1>2 DEF SmbInv, SmbTypeOK
<1>8. PathsNamed'
  BY <1>2, <1>4, <1>5 DEF SmbInv, PathsNamed
<1>9. FreshIsOwn'
  <2>1. SUFFICES ASSUME NEW d \in Calls, calls'[d].phase = "connected"
                 PROVE  /\ calls'[d].transport # Nil
                        /\ slot' # calls'[d].transport
                        /\ \A e \in Calls : /\ e # d => calls'[e].transport # calls'[d].transport
                                            /\ calls'[e].failed # calls'[d].transport
    BY DEF FreshIsOwn
  <2>2. d # c /\ calls'[d] = calls[d]
    BY <1>4, <1>5, <2>1
  <2>3. /\ calls[d].transport # Nil /\ slot # calls[d].transport
        /\ \A e \in Calls : /\ e # d => calls[e].transport # calls[d].transport
                            /\ calls[e].failed # calls[d].transport
    BY <2>1, <2>2 DEF SmbInv, FreshIsOwn
  <2>4. slot' # calls[d].transport
    BY <1>2, <2>2, <2>3
  <2>. QED BY <1>4, <1>5, <2>2, <2>3, <2>4
<1>10. FailedIsGone'
  <2>1. ASSUME NEW d \in Calls, calls[d].failed # Nil,
               calls[d].phase \in {"resolve", "connect", "connected", "call"}
        PROVE  slot' # calls[d].failed
    BY <1>2, <1>6, <2>1 DEF SmbInv, FailedIsGone
  <2>2. slot' # Nil /\ slot' # calls[c].failed
    BY <1>2, <1>6, <2>1
  <2>. QED BY <1>4, <1>5, <2>1, <2>2 DEF SmbInv, FailedIsGone
<1>. QED BY <1>7, <1>8, <1>9, <1>10 DEF SmbInv

\* The world around the pool.
LEMMA WorldKeeps ==
  ASSUME SmbInv, UNCHANGED <<slot, calls>>, Len(transports') = Len(transports),
         transports' \in Seq([share : STRING \cup {Nil}, health : {"sound", "broken", "hung"}]),
         troubles' \in Nat, account' \in [share : STRING, edits : Nat]
  PROVE  SmbInv'
<1>1. Opened' = Opened /\ Call' = Call
  BY DEF Opened, Call
<1>2. SmbTypeOK'
  BY <1>1 DEF SmbInv, SmbTypeOK
<1>3. PathsNamed' /\ FreshIsOwn' /\ FailedIsGone'
  BY DEF SmbInv, PathsNamed, FreshIsOwn, FailedIsGone
<1>. QED BY <1>2, <1>3 DEF SmbInv

LEMMA GoesBadKeeps ==
  ASSUME SmbInv, NEW t \in DOMAIN transports, GoesBad(t) PROVE SmbInv'
<1>1. transports \in Seq([share : STRING \cup {Nil}, health : {"sound", "broken", "hung"}])
      /\ troubles \in Nat /\ account \in [share : STRING, edits : Nat]
  BY DEF SmbInv, SmbTypeOK
<1>2. PICK health \in {"broken", "hung"} : transports' = [transports EXCEPT ![t].health = health]
  BY DEF GoesBad
<1>3. /\ transports' \in Seq([share : STRING \cup {Nil}, health : {"sound", "broken", "hung"}])
      /\ Len(transports') = Len(transports)
  <2> DEFINE T == [share : STRING \cup {Nil}, health : {"sound", "broken", "hung"}]
             new == [transports[t] EXCEPT !.health = health]
  <2>1. transports \in Seq(T)
    BY <1>1
  <2>2. transports[t] \in T
    <3> HIDE DEF T
    <3>. QED BY <2>1
  <2>3. new \in T
    BY <2>2
  <2>4. transports' = [transports EXCEPT ![t] = new]
    BY <1>2
  <2> HIDE DEF new, T
  <2>5. transports' \in Seq(T) /\ Len(transports') = Len(transports)
    BY <2>1, <2>3, <2>4
  <2>. QED BY <2>5 DEF T
<1>. QED BY <1>1, <1>3, WorldKeeps DEF GoesBad

-----------------------------------------------------------------------------
(***************************************************************************)
(* The theorem.                                                             *)
(***************************************************************************)

LEMMA SmbInitInv == ASSUME SmbAssumption, SmbInit PROVE SmbInv
<1>1. Shares[1] \in STRING
  BY DEF SmbAssumption
<1>2. calls \in [Calls -> Call] /\ \A c \in Calls : calls[c] = Idle
  BY IdleTyped DEF SmbInit
<1>3. SmbTypeOK
  BY <1>1, <1>2 DEF SmbInit, SmbTypeOK
<1>4. PathsNamed /\ FreshIsOwn /\ FailedIsGone
  BY <1>2, IdleTyped DEF PathsNamed, FreshIsOwn, FailedIsGone
<1>. QED BY <1>3, <1>4 DEF SmbInv

LEMMA SmbMovesKeep == ASSUME SmbAssumption, SmbInv, NEW c \in Calls, SmbMoves(c) PROVE SmbInv'
<1>1. CASE Enter(c)
  BY <1>1, EnterKeeps
<1>2. CASE GateBusy(c)
  BY <1>2, EndKeeps DEF GateBusy, Pool, World
<1>3. CASE Resolve(c)
  BY <1>3, ResolveKeeps
<1>4. CASE Connect(c)
  BY <1>4, ConnectKeeps
<1>5. CASE WriteBack(c)
  BY <1>5, WriteBackKeeps
<1>6. CASE Done(c)
  BY <1>6, DoneKeeps
<1>7. CASE FileFails(c)
  BY <1>7, EndKeeps DEF FileFails, Pool, World
<1>8. CASE Breaks(c)
  BY <1>8, BreaksKeeps
<1>9. CASE EvictSlot(c)
  BY <1>9, GoKeeps DEF EvictSlot, World
<1>10. CASE TimesOut(c)
  BY <1>10, GoKeeps DEF TimesOut, Pool, World
<1>11. CASE Invalidate(c)
  BY <1>11, EndKeeps DEF Invalidate, World
<1>. QED BY <1>1, <1>2, <1>3, <1>4, <1>5, <1>6, <1>7, <1>8, <1>9, <1>10, <1>11 DEF SmbMoves

LEMMA SmbStep == ASSUME SmbAssumption, SmbInv, [SmbNext]_smbVars PROVE SmbInv'
<1>1. CASE \E c \in Calls, op \in Ops, initial \in Initials, path \in Paths : Ask(c, op, initial, path)
  BY <1>1, AskKeeps
<1>2. CASE \E c \in Calls : SmbMoves(c)
  BY <1>2, SmbMovesKeep
<1>3. CASE \E t \in DOMAIN transports : GoesBad(t)
  BY <1>3, GoesBadKeeps
<1>4. CASE \E i \in DOMAIN Shares : EditAccount(Shares[i])
  <2>1. PICK i \in DOMAIN Shares : EditAccount(Shares[i])
    BY <1>4
  <2>2. Shares[i] \in STRING
    BY DEF SmbAssumption
  <2>3. account' \in [share : STRING, edits : Nat]
    BY <2>1, <2>2 DEF EditAccount, SmbInv, SmbTypeOK
  <2>. QED BY <2>1, <2>3, WorldKeeps DEF EditAccount, SmbInv, SmbTypeOK
<1>5. CASE UNCHANGED smbVars
  BY <1>5, WorldKeeps DEF smbVars, SmbInv, SmbTypeOK
<1>. QED BY <1>1, <1>2, <1>3, <1>4, <1>5 DEF SmbNext

LEMMA SmbInvReaches == ASSUME SmbInv PROVE CallsReachTheirFile
<1>1. RetryOnFresh
  BY DEF RetryOnFresh, SmbInv, FailedIsGone
<1>2. OpensWhatIsNamed
  <2>1. SUFFICES ASSUME NEW c \in Calls, calls[c].phase = "call"
                 PROVE  <<calls[c].share>> \o calls[c].rel
                          = (IF calls[c].initial = <<>> THEN <<calls[c].share>> ELSE calls[c].initial)
                              \o calls[c].path
    BY DEF OpensWhatIsNamed
  <2>2. /\ calls[c].rel = UncRel(calls[c].initial, calls[c].path)
        /\ ShareRootMatches(calls[c].initial, calls[c].share)
    BY <2>1 DEF SmbInv, PathsNamed
  <2>3. calls[c].initial \in Seq(STRING) /\ calls[c].path \in Seq(STRING)
    BY DEF SmbInv, SmbTypeOK, Call
  <2> DEFINE share == calls[c].share
             initial == calls[c].initial
             path == calls[c].path
             rel == calls[c].rel
  <2> HIDE DEF share, initial, path, rel
  <2>4. initial \in Seq(STRING) /\ path \in Seq(STRING) /\ ShareRootMatches(initial, share)
    BY <2>2, <2>3 DEF initial, path, share
  <2>5. <<share>> \o UncRel(initial, path) = (IF initial = <<>> THEN <<share>> ELSE initial) \o path
    BY <2>4, NamedInShare
  <2>6. rel = UncRel(initial, path)
    BY <2>2 DEF initial, path, rel
  <2>. QED BY <2>5, <2>6 DEF share, initial, path, rel
<1>. QED BY <1>1, <1>2 DEF CallsReachTheirFile

(* A call of an SMB source never tries a second time on the connection its   *)
(* first try failed on, whoever fills and empties the slot meanwhile, and    *)
(* what it opens in the share is the file its descriptor names (evict,       *)
(* get_or_connect, unc_rel).                                                 *)
THEOREM CallsReach == ASSUME SmbAssumption PROVE SmbSpec => []CallsReachTheirFile
<1>1. SmbInit => SmbInv
  BY SmbInitInv
<1>2. SmbInv /\ [SmbNext]_smbVars => SmbInv'
  BY SmbStep
<1>3. SmbInv => CallsReachTheirFile
  BY SmbInvReaches
<1>. QED BY <1>1, <1>2, <1>3, PTL DEF SmbSpec

-----------------------------------------------------------------------------
(***************************************************************************)
(* Least and greatest of a set of naturals, and the sequence without one of *)
(* its elements.                                                            *)
(***************************************************************************)

LEMMA MinOfNats ==
  ASSUME NEW S \in SUBSET Nat, S # {}
  PROVE  Min(S) \in S
<1>1. PICK n \in S : \A m \in S : n <= m
  <2>1. SUFFICES ASSUME \A n \in S : \E m \in S : ~(n <= m) PROVE FALSE
    OBVIOUS
  <2> DEFINE N == {k \in Nat : \A n \in S : k < n}
  <2>2. ASSUME NEW n \in S PROVE n # 0
    BY <2>1
  <2>3. 0 \in N
    BY <2>2
  <2>4. ASSUME NEW k \in N PROVE k + 1 \in N
    <3>1. ASSUME NEW n \in S PROVE k + 1 < n
      <4>1. k < n /\ n \in Nat /\ k \in Nat
        BY <2>4
      <4>2. PICK m \in S : ~(n <= m)
        BY <2>1
      <4>3. k < m /\ m \in Nat
        BY <2>4
      <4>. QED BY <4>1, <4>2, <4>3
    <3>. QED BY <3>1
  <2>5. N \in SUBSET Nat
    OBVIOUS
  <2> HIDE DEF N
  <2>6. N = Nat
    BY <2>3, <2>4, <2>5, SetInduction
  <2>7. PICK n \in S : n \in Nat
    OBVIOUS
  <2>8. n < n
    BY <2>6, <2>7 DEF N
  <2>. QED BY <2>7, <2>8
<1>. QED BY <1>1 DEF Min

LEMMA RemoveFirstTyped ==
  ASSUME NEW T, NEW s \in Seq(T), NEW e
  PROVE  RemoveFirst(s, e) \in Seq(T)
<1> DEFINE I == {i \in 1 .. Len(s) : s[i] = e}
<1>1. CASE I = {}
  BY <1>1 DEF RemoveFirst
<1>2. CASE I # {}
  <2>1. Min(I) \in I
    <3>1. I \in SUBSET Nat
      OBVIOUS
    <3> HIDE DEF I
    <3>. QED BY <3>1, <1>2, MinOfNats
  <2>2. RemoveFirst(s, e) = RemoveAt(s, Min(I))
    BY <1>2 DEF RemoveFirst, SelectInSeq
  <2>3. PICK i \in 1 .. Len(s) : i = Min(I)
    BY <2>1
  <2>4. RemoveAt(s, i) \in Seq(T)
    <3>1. i \in Nat /\ i - 1 \in 0 .. Len(s) /\ Len(s) \in Nat /\ i + 1 \in 1 .. Len(s) + 1
      OBVIOUS
    <3>2. SubSeq(s, 1, i - 1) \in Seq(T)
      BY <3>1
    <3>3. SubSeq(s, i + 1, Len(s)) \in Seq(T)
      BY <3>1
    <3>. QED BY <3>2, <3>3 DEF RemoveAt
  <2>. QED BY <2>2, <2>3, <2>4
<1>. QED BY <1>1, <1>2

-----------------------------------------------------------------------------
(***************************************************************************)
(* What is evicted, and what stays.                                         *)
(***************************************************************************)

Content(b) == OriginRange(b * BlockSize, BlockLength(b))

\* Maps from blocks of the file to what the origin holds of them.
TrueBlocks == {[b \in D |-> Content(b)] : D \in SUBSET {b \in Nat : b * BlockSize < FileSize}}

\* A cache of true blocks.
Sound(c) == /\ DOMAIN c = {"blocks", "order", "loading", "bytes"}
            /\ c.blocks \in TrueBlocks
            /\ c.order \in Seq(Nat)

LEMMA WithoutTrue ==
  ASSUME NEW blocks \in TrueBlocks, NEW gone PROVE Without(blocks, gone) \in TrueBlocks
<1>1. PICK D \in SUBSET {b \in Nat : b * BlockSize < FileSize} : blocks = [b \in D |-> Content(b)]
  BY DEF TrueBlocks
<1>2. Without(blocks, gone) = [b \in D \ gone |-> Content(b)]
  BY <1>1 DEF Without
<1>3. D \ gone \in SUBSET {b \in Nat : b * BlockSize < FileSize}
  OBVIOUS
<1>. QED BY <1>2, <1>3 DEF TrueBlocks

LEMMA EvictSound == ASSUME NEW c, Sound(c) PROVE Sound(Evict(c))
<1>1. CASE c.bytes > CapBytes /\ c.order # <<>>
  <2> DEFINE blocks == Without(c.blocks, {Head(c.order)})
             new == [c EXCEPT !.order = Tail(@), !.blocks = blocks,
                              !.bytes = @ - Len(c.blocks[Head(c.order)])]
  <2>1. Evict(c) = new
    BY <1>1 DEF Evict
  <2>2. blocks \in TrueBlocks
    BY WithoutTrue DEF Sound
  <2>3. Tail(c.order) \in Seq(Nat)
    BY <1>1 DEF Sound
  <2> HIDE DEF blocks
  <2>4. DOMAIN new = DOMAIN c /\ new.blocks = blocks /\ new.order = Tail(c.order)
    BY DEF Sound
  <2>. QED BY <2>1, <2>2, <2>3, <2>4 DEF Sound
<1>2. CASE ~(c.bytes > CapBytes /\ c.order # <<>>)
  BY <1>2 DEF Evict
<1>. QED BY <1>1, <1>2
(***************************************************************************)
(* The loop of insert_lru is a fold; a fold is a table over the subsets of  *)
(* the positions, and a table of sound caches.                              *)
(***************************************************************************)

EvictedRow(c, g, s) == IF s = {} THEN c ELSE Evict(g[s \ {Max(s)}])

IsEvictedTable(c, D, g) == g = [s \in SUBSET D |-> EvictedRow(c, g, s)]

EvictedTable(c, D) == CHOOSE g : IsEvictedTable(c, D, g)

LEMMA LoopIsTable ==
  ASSUME NEW c, NEW seq
  PROVE  FoldLeft(LAMBDA d, b : Evict(d), c, seq) = EvictedTable(c, DOMAIN seq)[DOMAIN seq]
BY DEF FoldLeft, MapThenFoldSet, EvictedTable, IsEvictedTable, EvictedRow

LEMMA EvictedTableExists ==
  ASSUME NEW c, NEW D \in SUBSET Nat, IsFiniteSet(D)
  PROVE  IsEvictedTable(c, D, EvictedTable(c, D))
<1> DEFINE Small(n) == {s \in SUBSET D : Cardinality(s) <= n}
           Upto(n, g) == g = [s \in Small(n) |-> EvictedRow(c, g, s)]
           N == {n \in Nat : \E g : Upto(n, g)}
<1>1. ASSUME NEW s \in SUBSET D
      PROVE  /\ IsFiniteSet(s) /\ Cardinality(s) \in Nat
             /\ s # {} => /\ s \ {Max(s)} \in SUBSET D
                          /\ Cardinality(s \ {Max(s)}) = Cardinality(s) - 1
  <2>1. IsFiniteSet(s) /\ Cardinality(s) \in Nat
    BY FS_Subset, FS_CardinalityType
  <2>2. ASSUME s # {} PROVE Max(s) \in s
    BY <2>1, <2>2, MaxOfNats
  <2>3. ASSUME s # {} PROVE Cardinality(s \ {Max(s)}) = Cardinality(s) - 1
    BY <2>1, <2>2, <2>3, FS_RemoveElement
  <2>. QED BY <2>1, <2>3
<1>2. 0 \in N
  <2> DEFINE g == [s \in Small(0) |-> c]
  <2>1. ASSUME NEW s \in Small(0) PROVE s = {}
    <3>1. s \in SUBSET D /\ Cardinality(s) <= 0
      OBVIOUS
    <3>2. IsFiniteSet(s) /\ Cardinality(s) = 0
      <4>1. IsFiniteSet(s) /\ Cardinality(s) \in Nat
        BY <1>1, <3>1
      <4>. QED BY <4>1, <3>1
    <3>. QED BY <3>2, FS_EmptySet
  <2>2. Upto(0, g)
    BY <2>1 DEF EvictedRow
  <2>. QED BY <2>2
<1>3. ASSUME NEW n \in N PROVE n + 1 \in N
  <2>1. n \in Nat
    OBVIOUS
  <2>2. PICK g : Upto(n, g)
    OBVIOUS
  <2> DEFINE h == [s \in Small(n + 1) |-> EvictedRow(c, g, s)]
  <2>3. ASSUME NEW s \in Small(n) PROVE s \in Small(n + 1) /\ h[s] = g[s]
    <3>1. s \in SUBSET D /\ Cardinality(s) <= n
      OBVIOUS
    <3>2. Cardinality(s) <= n + 1
      <4>1. Cardinality(s) \in Nat
        BY <1>1, <3>1
      <4>. QED BY <4>1, <2>1, <3>1
    <3>3. s \in Small(n + 1)
      BY <3>1, <3>2
    <3>. QED BY <3>3, <2>2
  <2>4. ASSUME NEW s \in Small(n + 1) PROVE EvictedRow(c, h, s) = EvictedRow(c, g, s)
    <3>1. CASE s = {}
      BY <3>1 DEF EvictedRow
    <3>2. CASE s # {}
      <4>1. s \ {Max(s)} \in Small(n)
        BY <1>1, <2>1, <3>2
      <4>2. h[s \ {Max(s)}] = g[s \ {Max(s)}]
        BY <4>1, <2>3
      <4>. QED BY <4>2, <3>2 DEF EvictedRow
    <3>. QED BY <3>1, <3>2
  <2>5. Upto(n + 1, h)
    BY <2>4
  <2>6. \E q : Upto(n + 1, q)
    BY <2>5
  <2> HIDE DEF Upto
  <2>. QED BY <2>1, <2>6
<1>4. N = Nat
  <2>1. N \in SUBSET Nat
    OBVIOUS
  <2> HIDE DEF N
  <2>. QED BY <1>2, <1>3, <2>1, SetInduction
<1>5. Cardinality(D) \in N
  BY <1>4, FS_CardinalityType
<1>6. PICK g : Upto(Cardinality(D), g)
  BY <1>5
<1>7. Small(Cardinality(D)) = SUBSET D
  <2>1. ASSUME NEW s \in SUBSET D PROVE Cardinality(s) <= Cardinality(D)
    BY FS_Subset
  <2>. QED BY <2>1
<1>8. IsEvictedTable(c, D, g)
  BY <1>6, <1>7 DEF IsEvictedTable
<1>. QED BY <1>8 DEF EvictedTable

LEMMA LoopSound ==
  ASSUME NEW c, Sound(c), NEW seq \in Seq(Nat)
  PROVE  Sound(FoldLeft(LAMBDA d, b : Evict(d), c, seq))
<1> DEFINE D == DOMAIN seq
           T == EvictedTable(c, D)
           Q == {s \in SUBSET D : Sound(T[s])}
<1>1. D = 1 .. Len(seq) /\ Len(seq) \in Nat
  OBVIOUS
<1>2. D \in SUBSET Nat /\ IsFiniteSet(D)
  BY <1>1, FS_Interval
<1>3. T = [s \in SUBSET D |-> EvictedRow(c, T, s)]
  BY <1>2, EvictedTableExists DEF IsEvictedTable
<1> HIDE DEF T, D
<1>4. ASSUME NEW s \in SUBSET D, \A x \in s : s \ {x} \in Q PROVE s \in Q
  <2>1. T[s] = EvictedRow(c, T, s)
    BY <1>3
  <2>2. CASE s = {}
    BY <2>1, <2>2 DEF EvictedRow
  <2>3. CASE s # {}
    <3>1. Max(s) \in s
      BY <1>2, <2>3, FS_Subset, MaxOfNats
    <3>2. Sound(T[s \ {Max(s)}])
      BY <3>1, <1>4
    <3>3. T[s] = Evict(T[s \ {Max(s)}])
      BY <2>1, <2>3 DEF EvictedRow
    <3>. QED BY <3>2, <3>3, EvictSound
  <2>. QED BY <2>2, <2>3
<1>5. Q \in SUBSET SUBSET D
  OBVIOUS
<1> HIDE DEF Q
<1>6. Q = SUBSET D
  BY <1>2, <1>4, <1>5, SubsetInduction
<1>7. D \in Q
  BY <1>6
<1>8. Sound(T[D])
  BY <1>7 DEF Q
<1>. QED BY <1>8, LoopIsTable DEF T, D
LEMMA InsertSound ==
  ASSUME NEW c, Sound(c), NEW block \in Nat, block * BlockSize < FileSize
  PROVE  Sound(InsertLru(c, block, Content(block)))
<1> DEFINE bytes == Content(block)
           before == IF block \in DOMAIN c.blocks THEN Len(c.blocks[block]) ELSE 0
           blocks == Put(c.blocks, block, bytes)
           order == Append(RemoveFirst(c.order, block), block)
           put == [c EXCEPT !.blocks = blocks, !.order = order, !.bytes = @ - before + Len(bytes)]
<1>1. blocks \in TrueBlocks
  <2>1. PICK D \in SUBSET {b \in Nat : b * BlockSize < FileSize} : c.blocks = [b \in D |-> Content(b)]
    BY DEF Sound, TrueBlocks
  <2>2. blocks = [b \in D \cup {block} |-> Content(b)]
    BY <2>1 DEF Put
  <2>3. D \cup {block} \in SUBSET {b \in Nat : b * BlockSize < FileSize}
    OBVIOUS
  <2>. QED BY <2>2, <2>3 DEF TrueBlocks
<1>2. order \in Seq(Nat)
  BY RemoveFirstTyped DEF Sound
<1>3. InsertLru(c, block, bytes) = FoldLeft(LAMBDA d, b : Evict(d), put, put.order)
  BY DEF InsertLru
<1> HIDE DEF bytes, before, blocks, order
<1>4. DOMAIN put = DOMAIN c /\ put.blocks = blocks /\ put.order = order
  BY DEF Sound
<1>5. Sound(put)
  BY <1>1, <1>2, <1>4 DEF Sound
<1> HIDE DEF put
<1>6. put.order \in Seq(Nat)
  BY <1>5 DEF Sound
<1>7. Sound(FoldLeft(LAMBDA d, b : Evict(d), put, put.order))
  BY <1>5, <1>6, LoopSound
<1>. QED BY <1>3, <1>7 DEF bytes

-----------------------------------------------------------------------------
(***************************************************************************)
(* What is copied out of a block.                                           *)
(***************************************************************************)

LEMMA BlockAround ==
  ASSUME ZipAssumption, NEW pos \in Nat
  PROVE  LET block == pos \div BlockSize IN
         /\ block \in Nat /\ block * BlockSize \in Nat
         /\ block * BlockSize <= pos /\ pos < block * BlockSize + BlockSize
<1>1. BlockSize \in Nat /\ BlockSize > 0
  BY DEF ZipAssumption
<1> DEFINE block == pos \div BlockSize
<1>2. block \in Nat
  BY <1>1
<1>3. pos = (BlockSize * block) + (pos % BlockSize) /\ pos % BlockSize \in 0 .. BlockSize - 1
  BY <1>1
<1> HIDE DEF block
<1>4. BlockSize * block = block * BlockSize /\ block * BlockSize \in Nat
  BY <1>1, <1>2
<1> DEFINE start == block * BlockSize
<1> HIDE DEF start
<1>. QED BY <1>1, <1>2, <1>3, <1>4 DEF block
\* What the origin holds of a block of the file is the whole block.
LEMMA ContentWhole ==
  ASSUME ZipAssumption, NEW block \in Nat, block * BlockSize < FileSize
  PROVE  /\ BlockLength(block) \in Nat
         /\ Content(block) \in Seq(Nat) /\ Len(Content(block)) = BlockLength(block)
         /\ \A i \in 1 .. BlockLength(block) : Content(block)[i] = block * BlockSize + i - 1
<1>1. FileSize \in Nat /\ BlockSize \in Nat /\ BlockSize > 0
  BY DEF ZipAssumption
<1> DEFINE start == block * BlockSize
           n == BlockLength(block)
           length == IF start + n > FileSize THEN FileSize - start ELSE n
<1>2. start \in Nat /\ start < FileSize
  BY <1>1
<1>3. n = IF FileSize - start < BlockSize THEN FileSize - start ELSE BlockSize
  BY DEF BlockLength
<1>4. Content(block) = [i \in 1 .. length |-> start + i - 1]
  BY DEF Content, OriginRange
<1> HIDE DEF start, n
<1>5. n \in Nat /\ length = n
  BY <1>1, <1>2, <1>3
<1> HIDE DEF length
<1>6. Content(block) = [i \in 1 .. n |-> start + i - 1]
  BY <1>4, <1>5
<1>7. \A i \in 1 .. n : start + i - 1 \in Nat
  BY <1>2, <1>5
<1>8. Content(block) \in Seq(Nat) /\ Len(Content(block)) = n
  BY <1>5, <1>6, <1>7
<1>9. \A i \in 1 .. n : Content(block)[i] = start + i - 1
  BY <1>6
<1>. QED BY <1>5, <1>8, <1>9 DEF start, n

Kinds == {"none", "cancelled", "network", "io", "bytes"}

\* Answers that tell the truth about the file, and never that it is short.
Answers ==
  {a \in [kind : Kinds, from : Nat, bytes : Seq(Nat)] :
     a.kind = "bytes" => /\ a.bytes # <<>>
                         /\ \A i \in DOMAIN a.bytes : a.bytes[i] = a.from + i - 1}

LEMMA FailureTrue ==
  ASSUME NEW kind \in {"none", "cancelled", "network", "io"} PROVE Failure(kind) \in Answers
BY DEF Failure, Answers, Kinds

LEMMA CopiedTrue ==
  ASSUME ZipAssumption, NEW r \in Readers, reader[r].pos \in Nat, reader[r].pos < FileSize,
         reader[r].want \in Nat, reader[r].want > 0
  PROVE  /\ BlockOf(r) \in Nat /\ BlockOf(r) * BlockSize < FileSize
         /\ Copied(r, BlockOf(r), Content(BlockOf(r))) \in Answers
<1> DEFINE pos == reader[r].pos
           want == reader[r].want
           block == BlockOf(r)
           start == block * BlockSize
           bytes == Content(block)
           n == BlockLength(block)
           skip == pos - start
           m == IF n - skip < want THEN n - skip ELSE want
           part == SubSeq(bytes, skip + 1, skip + m)
<1>1. FileSize \in Nat /\ BlockSize \in Nat /\ BlockSize > 0
  BY DEF ZipAssumption
<1>2. block \in Nat /\ start \in Nat /\ start <= pos /\ pos < start + BlockSize
  BY BlockAround DEF BlockOf
<1>3. start < FileSize
  BY <1>1, <1>2
<1>4. /\ n \in Nat /\ bytes \in Seq(Nat) /\ Len(bytes) = n
      /\ \A i \in 1 .. n : bytes[i] = start + i - 1
  BY <1>2, <1>3, ContentWhole
<1>5. n = IF FileSize - start < BlockSize THEN FileSize - start ELSE BlockSize
  BY DEF BlockLength
<1>6. Copied(r, block, bytes) = [kind |-> "bytes", from |-> pos, bytes |-> part]
  BY <1>4 DEF Copied
<1>7. pos \in Nat /\ want \in Nat /\ want > 0 /\ pos < FileSize
  OBVIOUS
<1> HIDE DEF start, bytes, n, pos, want
<1>8. /\ skip \in Nat /\ n - skip > 0
  BY <1>1, <1>2, <1>3, <1>4, <1>5, <1>7
<1>9. m \in Nat /\ m > 0 /\ skip + m <= n
  BY <1>4, <1>7, <1>8
<1>10. skip = pos - start
  OBVIOUS
<1> HIDE DEF skip, m
<1>11. part \in Seq(Nat) /\ Len(part) = m /\ \A i \in 1 .. m : part[i] = bytes[skip + i]
  <2>1. skip + 1 \in 1 .. n + 1 /\ skip + m \in skip .. n
    BY <1>4, <1>8, <1>9
  <2>2. part \in Seq(Nat) /\ Len(part) = skip + m - (skip + 1) + 1
    BY <1>4, <1>8, <1>9, <2>1
  <2>3. skip + m - (skip + 1) + 1 = m
    BY <1>8, <1>9
  <2>4. \A i \in 1 .. m : part[i] = bytes[skip + 1 + i - 1]
    BY <1>4, <1>8, <1>9, <2>1
  <2>5. \A i \in 1 .. m : skip + 1 + i - 1 = skip + i
    BY <1>8, <1>9
  <2>. QED BY <2>2, <2>3, <2>4, <2>5
<1>12. \A i \in 1 .. m : part[i] = pos + i - 1
  <2>1. SUFFICES ASSUME NEW i \in 1 .. m PROVE part[i] = pos + i - 1
    OBVIOUS
  <2>2. skip + i \in 1 .. n
    BY <1>4, <1>8, <1>9
  <2>3. part[i] = start + (skip + i) - 1
    BY <1>4, <1>11, <2>2
  <2>. QED BY <1>2, <1>7, <1>9, <1>10, <2>3
<1> HIDE DEF part
<1>13. DOMAIN part = 1 .. m /\ part # <<>>
  BY <1>9, <1>11
<1>14. [kind |-> "bytes", from |-> pos, bytes |-> part] \in Answers
  BY <1>7, <1>11, <1>12, <1>13 DEF Answers, Kinds
<1>. QED BY <1>2, <1>3, <1>6, <1>14 DEF start, bytes

-----------------------------------------------------------------------------
(***************************************************************************)
(* Readers of a remote zip: the invariant.                                  *)
(***************************************************************************)

ReaderState ==
  [pos : Nat, phase : {"idle", "look", "load", "asleep", "leave"}, want : Nat, gen : Nat,
   answer : Answers]

\* Who is within a read has something left to read.
Reading(state) == state.phase \in {"look", "load", "asleep"} => state.pos < FileSize /\ state.want > 0

ReaderStates == {state \in ReaderState : Reading(state)}

GateState == [closed : BOOLEAN, generation : Nat, active : Int]

ZipInv == gate \in GateState /\ Sound(cache) /\ reader \in [Readers -> ReaderStates]

LEMMA RestSound ==
  ASSUME ZipInv
  PROVE  /\ gate \in GateState /\ gate.generation \in Nat
         /\ Sound(cache) /\ DOMAIN cache = {"blocks", "order", "loading", "bytes"}
         /\ reader \in [Readers -> ReaderStates]
BY DEF ZipInv, GateState, Sound

-----------------------------------------------------------------------------
(***************************************************************************)
(* The steps of the readers.                                                *)
(***************************************************************************)

LEMMA GateTyped ==
  ASSUME ZipInv
  PROVE  /\ [gate EXCEPT !.active = @ + 1] \in GateState
         /\ [gate EXCEPT !.active = @ - 1] \in GateState
<1>1. gate \in GateState /\ gate.active \in Int
  BY DEF ZipInv, GateState
<1>2. gate.active + 1 \in Int /\ gate.active - 1 \in Int
  BY <1>1
<1>. QED BY <1>1, <1>2 DEF GateState

\* A reader that is answered has moved on by what it got.
LEMMA AnsweredTyped ==
  ASSUME ZipInv, NEW r \in Readers, NEW answer \in Answers
  PROVE  Answered(r, answer) \in [Readers -> ReaderStates]
<1> DEFINE new == [pos |-> reader[r].pos + Len(answer.bytes), phase |-> "idle", want |-> 0, gen |-> 0,
                   answer |-> answer]
<1>1. reader \in [Readers -> ReaderStates] /\ reader[r].pos \in Nat
  BY DEF ZipInv, ReaderStates, ReaderState
<1>2. Len(answer.bytes) \in Nat
  BY DEF Answers
<1>3. reader[r].pos + Len(answer.bytes) \in Nat
  BY <1>1, <1>2
<1>4. new \in ReaderStates
  BY <1>3 DEF ReaderStates, ReaderState, Reading
<1>5. Answered(r, answer) = [reader EXCEPT ![r] = new]
  BY DEF Answered
<1> HIDE DEF new
<1>. QED BY <1>1, <1>4, <1>5

LEMMA SeekKeeps ==
  ASSUME ZipAssumption, ZipInv, NEW r \in Readers, NEW target \in Targets, Seek(r, target)
  PROVE  ZipInv'
<1>1. reader \in [Readers -> ReaderStates] /\ reader[r] \in ReaderState
  BY DEF ZipInv, ReaderStates
<1>2. PICK base \in {0, reader[r].pos, FileSize} :
        reader' = [reader EXCEPT ![r] = [@ EXCEPT !.pos = IF base + target >= 0 THEN base + target ELSE reader[r].pos,
                                                  !.answer = Failure("none")]]
  BY DEF Seek
<1> DEFINE pos == IF base + target >= 0 THEN base + target ELSE reader[r].pos
           new == [reader[r] EXCEPT !.pos = pos, !.answer = Failure("none")]
<1>3. pos \in Nat
  BY <1>1 DEF ZipAssumption, ReaderState
<1>4. reader' = [reader EXCEPT ![r] = new]
  BY <1>2
<1> HIDE DEF pos
<1>5. new \in ReaderState
  BY <1>1, <1>3, FailureTrue DEF ReaderState
<1>6. new.phase = "idle"
  BY <1>1 DEF Seek, ReaderState
<1> HIDE DEF new
<1>7. new \in ReaderStates
  BY <1>5, <1>6 DEF ReaderStates, Reading
<1>8. reader' \in [Readers -> ReaderStates]
  BY <1>1, <1>4, <1>7
<1>9. gate' = gate /\ cache' = cache
  BY DEF Seek
<1>. QED BY <1>8, <1>9, RestSound DEF ZipInv

LEMMA ReadKeeps ==
  ASSUME ZipAssumption, ZipInv, NEW r \in Readers, NEW n \in Buffers, Read(r, n)
  PROVE  ZipInv'
<1>1. reader \in [Readers -> ReaderStates] /\ reader[r] \in ReaderState
  BY DEF ZipInv, ReaderStates
<1>2. CASE gate.closed
  <2>1. reader' = Answered(r, Failure("cancelled")) /\ UNCHANGED <<gate, cache>>
    BY <1>2 DEF Read
  <2>2. reader' \in [Readers -> ReaderStates]
    BY <2>1, FailureTrue, AnsweredTyped
  <2>. QED BY <2>1, <2>2, RestSound DEF ZipInv
<1>3. CASE ~gate.closed
  <2> DEFINE new == [reader[r] EXCEPT !.phase = "look", !.want = n, !.gen = gate.generation,
                                      !.answer = Failure("none")]
  <2>1. reader' = [reader EXCEPT ![r] = new] /\ gate' = [gate EXCEPT !.active = @ + 1] /\ cache' = cache
    BY <1>3 DEF Read
  <2>2. n \in Nat /\ n > 0 /\ reader[r].pos < FileSize
    BY DEF Read, ZipAssumption
  <2>3. new \in ReaderState
    BY <1>1, <2>2, FailureTrue, RestSound DEF ReaderState
  <2>4. new.pos = reader[r].pos /\ new.want = n
    BY <1>1 DEF ReaderState
  <2> HIDE DEF new
  <2>5. new \in ReaderStates
    BY <2>2, <2>3, <2>4 DEF ReaderStates, Reading
  <2>6. reader' \in [Readers -> ReaderStates]
    BY <1>1, <2>1, <2>5
  <2>7. gate' \in GateState
    BY <2>1, GateTyped
  <2>. QED BY <2>1, <2>6, <2>7, RestSound DEF ZipInv
<1>. QED BY <1>2, <1>3

\* Who is within a read, with the block it is at.
LEMMA WithinRead ==
  ASSUME ZipAssumption, ZipInv, NEW r \in Readers, reader[r].phase \in {"look", "load", "asleep"}
  PROVE  /\ BlockOf(r) \in Nat /\ BlockOf(r) * BlockSize < FileSize
         /\ Copied(r, BlockOf(r), Content(BlockOf(r))) \in Answers
<1>1. reader[r] \in ReaderStates
  BY DEF ZipInv
<1>2. reader[r].pos \in Nat /\ reader[r].want \in Nat /\ reader[r].pos < FileSize /\ reader[r].want > 0
  BY <1>1 DEF ReaderStates, ReaderState, Reading
<1>. QED BY <1>2, CopiedTrue

\* A reader goes on to another phase.
LEMMA PhaseTyped ==
  ASSUME ZipInv, NEW r \in Readers, reader[r].phase \in {"look", "asleep"},
         NEW phase \in {"look", "load", "asleep"}
  PROVE  [reader[r] EXCEPT !.phase = phase] \in ReaderStates
<1> DEFINE new == [reader[r] EXCEPT !.phase = phase]
<1>1. reader[r] \in ReaderState /\ reader[r].pos < FileSize /\ reader[r].want > 0
  BY DEF ZipInv, ReaderStates, Reading
<1>2. new \in ReaderState /\ new.pos = reader[r].pos /\ new.want = reader[r].want
  BY <1>1 DEF ReaderState
<1> HIDE DEF new
<1>3. new \in ReaderStates
  BY <1>1, <1>2 DEF ReaderStates, Reading
<1>. QED BY <1>3 DEF new

LEMMA LookKeeps ==
  ASSUME ZipAssumption, ZipInv, NEW r \in Readers, Look(r) PROVE ZipInv'
<1> DEFINE block == BlockOf(r)
<1>1. reader[r].phase = "look"
  BY DEF Look
<1> HIDE DEF block
<1>2. CASE /\ block \in DOMAIN cache.blocks
           /\ cache' = Touched(cache, block)
           /\ reader' = Answered(r, Copied(r, block, cache.blocks[block]))
           /\ gate' = [gate EXCEPT !.active = @ - 1]
  <2>1. cache.blocks[block] = Content(block)
    <3>1. PICK D \in SUBSET {b \in Nat : b * BlockSize < FileSize} : cache.blocks = [b \in D |-> Content(b)]
      BY DEF ZipInv, Sound, TrueBlocks
    <3>. QED BY <1>2, <3>1
  <2>2. Copied(r, block, Content(block)) \in Answers
    BY <1>1, WithinRead DEF block
  <2>5. reader' \in [Readers -> ReaderStates]
    BY <1>2, <2>1, <2>2, AnsweredTyped
  <2>3. Sound(cache')
    <3> DEFINE order == Append(RemoveFirst(cache.order, block), block)
    <3>1. block \in Nat
      BY <1>1, WithinRead DEF block
    <3>2. order \in Seq(Nat)
      BY <3>1, RemoveFirstTyped DEF ZipInv, Sound
    <3>3. cache' = [cache EXCEPT !.order = order]
      BY <1>2 DEF Touched
    <3> HIDE DEF order
    <3>4. DOMAIN cache' = DOMAIN cache /\ cache'.blocks = cache.blocks /\ cache'.order = order
      BY <3>3, RestSound
    <3>. QED BY <3>2, <3>4 DEF ZipInv, Sound
  <2>4. gate' \in GateState
    BY <1>2, GateTyped
  <2>. QED BY <2>3, <2>4, <2>5 DEF ZipInv
<1>3. CASE reader' = [reader EXCEPT ![r].phase = "asleep"] /\ UNCHANGED <<gate, cache>>
  <2>1. reader' \in [Readers -> ReaderStates]
    <3> DEFINE new == [reader[r] EXCEPT !.phase = "asleep"]
    <3>1. new \in ReaderStates
      BY <1>1, PhaseTyped
    <3>2. reader' = [reader EXCEPT ![r] = new]
      BY <1>3
    <3> HIDE DEF new
    <3>. QED BY <3>1, <3>2, RestSound
  <2>. QED BY <1>3, <2>1, RestSound DEF ZipInv
<1>4. CASE /\ cache' = [cache EXCEPT !.loading = @ \cup {block}]
           /\ reader' = [reader EXCEPT ![r].phase = "load"] /\ UNCHANGED gate
  <2>1. reader' \in [Readers -> ReaderStates]
    <3> DEFINE new == [reader[r] EXCEPT !.phase = "load"]
    <3>1. new \in ReaderStates
      BY <1>1, PhaseTyped
    <3>2. reader' = [reader EXCEPT ![r] = new]
      BY <1>4
    <3> HIDE DEF new
    <3>. QED BY <3>1, <3>2, RestSound
  <2>2. Sound(cache')
    <3>1. DOMAIN cache' = DOMAIN cache /\ cache'.blocks = cache.blocks /\ cache'.order = cache.order
      BY <1>4, RestSound
    <3>. QED BY <3>1 DEF ZipInv, Sound
  <2>. QED BY <1>4, <2>1, <2>2, RestSound DEF ZipInv
<1>. QED BY <1>2, <1>3, <1>4 DEF Look, block

\* A reader that goes to leave takes a true answer with it.
LEMMA LeavingTyped ==
  ASSUME ZipInv, NEW r \in Readers, NEW answer \in Answers
  PROVE  [reader[r] EXCEPT !.phase = "leave", !.answer = answer] \in ReaderStates
<1> DEFINE new == [reader[r] EXCEPT !.phase = "leave", !.answer = answer]
<1>1. reader[r] \in ReaderState
  BY DEF ZipInv, ReaderStates
<1>2. new \in ReaderState /\ new.phase = "leave"
  BY <1>1 DEF ReaderState
<1> HIDE DEF new
<1>3. new \in ReaderStates
  BY <1>2 DEF ReaderStates, Reading
<1>. QED BY <1>3 DEF new

LEMMA LoadedKeeps ==
  ASSUME ZipAssumption, ZipInv, NEW r \in Readers, Loaded(r) PROVE ZipInv'
<1> DEFINE block == BlockOf(r)
           bytes == OriginRange(block * BlockSize, BlockLength(block))
           whole == Len(bytes) = BlockLength(block)
           answer == IF ~whole THEN Failure("no range")
                     ELSE IF gate.generation # reader[r].gen THEN Failure("cancelled")
                     ELSE Copied(r, block, bytes)
<1>1. bytes = Content(block)
  BY DEF Content
<1>2. reader[r].phase = "load"
  BY DEF Loaded
<1>3. block \in Nat /\ block * BlockSize < FileSize /\ Copied(r, block, bytes) \in Answers
  BY <1>1, <1>2, WithinRead
<1>4. whole
  BY <1>1, <1>3, ContentWhole
<1>5. answer \in Answers
  BY <1>3, <1>4, FailureTrue
<1>6. /\ reader' = [reader EXCEPT ![r] = [@ EXCEPT !.phase = "leave", !.answer = answer]]
      /\ cache' = IF whole /\ gate.generation = reader[r].gen THEN InsertLru(cache, block, bytes) ELSE cache
      /\ gate' = gate
  BY DEF Loaded
<1> HIDE DEF answer, whole, bytes, block
<1>7. reader' \in [Readers -> ReaderStates]
  <2> DEFINE new == [reader[r] EXCEPT !.phase = "leave", !.answer = answer]
  <2>1. new \in ReaderStates
    BY <1>5, LeavingTyped
  <2>2. reader' = [reader EXCEPT ![r] = new]
    BY <1>6
  <2> HIDE DEF new
  <2>. QED BY <2>1, <2>2, RestSound
<1>8. Sound(InsertLru(cache, block, bytes))
  BY <1>1, <1>3, InsertSound DEF ZipInv
<1>9. Sound(cache')
  BY <1>6, <1>8, RestSound
<1>. QED BY <1>6, <1>7, <1>9, RestSound DEF ZipInv

LEMMA LoadFailsKeeps ==
  ASSUME ZipInv, NEW r \in Readers, LoadFails(r) PROVE ZipInv'
<1>1. PICK kind \in {"network", "cancelled", "io"} :
        reader' = [reader EXCEPT ![r] = [@ EXCEPT !.phase = "leave", !.answer = Failure(kind)]]
  BY DEF LoadFails
<1>2. Failure(kind) \in Answers
  BY FailureTrue
<1>3. reader' \in [Readers -> ReaderStates]
  <2> DEFINE new == [reader[r] EXCEPT !.phase = "leave", !.answer = Failure(kind)]
  <2>1. new \in ReaderStates
    BY <1>2, LeavingTyped
  <2>2. reader' = [reader EXCEPT ![r] = new]
    BY <1>1
  <2> HIDE DEF new
  <2>. QED BY <2>1, <2>2, RestSound
<1>4. gate' = gate /\ cache' = cache
  BY DEF LoadFails
<1>. QED BY <1>3, <1>4, RestSound DEF ZipInv

\* All who sleep look again.
LEMMA LeaveKeeps ==
  ASSUME ZipInv, NEW r \in Readers, Leave(r) PROVE ZipInv'
<1> DEFINE woken == {q \in Readers : reader[q].phase = "asleep"}
           left == Answered(r, reader[r].answer)
<1>1. reader[r].answer \in Answers
  BY DEF ZipInv, ReaderStates, ReaderState
<1>2. left \in [Readers -> ReaderStates]
  BY <1>1, AnsweredTyped
<1>3. /\ cache' = [cache EXCEPT !.loading = @ \ {BlockOf(r)}]
      /\ gate' = [gate EXCEPT !.active = @ - 1]
      /\ reader' = [q \in Readers |-> IF q \in woken THEN [reader[q] EXCEPT !.phase = "look"] ELSE left[q]]
  BY DEF Leave
<1> HIDE DEF left
<1>4. ASSUME NEW q \in woken PROVE [reader[q] EXCEPT !.phase = "look"] \in ReaderStates
  BY PhaseTyped
<1>5. reader' \in [Readers -> ReaderStates]
  BY <1>2, <1>3, <1>4
<1>6. DOMAIN cache' = DOMAIN cache /\ cache'.blocks = cache.blocks /\ cache'.order = cache.order
  BY <1>3, RestSound
<1>7. gate' \in GateState
  BY <1>3, GateTyped
<1>8. Sound(cache')
  BY <1>6, RestSound DEF Sound
<1>. QED BY <1>5, <1>7, <1>8 DEF ZipInv

-----------------------------------------------------------------------------
(***************************************************************************)
(* The clear command, and the theorem.                                      *)
(***************************************************************************)

LEMMA ClearsKeep == ASSUME ZipInv, NEW c \in Clearers, Clears(c) PROVE ZipInv'
<1>1. /\ gate \in GateState /\ gate.generation \in Nat
      /\ Sound(cache) /\ reader \in [Readers -> ReaderStates]
  BY RestSound
<1>2. CASE BeginClear(c)
  <2>1. gate.generation + 1 \in Nat
    BY <1>1
  <2>2. gate' \in GateState
    BY <1>1, <1>2, <2>1 DEF BeginClear, GateState
  <2>. QED BY <1>1, <1>2, <2>2 DEF BeginClear, ZipInv
<1>3. CASE Drained(c)
  BY <1>1, <1>3 DEF Drained, ZipInv
<1>4. CASE DrainTimeout(c)
  BY <1>1, <1>4 DEF DrainTimeout, ZipInv
<1>5. CASE ClearWhileGated(c)
  <2>1. CASE cache' = cache
    BY <1>1, <1>5, <2>1 DEF ClearWhileGated, ZipInv
  <2>2. CASE cache' = [cache EXCEPT !.blocks = EmptyMap, !.order = <<>>, !.bytes = 0]
    <3>1. EmptyMap = [b \in {} |-> Content(b)]
      BY DEF EmptyMap
    <3>2. EmptyMap \in TrueBlocks
      BY <3>1 DEF TrueBlocks
    <3>3. DOMAIN cache' = DOMAIN cache /\ cache'.blocks = EmptyMap /\ cache'.order = <<>>
      BY <2>2, RestSound
    <3>4. Sound(cache')
      BY <1>1, <3>2, <3>3 DEF Sound
    <3>. QED BY <1>1, <1>5, <3>4 DEF ClearWhileGated, ZipInv
  <2>. QED BY <1>5, <2>1, <2>2 DEF ClearWhileGated
<1>6. CASE EndClear(c)
  <2>1. gate' \in GateState
    BY <1>1, <1>6 DEF EndClear, GateState
  <2>. QED BY <1>1, <1>6, <2>1 DEF EndClear, ZipInv
<1>. QED BY <1>2, <1>3, <1>4, <1>5, <1>6 DEF Clears

LEMMA ZipInitInv == ASSUME ZipAssumption, ZipInit PROVE ZipInv
<1>1. reader \in [Readers -> ReaderStates]
  <2>1. [pos |-> 0, phase |-> "idle", want |-> 0, gen |-> 0, answer |-> Failure("none")] \in ReaderStates
    BY FailureTrue DEF ReaderStates, ReaderState, Reading
  <2>. QED BY <2>1 DEF ZipInit
<1>2. EmptyMap \in TrueBlocks
  <2>1. EmptyMap = [b \in {} |-> Content(b)]
    BY DEF EmptyMap
  <2>. QED BY <2>1 DEF TrueBlocks
<1>3. Sound(cache)
  BY <1>2 DEF ZipInit, Sound
<1>4. gate \in GateState
  BY DEF ZipInit, GateState
<1>. QED BY <1>1, <1>3, <1>4 DEF ZipInv

LEMMA ZipStep == ASSUME ZipAssumption, ZipInv, [ZipNext]_zipVars PROVE ZipInv'
<1>1. ASSUME NEW r \in Readers, ReaderMoves(r) PROVE ZipInv'
  BY <1>1, LookKeeps, LoadedKeeps, LoadFailsKeeps, LeaveKeeps DEF ReaderMoves
<1>2. ASSUME NEW r \in Readers, NEW n \in Buffers, Read(r, n) PROVE ZipInv'
  BY <1>2, ReadKeeps
<1>3. ASSUME NEW r \in Readers, NEW t \in Targets, Seek(r, t) PROVE ZipInv'
  BY <1>3, SeekKeeps
<1>4. ASSUME NEW c \in Clearers, Clears(c) PROVE ZipInv'
  BY <1>4, ClearsKeep
<1>5. CASE UNCHANGED zipVars
  BY <1>5, RestSound DEF zipVars, ZipInv
<1>. QED BY <1>1, <1>2, <1>3, <1>4, <1>5 DEF ZipNext

LEMMA ZipInvExact == ASSUME ZipInv PROVE ReadsExact
<1>1. ASSUME NEW r \in Readers PROVE reader[r].answer \in Answers
  BY DEF ZipInv, ReaderStates, ReaderState
<1>. QED BY <1>1 DEF ReadsExact, Answers, Kinds

(* Whatever the size of the file and of its blocks, and however many blocks  *)
(* fit: a read of a remote zip is answered with the bytes at the reader's     *)
(* position, as far as a block goes, and no block is refused for being short *)
(* (RemoteZipReader::read, load_block, insert_lru).                          *)
THEOREM BlocksExact == ASSUME ZipAssumption PROVE ZipSpec => []ReadsExact
<1>1. ZipInit => ZipInv
  BY ZipInitInv
<1>2. ZipInv /\ [ZipNext]_zipVars => ZipInv'
  BY ZipStep
<1>3. ZipInv => ReadsExact
  BY ZipInvExact
<1>. QED BY <1>1, <1>2, <1>3, PTL DEF ZipSpec

-----------------------------------------------------------------------------
(***************************************************************************)
(* The order of the blocks: as the code has it, oldest first, and as the    *)
(* abstract cache sees it, newest first.                                    *)
(***************************************************************************)

\* The first n of r name each element of D once.
IsOrder(r, n, D) ==
  /\ n \in Nat /\ r \in [1 .. n -> D]
  /\ \A i, j \in 1 .. n : r[i] = r[j] => i = j
  /\ \A x \in D : \E i \in 1 .. n : r[i] = x

Reversed(r, n) == [i \in 1 .. n |-> r[(n + 1) - i]]

LEMMA DropOrder ==
  ASSUME NEW D, NEW r, NEW n, IsOrder(r, n, D), NEW k \in 1 .. n
  PROVE  IsOrder(Drop(r, n, k), n - 1, D \ {r[k]})
<1> DEFINE q == Drop(r, n, k)
           was(i) == IF i < k THEN i ELSE i + 1
<1>1. /\ n \in Nat /\ r \in [1 .. n -> D]
      /\ \A i, j \in 1 .. n : r[i] = r[j] => i = j
      /\ \A x \in D : \E i \in 1 .. n : r[i] = x
  BY DEF IsOrder
<1>2. DOMAIN q = 1 .. n - 1 /\ n - 1 \in Nat /\ q = [i \in 1 .. n - 1 |-> q[i]]
  BY <1>1 DEF Drop
<1>3. \A i \in 1 .. n - 1 : was(i) \in 1 .. n /\ was(i) # k /\ q[i] = r[was(i)]
  BY <1>1 DEF Drop
<1>4. \A i, j \in 1 .. n - 1 : was(i) = was(j) => i = j
  BY <1>1
<1>5. \A j \in 1 .. n : j # k => \E i \in 1 .. n - 1 : was(i) = j
  <2>1. ASSUME NEW j \in 1 .. n, j # k PROVE \E i \in 1 .. n - 1 : was(i) = j
    <3>1. CASE j < k
      <4>1. j \in 1 .. n - 1 /\ was(j) = j
        BY <1>1, <3>1
      <4>. QED BY <4>1
    <3>2. CASE j > k
      <4>1. j - 1 \in 1 .. n - 1 /\ was(j - 1) = j
        BY <1>1, <3>2
      <4>. QED BY <4>1
    <3>. QED BY <1>1, <2>1, <3>1, <3>2
  <2>. QED BY <2>1
<1> HIDE DEF q, was
<1>6. \A i \in 1 .. n - 1 : q[i] \in D \ {r[k]}
  BY <1>1, <1>3
<1>7. ASSUME NEW i \in 1 .. n - 1, NEW j \in 1 .. n - 1, q[i] = q[j] PROVE i = j
  <2>1. r[was(i)] = r[was(j)] /\ was(i) \in 1 .. n /\ was(j) \in 1 .. n
    BY <1>3, <1>7
  <2>2. was(i) = was(j)
    BY <1>1, <2>1
  <2>. QED BY <1>4, <2>2
<1>8. ASSUME NEW x \in D \ {r[k]} PROVE \E i \in 1 .. n - 1 : q[i] = x
  <2>1. PICK j \in 1 .. n : r[j] = x
    BY <1>1
  <2>2. PICK i \in 1 .. n - 1 : was(i) = j
    BY <1>5, <2>1
  <2>. QED BY <1>3, <2>1, <2>2
<1>9. q \in [1 .. n - 1 -> D \ {r[k]}]
  BY <1>2, <1>6
<1>10. IsOrder(q, n - 1, D \ {r[k]})
  BY <1>2, <1>7, <1>8, <1>9 DEF IsOrder
<1>. QED BY <1>10 DEF q

LEMMA PushOrder ==
  ASSUME NEW D, NEW r, NEW n, IsOrder(r, n, D), NEW x, x \notin D
  PROVE  IsOrder(Push(r, n, x), n + 1, D \cup {x})
<1> DEFINE q == Push(r, n, x)
<1>1. /\ n \in Nat /\ r \in [1 .. n -> D]
      /\ \A i, j \in 1 .. n : r[i] = r[j] => i = j
      /\ \A y \in D : \E i \in 1 .. n : r[i] = y
  BY DEF IsOrder
<1>2. /\ q = [i \in 1 .. n + 1 |-> q[i]] /\ n + 1 \in Nat
      /\ \A i \in 1 .. n + 1 : q[i] = IF i = 1 THEN x ELSE r[i - 1]
  BY <1>1 DEF Push
<1>3. /\ \A i \in 1 .. n + 1 : i # 1 => i - 1 \in 1 .. n
      /\ \A i \in 1 .. n : i + 1 \in 1 .. n + 1 /\ i + 1 # 1 /\ (i + 1) - 1 = i
      /\ 1 \in 1 .. n + 1
  BY <1>1
<1> HIDE DEF q
<1>4. \A i \in 1 .. n + 1 : q[i] \in D \cup {x}
  BY <1>1, <1>2, <1>3
<1>5. ASSUME NEW i \in 1 .. n + 1, NEW j \in 1 .. n + 1, q[i] = q[j] PROVE i = j
  <2>1. CASE i = 1 \/ j = 1
    BY <1>1, <1>2, <1>3, <1>5, <2>1
  <2>2. CASE i # 1 /\ j # 1
    <3>1. i - 1 \in 1 .. n /\ j - 1 \in 1 .. n /\ r[i - 1] = r[j - 1]
      BY <1>2, <1>3, <1>5, <2>2
    <3>2. i - 1 = j - 1
      BY <1>1, <3>1
    <3>. QED BY <1>1, <3>2
  <2>. QED BY <2>1, <2>2
<1>6. \A y \in D \cup {x} : \E i \in 1 .. n + 1 : q[i] = y
  <2>1. ASSUME NEW y \in D PROVE \E i \in 1 .. n + 1 : q[i] = y
    <3>1. PICK i \in 1 .. n : r[i] = y
      BY <1>1
    <3>2. q[i + 1] = y /\ i + 1 \in 1 .. n + 1
      BY <1>2, <1>3, <3>1
    <3>. QED BY <3>2
  <2>2. q[1] = x
    BY <1>2, <1>3
  <2>. QED BY <1>3, <2>1, <2>2
<1>7. q \in [1 .. n + 1 -> D \cup {x}]
  BY <1>2, <1>4
<1>8. IsOrder(q, n + 1, D \cup {x})
  BY <1>2, <1>5, <1>6, <1>7 DEF IsOrder
<1>. QED BY <1>8 DEF q

LEMMA FirstsOrder ==
  ASSUME NEW D, NEW r, NEW n, IsOrder(r, n, D), n # 0
  PROVE  IsOrder(Firsts(r, n - 1), n - 1, D \ {r[n]})
<1>1. n \in Nat /\ n \in 1 .. n
  BY DEF IsOrder
<1>2. Drop(r, n, n) = Firsts(r, n - 1)
  BY <1>1 DEF Drop, Firsts
<1>. QED BY <1>1, <1>2, DropOrder

\* Taking an element out of the order of the code, and adding one to it.
LEMMA RemoveReversed ==
  ASSUME NEW D, NEW r, NEW n, IsOrder(r, n, D), NEW x
  PROVE  /\ x \notin D => RemoveFirst(Reversed(r, n), x) = Reversed(r, n)
         /\ \A k \in 1 .. n : x = r[k] => RemoveFirst(Reversed(r, n), x) = Reversed(Drop(r, n, k), n - 1)
<1> DEFINE s == Reversed(r, n)
           I == {i \in 1 .. Len(s) : s[i] = x}
<1>1. /\ n \in Nat /\ r \in [1 .. n -> D] /\ \A i, j \in 1 .. n : r[i] = r[j] => i = j
  BY DEF IsOrder
<1>2. \A i \in 1 .. n : (n + 1) - i \in 1 .. n /\ (n + 1) - ((n + 1) - i) = i
  BY <1>1
<1>3. s \in [1 .. n -> D] /\ \A i \in 1 .. n : s[i] = r[(n + 1) - i]
  BY <1>1, <1>2 DEF Reversed
<1> HIDE DEF s
<1>4. s \in Seq(D) /\ Len(s) = n
  BY <1>1, <1>3, SeqOfFunction
<1>5. ASSUME x \notin D PROVE RemoveFirst(s, x) = s
  <2>1. I = {}
    BY <1>3, <1>4, <1>5
  <2>. QED BY <2>1 DEF RemoveFirst
<1>6. ASSUME NEW k \in 1 .. n, x = r[k] PROVE RemoveFirst(s, x) = Reversed(Drop(r, n, k), n - 1)
  <2> DEFINE j == (n + 1) - k
  <2>1. j \in 1 .. n /\ s[j] = x /\ j \in Nat
    BY <1>1, <1>2, <1>3, <1>6
  <2>2. \A i \in 1 .. n : s[i] = x => i = j
    BY <1>1, <1>2, <1>3, <1>6
  <2> HIDE DEF j
  <2>3. I = {j}
    BY <1>4, <2>1, <2>2
  <2>4. RemoveFirst(s, x) = RemoveAt(s, Min(I))
    BY <2>3 DEF RemoveFirst, SelectInSeq
  <2>5. Min({j}) = j
    BY <2>1, MinOfNats
  <2>6. RemoveAt(s, j) = Drop(s, n, j)
    BY <1>4, <2>1, DropIs DEF RemoveAt
  <2>7. Drop(s, n, j) = Reversed(Drop(r, n, k), n - 1)
    <3>1. ASSUME NEW i \in 1 .. n - 1
          PROVE (IF i < j THEN s[i] ELSE s[i + 1]) = Drop(r, n, k)[((n - 1) + 1) - i]
      <4>1. i \in 1 .. n /\ i + 1 \in 1 .. n /\ n - i \in 1 .. n - 1 /\ ((n - 1) + 1) - i = n - i
        BY <1>1
      <4>2. Drop(r, n, k)[n - i] = IF n - i < k THEN r[n - i] ELSE r[(n - i) + 1]
        BY <4>1 DEF Drop
      <4>3. i < j <=> ~(n - i < k)
        BY <1>1, <4>1 DEF j
      <4>4. s[i] = r[(n - i) + 1] /\ s[i + 1] = r[n - i]
        <5>1. (n + 1) - i = (n - i) + 1 /\ (n + 1) - (i + 1) = n - i
          BY <1>1
        <5>. QED BY <1>3, <4>1, <5>1
      <4>. QED BY <4>1, <4>2, <4>3, <4>4
    <3>. QED BY <3>1 DEF Drop, Reversed
  <2>. QED BY <2>3, <2>4, <2>5, <2>6, <2>7
<1>. QED BY <1>5, <1>6 DEF s

LEMMA AppendReversed ==
  ASSUME NEW D, NEW r, NEW n, IsOrder(r, n, D), NEW x
  PROVE  Append(Reversed(r, n), x) = Reversed(Push(r, n, x), n + 1)
<1> DEFINE s == Reversed(r, n)
           T == D \cup {x}
           a == Append(s, x)
<1>1. n \in Nat /\ r \in [1 .. n -> D]
  BY DEF IsOrder
<1>2. \A i \in 1 .. n : (n + 1) - i \in 1 .. n
  BY <1>1
<1>3. s \in [1 .. n -> T] /\ \A i \in 1 .. n : s[i] = r[(n + 1) - i]
  BY <1>1, <1>2 DEF Reversed
<1>4. x \in T
  OBVIOUS
<1> HIDE DEF s, T
<1>5. s \in Seq(T) /\ Len(s) = n
  BY <1>1, <1>3, SeqOfFunction
<1>6. a \in Seq(T) /\ Len(a) = n + 1 /\ \A i \in 1 .. n + 1 : a[i] = IF i = n + 1 THEN x ELSE s[i]
  BY <1>4, <1>5
<1> HIDE DEF a
<1>7. a = [i \in 1 .. n + 1 |-> a[i]]
  BY <1>6, SeqIs
<1>8. ASSUME NEW i \in 1 .. n + 1 PROVE a[i] = Push(r, n, x)[((n + 1) + 1) - i]
  <2>1. ((n + 1) + 1) - i \in 1 .. n + 1 /\ (((n + 1) + 1) - i = 1 <=> i = n + 1)
        /\ (((n + 1) + 1) - i) - 1 = (n + 1) - i /\ (i # n + 1 => i \in 1 .. n)
    BY <1>1
  <2>2. Push(r, n, x)[((n + 1) + 1) - i] = IF i = n + 1 THEN x ELSE r[(n + 1) - i]
    BY <2>1 DEF Push
  <2>. QED BY <1>3, <1>6, <2>1, <2>2
<1>9. a = Reversed(Push(r, n, x), n + 1)
  BY <1>7, <1>8 DEF Reversed
<1>. QED BY <1>9 DEF a, s

-----------------------------------------------------------------------------
(***************************************************************************)
(* The cache of blocks in the order of a sequence, and its bytes.           *)
(***************************************************************************)

EntryOf(b) == [key |-> b, item |-> Content(b)]
EntriesOf(B) == {EntryOf(b) : b \in B}
Sum(E) == SumFunction([e \in E |-> Len(e.item)])
Counted(E) == IsFiniteSet(E) /\ \A e \in E : Len(e.item) \in Nat

FileBlocks == {b \in Nat : b * BlockSize < FileSize}

LEMMA SumTyped == ASSUME NEW E, Counted(E) PROVE Sum(E) \in Nat
<1> DEFINE f == [e \in E |-> Len(e.item)]
<1>1. DOMAIN f = E /\ \A e \in DOMAIN f : f[e] \in Nat
  BY DEF Counted
<1> HIDE DEF f
<1>2. SumFunction(f) \in Nat
  BY <1>1, SumIsNat DEF Counted
<1>. QED BY <1>2 DEF Sum, f

LEMMA SumOfNone == Sum({}) = 0
<1> DEFINE f == [e \in {} |-> Len(e.item)]
<1>1. DOMAIN f = {}
  OBVIOUS
<1> HIDE DEF f
<1>2. SumFunction(f) = 0
  BY <1>1, SumOfNothing
<1>. QED BY <1>2 DEF Sum, f

LEMMA SumOfRest ==
  ASSUME NEW E, Counted(E), NEW a \in E
  PROVE  Counted(E \ {a}) /\ Sum(E) = Len(a.item) + Sum(E \ {a})
<1> DEFINE f == [e \in E |-> Len(e.item)]
           g == [e \in E \ {a} |-> Len(e.item)]
<1>1. DOMAIN f = E /\ \A e \in DOMAIN f : f[e] \in Nat
  BY DEF Counted
<1>2. DOMAIN g = DOMAIN f \ {a} /\ \A e \in DOMAIN g : g[e] = f[e]
  OBVIOUS
<1>3. f[a] = Len(a.item)
  OBVIOUS
<1> HIDE DEF f, g
<1>4. SumFunction(f) = f[a] + SumFunction(g)
  BY <1>1, <1>2, SumSplit DEF Counted
<1>5. Counted(E \ {a})
  BY FS_RemoveElement DEF Counted
<1>. QED BY <1>3, <1>4, <1>5 DEF Sum, f, g

\* Of finitely many blocks of the file one is taken away.
LEMMA BlocksWithout ==
  ASSUME ZipAssumption, NEW B \in SUBSET FileBlocks, IsFiniteSet(B)
  PROVE  /\ Counted(EntriesOf(B)) /\ Sum(EntriesOf(B)) \in Nat
         /\ \A b \in B : /\ Len(Content(b)) \in Nat
                         /\ Sum(EntriesOf(B)) = Len(Content(b)) + Sum(EntriesOf(B \ {b}))
<1> DEFINE f == [b \in B |-> EntryOf(b)]
<1>1. f \in Surjection(B, EntriesOf(B))
  BY DEF Surjection, EntriesOf
<1>2. IsFiniteSet(EntriesOf(B))
  BY <1>1, FS_Surjection
<1>3. ASSUME NEW b \in B PROVE Len(Content(b)) \in Nat
  <2>1. b \in Nat /\ b * BlockSize < FileSize
    BY DEF FileBlocks
  <2>. QED BY <2>1, ContentWhole
<1>4. Counted(EntriesOf(B))
  BY <1>2, <1>3 DEF Counted, EntriesOf, EntryOf
<1>5. ASSUME NEW b \in B PROVE Sum(EntriesOf(B)) = Len(Content(b)) + Sum(EntriesOf(B \ {b}))
  <2> DEFINE e == EntryOf(b)
             E == EntriesOf(B)
  <2>1. e \in E /\ e.item = Content(b) /\ EntriesOf(B \ {b}) = E \ {e}
    BY DEF EntriesOf, EntryOf
  <2> HIDE DEF e, E
  <2>2. Sum(E) = Len(e.item) + Sum(E \ {e})
    BY <1>4, <2>1, SumOfRest DEF E
  <2>. QED BY <2>1, <2>2 DEF E
<1>. QED BY <1>3, <1>4, <1>5, SumTyped

\* The blocks of c from the one used last on are the first n of r.
Newest(c, r, n) ==
  /\ DOMAIN c = {"blocks", "order", "loading", "bytes"}
  /\ c.blocks \in TrueBlocks
  /\ IsOrder(r, n, DOMAIN c.blocks) /\ c.order = Reversed(r, n)
  /\ c.bytes = Sum(EntriesOf(DOMAIN c.blocks))

LEMMA NewestTyped ==
  ASSUME NEW c, NEW r, NEW n, Newest(c, r, n)
  PROVE  /\ DOMAIN c.blocks \in SUBSET FileBlocks /\ IsFiniteSet(DOMAIN c.blocks)
         /\ \A b \in DOMAIN c.blocks : c.blocks[b] = Content(b)
<1>1. PICK D \in SUBSET {b \in Nat : b * BlockSize < FileSize} : c.blocks = [b \in D |-> Content(b)]
  BY DEF Newest, TrueBlocks
<1>2. n \in Nat /\ r \in Surjection(1 .. n, DOMAIN c.blocks)
  BY DEF Newest, IsOrder, Surjection
<1>3. IsFiniteSet(1 .. n)
  BY <1>2, FS_Interval
<1>4. IsFiniteSet(DOMAIN c.blocks)
  BY <1>2, <1>3, FS_Surjection
<1>. QED BY <1>1, <1>4 DEF FileBlocks

Entries(r, n) == [i \in 1 .. n |-> EntryOf(r[i])]

\* The entries of the cache, as the abstract cache has them.
EntriesIn(c) == Reverse([i \in DOMAIN c.order |-> [key |-> c.order[i], item |-> c.blocks[c.order[i]]]])

LEMMA BytesAre == ASSUME NEW p PROVE Lru!Bytes(p) = Sum(Range(p))
<1>1. Lru!Bytes(p) = SumFunction([e \in Range(p) |-> Len(e.item)])
  BY DEF Lru!Bytes, Lru!SumFunction, Lru!SumFunctionOnSet, Lru!FoldFunctionOnSet, Lru!MapThenFoldSet,
         SumFunction, SumFunctionOnSet, FoldFunctionOnSet, MapThenFoldSet, Lru!Range, Range
<1>. QED BY <1>1 DEF Sum

LEMMA EntriesAre ==
  ASSUME NEW D, NEW r, NEW n, IsOrder(r, n, D)
  PROVE  /\ Entries(r, n) \in Seq(EntriesOf(D)) /\ Len(Entries(r, n)) = n /\ DOMAIN Entries(r, n) = 1 .. n
         /\ \A i \in 1 .. n : Entries(r, n)[i] = EntryOf(r[i])
         /\ Range(Entries(r, n)) = EntriesOf(D)
<1> DEFINE p == Entries(r, n)
<1>1. n \in Nat /\ r \in [1 .. n -> D] /\ \A x \in D : \E i \in 1 .. n : r[i] = x
  BY DEF IsOrder
<1>2. p \in [1 .. n -> EntriesOf(D)] /\ \A i \in 1 .. n : p[i] = EntryOf(r[i])
  BY <1>1 DEF Entries, EntriesOf
<1> HIDE DEF p
<1>3. p \in Seq(EntriesOf(D)) /\ Len(p) = n /\ DOMAIN p = 1 .. n
  BY <1>1, <1>2, SeqOfFunction
<1>4. Range(p) = EntriesOf(D)
  <2>1. \A e \in EntriesOf(D) : \E i \in 1 .. n : p[i] = e
    BY <1>1, <1>2 DEF EntriesOf
  <2>. QED BY <1>2, <1>3, <2>1 DEF Range
<1>. QED BY <1>2, <1>3, <1>4 DEF p

LEMMA KeptAre ==
  ASSUME NEW c, NEW r, NEW n, Newest(c, r, n)
  PROVE  EntriesIn(c) = Entries(r, n) /\ c.bytes = Lru!Bytes(Entries(r, n))
<1> DEFINE D == DOMAIN c.blocks
           s == [i \in DOMAIN c.order |-> [key |-> c.order[i], item |-> c.blocks[c.order[i]]]]
<1>1. IsOrder(r, n, D) /\ c.order = Reversed(r, n) /\ c.bytes = Sum(EntriesOf(D))
  BY DEF Newest
<1>2. n \in Nat /\ r \in [1 .. n -> D] /\ \A i \in 1 .. n : (n + 1) - i \in 1 .. n
  BY <1>1 DEF IsOrder
<1>3. \A b \in D : c.blocks[b] = Content(b)
  BY NewestTyped
<1>4. DOMAIN c.order = 1 .. n /\ \A i \in 1 .. n : c.order[i] = r[(n + 1) - i]
  BY <1>1, <1>2 DEF Reversed
<1>5. s \in [1 .. n -> EntriesOf(D)] /\ \A i \in 1 .. n : s[i] = EntryOf(r[(n + 1) - i])
  BY <1>2, <1>3, <1>4 DEF EntryOf, EntriesOf
<1> HIDE DEF s, D
<1>6. Len(s) = n
  BY <1>2, <1>5, SeqOfFunction
<1>7. Reverse(s) = [i \in 1 .. n |-> s[(n - i) + 1]]
  BY <1>6 DEF Reverse
<1>8. \A i \in 1 .. n : s[(n - i) + 1] = EntryOf(r[i])
  <2>1. ASSUME NEW i \in 1 .. n PROVE s[(n - i) + 1] = EntryOf(r[i])
    <3>1. (n - i) + 1 \in 1 .. n /\ (n + 1) - ((n - i) + 1) = i
      BY <1>2
    <3>. QED BY <1>5, <3>1
  <2>. QED BY <2>1
<1>9. Reverse(s) = Entries(r, n)
  BY <1>7, <1>8 DEF Entries
<1>10. c.bytes = Lru!Bytes(Entries(r, n))
  BY <1>1, EntriesAre, BytesAre
<1>. QED BY <1>9, <1>10 DEF EntriesIn, s

-----------------------------------------------------------------------------
(***************************************************************************)
(* What the loop of insert_lru leaves: the newest that fit together.        *)
(***************************************************************************)

LEMMA EvictNewest ==
  ASSUME ZipAssumption, NEW c, NEW r, NEW n, Newest(c, r, n)
  PROVE  \/ c.bytes <= CapBytes /\ Evict(c) = c
         \/ n # 0 /\ ~(c.bytes <= CapBytes) /\ Newest(Evict(c), Firsts(r, n - 1), n - 1)
<1> DEFINE D == DOMAIN c.blocks
<1>1. /\ DOMAIN c = {"blocks", "order", "loading", "bytes"} /\ c.blocks \in TrueBlocks
      /\ IsOrder(r, n, D) /\ c.order = Reversed(r, n) /\ c.bytes = Sum(EntriesOf(D))
  BY DEF Newest
<1>2. D \in SUBSET FileBlocks /\ IsFiniteSet(D) /\ \A b \in D : c.blocks[b] = Content(b)
  BY NewestTyped
<1>3. n \in Nat /\ r \in [1 .. n -> D]
  BY <1>1 DEF IsOrder
<1>4. c.bytes \in Nat /\ CapBytes \in Nat
  BY <1>1, <1>2, BlocksWithout DEF ZipAssumption
<1>5. CASE c.bytes <= CapBytes
  <2>1. ~(c.bytes > CapBytes)
    BY <1>4, <1>5
  <2>. QED BY <1>5, <2>1 DEF Evict
<1>6. CASE ~(c.bytes <= CapBytes)
  <2>1. c.bytes > CapBytes
    BY <1>4, <1>6
  <2>2. n # 0
    <3>1. ASSUME n = 0 PROVE FALSE
      <4>1. D = {}
        BY <1>1, <3>1 DEF IsOrder
      <4>2. EntriesOf(D) = {}
        BY <4>1 DEF EntriesOf
      <4>3. c.bytes = 0
        BY <1>1, <4>2, SumOfNone
      <4>. QED BY <1>4, <2>1, <4>3
    <3>. QED BY <3>1
  <2> DEFINE b == r[n]
             order == c.order
  <2>3. n \in 1 .. n /\ b \in D
    BY <1>3, <2>2
  <2>4. order \in [1 .. n -> D] /\ \A i \in 1 .. n : order[i] = r[(n + 1) - i]
    <3>1. \A i \in 1 .. n : (n + 1) - i \in 1 .. n
      BY <1>3
    <3>. QED BY <1>1, <1>3, <3>1 DEF Reversed
  <2>5. order \in Seq(D) /\ Len(order) = n
    <3> HIDE DEF order, D
    <3>. QED BY <1>3, <2>4, SeqOfFunction
  <2>6. order # <<>> /\ Head(order) = b
    <3>1. 1 \in 1 .. n /\ (n + 1) - 1 = n
      BY <1>3, <2>2
    <3>2. order[1] = b
      BY <2>4, <3>1
    <3> HIDE DEF order, D, b
    <3>. QED BY <2>2, <2>5, <3>2
  <2>7. Tail(order) = Reversed(Firsts(r, n - 1), n - 1)
    <3>1. Tail(order) = [i \in 1 .. n - 1 |-> order[i + 1]]
      <4> HIDE DEF order, D
      <4>1. Tail(order) \in Seq(D) /\ Len(Tail(order)) = n - 1
        BY <2>2, <2>5, <2>6
      <4>2. \A i \in 1 .. n - 1 : Tail(order)[i] = order[i + 1]
        BY <2>2, <2>5, <2>6
      <4>3. Tail(order) = [i \in 1 .. n - 1 |-> Tail(order)[i]]
        BY <4>1, SeqIs
      <4>. QED BY <4>2, <4>3
    <3>2. ASSUME NEW i \in 1 .. n - 1 PROVE order[i + 1] = Firsts(r, n - 1)[((n - 1) + 1) - i]
      <4>1. i + 1 \in 1 .. n /\ (n + 1) - (i + 1) = n - i /\ ((n - 1) + 1) - i = n - i /\ n - i \in 1 .. n - 1
        BY <1>3
      <4>. QED BY <2>4, <4>1 DEF Firsts
    <3>. QED BY <3>1, <3>2 DEF Reversed
  <2> DEFINE blocks == Without(c.blocks, {b})
             bytes == c.bytes - Len(c.blocks[b])
             d == [c EXCEPT !.order = Tail(@), !.blocks = blocks, !.bytes = bytes]
  <2>8. Evict(c) = d
    BY <2>1, <2>6 DEF Evict
  <2>9. blocks \in TrueBlocks /\ DOMAIN blocks = D \ {b}
    BY <1>1, WithoutTrue DEF Without
  <2>10. bytes = Sum(EntriesOf(D \ {b}))
    <3>1. /\ Len(Content(b)) \in Nat
          /\ Sum(EntriesOf(D)) = Len(Content(b)) + Sum(EntriesOf(D \ {b}))
      <4> HIDE DEF D, b
      <4>. QED BY <1>2, <2>3, BlocksWithout
    <3>2. D \ {b} \in SUBSET FileBlocks /\ IsFiniteSet(D \ {b})
      BY <1>2, FS_RemoveElement
    <3>3. Sum(EntriesOf(D \ {b})) \in Nat
      <4> HIDE DEF D, b
      <4>. QED BY <3>2, BlocksWithout
    <3>. QED BY <1>1, <1>2, <2>3, <3>1, <3>3
  <2> HIDE DEF blocks, bytes
  <2>11. /\ DOMAIN d = {"blocks", "order", "loading", "bytes"} /\ d.blocks = blocks /\ d.order = Tail(order)
         /\ d.bytes = bytes
    BY <1>1
  <2> HIDE DEF d
  <2>12. IsOrder(Firsts(r, n - 1), n - 1, D \ {b})
    BY <1>1, <2>2, FirstsOrder
  <2>13. Newest(d, Firsts(r, n - 1), n - 1)
    BY <2>7, <2>9, <2>10, <2>11, <2>12 DEF Newest
  <2>. QED BY <1>6, <2>2, <2>8, <2>13
<1>. QED BY <1>5, <1>6

FirstSet(r, k) == {r[i] : i \in 1 .. k}

\* m is what is left when all but the first k of n blocks have gone.
Trimmed(m, r, n, k) ==
  /\ k \in 0 .. n
  /\ Newest(m, Firsts(r, k), k)
  /\ k = n \/ Sum(EntriesOf(FirstSet(r, k + 1))) > CapBytes

LEMMA TrimmedSet ==
  ASSUME NEW m, NEW r, NEW n, NEW k, Trimmed(m, r, n, k)
  PROVE  DOMAIN m.blocks = FirstSet(r, k) /\ m.bytes = Sum(EntriesOf(FirstSet(r, k)))
<1>1. IsOrder(Firsts(r, k), k, DOMAIN m.blocks) /\ m.bytes = Sum(EntriesOf(DOMAIN m.blocks))
  BY DEF Trimmed, Newest
<1>2. /\ \A i \in 1 .. k : Firsts(r, k)[i] = r[i] /\ Firsts(r, k)[i] \in DOMAIN m.blocks
      /\ \A x \in DOMAIN m.blocks : \E i \in 1 .. k : Firsts(r, k)[i] = x
  BY <1>1 DEF IsOrder, Firsts
<1>3. DOMAIN m.blocks = FirstSet(r, k)
  BY <1>2 DEF FirstSet
<1>. QED BY <1>1, <1>3

LEMMA EvictTrimmed ==
  ASSUME ZipAssumption, NEW r, NEW n \in Nat, NEW m, NEW k, Trimmed(m, r, n, k)
  PROVE  \/ m.bytes <= CapBytes /\ Evict(m) = m
         \/ k # 0 /\ ~(m.bytes <= CapBytes) /\ Trimmed(Evict(m), r, n, k - 1)
<1>1. k \in 0 .. n /\ Newest(m, Firsts(r, k), k) /\ m.bytes = Sum(EntriesOf(FirstSet(r, k)))
  BY TrimmedSet DEF Trimmed
<1>2. SUFFICES ASSUME k # 0, ~(m.bytes <= CapBytes), Newest(Evict(m), Firsts(Firsts(r, k), k - 1), k - 1)
               PROVE  Trimmed(Evict(m), r, n, k - 1)
  BY <1>1, EvictNewest
<1>3. Firsts(Firsts(r, k), k - 1) = Firsts(r, k - 1)
  BY <1>1 DEF Firsts
<1>4. k - 1 \in 0 .. n /\ (k - 1) + 1 = k
  BY <1>1, <1>2
<1>5. m.bytes > CapBytes
  <2>1. DOMAIN m.blocks \in SUBSET FileBlocks /\ IsFiniteSet(DOMAIN m.blocks)
    BY <1>1, NewestTyped
  <2>2. m.bytes \in Nat
    BY <1>1, <2>1, BlocksWithout DEF Newest
  <2>. QED BY <1>2, <2>2 DEF ZipAssumption
<1>. QED BY <1>1, <1>2, <1>3, <1>4, <1>5 DEF Trimmed

LEMMA LoopTrimmed ==
  ASSUME ZipAssumption, NEW c, NEW r, NEW n, Newest(c, r, n)
  PROVE  LET all == FoldLeft(LAMBDA d, b : Evict(d), c, c.order)
         IN \E k \in 0 .. n : Trimmed(all, r, n, k) /\ all.bytes <= CapBytes
<1> DEFINE D == 1 .. n
           T == EvictedTable(c, D)
           Q == {s \in SUBSET D : \E k \in 0 .. n : /\ Trimmed(T[s], r, n, k)
                                                    /\ T[s].bytes <= CapBytes \/ k + Cardinality(s) = n}
<1>1. n \in Nat /\ c.order = Reversed(r, n) /\ r = Firsts(r, n)
  BY DEF Newest, IsOrder, Firsts
<1>2. D \in SUBSET Nat /\ IsFiniteSet(D) /\ Cardinality(D) = n
  <2>1. IsFiniteSet(D) /\ Cardinality(D) = IF 1 > n THEN 0 ELSE n - 1 + 1
    BY <1>1, FS_Interval
  <2>. QED BY <1>1, <2>1
<1>3. T = [s \in SUBSET D |-> EvictedRow(c, T, s)]
  BY <1>2, EvictedTableExists DEF IsEvictedTable
<1> HIDE DEF T
<1>4. ASSUME NEW s \in SUBSET D, \A x \in s : s \ {x} \in Q PROVE s \in Q
  <2>1. T[s] = EvictedRow(c, T, s)
    BY <1>3
  <2>2. CASE s = {}
    <3>1. T[s] = c /\ Cardinality(s) = 0
      BY <2>1, <2>2, FS_EmptySet DEF EvictedRow
    <3>2. Trimmed(c, r, n, n)
      BY <1>1 DEF Trimmed
    <3>. QED BY <1>1, <3>1, <3>2
  <2>3. CASE s # {}
    <3> DEFINE rest == s \ {Max(s)}
    <3>1. IsFiniteSet(s) /\ Max(s) \in s
      <4>1. IsFiniteSet(s) /\ s \in SUBSET Nat
        BY <1>2, FS_Subset
      <4>. QED BY <2>3, <4>1, MaxOfNats
    <3>2. rest \in Q
      BY <3>1, <1>4
    <3>3. Cardinality(rest) = Cardinality(s) - 1 /\ Cardinality(s) \in Nat
      BY <3>1, FS_RemoveElement, FS_CardinalityType
    <3>4. T[s] = Evict(T[rest])
      BY <2>1, <2>3 DEF EvictedRow
    <3> HIDE DEF rest
    <3>5. PICK k \in 0 .. n : /\ Trimmed(T[rest], r, n, k)
                              /\ T[rest].bytes <= CapBytes \/ k + Cardinality(rest) = n
      BY <3>2
    <3> DEFINE left == T[rest]
               size == Cardinality(s)
    <3>6. Trimmed(left, r, n, k) /\ (left.bytes <= CapBytes \/ k + (size - 1) = n)
      BY <3>3, <3>5
    <3>7. T[s] = Evict(left) /\ size \in Nat
      BY <3>3, <3>4
    <3> HIDE DEF left, size
    <3>8. \E i \in 0 .. n : Trimmed(T[s], r, n, i) /\ (T[s].bytes <= CapBytes \/ i + size = n)
      <4>1. \/ left.bytes <= CapBytes /\ Evict(left) = left
            \/ k # 0 /\ ~(left.bytes <= CapBytes) /\ Trimmed(Evict(left), r, n, k - 1)
        BY <1>1, <3>6, EvictTrimmed
      <4>2. CASE left.bytes <= CapBytes /\ Evict(left) = left
        <5>1. T[s] = left
          BY <3>7, <4>2
        <5>. QED BY <3>6, <4>2, <5>1
      <4>3. CASE k # 0 /\ ~(left.bytes <= CapBytes) /\ Trimmed(Evict(left), r, n, k - 1)
        <5>1. k - 1 \in 0 .. n
          BY <1>1, <4>3
        <5>2. Trimmed(T[s], r, n, k - 1)
          BY <3>7, <4>3
        <5>3. (k - 1) + size = n
          BY <1>1, <3>6, <3>7, <4>3
        <5>. QED BY <5>1, <5>2, <5>3
      <4>. QED BY <4>1, <4>2, <4>3
    <3>. QED BY <3>8 DEF size
  <2>. QED BY <2>2, <2>3
<1>5. Q \in SUBSET SUBSET D
  OBVIOUS
<1> HIDE DEF Q
<1>6. Q = SUBSET D
  BY <1>2, <1>4, <1>5, SubsetInduction
<1>7. D \in Q
  BY <1>6
<1>8. PICK k \in 0 .. n : Trimmed(T[D], r, n, k) /\ (T[D].bytes <= CapBytes \/ k + n = n)
  BY <1>2, <1>7 DEF Q
<1> DEFINE last == T[D]
<1>9. last.bytes <= CapBytes
  <2>1. ASSUME k = 0 PROVE last.bytes <= CapBytes
    <3>1. Trimmed(last, r, n, 0)
      BY <1>8, <2>1
    <3> HIDE DEF last
    <3>2. last.bytes = Sum(EntriesOf(FirstSet(r, 0)))
      BY <3>1, TrimmedSet
    <3>3. EntriesOf(FirstSet(r, 0)) = {}
      BY DEF EntriesOf, FirstSet
    <3>. QED BY <3>2, <3>3, SumOfNone DEF ZipAssumption
  <2>2. CASE k # 0
    <3>1. k + n # n
      BY <1>1, <2>2
    <3>. QED BY <1>8, <3>1
  <2>. QED BY <2>1, <2>2
<1>10. DOMAIN c.order = D
  BY <1>1 DEF Reversed
<1> DEFINE order == c.order
<1> HIDE DEF D, order
<1>11. FoldLeft(LAMBDA d, b : Evict(d), c, order) = EvictedTable(c, DOMAIN order)[DOMAIN order]
  BY LoopIsTable
<1>12. FoldLeft(LAMBDA d, b : Evict(d), c, order) = T[D]
  BY <1>10, <1>11 DEF T, order
<1>. QED BY <1>8, <1>9, <1>12 DEF order

-----------------------------------------------------------------------------
(***************************************************************************)
(* The steps on the cache of blocks are steps of the abstract cache.        *)
(***************************************************************************)

LEMMA BecomesIs ==
  ASSUME NEW p, EntriesIn(cache') = p, cache'.bytes = Lru!Bytes(p)
  PROVE  Lru!Becomes(p)
BY DEF Lru!Becomes, Kept, EntriesIn

\* A block's place among the entries.
LEMMA PlaceIs ==
  ASSUME NEW D, NEW r, NEW n, IsOrder(r, n, D)
  PROVE  /\ \A j \in 1 .. n : {i \in DOMAIN Entries(r, n) : Entries(r, n)[i].key = r[j]} = {j}
         /\ \A b : b \notin D => {i \in DOMAIN Entries(r, n) : Entries(r, n)[i].key = b} = {}
<1>1. DOMAIN Entries(r, n) = 1 .. n /\ \A i \in 1 .. n : Entries(r, n)[i].key = r[i]
  BY DEF Entries, EntryOf
<1>2. (\A i, k \in 1 .. n : r[i] = r[k] => i = k) /\ \A i \in 1 .. n : r[i] \in D
  BY DEF IsOrder
<1>. QED BY <1>1, <1>2

\* The block a read touched comes to the front.
LEMMA TouchedNewest ==
  ASSUME NEW c, NEW r, NEW n, Newest(c, r, n), NEW k \in 1 .. n
  PROVE  Newest(Touched(c, r[k]), Push(Drop(r, n, k), n - 1, r[k]), (n - 1) + 1)
<1> DEFINE D == DOMAIN c.blocks
           b == r[k]
           E == D \ {b}
           q == Drop(r, n, k)
           m == n - 1
           order == Append(RemoveFirst(c.order, b), b)
           new == [c EXCEPT !.order = order]
<1>1. /\ DOMAIN c = {"blocks", "order", "loading", "bytes"} /\ c.blocks \in TrueBlocks
      /\ IsOrder(r, n, D) /\ c.order = Reversed(r, n) /\ c.bytes = Sum(EntriesOf(D))
  BY DEF Newest
<1>2. b \in D /\ E \cup {b} = D /\ b \notin E
  BY <1>1 DEF IsOrder
<1>3. IsOrder(q, m, E)
  BY <1>1, DropOrder
<1>4. RemoveFirst(Reversed(r, n), b) = Reversed(q, m)
  BY <1>1, RemoveReversed
<1> HIDE DEF D, E, q, m, b
<1>5. Append(Reversed(q, m), b) = Reversed(Push(q, m, b), m + 1)
  BY <1>3, AppendReversed
<1>6. IsOrder(Push(q, m, b), m + 1, D)
  BY <1>2, <1>3, PushOrder
<1>7. order = Reversed(Push(q, m, b), m + 1)
  BY <1>1, <1>4, <1>5
<1>8. Touched(c, b) = new
  BY DEF Touched
<1> HIDE DEF order
<1>9. DOMAIN new = DOMAIN c /\ new.blocks = c.blocks /\ new.order = order /\ new.bytes = c.bytes
  BY <1>1
<1> HIDE DEF new
<1>10. Newest(new, Push(q, m, b), m + 1)
  BY <1>1, <1>6, <1>7, <1>9 DEF Newest, D
<1>. QED BY <1>8, <1>10 DEF b, q, m

LEMMA UseBlock ==
  ASSUME NEW r, NEW n, Newest(cache, r, n), NEW b \in DOMAIN cache.blocks, cache' = Touched(cache, b)
  PROVE  (\E q : \E m : Newest(cache', q, m)) /\ Lru!Use(b)
<1> DEFINE D == DOMAIN cache.blocks
           p == Entries(r, n)
<1>1. IsOrder(r, n, D) /\ n \in Nat
  BY DEF Newest, IsOrder
<1>2. PICK k \in 1 .. n : r[k] = b
  BY <1>1 DEF IsOrder
<1> DEFINE q == Push(Drop(r, n, k), n - 1, b)
           new == Push(Drop(p, n, k), n - 1, p[k])
<1>3. Newest(cache', q, (n - 1) + 1)
  BY <1>2, TouchedNewest
<1>4. Entries(q, (n - 1) + 1) = new
  <2>1. ASSUME NEW i \in 1 .. (n - 1) + 1 PROVE EntryOf(q[i]) = new[i]
    <3>1. /\ q[i] = IF i = 1 THEN b ELSE Drop(r, n, k)[i - 1]
          /\ new[i] = IF i = 1 THEN p[k] ELSE Drop(p, n, k)[i - 1]
      BY DEF Push
    <3>2. p[k] = EntryOf(b)
      BY <1>2 DEF Entries
    <3>3. ASSUME i # 1 PROVE Drop(p, n, k)[i - 1] = EntryOf(Drop(r, n, k)[i - 1])
      <4>1. i - 1 \in 1 .. n - 1 /\ i - 1 \in 1 .. n /\ (i - 1) + 1 \in 1 .. n
        BY <1>1, <3>3
      <4>2. \A j \in 1 .. n : p[j] = EntryOf(r[j])
        BY DEF Entries
      <4> HIDE DEF p
      <4>. QED BY <4>1, <4>2 DEF Drop
    <3> HIDE DEF p, q, new
    <3>. QED BY <3>1, <3>2, <3>3
  <2>2. new = [i \in 1 .. (n - 1) + 1 |-> new[i]]
    BY DEF Push
  <2> HIDE DEF q, new
  <2>. QED BY <2>1, <2>2 DEF Entries
<1>5. p \in Seq(EntriesOf(D)) /\ Len(p) = n /\ DOMAIN p = 1 .. n
  BY <1>1, EntriesAre
<1>6. {i \in DOMAIN p : p[i].key = b} = {k}
  BY <1>1, <1>2, PlaceIs
<1>7. Kept = p
  BY KeptAre DEF Kept, EntriesIn
<1> HIDE DEF p, q, D
<1>8. EntriesIn(cache') = new /\ cache'.bytes = Lru!Bytes(new)
  BY <1>3, <1>4, KeptAre
<1>9. new = <<p[k]>> \o (SubSeq(p, 1, k - 1) \o SubSeq(p, k + 1, Len(p)))
  <2> DEFINE rest == Drop(p, n, k)
  <2>1. SubSeq(p, 1, k - 1) \o SubSeq(p, k + 1, Len(p)) = rest
    BY <1>5, DropIs
  <2>2. rest \in [1 .. n - 1 -> EntriesOf(D)] /\ n - 1 \in Nat
    <3>1. \A i \in 1 .. n : p[i] \in EntriesOf(D)
      BY <1>5
    <3>2. n - 1 \in Nat /\ \A i \in 1 .. n - 1 : i \in 1 .. n /\ i + 1 \in 1 .. n
      BY <1>1
    <3>. QED BY <3>1, <3>2 DEF Drop
  <2> HIDE DEF rest
  <2>3. rest \in Seq(EntriesOf(D)) /\ Len(rest) = n - 1
    BY <2>2, SeqOfFunction
  <2>4. <<p[k]>> \o rest = Push(rest, n - 1, p[k])
    BY <2>3, PushIs
  <2>. QED BY <2>1, <2>4 DEF rest
<1> HIDE DEF new
<1>10. Lru!Becomes(new)
  BY <1>8, BecomesIs
<1>11. Lru!At(b) = {k}
  BY <1>6, <1>7 DEF Lru!At
<1>12. Lru!Use(b)
  BY <1>7, <1>9, <1>10, <1>11 DEF Lru!Use, Lru!RemoveAt
<1>. QED BY <1>3, <1>12

\* What is kept besides b, in the code's order and in the abstract cache.
LEMMA RestOf ==
  ASSUME NEW r, NEW n, Newest(cache, r, n), NEW b
  PROVE  \E q : \E m : /\ IsOrder(q, m, DOMAIN cache.blocks \ {b})
                       /\ RemoveFirst(cache.order, b) = Reversed(q, m)
                       /\ Lru!But(b) = Entries(q, m)
<1> DEFINE D == DOMAIN cache.blocks
           p == Entries(r, n)
<1>1. IsOrder(r, n, D) /\ n \in Nat /\ cache.order = Reversed(r, n)
  BY DEF Newest, IsOrder
<1>2. Kept = p /\ p \in Seq(EntriesOf(D)) /\ Len(p) = n /\ DOMAIN p = 1 .. n
  BY <1>1, KeptAre, EntriesAre DEF Kept, EntriesIn
<1> HIDE DEF D
<1>3. CASE b \notin D
  <2>1. RemoveFirst(Reversed(r, n), b) = Reversed(r, n) /\ D \ {b} = D
    BY <1>1, <1>3, RemoveReversed
  <2>2. {i \in DOMAIN p : p[i].key = b} = {}
    BY <1>1, <1>3, PlaceIs
  <2> HIDE DEF p
  <2>3. Lru!But(b) = p
    BY <1>2, <2>2 DEF Lru!But, Lru!At
  <2>. QED BY <1>1, <2>1, <2>3 DEF p, D
<1>4. CASE b \in D
  <2>1. PICK k \in 1 .. n : r[k] = b
    BY <1>1, <1>4 DEF IsOrder
  <2> DEFINE q == Drop(r, n, k)
  <2>2. IsOrder(q, n - 1, D \ {b})
    BY <1>1, <2>1, DropOrder
  <2>3. RemoveFirst(Reversed(r, n), b) = Reversed(q, n - 1)
    BY <1>1, <2>1, RemoveReversed
  <2>4. {i \in DOMAIN p : p[i].key = b} = {k}
    BY <1>1, <2>1, PlaceIs
  <2>5. Drop(p, n, k) = Entries(q, n - 1)
    <3>1. ASSUME NEW i \in 1 .. n - 1 PROVE (IF i < k THEN p[i] ELSE p[i + 1]) = EntryOf(q[i])
      <4>1. i \in 1 .. n /\ i + 1 \in 1 .. n
        BY <1>1
      <4>2. \A j \in 1 .. n : p[j] = EntryOf(r[j])
        BY DEF Entries
      <4> HIDE DEF p
      <4>. QED BY <4>1, <4>2 DEF Drop
    <3> HIDE DEF p, q
    <3>. QED BY <3>1 DEF Drop, Entries
  <2> HIDE DEF p, q
  <2>6. SubSeq(p, 1, k - 1) \o SubSeq(p, k + 1, Len(p)) = Drop(p, n, k)
    BY <1>2, DropIs
  <2>7. Lru!But(b) = Drop(p, n, k)
    BY <1>2, <2>4, <2>6 DEF Lru!But, Lru!At, Lru!RemoveAt
  <2>. QED BY <1>1, <2>2, <2>3, <2>5, <2>7 DEF D
<1>. QED BY <1>3, <1>4

\* The cache with block b put in front, before the loop.
PutIn(c, b) ==
  LET before == IF b \in DOMAIN c.blocks THEN Len(c.blocks[b]) ELSE 0
  IN [c EXCEPT !.blocks = Put(@, b, Content(b)), !.order = Append(RemoveFirst(@, b), b),
               !.bytes = @ - before + Len(Content(b))]

LEMMA PutNewest ==
  ASSUME ZipAssumption, NEW c, NEW r, NEW n, Newest(c, r, n), NEW b \in FileBlocks,
         NEW q, NEW m, IsOrder(q, m, DOMAIN c.blocks \ {b}), RemoveFirst(c.order, b) = Reversed(q, m)
  PROVE  Newest(PutIn(c, b), Push(q, m, b), m + 1)
<1> DEFINE D == DOMAIN c.blocks
           E == D \ {b}
           F == E \cup {b}
           size == Len(Content(b))
           before == IF b \in D THEN Len(c.blocks[b]) ELSE 0
           blocks == Put(c.blocks, b, Content(b))
           order == Append(RemoveFirst(c.order, b), b)
           bytes == c.bytes - before + size
           new == [c EXCEPT !.blocks = blocks, !.order = order, !.bytes = bytes]
<1>1. /\ DOMAIN c = {"blocks", "order", "loading", "bytes"} /\ c.blocks \in TrueBlocks
      /\ c.bytes = Sum(EntriesOf(D))
  BY DEF Newest
<1>2. D \in SUBSET FileBlocks /\ IsFiniteSet(D) /\ \A x \in D : c.blocks[x] = Content(x)
  BY NewestTyped
<1>3. E \in SUBSET FileBlocks /\ IsFiniteSet(E) /\ b \notin E
  BY <1>2, FS_RemoveElement
<1>4. F \in SUBSET FileBlocks /\ IsFiniteSet(F) /\ b \in F /\ F \ {b} = E
  BY <1>3, FS_AddElement
<1>5. blocks \in TrueBlocks /\ DOMAIN blocks = F
  <2>1. PICK B \in SUBSET {x \in Nat : x * BlockSize < FileSize} : c.blocks = [x \in B |-> Content(x)]
    BY <1>1 DEF TrueBlocks
  <2>2. blocks = [x \in B \cup {b} |-> Content(x)]
    BY <2>1 DEF Put
  <2>3. B \cup {b} \in SUBSET {x \in Nat : x * BlockSize < FileSize} /\ B \cup {b} = F
    BY <2>1 DEF FileBlocks
  <2>. QED BY <2>2, <2>3 DEF TrueBlocks
<1> HIDE DEF E, F
<1>6. size \in Nat /\ Sum(EntriesOf(F)) = size + Sum(EntriesOf(E)) /\ Sum(EntriesOf(E)) \in Nat
  BY <1>3, <1>4, BlocksWithout
<1>7. bytes = Sum(EntriesOf(F))
  <2>1. CASE b \in D
    <3>1. Sum(EntriesOf(D)) = size + Sum(EntriesOf(E)) /\ before = size
      BY <1>2, <2>1, BlocksWithout DEF E
    <3> HIDE DEF size, before
    <3>. QED BY <1>1, <1>6, <3>1
  <2>2. CASE b \notin D
    <3>1. D = E /\ before = 0
      BY <2>2 DEF E
    <3> HIDE DEF size, before, D
    <3>. QED BY <1>1, <1>6, <3>1
  <2>. QED BY <2>1, <2>2
<1>8. IsOrder(Push(q, m, b), m + 1, F)
  <2>1. IsOrder(q, m, E)
    BY DEF E
  <2>. QED BY <1>3, <2>1, PushOrder DEF F
<1>9. order = Reversed(Push(q, m, b), m + 1)
  <2>1. IsOrder(q, m, E)
    BY DEF E
  <2>2. Append(Reversed(q, m), b) = Reversed(Push(q, m, b), m + 1)
    BY <2>1, AppendReversed
  <2>. QED BY <2>2
<1>10. PutIn(c, b) = new
  BY DEF PutIn
<1> HIDE DEF blocks, order, bytes
<1>11. DOMAIN new = DOMAIN c /\ new.blocks = blocks /\ new.order = order /\ new.bytes = bytes
  BY <1>1
<1> HIDE DEF new
<1>12. Newest(new, Push(q, m, b), m + 1)
  BY <1>1, <1>5, <1>7, <1>8, <1>9, <1>11 DEF Newest
<1>. QED BY <1>10, <1>12

LEMMA InsertBlock ==
  ASSUME ZipAssumption, NEW r, NEW n, Newest(cache, r, n), NEW b \in FileBlocks,
         cache' = InsertLru(cache, b, Content(b))
  PROVE  (\E q : \E m : Newest(cache', q, m)) /\ (Lru!Insert(b, Content(b)) \/ Lru!Clear)
<1> DEFINE put == PutIn(cache, b)
<1>1. PICK q : \E m : /\ IsOrder(q, m, DOMAIN cache.blocks \ {b})
                      /\ RemoveFirst(cache.order, b) = Reversed(q, m)
                      /\ Lru!But(b) = Entries(q, m)
  BY RestOf
<1>2. PICK m : /\ IsOrder(q, m, DOMAIN cache.blocks \ {b})
               /\ RemoveFirst(cache.order, b) = Reversed(q, m)
               /\ Lru!But(b) = Entries(q, m)
  BY <1>1
<1> DEFINE s == Push(q, m, b)
           len == m + 1
           p == Entries(s, len)
           E == DOMAIN cache.blocks \ {b}
<1>3. m \in Nat
  BY <1>2 DEF IsOrder
<1>4. Newest(put, s, len)
  BY <1>2, PutNewest
<1>5. cache' = FoldLeft(LAMBDA d, x : Evict(d), put, put.order)
  BY DEF InsertLru, PutIn
<1>6. p = <<EntryOf(b)>> \o Lru!But(b)
  <2> DEFINE rest == Entries(q, m)
  <2>1. rest \in Seq(EntriesOf(E)) /\ Len(rest) = m /\ \A i \in 1 .. m : rest[i] = EntryOf(q[i])
    BY <1>2, EntriesAre
  <2>2. p = Push(rest, m, EntryOf(b))
    <3>1. ASSUME NEW i \in 1 .. m + 1 PROVE EntryOf(s[i]) = IF i = 1 THEN EntryOf(b) ELSE rest[i - 1]
      <4>1. i # 1 => i - 1 \in 1 .. m
        BY <1>3
      <4> HIDE DEF rest
      <4>. QED BY <2>1, <4>1 DEF Push
    <3>. QED BY <3>1 DEF Push, Entries
  <2> HIDE DEF rest, p, E
  <2>3. <<EntryOf(b)>> \o rest = Push(rest, m, EntryOf(b))
    BY <2>1, PushIs
  <2>. QED BY <1>2, <2>2, <2>3 DEF rest
<1>7. s[1] = b
  BY <1>3 DEF Push
<1> HIDE DEF put, s
<1>8. IsOrder(s, len, DOMAIN put.blocks) /\ DOMAIN put.blocks \in SUBSET FileBlocks
  BY <1>4, NewestTyped DEF Newest
<1>9. /\ len \in Nat /\ s = Firsts(s, len) /\ s \in [1 .. len -> FileBlocks]
      /\ p \in Seq(EntriesOf(DOMAIN put.blocks)) /\ Len(p) = len /\ \A i \in 1 .. len : p[i] = EntryOf(s[i])
  <2> DEFINE B == DOMAIN put.blocks
  <2> HIDE DEF B, len
  <2>1. IsOrder(s, len, B) /\ B \in SUBSET FileBlocks
    BY <1>8 DEF B
  <2>2. len \in Nat /\ s \in [1 .. len -> B]
    BY <2>1 DEF IsOrder
  <2>3. s = Firsts(s, len) /\ s \in [1 .. len -> FileBlocks]
    BY <2>1, <2>2 DEF Firsts
  <2>4. p \in Seq(EntriesOf(B)) /\ Len(p) = len /\ \A i \in 1 .. len : p[i] = EntryOf(s[i])
    BY <2>1, EntriesAre
  <2>. QED BY <2>2, <2>3, <2>4 DEF B
<1>10. PICK k \in 0 .. len : Trimmed(cache', s, len, k) /\ cache'.bytes <= CapBytes
  BY <1>4, <1>5, LoopTrimmed
<1> DEFINE left == Firsts(s, k)
<1>11. Newest(cache', left, k) /\ cache'.bytes = Sum(EntriesOf(FirstSet(s, k)))
  BY <1>10, TrimmedSet DEF Trimmed
<1>12. EntriesIn(cache') = Entries(left, k) /\ cache'.bytes = Lru!Bytes(Entries(left, k))
  <2> HIDE DEF left
  <2>. QED BY <1>11, KeptAre
<1> HIDE DEF p, len
<1>13. \A i \in 0 .. len : Firsts(p, i) = Entries(Firsts(s, i), i) /\ Range(Firsts(p, i)) = EntriesOf(FirstSet(s, i))
  <2>1. ASSUME NEW i \in 0 .. len
        PROVE Firsts(p, i) = Entries(Firsts(s, i), i) /\ Range(Firsts(p, i)) = EntriesOf(FirstSet(s, i))
    <3>1. \A j \in 1 .. i : j \in 1 .. len
      BY <1>9
    <3>2. \A j \in 1 .. i : p[j] = EntryOf(s[j])
      BY <1>9, <3>1
    <3>3. Firsts(p, i) = Entries(Firsts(s, i), i)
      BY <3>2 DEF Firsts, Entries
    <3>4. DOMAIN Firsts(p, i) = 1 .. i /\ \A j \in 1 .. i : Firsts(p, i)[j] = EntryOf(s[j])
      BY <3>2 DEF Firsts
    <3>5. Range(Firsts(p, i)) = EntriesOf(FirstSet(s, i))
      BY <3>4 DEF Range, EntriesOf, FirstSet
    <3>. QED BY <3>3, <3>5
  <2>. QED BY <2>1
<1>14. CASE k = 0
  <2>1. Entries(left, k) = <<>>
    BY <1>14 DEF Entries
  <2>2. Lru!Becomes(<<>>)
    BY <1>12, <2>1, BecomesIs
  <2>. QED BY <1>11, <2>2 DEF Lru!Clear
<1>15. CASE k # 0
  <2>1. k \in 1 .. Len(p) /\ (k # len => k + 1 \in 0 .. Len(p))
    BY <1>9, <1>15
  <2>2. SubSeq(p, 1, k) = Firsts(p, k) /\ (k # len => SubSeq(p, 1, k + 1) = Firsts(p, k + 1))
    BY <1>9, <2>1, PrefixIs
  <2>3. EntriesIn(cache') = SubSeq(p, 1, k) /\ cache'.bytes = Lru!Bytes(SubSeq(p, 1, k))
    BY <1>12, <1>13, <2>2
  <2>4. Lru!Becomes(SubSeq(p, 1, k))
    BY <2>3, BecomesIs
  <2>5. k = len \/ Lru!Bytes(SubSeq(p, 1, k + 1)) > CapBytes
    <3>1. ASSUME k # len PROVE Lru!Bytes(SubSeq(p, 1, k + 1)) > CapBytes
      <4>1. Sum(EntriesOf(FirstSet(s, k + 1))) > CapBytes
        BY <1>10, <3>1 DEF Trimmed
      <4>2. SubSeq(p, 1, k + 1) = Firsts(p, k + 1) /\ k + 1 \in 0 .. len
        BY <1>9, <2>1, <2>2, <3>1
      <4>3. Range(Firsts(p, k + 1)) = EntriesOf(FirstSet(s, k + 1))
        BY <1>13, <4>2
      <4>. QED BY <4>1, <4>2, <4>3, BytesAre
    <3>. QED BY <3>1
  <2>6. Len(Content(b)) <= CapBytes
    <3> DEFINE B == FirstSet(s, k)
    <3>1. b \in B /\ B \in SUBSET FileBlocks
      <4>1. 1 \in 1 .. k /\ \A i \in 1 .. k : i \in 1 .. len
        BY <1>9, <2>1
      <4>. QED BY <1>7, <1>9, <4>1 DEF FirstSet
    <3>2. IsFiniteSet(B)
      <4>1. B = DOMAIN cache'.blocks
        BY <1>10, TrimmedSet
      <4> HIDE DEF B, left
      <4>. QED BY <1>11, <4>1, NewestTyped
    <3>3. B \ {b} \in SUBSET FileBlocks /\ IsFiniteSet(B \ {b})
      BY <3>1, <3>2, FS_RemoveElement
    <3> HIDE DEF B
    <3>4. Sum(EntriesOf(B)) = Len(Content(b)) + Sum(EntriesOf(B \ {b})) /\ Len(Content(b)) \in Nat
      BY <3>1, <3>2, BlocksWithout
    <3>5. Sum(EntriesOf(B \ {b})) \in Nat
      BY <3>3, BlocksWithout
    <3>6. Sum(EntriesOf(B)) <= CapBytes /\ CapBytes \in Nat
      BY <1>10, <1>11 DEF B, ZipAssumption
    <3>. QED BY <3>4, <3>5, <3>6
  <2>7. p = <<[key |-> b, item |-> Content(b)]>> \o Lru!But(b)
    BY <1>6 DEF EntryOf
  <2>8. Lru!Bytes(SubSeq(p, 1, k)) <= CapBytes
    BY <1>10, <2>3
  <2>9. k = Len(p) \/ Lru!Bytes(SubSeq(p, 1, k + 1)) > CapBytes
    BY <1>9, <2>5
  <2>10. Lru!Insert(b, Content(b))
    BY <2>1, <2>4, <2>6, <2>7, <2>8, <2>9 DEF Lru!Insert
  <2>. QED BY <1>11, <2>10
<1>. QED BY <1>14, <1>15

LEMMA EmptyNewest ==
  ASSUME NEW c, DOMAIN c = {"blocks", "order", "loading", "bytes"}, c.blocks = EmptyMap, c.order = <<>>,
         c.bytes = 0
  PROVE  (\E r : \E n : Newest(c, r, n)) /\ EntriesIn(c) = <<>> /\ c.bytes = Lru!Bytes(<<>>)
<1> DEFINE r == [i \in 1 .. 0 |-> 0]
<1>1. DOMAIN c.blocks = {} /\ EntriesOf({}) = {} /\ Reversed(r, 0) = <<>> /\ Entries(r, 0) = <<>>
  BY DEF EmptyMap, EntriesOf, Reversed, Entries
<1>2. IsOrder(r, 0, {})
  BY DEF IsOrder
<1>3. c.blocks \in TrueBlocks
  <2>1. c.blocks = [b \in {} |-> Content(b)]
    BY DEF EmptyMap
  <2>. QED BY <2>1 DEF TrueBlocks
<1>4. Newest(c, r, 0)
  BY <1>1, <1>2, <1>3, SumOfNone DEF Newest
<1>5. EntriesIn(c) = Entries(r, 0) /\ c.bytes = Lru!Bytes(Entries(r, 0))
  BY <1>4, KeptAre
<1>. QED BY <1>1, <1>4, <1>5

\* Only the marks of loads change.
LEMMA SameNewest ==
  ASSUME NEW r, NEW n, Newest(cache, r, n), DOMAIN cache' = DOMAIN cache,
         cache'.blocks = cache.blocks, cache'.order = cache.order, cache'.bytes = cache.bytes
  PROVE  Newest(cache', r, n) /\ UNCHANGED Lru!vars
<1>1. Newest(cache', r, n)
  BY DEF Newest
<1>2. Kept' = Kept
  BY DEF Kept
<1>. QED BY <1>1, <1>2 DEF Lru!vars

\* The block a reader is at is a block of the file.
LEMMA WithinBlocks ==
  ASSUME ZipAssumption, NEW b \in Nat, b * BlockSize < FileSize PROVE b \in Blocks /\ b \in FileBlocks
<1>1. FileSize \in Nat /\ BlockSize \in Nat /\ BlockSize > 0
  BY DEF ZipAssumption
<1> DEFINE last == FileSize - 1
           t == last \div BlockSize
<1>2. last \in Nat /\ b * BlockSize \in Nat /\ b * BlockSize <= last
  BY <1>1
<1> HIDE DEF last
<1>3. t \in Nat /\ t * BlockSize \in Nat /\ last < t * BlockSize + BlockSize
  BY <1>2, BlockAround
<1> HIDE DEF t
<1>4. b <= t
  <2>1. ASSUME ~(b <= t) PROVE FALSE
    <3> DEFINE d == b - (t + 1)
    <3>1. d \in Nat /\ b = (t + 1) + d
      BY <1>3, <2>1
    <3> HIDE DEF d
    <3>2. b * BlockSize = t * BlockSize + BlockSize + d * BlockSize /\ d * BlockSize \in Nat
      BY <1>1, <1>3, <3>1
    <3> DEFINE x == b * BlockSize
               y == t * BlockSize
               z == d * BlockSize
    <3> HIDE DEF x, y, z
    <3>3. x = y + BlockSize + z /\ z \in Nat /\ y \in Nat /\ x <= last /\ last < y + BlockSize
      BY <1>2, <1>3, <3>2 DEF x, y, z
    <3>. QED BY <1>1, <1>2, <3>3
  <2>. QED BY <2>1
<1>. QED BY <1>3, <1>4 DEF Blocks, FileBlocks, last, t

BlocksInv == ZipInv /\ \E r : \E n : Newest(cache, r, n)

LEMMA LruLook ==
  ASSUME ZipAssumption, ZipInv, NEW r, NEW n, Newest(cache, r, n), NEW reading \in Readers, Look(reading)
  PROVE  (\E q : \E m : Newest(cache', q, m)) /\ [Lru!Next]_Lru!vars
<1> DEFINE block == BlockOf(reading)
<1>1. reading \in Readers /\ reader[reading].phase = "look"
  BY DEF Look
<1>2. block \in Blocks /\ block \in FileBlocks
  <2>1. block \in Nat /\ block * BlockSize < FileSize
    BY <1>1, WithinRead
  <2> HIDE DEF block
  <2>. QED BY <2>1, WithinBlocks
<1>3. CASE block \in DOMAIN cache.blocks /\ cache' = Touched(cache, block)
  <2> HIDE DEF block
  <2>1. (\E q : \E m : Newest(cache', q, m)) /\ Lru!Use(block)
    BY <1>3, UseBlock
  <2>. QED BY <1>2, <2>1 DEF Lru!Next
<1>4. CASE cache' = cache
  BY <1>4, SameNewest
<1>5. CASE cache' = [cache EXCEPT !.loading = @ \cup {block}]
  <2> HIDE DEF block
  <2>1. /\ DOMAIN cache' = DOMAIN cache /\ cache'.blocks = cache.blocks
        /\ cache'.order = cache.order /\ cache'.bytes = cache.bytes
    BY <1>5, RestSound
  <2>. QED BY <2>1, SameNewest
<1>. QED BY <1>3, <1>4, <1>5 DEF Look

LEMMA LruLoaded ==
  ASSUME ZipAssumption, ZipInv, NEW r, NEW n, Newest(cache, r, n), NEW reading \in Readers, Loaded(reading)
  PROVE  (\E q : \E m : Newest(cache', q, m)) /\ [Lru!Next]_Lru!vars
<1> DEFINE block == BlockOf(reading)
<1>1. reader[reading].phase = "load"
  BY DEF Loaded
<1>2. block \in Blocks /\ block \in FileBlocks
  <2>1. block \in Nat /\ block * BlockSize < FileSize
    BY <1>1, WithinRead
  <2> HIDE DEF block
  <2>. QED BY <2>1, WithinBlocks
<1>3. cache' = InsertLru(cache, block, Content(block)) \/ cache' = cache
  BY DEF Loaded, Content
<1> HIDE DEF block
<1>4. CASE cache' = InsertLru(cache, block, Content(block))
  <2>1. (\E q : \E m : Newest(cache', q, m)) /\ (Lru!Insert(block, Content(block)) \/ Lru!Clear)
    BY <1>2, <1>4, InsertBlock
  <2>2. Content(block) \in {OriginRange(b * BlockSize, BlockLength(b)) : b \in Blocks}
    BY <1>2 DEF Content
  <2>. QED BY <1>2, <2>1, <2>2 DEF Lru!Next
<1>5. CASE cache' = cache
  BY <1>5, SameNewest
<1>. QED BY <1>3, <1>4, <1>5

LEMMA LruClears ==
  ASSUME ZipInv, NEW r, NEW n, Newest(cache, r, n), NEW c \in Clearers, Clears(c)
  PROVE  (\E q : \E m : Newest(cache', q, m)) /\ [Lru!Next]_Lru!vars
<1>1. CASE cache' = [cache EXCEPT !.blocks = EmptyMap, !.order = <<>>, !.bytes = 0]
  <2>1. /\ DOMAIN cache' = {"blocks", "order", "loading", "bytes"} /\ cache'.blocks = EmptyMap
        /\ cache'.order = <<>> /\ cache'.bytes = 0
    BY <1>1, RestSound
  <2>2. (\E q : \E m : Newest(cache', q, m)) /\ EntriesIn(cache') = <<>> /\ cache'.bytes = Lru!Bytes(<<>>)
    BY <2>1, EmptyNewest
  <2>3. Lru!Becomes(<<>>)
    BY <2>2, BecomesIs
  <2>. QED BY <2>2, <2>3 DEF Lru!Next, Lru!Clear
<1>2. CASE cache' = cache
  BY <1>2, SameNewest
<1>3. cache' = cache \/ cache' = [cache EXCEPT !.blocks = EmptyMap, !.order = <<>>, !.bytes = 0]
  BY DEF Clears, BeginClear, Drained, DrainTimeout, ClearWhileGated, EndClear
<1>. QED BY <1>1, <1>2, <1>3

LEMMA LruStep ==
  ASSUME ZipAssumption, BlocksInv, [ZipNext]_zipVars PROVE BlocksInv' /\ [Lru!Next]_Lru!vars
<1>1. ZipInv /\ ZipInv'
  BY ZipStep DEF BlocksInv
<1>2. PICK r : \E n : Newest(cache, r, n)
  BY DEF BlocksInv
<1>3. PICK n : Newest(cache, r, n)
  BY <1>2
<1>4. SUFFICES (\E q : \E m : Newest(cache', q, m)) /\ [Lru!Next]_Lru!vars
  BY <1>1 DEF BlocksInv
<1>5. CASE cache' = cache
  BY <1>3, <1>5, SameNewest
<1>6. CASE \E reading \in Readers : Look(reading) \/ Loaded(reading)
  BY <1>1, <1>3, <1>6, LruLook, LruLoaded
<1>7. CASE \E reading \in Readers : Leave(reading)
  <2>1. PICK reading \in Readers : Leave(reading)
    BY <1>7
  <2>2. /\ DOMAIN cache' = DOMAIN cache /\ cache'.blocks = cache.blocks
        /\ cache'.order = cache.order /\ cache'.bytes = cache.bytes
    BY <1>1, <2>1, RestSound DEF Leave
  <2>. QED BY <1>3, <2>2, SameNewest
<1>8. CASE \E c \in Clearers : Clears(c)
  BY <1>1, <1>3, <1>8, LruClears
<1>9. \A reading \in Readers : LoadFails(reading) => cache' = cache
  BY DEF LoadFails
<1>10. \A reading \in Readers : (\E l \in Buffers : Read(reading, l)) \/ (\E t \in Targets : Seek(reading, t))
          => cache' = cache
  BY DEF Read, Seek
<1>11. UNCHANGED zipVars => cache' = cache
  BY DEF zipVars
<1>. QED BY <1>5, <1>6, <1>7, <1>8, <1>9, <1>10, <1>11 DEF ZipNext, ReaderMoves

LEMMA BlocksInit == ASSUME ZipAssumption, ZipInit PROVE BlocksInv /\ Lru!Init
<1>1. /\ DOMAIN cache = {"blocks", "order", "loading", "bytes"} /\ cache.blocks = EmptyMap
      /\ cache.order = <<>> /\ cache.bytes = 0
  BY DEF ZipInit
<1>2. (\E r : \E n : Newest(cache, r, n)) /\ EntriesIn(cache) = <<>>
  BY <1>1, EmptyNewest
<1>. QED BY <1>1, <1>2, ZipInitInv DEF BlocksInv, Lru!Init, Kept, EntriesIn

(* Whatever the size of the file, of its blocks and of the cache: the blocks  *)
(* of a remote zip that are kept, in their order and with their count of      *)
(* bytes, are those used last within that many bytes. Each read of a kept     *)
(* block moves it to the front, each load that is let in puts one in front    *)
(* and leaves behind it the newest that still fit (none, when the block is    *)
(* larger than the whole cache), a clear command takes all, and nothing else  *)
(* changes them, through loads that race and clears that run into them        *)
(* (CacheState: touch, insert_lru; clear).                                    *)
THEOREM BlocksAreByteLru == ASSUME ZipAssumption PROVE ZipSpec => BlocksAreLru
<1>1. ZipInit => BlocksInv /\ Lru!Init
  BY BlocksInit
<1>2. BlocksInv /\ [ZipNext]_zipVars => BlocksInv' /\ [Lru!Next]_Lru!vars
  BY LruStep
<1>. QED BY <1>1, <1>2, PTL DEF ZipSpec, BlocksAreLru, Lru!Spec
=============================================================================
