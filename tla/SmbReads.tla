------------------------------ MODULE SmbReads ------------------------------
(* Reading from an SMB account (src/src-tauri/src/source/smb/): the calls of *)
(* SmbMediaSource, the pool of connections by account (connection.rs), what  *)
(* the errors of the library become (real_transport.rs, transport.rs), the   *)
(* paths (path.rs), and the gate all remote reads pass (remote_gate.rs).     *)
(*                                                                           *)
(* A path is the sequence of its segments. The library may answer, fail, or  *)
(* not answer at all; a time limit may pass whenever one runs.               *)
EXTENDS Integers, SequencesExt, Maps

CONSTANTS
    Calls,       \* tasks that read, one call after another
    Shares,      \* what the account's share may be edited to; the first is set at first
    Initials,    \* initial paths of descriptors
    Paths,       \* paths in them
    Permits,     \* REMOTE_GATE_CONCURRENCY
    MaxOpened,   \* connections opened (a bound)
    MaxEdits,    \* account edits (a bound)
    MaxTroubles, \* connections that go bad (a bound)
    Nil          \* None

ASSUME SmbAssumption ==
    /\ Nil \notin Nat
    /\ Shares \in Seq(STRING) /\ Shares # <<>>
    /\ Initials \subseteq Seq(STRING) /\ Paths \subseteq Seq(STRING)

VARIABLES
    account,     \* [share, edits]
    slot,        \* the account's entry of slots: a connection or Nil
    transports,  \* connections opened: [share, health]
    calls,       \* call -> [op, phase, ...]
    troubles     \* connections gone bad so far

smbVars == <<account, slot, transports, calls, troubles>>

------------------------------------------------------------------------------
(* Errors: the library's, and the transport's they become (map_smb_error,    *)
(* map_status_code, is_connection_level).                                    *)
SmbErrors ==
    {"transport", "stopped", "invalid state", "negotiation", "timeout", "io", "io not found", "io denied",
     "not found", "missing permissions", "name not found", "path not found", "access denied",
     "logon failure", "name deleted", "session expired", "session deleted", "end of file", "other"}

MapSmbError(e) ==
    CASE e \in {"io not found", "not found", "name not found", "path not found"} -> "FileNotFound"
      [] e \in {"io denied", "missing permissions", "access denied", "logon failure"} -> "PermissionDenied"
      [] e = "io" -> "Io"
      [] e = "other" -> "Other"
      [] OTHER -> "Disconnected"

IsConnectionLevel(e) == e \in {"Disconnected", "Io", "Timeout"}

(* The errors a sound connection gives, of the file that is asked for.       *)
FileErrors == {e \in SmbErrors : ~IsConnectionLevel(MapSmbError(e))}

(* Paths: the share is the first segment of the initial path, and the        *)
(* connection is already in it.                                              *)
ShareRootMatches(initial, share) == initial = <<>> \/ initial[1] = share

(* Mutant of UncRel: the whole initial path is asked for within the share.   *)
UncRelWhole(initial, path) == initial \o path

UncRel(initial, path) == (IF initial = <<>> THEN <<>> ELSE Tail(initial)) \o path

------------------------------------------------------------------------------
(* Calls. "stat" and "read" pass the gate and run under a time limit; a read *)
(* of a whole file first asks for its size, outside both, as listings are.   *)
Idle == [op |-> "none", phase |-> "idle", initial |-> <<>>, path |-> <<>>, rel |-> <<>>, share |-> Nil,
         transport |-> Nil, failed |-> Nil, permit |-> FALSE]

Ops == {"list", "size", "read", "stat"}
Timed(op) == op \in {"read", "stat"}

At(c, phase) == calls[c].phase = phase
Goes(c, phase) == calls' = [calls EXCEPT ![c].phase = phase]
Ends(c) == calls' = [calls EXCEPT ![c] = Idle]
Pool == UNCHANGED <<slot, transports>>
World == UNCHANGED <<account, troubles>>

Holding == {c \in Calls : calls[c].permit}

Ask(c, op, initial, path) ==
    /\ At(c, "idle")
    /\ calls' = [calls EXCEPT ![c] = [Idle EXCEPT !.op = op, !.initial = initial, !.path = path,
                   !.phase = IF Timed(op) THEN "gate" ELSE "resolve"]]
    /\ Pool /\ World

Enter(c) ==
    /\ At(c, "gate") /\ Cardinality(Holding) < Permits
    /\ calls' = [calls EXCEPT ![c] = [@ EXCEPT !.permit = TRUE, !.phase = "resolve"]]
    /\ Pool /\ World

(* The gate is busy for GATE_ACQUIRE_TIMEOUT; for a read, or its bytes are.  *)
GateBusy(c) ==
    /\ At(c, "gate") \/ (At(c, "resolve") /\ calls[c].op = "read" /\ calls[c].failed = Nil)
    /\ Ends(c)
    /\ Pool /\ World

(* get_or_connect: the row is read each time; the slot may have run out of   *)
(* its TTL.                                                                  *)
Resolve(c) ==
    LET rel == UncRel(calls[c].initial, calls[c].path) IN
    /\ At(c, "resolve")
    /\ IF ~ShareRootMatches(calls[c].initial, account.share)
       THEN Ends(c) /\ UNCHANGED slot
       ELSE \E expired \in BOOLEAN :
              /\ slot' = IF expired THEN Nil ELSE slot
              /\ calls' = [calls EXCEPT ![c] = [@ EXCEPT !.share = account.share, !.rel = rel,
                             !.phase = IF slot' = Nil THEN "connect" ELSE "call", !.transport = slot']]
    /\ UNCHANGED transports /\ World

Connect(c) ==
    /\ At(c, "connect")
    /\ \/ Ends(c) /\ UNCHANGED transports
       \/ /\ Len(transports) < MaxOpened
          /\ transports' = Append(transports, [share |-> calls[c].share, health |-> "sound"])
          /\ calls' = [calls EXCEPT ![c] = [@ EXCEPT !.phase = "connected", !.transport = Len(transports) + 1]]
    /\ UNCHANGED slot /\ World

(* Who comes second takes the first's connection and drops his own.          *)
WriteBack(c) ==
    /\ At(c, "connected")
    /\ slot' = IF slot = Nil THEN calls[c].transport ELSE slot
    /\ calls' = [calls EXCEPT ![c] = [@ EXCEPT !.phase = "call", !.transport = slot']]
    /\ UNCHANGED transports /\ World

(* The operation on the connection. What a sound one cannot do ends the      *)
(* call, what a bad one fails at ends it the second time. A file that has    *)
(* shrunk looks like a bad connection.                                       *)
Done(c) ==
    /\ At(c, "call") /\ transports[calls[c].transport].health = "sound"
    /\ IF calls[c].op = "size"
       THEN calls' = [calls EXCEPT ![c] = [Idle EXCEPT !.op = "read", !.phase = "gate",
                         !.initial = calls[c].initial, !.path = calls[c].path]]
       ELSE Ends(c)
    /\ Pool /\ World

FileFails(c) ==
    /\ At(c, "call") /\ transports[calls[c].transport].health = "sound"
    /\ \E e \in FileErrors : Ends(c)
    /\ Pool /\ World

Breaks(c) ==
    /\ At(c, "call")
    /\ \/ transports[calls[c].transport].health = "broken"
       \/ transports[calls[c].transport].health = "sound" /\ calls[c].op = "read"
    /\ IF calls[c].failed = Nil
       THEN calls' = [calls EXCEPT ![c] = [@ EXCEPT !.phase = "evict", !.failed = calls[c].transport]]
       ELSE Ends(c)
    /\ Pool /\ World

(* Mutant of EvictSlot: the connection that failed stays for the second try.     *)
EvictSlotNot(c) ==
    /\ At(c, "evict")
    /\ Goes(c, "resolve")
    /\ Pool /\ World

EvictSlot(c) ==
    /\ At(c, "evict")
    /\ slot' = Nil
    /\ Goes(c, "resolve")
    /\ UNCHANGED transports /\ World

(* Mutant of TimesOut: only reads are limited in time.                       *)
ReadsTimeOut(c) ==
    /\ calls[c].op = "read" /\ calls[c].permit
    /\ calls[c].phase \in {"resolve", "connect", "connected", "call", "evict"}
    /\ Goes(c, "invalidate")
    /\ Pool /\ World

(* The read's 60 s are over, wherever it is: its future is dropped.          *)
TimesOut(c) ==
    /\ Timed(calls[c].op) /\ calls[c].permit
    /\ calls[c].phase \in {"resolve", "connect", "connected", "call", "evict"}
    /\ Goes(c, "invalidate")
    /\ Pool /\ World

Invalidate(c) ==
    /\ At(c, "invalidate")
    /\ slot' = Nil
    /\ Ends(c)
    /\ UNCHANGED transports /\ World

------------------------------------------------------------------------------
(* A connection breaks, or no longer answers; the account is edited, which   *)
(* the pool does not hear of.                                                *)
GoesBad(t) ==
    /\ troubles < MaxTroubles /\ transports[t].health = "sound"
    /\ \E health \in {"broken", "hung"} : transports' = [transports EXCEPT ![t].health = health]
    /\ troubles' = troubles + 1
    /\ UNCHANGED <<account, slot, calls>>

EditAccount(share) ==
    /\ account.edits < MaxEdits
    /\ account' = [share |-> share, edits |-> account.edits + 1]
    /\ UNCHANGED <<slot, transports, calls, troubles>>

SmbInit == /\ account = [share |-> Shares[1], edits |-> 0]
        /\ slot = Nil /\ transports = <<>> /\ troubles = 0
        /\ calls = [c \in Calls |-> Idle]

SmbMoves(c) == \/ Enter(c) \/ GateBusy(c) \/ Resolve(c) \/ Connect(c) \/ WriteBack(c) \/ Done(c)
            \/ FileFails(c) \/ Breaks(c) \/ EvictSlot(c) \/ TimesOut(c) \/ Invalidate(c)

SmbNext == \/ \E c \in Calls, op \in Ops, initial \in Initials, path \in Paths : Ask(c, op, initial, path)
        \/ \E c \in Calls : SmbMoves(c)
        \/ \E t \in DOMAIN transports : GoesBad(t)
        \/ \E i \in DOMAIN Shares : EditAccount(Shares[i])

(* The runtime runs tasks and timers; the library owes nobody an answer, but *)
(* it gives one on a connection that is sound or broken.                     *)
SmbSpec == SmbInit /\ [][SmbNext]_smbVars /\ \A c \in Calls : WF_smbVars(SmbMoves(c))

------------------------------------------------------------------------------
(* A permit of the gate comes back, whatever the connection does: no call    *)
(* keeps one that waits without limit (read_file, stat, remote_gate.rs).     *)
HoldsPermit(c) == calls[c].permit
PermitsReturn == \A c \in Calls : HoldsPermit(c) ~> ~HoldsPermit(c)

(* The second try is not made on the connection the first one failed on      *)
(* (evict, get_or_connect), whoever else fills or empties the slot meanwhile. *)
RetryOnFresh ==
    \A c \in Calls : calls[c].phase = "call" /\ calls[c].failed # Nil => calls[c].transport # calls[c].failed

(* What is opened in the share is the file the descriptor names, with an     *)
(* initial path or at the root (validated_rel, unc_rel, share_root_matches).  *)
OpensWhatIsNamed ==
    \A c \in Calls : calls[c].phase = "call" =>
      LET named == (IF calls[c].initial = <<>> THEN <<calls[c].share>> ELSE calls[c].initial) \o calls[c].path
      IN <<calls[c].share>> \o calls[c].rel = named

(* Both: a call of the source reaches the file it is for.                    *)
CallsReachTheirFile == RetryOnFresh /\ OpensWhatIsNamed

------------------------------------------------------------------------------
(* What get_or_connect says of two connections of an account: they behave    *)
(* alike. A call uses one to the share its account row names.                *)
ConnectionsAlike ==
    \A c \in Calls : calls[c].phase = "call" => transports[calls[c].transport].share = calls[c].share
=============================================================================
