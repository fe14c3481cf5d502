---------------------------- MODULE ArchiveFormats ----------------------------
(***************************************************************************)
(* The three archive backends: zip through a reader, rar through the       *)
(* callback of UnRAR, 7z through a decoder that runs over whole folders.   *)
(* One caller asks about one container with one password: what is in it    *)
(* (probe), what can be shown (catalog), then for each entry its size      *)
(* (stat) and its bytes (read).  A call opens the container, walks its     *)
(* headers and, for a read, decodes; every step may end it.                *)
(*                                                                         *)
(* Sizes are in units of a chunk.  What the libraries find in a container  *)
(* is in the record of the container; that they keep, of an aborted call,  *)
(* no more than a code of their own is the point of `fault`.               *)
(***************************************************************************)
EXTENDS Integers, Sequences, FiniteSets, SequencesExt, FiniteSetsExt

CONSTANTS Containers, \* the containers a caller may ask about
          Passwords, None,
          MaxEntries, MaxPath, MaxSize, MaxDict, \* ArchiveLimits
          Workspace,  \* its workspace budget
          BufferCap   \* capacity of UnRAR's password buffer, with its NUL

\* Assumed of the limits, and of the containers, by the modules that give them values.
LimitsAssumption ==
  /\ {MaxEntries, MaxPath, MaxSize, MaxDict} \subseteq Nat /\ BufferCap \in Nat \ {0}
  /\ Workspace = MaxSize \* production: both are 512 MiB
  /\ MaxDict <= Workspace

\* An entry: shown, in the view of the prefix and an image, or a file of the
\* view, or outside; path, the length of its name; folder, the 7z folder its
\* stream is in, 0 if it has none; split over volumes; state, what its data is.
EntryType == [kind : {"image", "file", "outside"}, path : Nat, declared : Nat, actual : Nat, folder : Nat,
              encrypted : BOOLEAN, split : BOOLEAN, state : {"sound", "damaged", "codec"}]
\* A container: named as a part of a set; volume, flagged as one (a rar; tail,
\* the end records of a zip); header, encrypted down to its list; old, a rar without a check of the password; odd,
\* a rar that makes UnRAR ask for what it should not.
ContainerType == [format : {"zip", "rar", "7z"}, input : {"path", "reader"}, named : BOOLEAN, volume : BOOLEAN,
                  broken : BOOLEAN, header : BOOLEAN, old : BOOLEAN, odd : BOOLEAN,
                  secret : Passwords \cup {None}, entries : Seq(EntryType), dicts : Seq(Nat),
                  tail : [found : BOOLEAN, sentinel : BOOLEAN, located : BOOLEAN, inside : BOOLEAN,
                          locator : [disk : Nat, disks : Nat],
                          record : [disk : Nat, cdDisk : Nat, here : Nat, total : Nat],
                          record64 : [disk : Nat, cdDisk : Nat, here : Nat, total : Nat]]]
ContainersAssumption == Containers \subseteq ContainerType

VARIABLES box,      \* the container
          password, \* the password of the caller
          job,      \* the call in progress
          unrar,    \* what UnRAR knows: is it running, the key it was given, how often it asked
          handles,  \* archives of UnRAR that are open
          fault,    \* the typed error raised beneath a library, first of the call
          answers,  \* the answers so far, by question
          report,   \* the result of probe
          listed    \* the result of catalog

vars == <<box, password, job, unrar, handles, fault, answers, report, listed>>

N == Len(box.entries)
Entry(i) == box.entries[i]
Questions(b) == {<<"probe", 0>>, <<"catalog", 0>>} \cup ({"stat", "read"} \X DOMAIN b.entries)
Errors == {"MultiVolumeUnsupported", "PasswordRequired", "WrongPassword", "ResourceLimitExceeded",
           "CorruptArchive", "BudgetRetryRequired", "RemoteRangeUnavailable", "Network", "UnsupportedCodec", "Io"}

NoJob == [op |-> "none", entry |-> 0, stage |-> "idle", at |-> 0, written |-> 0, reserved |-> 0]
NoUnrar == [inside |-> FALSE, key |-> None, asks |-> 0, aborted |-> FALSE, code |-> "none"]
NoReport == [count |-> 0, images |-> 0, lockedImage |-> 0, lockedFile |-> 0]

Asked(q) == answers[q] # "unasked"
Right(p) == p = box.secret

(***************************************************************************)
(* A call ends: what it opened is closed, what it wrote goes to the caller *)
(* or away.                                                                *)
(***************************************************************************)
\* What a call that ends leaves behind it.
Left == /\ job' = NoJob /\ unrar' = NoUnrar /\ UNCHANGED <<box, password>>

\* Mutant of Closed: an archive flagged as a volume is refused, and left open.
ClosedButVolumes == handles' = IF box.volume THEN handles ELSE 0
\* open_rar closes the handle it got on each of its error paths, the guard on
\* every other.
Closed == handles' = 0

Answer(r) ==
  /\ answers' = [answers EXCEPT ![<<job.op, job.entry>>] = r]
  /\ Left /\ Closed

(***************************************************************************)
(* A caller asks: first what there is, then about the entries in turn.     *)
(***************************************************************************)
Before(q) ==
  CASE q[1] = "probe"   -> {}
    [] q[1] = "catalog" -> {<<"probe", 0>>}
    [] q[1] = "stat"    -> {<<"catalog", 0>>} \cup {<<"read", i>> : i \in 1..(q[2] - 1)}
    [] q[1] = "read"    -> {<<"stat", q[2]>>}

Ask(q) ==
  /\ job.stage = "idle" /\ ~Asked(q) /\ \A p \in Before(q) : Asked(p)
  /\ job' = [NoJob EXCEPT !.op = q[1], !.entry = q[2], !.stage = "open"]
  /\ fault' = "none"
  /\ UNCHANGED <<box, password, unrar, handles, answers, report, listed>>

(***************************************************************************)
(* Opening.  A set of volumes is refused by its name, by its flags (for a  *)
(* zip by the disks its end records name) and, in a rar, entry by entry.   *)
(***************************************************************************)
\* The disks of a zip's end records.  Nobody asks for them if there is no end
\* record whose comment ends with the file; a field that is all ones refers to
\* the ZIP64 record, which is believed if it is where the locator says.
Split(r) == r.disk # 0 \/ r.cdDisk # 0 \/ r.here # r.total
MultiDisk(tail) ==
  /\ tail.found
  /\ IF ~tail.sentinel THEN Split(tail.record)
     ELSE /\ tail.located
          /\ \/ tail.locator.disk # 0 \/ tail.locator.disks > 1
             \/ tail.inside /\ Split(tail.record64)

OpenRefused ==
  IF box.format # "zip" /\ box.input = "reader" THEN "RemoteRangeUnavailable"
  ELSE IF (box.format # "zip" /\ box.named) \/ (box.format = "zip" /\ MultiDisk(box.tail)) THEN "MultiVolumeUnsupported"
  ELSE "ok"

\* The facts of the folders of a 7z are read when it has been opened: their
\* largest dictionary is bounded before anything is decoded.
DictOf(i) == IF box.format = "7z" /\ Entry(i).folder # 0 THEN box.dicts[Entry(i).folder] ELSE 0
FoldersRefused == \E f \in DOMAIN box.dicts : box.dicts[f] > MaxDict

Walk(k) ==
  /\ job' = [k EXCEPT !.stage = "walk",
                      !.at = IF box.format = "zip" /\ job.op \in {"stat", "read"} THEN job.entry ELSE 1]
  /\ IF job.op = "probe" THEN report' = NoReport ELSE UNCHANGED report
  /\ IF job.op = "catalog" THEN listed' = {} ELSE UNCHANGED listed

\* open_archive and open_sevenz_checked; the latter's precheck asks for the
\* password of an encrypted header.
OpenFile ==
  /\ job.stage = "open" /\ (box.format # "rar" \/ OpenRefused # "ok")
  /\ LET r == IF OpenRefused # "ok" THEN OpenRefused
              ELSE IF box.broken THEN "CorruptArchive"
              ELSE IF box.format = "7z" /\ box.header /\ password = None THEN "PasswordRequired"
              ELSE IF box.format = "7z" /\ box.header /\ ~Right(password) THEN "WrongPassword"
              ELSE IF box.format = "7z" /\ FoldersRefused THEN "ResourceLimitExceeded"
              ELSE "ok"
     IN  IF r = "ok"
         THEN Walk(job) /\ UNCHANGED <<box, password, unrar, handles, fault, answers>>
         ELSE Answer(r) /\ UNCHANGED <<fault, report, listed>>

\* The callback and its state are given to UnRAR before it opens anything.
EnterOpen ==
  /\ job.stage = "open" /\ box.format = "rar" /\ OpenRefused = "ok" /\ ~unrar.inside /\ unrar.code = "none"
  /\ unrar' = [unrar EXCEPT !.inside = TRUE]
  /\ UNCHANGED <<box, password, job, handles, fault, answers, report, listed>>

(***************************************************************************)
(* UnRAR and its callback.  It asks for the password in wide characters,   *)
(* perhaps again in bytes when it got none; it delivers data while it      *)
(* tests an entry.  The callback writes the first thing that is wrong      *)
(* where the backend finds it, and aborts.                                 *)
(***************************************************************************)
Kept(e) == IF fault = "none" THEN e ELSE fault
Abort(e) == fault' = Kept(e) /\ unrar' = [unrar EXCEPT !.aborted = TRUE]

\* The password as it fits into the buffer, which ends with a NUL.
Handed(p) == SubSeq(p, 1, Min({Len(p), BufferCap - 1}))

Decoding == job.stage = "decode"
NeedsKey == IF Decoding THEN Entry(job.entry).encrypted ELSE box.header

NeedPassword ==
  /\ unrar.inside /\ NeedsKey /\ unrar.key = None /\ unrar.asks < 2
  /\ IF password = None
     THEN /\ fault' = Kept("PasswordRequired")
          /\ unrar' = [unrar EXCEPT !.asks = @ + 1, !.aborted = TRUE]
     ELSE /\ unrar' = [unrar EXCEPT !.asks = @ + 1, !.key = Handed(password)]
          /\ UNCHANGED fault
  /\ UNCHANGED <<box, password, job, handles, answers, report, listed>>

\* A call for the next volume; a message nobody knows.
OtherMessage ==
  /\ unrar.inside /\ ~unrar.aborted /\ box.odd
  /\ \E e \in {"MultiVolumeUnsupported", "Io"} : Abort(e)
  /\ UNCHANGED <<box, password, job, handles, answers, report, listed>>

\* What UnRAR says when it returns.
KeyFits == ~NeedsKey \/ (unrar.key # None /\ Right(unrar.key))
Codes ==
  IF unrar.aborted THEN {"MISSING_PASSWORD", "UNKNOWN"}
  ELSE IF NeedsKey /\ unrar.key = None THEN {}
  ELSE IF ~Decoding THEN IF box.broken THEN {"BAD_ARCHIVE"} ELSE IF KeyFits THEN {"SUCCESS"} ELSE {"BAD_PASSWORD"}
  ELSE IF ~KeyFits THEN IF box.old THEN {"BAD_DATA"} ELSE {"BAD_PASSWORD"}
  ELSE IF job.written < Entry(job.entry).actual THEN {}
  ELSE CASE Entry(job.entry).state = "sound"   -> {"SUCCESS"}
         [] Entry(job.entry).state = "damaged" -> {"BAD_DATA"}
         [] Entry(job.entry).state = "codec"   -> {"UNKNOWN_FORMAT"}

\* An archive that cannot be opened may come with a handle, or without.
UnrarReturns ==
  /\ unrar.inside
  /\ \E code \in Codes : unrar' = [unrar EXCEPT !.inside = FALSE, !.code = code]
  /\ IF Decoding THEN UNCHANGED handles
     ELSE handles' \in IF unrar'.code = "SUCCESS" THEN {1} ELSE {0, 1}
  /\ UNCHANGED <<box, password, job, fault, answers, report, listed>>

MapRarCode ==
  [MISSING_PASSWORD |-> "PasswordRequired", BAD_PASSWORD |-> "WrongPassword", BAD_DATA |-> "CorruptArchive",
   BAD_ARCHIVE |-> "CorruptArchive", UNKNOWN_FORMAT |-> "CorruptArchive", UNKNOWN |-> "CorruptArchive"]

\* Mutant of RarFailure: the code is mapped before the typed error is looked for.
RarFailureCodeFirst == IF unrar.code # "SUCCESS" THEN MapRarCode[unrar.code] ELSE Kept("none")
\* The typed error comes first.  An old rar can tell a wrong password only by
\* data that does not add up.
RarFailure ==
  IF fault # "none" THEN fault
  ELSE IF unrar.code = "SUCCESS" THEN "none"
  ELSE IF unrar.code = "BAD_DATA" /\ Decoding /\ Entry(job.entry).encrypted /\ password # None
       THEN "WrongPassword"
  ELSE MapRarCode[unrar.code]

OpenedRar ==
  /\ job.stage = "open" /\ unrar.code # "none"
  /\ LET r == IF RarFailure # "none" THEN RarFailure
              ELSE IF box.volume THEN "MultiVolumeUnsupported" ELSE "ok"
     IN  IF r = "ok"
         THEN /\ Walk(job) /\ unrar' = [unrar EXCEPT !.code = "none"]
              /\ UNCHANGED <<box, password, handles, fault, answers>>
         ELSE Answer(r) /\ UNCHANGED <<fault, report, listed>>

(***************************************************************************)
(* Walking the headers.  What a call checks of the entries it passes: all  *)
(* three limits for every entry, shown or not, before it is filtered, when *)
(* it makes a list; the number and the length of the name on the way to    *)
(* its entry.  A zip is not walked for one entry.                          *)
(***************************************************************************)
Passed ==
  IF job.op \in {"probe", "catalog"} \/ (box.format = "7z" /\ job.op = "read") THEN {"count", "path", "size"}
  ELSE IF box.format = "zip" THEN {} ELSE {"count", "path"}

Exceeds(i) == {what \in {"count", "path", "size"} :
                 \/ what = "count" /\ i > MaxEntries
                 \/ what = "path" /\ Entry(i).path > MaxPath
                 \/ what = "size" /\ Entry(i).declared > MaxSize}

\* stat and read check the size of the entry they are for in any case.
HeaderRefused(i) ==
  IF box.format = "rar" /\ Entry(i).split THEN "MultiVolumeUnsupported"
  ELSE IF Exceeds(i) \cap (Passed \cup IF i = job.entry THEN {"size"} ELSE {}) # {} THEN "ResourceLimitExceeded"
  ELSE "ok"

\* A 7z entry is encrypted if its folder is, one without a stream never.
First(old, i, found) == IF old = 0 /\ found THEN i ELSE old
Counted(i) ==
  LET e == Entry(i) IN
  [count       |-> report.count + 1,
   images      |-> report.images + (IF e.kind = "image" THEN 1 ELSE 0),
   lockedImage |-> First(report.lockedImage, i, e.kind = "image" /\ e.encrypted),
   lockedFile  |-> First(report.lockedFile, i, e.kind = "file" /\ e.encrypted)]

Walking == job.stage = "walk" /\ fault = "none"

HeaderStops ==
  /\ Walking /\ job.at <= N /\ HeaderRefused(job.at) # "ok"
  /\ Answer(HeaderRefused(job.at))
  /\ UNCHANGED <<fault, report, listed>>

Passes(op) == Walking /\ job.op = op /\ job.at <= N /\ HeaderRefused(job.at) = "ok"
Ends(op) == Walking /\ job.op = op /\ job.at > N

ProbePasses ==
  /\ Passes("probe")
  /\ report' = Counted(job.at) /\ job' = [job EXCEPT !.at = @ + 1]
  /\ UNCHANGED <<box, password, unrar, handles, fault, answers, listed>>

ProbeEnds == Ends("probe") /\ Answer("ok") /\ UNCHANGED <<fault, report, listed>>

\* Only the images of the view are listed.
Shown(i) == Entry(i).kind = "image"

CatalogPasses ==
  /\ Passes("catalog")
  /\ listed' = listed \cup {i \in {job.at} : Shown(i)} /\ job' = [job EXCEPT !.at = @ + 1]
  /\ UNCHANGED <<box, password, unrar, handles, fault, answers, report>>

CatalogEnds == Ends("catalog") /\ Answer("ok") /\ UNCHANGED <<fault, report, listed>>

\* Another entry than the one a stat or a read is for.
Skipped ==
  /\ Passes("stat") \/ Passes("read")
  /\ job.at # job.entry /\ job' = [job EXCEPT !.at = @ + 1]
  /\ UNCHANGED <<box, password, unrar, handles, fault, answers, report, listed>>

Found == Walking /\ job.at = job.entry /\ HeaderRefused(job.at) = "ok"

StatFound ==
  /\ Found /\ job.op = "stat"
  /\ Answer("ok")
  /\ UNCHANGED <<fault, report, listed>>

(***************************************************************************)
(* Decoding.  The writer of all three takes what the workspace has left    *)
(* beside the dictionary; past what was claimed, it grows if permits are   *)
(* to be had.                                                              *)
(***************************************************************************)
OutputCap == Workspace - DictOf(job.entry)

Start == job' = [job EXCEPT !.stage = "decode", !.reserved = Entry(job.entry).declared,
                            !.at = IF box.format = "7z" THEN 1 ELSE @]

ReadFound ==
  /\ Found /\ job.op = "read"
  /\ LET e == Entry(job.entry)
         r == IF box.format = "zip" /\ e.encrypted /\ password = None THEN "PasswordRequired"
              ELSE IF box.format = "zip" /\ e.state = "codec" THEN "UnsupportedCodec"
              ELSE IF box.format # "rar" /\ e.declared > OutputCap THEN "ResourceLimitExceeded"
              ELSE "ok"
     IN  \/ r # "ok" /\ Answer(r)
         \/ /\ r = "ok" /\ box.format = "zip" /\ e.encrypted /\ ~Right(password)
            /\ Answer("WrongPassword")
         \* one check byte, or two, let some wrong passwords through
         \/ /\ r = "ok" /\ Start
            /\ unrar' = [unrar EXCEPT !.inside = box.format = "rar"]
            /\ UNCHANGED <<box, password, handles, answers>>
  /\ UNCHANGED <<fault, report, listed>>

WriteResults ==
  IF job.written + 1 > OutputCap THEN {"ResourceLimitExceeded"}
  ELSE IF job.written < job.reserved THEN {"ok"} ELSE {"ok", "BudgetRetryRequired"}

Wrote == job' = [job EXCEPT !.written = @ + 1, !.reserved = Max({@, job.written + 1})]

\* UCM_PROCESSDATA: a chunk that ends past the limit is not kept.
ProcessData ==
  /\ Decoding /\ unrar.inside /\ ~unrar.aborted
  /\ NeedsKey => unrar.key # None /\ (Right(unrar.key) \/ box.old)
  /\ job.written < Entry(job.entry).actual
  /\ \E r \in IF job.written + 1 > Min({MaxSize, OutputCap}) THEN {"ResourceLimitExceeded"} ELSE WriteResults :
       IF r = "ok" THEN Wrote /\ UNCHANGED <<unrar, fault>> ELSE Abort(r) /\ UNCHANGED job
  /\ UNCHANGED <<box, password, handles, answers, report, listed>>

TestedRar ==
  /\ Decoding /\ unrar.code # "none"
  /\ Answer(IF RarFailure = "none" THEN "ok" ELSE RarFailure)
  /\ UNCHANGED <<fault, report, listed>>

\* A zip is decoded alone.  Of a 7z, the decoder goes through all there is
\* before the entry: the entries of each folder, then those without a stream.
Order ==
  IF box.format = "7z"
  THEN SelectSeq([i \in 1..N |-> i], LAMBDA i : Entry(i).folder # 0)
         \o SelectSeq([i \in 1..N |-> i], LAMBDA i : Entry(i).folder = 0)
  ELSE [i \in 1..N |-> i]
Current == Order[job.at]
Here == Decoding /\ box.format # "rar" /\ fault = "none" /\ Current = job.entry
Passing == Decoding /\ box.format = "7z" /\ Current # job.entry

\* With a key that does not fit, the data is no good; a decoder that has none
\* does not start.
Garbled(i) == Entry(i).state # "sound" \/ (Entry(i).encrypted /\ ~Right(password))
\* Mutant of Classified: an error of the data is an error of the data.
ClassifiedCorrupt == "CorruptArchive"
\* classify_entry_read_error: what is wrong with any entry on the way is taken
\* for the fault of the password, if there is one and the entry needs it.
Classified == IF Entry(job.entry).encrypted /\ password # None THEN "WrongPassword" ELSE "CorruptArchive"

NoDecoder ==
  IF box.format # "7z" THEN "none"
  ELSE IF Entry(Current).encrypted /\ password = None THEN "PasswordRequired"
  ELSE IF Entry(Current).state = "codec" THEN "UnsupportedCodec" ELSE "none"

SevenZDecoderMissing ==
  /\ Here \/ Passing
  /\ NoDecoder # "none" /\ Answer(NoDecoder)
  /\ UNCHANGED <<fault, report, listed>>

SevenZPasses ==
  /\ Passing /\ NoDecoder = "none"
  /\ IF Garbled(Current)
     THEN Answer(Classified)
     ELSE job' = [job EXCEPT !.at = @ + 1] /\ UNCHANGED <<box, password, unrar, handles, answers>>
  /\ UNCHANGED <<fault, report, listed>>

\* The network fails a zip that is read through ranges.
RangeFails ==
  /\ box.format = "zip" /\ box.input = "reader" /\ (Walking \/ Here)
  /\ fault' = "Network"
  /\ UNCHANGED <<box, password, job, unrar, handles, answers, report, listed>>

Chunk ==
  /\ Here /\ job.written < Entry(job.entry).actual
  /\ NoDecoder = "none"
  /\ \E r \in WriteResults :
       IF r = "ok" THEN Wrote /\ UNCHANGED fault ELSE fault' = r /\ UNCHANGED job
  /\ UNCHANGED <<box, password, unrar, handles, answers, report, listed>>

\* The failure the writer or the reader of ranges was stopped by, told when the
\* library has returned.
FaultTold ==
  /\ box.format # "rar" /\ job.stage \in {"walk", "decode"} /\ fault # "none"
  /\ Answer(fault)
  /\ UNCHANGED <<fault, report, listed>>

EntryEnds ==
  /\ Here /\ job.written = Entry(job.entry).actual
  /\ NoDecoder = "none"
  /\ Answer(IF ~Garbled(job.entry) THEN "ok" ELSE IF box.format = "7z" THEN Classified ELSE "CorruptArchive")
  /\ UNCHANGED <<fault, report, listed>>

(***************************************************************************)
(* The specification.                                                      *)
(***************************************************************************)
Init ==
  /\ box \in Containers /\ password \in Passwords \cup {None}
  /\ job = NoJob /\ unrar = NoUnrar /\ handles = 0 /\ fault = "none"
  /\ answers = [q \in Questions(box) |-> "unasked"]
  /\ report = NoReport /\ listed = {}

UnRAR == NeedPassword \/ OtherMessage \/ ProcessData \/ UnrarReturns

Next ==
  \/ \E q \in Questions(box) : Ask(q)
  \/ OpenFile \/ EnterOpen \/ OpenedRar
  \/ HeaderStops \/ ProbePasses \/ ProbeEnds \/ CatalogPasses \/ CatalogEnds \/ Skipped \/ StatFound \/ ReadFound
  \/ UnRAR \/ TestedRar
  \/ SevenZDecoderMissing \/ SevenZPasses \/ Chunk \/ RangeFails \/ FaultTold \/ EntryEnds

Spec == Init /\ [][Next]_vars

(***************************************************************************)
(* Properties.                                                             *)
(***************************************************************************)
\* Types, with what they stand on: an archive of UnRAR is open only during a
\* call (open_rar and the guard close it whatever ends the call), a key is only
\* ever the caller's password as it fits the buffer, and what is written fits
\* beside the dictionary.
FormatsTypeOK ==
  /\ box \in Containers /\ password \in Passwords \cup {None}
  /\ job \in [op : {"none", "probe", "catalog", "stat", "read"}, entry : 0..N,
              stage : {"idle", "open", "walk", "decode"}, at : 0..(N + 1), written : Nat, reserved : Nat]
  /\ unrar \in [inside : BOOLEAN, key : {None} \cup {Handed(p) : p \in Passwords}, asks : 0..2, aborted : BOOLEAN,
                code : {"none", "SUCCESS"} \cup DOMAIN MapRarCode]
  /\ unrar.key # None => unrar.key = Handed(password)
  /\ handles \in {0, 1} /\ (job.stage = "idle" => handles = 0)
  /\ fault \in Errors \cup {"none"}
  /\ answers \in [Questions(box) -> Errors \cup {"unasked", "ok"}]
  /\ report \in [count : 0..N, images : 0..N, lockedImage : 0..N, lockedFile : 0..N]
  /\ listed \subseteq 1..N
  /\ Decoding => job.written + DictOf(job.entry) <= Workspace

\* Neither the network nor UnRAR's whims can fail a call about this container.
Steady == box.input = "path" /\ ~box.odd

\* The four walks agree, though each has checks of its own: what is probed is
\* what is listed, an encrypted image is announced exactly if one is listed, no
\* entry is listed whose size is then refused, and none is read whole whose
\* size was refused or that is larger than what was reserved for it.
ViewsAgree ==
  LET listedWell == answers[<<"catalog", 0>>] = "ok" IN
  /\ Steady /\ Asked(<<"catalog", 0>>) => answers[<<"catalog", 0>>] = answers[<<"probe", 0>>]
  /\ listedWell /\ answers[<<"probe", 0>>] = "ok" =>
       /\ report.count = N /\ report.images = Cardinality(listed)
       /\ (report.lockedImage # 0) <=> \E i \in listed : Entry(i).encrypted
  /\ listedWell /\ Steady => \A i \in listed : answers[<<"stat", i>>] \in {"ok", "unasked"}
  /\ \A i \in 1..N : answers[<<"read", i>>] = "ok" =>
       /\ answers[<<"stat", i>>] = "ok" \/ ~Steady
       /\ Entry(i).actual + DictOf(i) <= Workspace /\ Entry(i).state = "sound"

\* A password is blamed when it is to blame: with one that does not fit, an
\* encrypted entry is never read, nor, in a rar or a 7z, said to be damaged
\* (nobody would be asked for another), and one that fits is never refused
\* unless there is damage, or it is too long for UnRAR.
PasswordBlamed ==
  \A i \in 1..N : LET r == answers[<<"read", i>>] IN
    /\ Entry(i).encrypted /\ ~Right(password) =>
         r # "ok" /\ (box.format # "zip" /\ password # None => r # "CorruptArchive")
    /\ r = "WrongPassword" /\ Right(password) =>
         (\E j \in 1..N : Entry(j).state # "sound") \/ Len(password) >= BufferCap

\* What stopped a library from beneath (a password nobody gave, a limit, a
\* budget that must be tried again, a network error) is what the caller is
\* told, whatever the library makes of it: a retry of the service depends on it.
FirstFaultTold ==
  [][job.stage # "idle" /\ job'.stage = "idle" /\ fault # "none" => answers'[<<job.op, job.entry>>] = fault]_vars

\* "Encrypted files do not stand in the way of readable images": an image that
\* is listed, not encrypted and not damaged is read without a password.
PlainImagesReadable ==
  \A i \in listed : Steady /\ ~Entry(i).encrypted => answers[<<"read", i>>] # "PasswordRequired"
=============================================================================
