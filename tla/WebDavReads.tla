----------------------------- MODULE WebDavReads -----------------------------
(* Reading from a WebDAV server (src/src-tauri/src/source/webdav_impl.rs):   *)
(* what is made of the answer to a PROPFIND, reads of parts of a file, the   *)
(* second try, and the two stages of the gate they pass (remote_gate.rs).    *)
(*                                                                           *)
(* A name is a sequence of characters; in an address each character is       *)
(* written <<c>> as it is, or <<"%", c>> escaped. The answer to a PROPFIND   *)
(* is the sequence of events the XML reader makes of it. The byte of a file  *)
(* at an offset is the offset.                                               *)
EXTENDS Integers, SequencesExt, FiniteSetsExt, Maps

CONSTANTS
    Calls,       \* tasks that ask, one call after another
    Folder,      \* path of the folder that is listed
    Children,    \* what is in it: [name, dir, size]
    UrlEscapes,  \* characters the client's URL type escapes
    Spellings,   \* how servers write: [escapes, full, slash, order, expanded, missing]
    Size,        \* bytes of the file that is read
    Faults,      \* what servers make of a Range besides: a set of "short", "other", "unlabelled"
    Cap,         \* WEBDAV_MAX_RESPONSE
    Concurrency, \* REMOTE_GATE_CONCURRENCY
    Budget,      \* REMOTE_GATE_BYTES
    Nil          \* None

VARIABLES
    calls,    \* call -> [phase, attempt, range, answer, body, reserved, result]
    listing   \* [spelling, events, parser]: one PROPFIND, its events not yet read

vars == <<calls, listing>>

------------------------------------------------------------------------------
(* Addresses.                                                                *)
Written(name, escapes) == [i \in DOMAIN name |-> IF name[i] \in escapes THEN <<"%", name[i]>> ELSE <<name[i]>>]

UrlencodingDecode(text) == [i \in DOMAIN text |-> <<Last(text[i])>>]

Path(folder, escapes) == FoldLeft(LAMBDA text, name : text \o <<<<"/">>>> \o Written(name, escapes), <<>>, folder)

Trimmed(text) == IF text # <<>> /\ Last(text) = <<"/">> THEN Front(text) ELSE text

LastSegment(text) ==
    LET slashes == {i \in DOMAIN text : text[i] = <<"/">>}
    IN IF slashes = {} THEN text ELSE SubSeq(text, Max(slashes) + 1, Len(text))

SelfPath == Path(Folder, UrlEscapes)

(* What a server writes of a resource: two propstats, with the status of     *)
(* each after its properties; the second names what is missing.              *)
Element(tag, inside) == <<[event |-> "start", tag |-> tag]>> \o inside \o <<[event |-> "end", tag |-> tag]>>
Text(value) == <<[event |-> "text", value |-> value]>>
Status == Element("status", Text([words |-> "HTTP/1.1 200 OK"]))

Response(path, dir, size, s) ==
    LET type == Element("resourcetype",
                  IF ~dir THEN <<>> ELSE IF s.expanded THEN Element("collection", <<>>)
                  ELSE <<[event |-> "empty", tag |-> "collection"]>>)
        length == IF dir THEN <<>> ELSE Element("getcontentlength", Text([number |-> size]))
        props == IF s.order = "type first" THEN type \o length ELSE length \o type
        found == Element("propstat", Element("prop", props) \o Status)
        missing == Element("propstat", Element("prop", Element("getcontentlength", <<>>)) \o Status)
        origin == IF s.full THEN <<<<"https:">>, <<"/">>, <<"/">>, <<"host">>>> ELSE <<>>
        href == Element("href", Text([href |-> origin \o Path(path, s.escapes) \o (IF dir /\ s.slash THEN <<<<"/">>>> ELSE <<>>)]))
    IN Element("response", href \o found \o (IF s.missing THEN missing ELSE <<>>))

MultiStatus(s) == Response(Folder, TRUE, 0, s)
                  \o FlattenSeq(SetToSeq({Response(Append(Folder, c.name), c.dir, c.size, s) : c \in Children}))

------------------------------------------------------------------------------
(* parse_propfind, event by event.                                           *)
PartialEntry == [href |-> Nil, size |-> Nil, collection |-> FALSE]
Begin == [current |-> Nil, field |-> Nil, inType |-> FALSE, entries |-> <<>>]

Collection(m) == IF m.inType /\ m.current # Nil THEN [m EXCEPT !.current.collection = TRUE] ELSE m

Opened(m, tag) ==
    CASE tag = "response" -> [m EXCEPT !.current = PartialEntry]
      [] tag \in {"href", "getcontentlength", "getlastmodified"} -> [m EXCEPT !.field = tag]
      [] tag = "resourcetype" -> [m EXCEPT !.inType = TRUE]
      [] tag = "collection" -> Collection(m)
      [] OTHER -> m

(* A text that is no number leaves no size.                                  *)
Applied(m, value) ==
    IF m.current = Nil THEN m
    ELSE CASE m.field = "href" -> [m EXCEPT !.current.href = value]
           [] m.field = "getcontentlength" -> [m EXCEPT !.current.size = IF "number" \in DOMAIN value THEN value.number ELSE Nil]
           [] OTHER -> m

(* The entry of the folder itself and one without a name are left out; words *)
(* where the address should be are an address of no slash.                   *)
Finalized(entry) ==
    LET href == IF entry.href # Nil /\ "href" \in DOMAIN entry.href THEN Trimmed(entry.href.href) ELSE <<<<"?">>>>
        name == UrlencodingDecode(LastSegment(href))
    IN IF entry.href = Nil \/ href = SelfPath \/ UrlencodingDecode(href) = SelfPath \/ name = <<>> THEN <<>>
       ELSE <<[name |-> [i \in DOMAIN name |-> name[i][1]], dir |-> entry.collection,
               size |-> IF entry.size = Nil THEN 0 ELSE entry.size]>>

(* Mutant of Closed: a field stays open when its element is closed.          *)
ClosedLate(m, tag) ==
    CASE tag = "resourcetype" -> [m EXCEPT !.inType = FALSE]
      [] tag = "response" -> [m EXCEPT !.entries = @ \o Finalized(m.current), !.current = Nil]
      [] OTHER -> m

Closed(m, tag) ==
    LET left == [m EXCEPT !.field = IF @ = tag THEN Nil ELSE @]
    IN CASE tag = "resourcetype" -> [left EXCEPT !.inType = FALSE]
         [] tag = "response" -> [left EXCEPT !.entries = @ \o Finalized(m.current), !.current = Nil]
         [] OTHER -> left

After(m, e) ==
    CASE e.event = "start" -> Opened(m, e.tag)
      [] e.event = "end" -> Closed(m, e.tag)
      [] e.event = "empty" -> IF e.tag = "collection" THEN Collection(m) ELSE m
      [] e.event = "text" -> Applied(m, e.value)

(* The folder is listed, from a server of any spelling.                      *)
ListDirectory ==
    /\ listing.spelling = Nil
    /\ \E s \in Spellings : listing' = [spelling |-> s, events |-> MultiStatus(s), parser |-> Begin]
    /\ UNCHANGED calls

ParsePropfind ==
    /\ listing.events # <<>>
    /\ listing' = [listing EXCEPT !.events = Tail(@), !.parser = After(@, Head(listing.events))]
    /\ UNCHANGED calls

------------------------------------------------------------------------------
(* read_file of a range or a whole file, and stat.                           *)
Failed(kind) == [kind |-> kind, range |-> Nil, bytes |-> <<>>, status |-> Nil]

Idle == [phase |-> "idle", attempt |-> 0, range |-> Nil, answer |-> Nil, body |-> <<>>, reserved |-> 0,
         result |-> Failed("none")]

Ranges == {[offset |-> o, length |-> n] : o \in 0 .. Size - 1, n \in 1 .. Size}
Within == {r \in Ranges : r.offset + r.length <= Size}

At(c, phase) == calls[c].phase = phase
Ends(c, result) == calls' = [calls EXCEPT ![c] = [Idle EXCEPT !.result = result]]

Admitted == {c \in Calls : calls[c].phase \notin {"idle", "gate"}}
Reserved == FoldLeft(LAMBDA sum, c : sum + calls[c].reserved, 0, SetToSeq(Calls))

Ask(c, range) ==
    /\ At(c, "idle")
    /\ calls' = [calls EXCEPT ![c] = [Idle EXCEPT !.phase = "gate", !.range = range]]
    /\ UNCHANGED listing

Enter(c) ==
    /\ At(c, "gate") /\ Cardinality(Admitted) < Concurrency
    /\ calls' = [calls EXCEPT ![c].phase = "send"]
    /\ UNCHANGED listing

(* The gate is busy for GATE_ACQUIRE_TIMEOUT, in either stage.               *)
GateBusy(c) == calls[c].phase \in {"gate", "reserve"} /\ Ends(c, Failed("busy")) /\ UNCHANGED listing

(* send_retry_once: what fails on the way is tried once more.                *)
SendFails(c) ==
    /\ At(c, "send")
    /\ IF calls[c].attempt = 0 THEN calls' = [calls EXCEPT ![c].attempt = 1] ELSE Ends(c, Failed("network"))
    /\ UNCHANGED listing

(* The server's answer: [status, start, body, declared]; a declared length   *)
(* is the body's, and a 206 says where its body begins. A 200 is the whole   *)
(* file, or as many bytes as were asked for, from anywhere.                  *)
Slice(offset, length) == [i \in 1 .. length |-> offset + i - 1]
Answers(range) ==
    {[status |-> 200, start |-> Nil, body |-> Slice(0, Size), declared |-> d] : d \in BOOLEAN}
    \cup (IF range = Nil \/ "unlabelled" \notin Faults THEN {}
          ELSE {[status |-> 200, start |-> Nil, body |-> Slice(o, range.length), declared |-> d] :
                  o \in 0 .. Size - range.length, d \in BOOLEAN})
    \cup (IF range = Nil THEN {}
          ELSE {[status |-> 206, start |-> o, body |-> Slice(o, n), declared |-> d] :
                  o \in IF "other" \in Faults THEN 0 .. range.offset ELSE {range.offset},
                  n \in IF "short" \in Faults THEN 0 .. range.length ELSE {range.length}, d \in BOOLEAN})

(* Mutant of Accounted: an answer of unknown length is read for nothing.     *)
AccountedDeclared(answer) == IF answer.declared THEN Len(answer.body) * 2 ELSE 0

Accounted(answer) == IF answer.declared THEN Len(answer.body) * 2 ELSE Cap * 2

Answered(c) ==
    /\ At(c, "send")
    /\ \/ \E kind \in {"not found", "network"} : Ends(c, Failed(kind))
       \/ \E a \in Answers(calls[c].range) :
            IF a.declared /\ Len(a.body) > Cap THEN Ends(c, Failed("network"))
            ELSE calls' = [calls EXCEPT ![c].phase = "reserve", ![c].answer = a]
    /\ UNCHANGED listing

ReserveBytes(c) ==
    /\ At(c, "reserve") /\ Reserved + Accounted(calls[c].answer) <= Budget
    /\ calls' = [calls EXCEPT ![c].phase = "body", ![c].reserved = Accounted(calls[c].answer)]
    /\ UNCHANGED listing

(* accumulate_capped: a chunk, or the failure of the stream.                 *)
Chunk(c) ==
    LET a == calls[c].answer
        got == Len(calls[c].body)
    IN /\ At(c, "body") /\ got < Len(a.body)
       /\ \E n \in 1 .. Len(a.body) - got :
            IF got + n > Cap THEN Ends(c, Failed("network"))
            ELSE calls' = [calls EXCEPT ![c].body = SubSeq(a.body, 1, got + n)]
       /\ UNCHANGED listing

StreamFails(c) == At(c, "body") /\ Ends(c, Failed("network")) /\ UNCHANGED listing

(* Mutant of RangeValid: only the number of bytes is looked at.              *)
RangeValidLength(answer, body, range) == answer.status \in {200, 206} /\ Len(body) = range.length

RangeValid(answer, body, range) ==
    \/ answer.status = 206 /\ answer.start = range.offset /\ Len(body) = range.length
    \/ answer.status = 200 /\ Len(body) = range.length

Complete(c) ==
    LET call == calls[c] IN
    /\ At(c, "body") /\ Len(call.body) = Len(call.answer.body)
    /\ Ends(c, IF call.range = Nil \/ RangeValid(call.answer, call.body, call.range)
               THEN [kind |-> "bytes", range |-> call.range, bytes |-> call.body, status |-> call.answer.status]
               ELSE Failed("network"))
    /\ UNCHANGED listing

------------------------------------------------------------------------------
Init == calls = [c \in Calls |-> Idle] /\ listing = [spelling |-> Nil, events |-> <<>>, parser |-> Begin]

Moves(c) == \/ Enter(c) \/ GateBusy(c) \/ SendFails(c) \/ Answered(c) \/ ReserveBytes(c) \/ Chunk(c)
            \/ StreamFails(c) \/ Complete(c)

Reads(c) == Moves(c) \/ (\E range \in Within \cup {Nil} : Ask(c, range))

Next == ListDirectory \/ ParsePropfind \/ (\E c \in Calls : Reads(c))

Spec == Init /\ [][Next]_vars

------------------------------------------------------------------------------
Listed == listing.spelling # Nil /\ listing.events = <<>>

FolderItself == [name |-> Last(Folder), dir |-> TRUE, size |-> 0]

(* The server writes the folder's address as the client does.                *)
WrittenAlike(s) ==
    ~s.full /\ \A c \in ToSet(FlattenSeq(Folder)) : c \in s.escapes <=> c \in UrlEscapes

(* What a listing shows is what is in the folder, each thing once with its   *)
(* kind and size, however the server writes it; the folder itself is left    *)
(* out where its address is written as the client writes it, and shown once  *)
(* at most where it is not (parse_propfind, finalize).                       *)
ListingTrue ==
    Listed =>
        LET alike == WrittenAlike(listing.spelling)
            inside == SelectSeq(listing.parser.entries, LAMBDA e : alike \/ e # FolderItself)
        IN /\ ToSet(inside) = Children
           /\ Len(inside) = Cardinality(Children)
           /\ Len(listing.parser.entries) <= Len(inside) + 1

(* The folder is never shown in itself. NOT true of the code, which compares *)
(* texts: of a full address, or of other escapes, it is not the same.        *)
FolderLeftOut == Listed => FolderItself \notin ToSet(listing.parser.entries)

(* A part of a file that is handed on has the length that was asked for, and *)
(* is that part when the server says where it begins: a range that is moved, *)
(* cut or ignored is refused (verify_range_response).                        *)
Part(r) == Slice(r.range.offset, r.range.length)

RangesExact ==
    \A c \in Calls :
      LET r == calls[c].result IN
      r.range # Nil => /\ Len(r.bytes) = r.range.length
                       /\ r.status = 206 => r.bytes = Part(r)

(* The same of every answer. NOT true of the code: a 200 with as many bytes  *)
(* as were asked for is taken, of whatever place they are.                   *)
RangesAlwaysExact ==
    \A c \in Calls : calls[c].result.range # Nil => calls[c].result.bytes = Part(calls[c].result)

(* The bodies being read fit the budget of bytes twice over, and no one of   *)
(* them is longer than the limit (reserve_bytes, accumulate_capped).         *)
BodiesWithinBudget ==
    2 * FoldLeft(LAMBDA sum, c : sum + Len(calls[c].body), 0, SetToSeq(Calls)) <= Budget
=============================================================================
