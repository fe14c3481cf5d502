---------------------------- MODULE MediaProtocol ----------------------------
(* A page as an address and back: mediaUrl.ts makes the path of the media:// *)
(* URL, media_protocol.rs reads it, lib.rs makes the descriptor of it from   *)
(* the account's row and answers the request.                                *)
(*                                                                           *)
(* A text is the sequence of its characters. "shown" is the page as the      *)
(* listing knows it, a descriptor and a path.                                *)
EXTENDS Integers, SequencesExt

CONSTANTS
    Pages,    \* [descriptor, path]: pages listings show
    Accounts, \* id -> [kind, host, share]: the rows
    Hex,      \* character that is not left as it is in a URL -> its two digits
    Sizes,    \* bytes of files
    Headers,  \* Range headers: Nil or [first, last], last Nil when open, first Nil when malformed
    Nil       \* None

VARIABLES shown, phase, url, target, answer, request

vars == <<shown, phase, url, target, answer, request>>

------------------------------------------------------------------------------
(* Texts.                                                                    *)
SplitBy(text, separators) ==
    FoldLeft(LAMBDA parts, c : IF c \in separators THEN Append(parts, <<>>)
                               ELSE [parts EXCEPT ![Len(parts)] = Append(@, c)],
             <<<<>>>>, text)

Join(parts) == FoldLeft(LAMBDA text, part : text \o <<"/">> \o part, Head(parts), Tail(parts))

StartsWith(text, prefix) == Len(prefix) <= Len(text) /\ SubSeq(text, 1, Len(prefix)) = prefix

EncodeSegment(text) == FlattenSeq([i \in DOMAIN text |->
    IF text[i] \in DOMAIN Hex THEN <<"%">> \o Hex[text[i]] ELSE <<text[i]>>])

Undecodable == [error |-> "encoding"]

(* One pass; a % must be followed by the digits of a character.              *)
Decoded(text) ==
    LET read == FoldLeft(LAMBDA acc, c :
            CASE acc.digits = Nil /\ c = "%" -> [acc EXCEPT !.digits = <<>>]
              [] acc.digits = Nil -> [acc EXCEPT !.out = Append(@, c)]
              [] Len(acc.digits) = 0 -> [acc EXCEPT !.digits = <<c>>]
              [] OTHER -> LET code == Append(acc.digits, c)
                              of == {d \in DOMAIN Hex : Hex[d] = code}
                          IN IF of = {} THEN [acc EXCEPT !.bad = TRUE, !.digits = Nil]
                             ELSE [acc EXCEPT !.out = Append(@, CHOOSE d \in of : TRUE), !.digits = Nil],
            [out |-> <<>>, digits |-> Nil, bad |-> FALSE], text)
    IN IF read.bad \/ read.digits # Nil THEN Undecodable ELSE [text |-> read.out]

(* Mutant of DecodeSegment: what is decoded is decoded again.                *)
DecodeTwice(text) ==
    LET once == Decoded(text) IN IF "error" \in DOMAIN once THEN once ELSE Decoded(once.text)

DecodeSegment(text) == Decoded(text)

(* Paths in a source have no empty, "." or ".." segment; absolute ones no    *)
(* "..", and a drive, a share or a root in front.                            *)
ValidRel(text) ==
    /\ text # <<>> /\ \A i \in DOMAIN text : text[i] # "\\"
    /\ \A i \in DOMAIN SplitBy(text, {"/"}) : SplitBy(text, {"/"})[i] \notin {<<>>, <<".">>, <<".", ".">>}

ValidAbs(text) ==
    /\ \/ Len(text) >= 3 /\ text[2] = ":" /\ text[3] \in {"/", "\\"}
       \/ StartsWith(text, <<"\\", "\\">>) \/ StartsWith(text, <<"/">>)
    /\ \A i \in DOMAIN SplitBy(text, {"/", "\\"}) : SplitBy(text, {"/", "\\"})[i] # <<".", ".">>

------------------------------------------------------------------------------
(* mediaUrl.ts. At the root of a share, the first segment of the path is     *)
(* taken for the share.                                                      *)
SmbUrlParts(initial, path) ==
    LET parts == SelectSeq(SplitBy(path, {"/"}), LAMBDA p : p # <<>>)
    IN IF initial = <<>>
       THEN [initial |-> IF parts = <<>> THEN <<>> ELSE parts[1],
             rel |-> IF Len(parts) < 2 THEN <<>> ELSE Join(Tail(parts))]
       ELSE [initial |-> initial,
             rel |-> IF StartsWith(path, initial \o <<"/">>)
                     THEN SubSeq(path, Len(initial) + 2, Len(path)) ELSE path]

MediaUrl(d, path) ==
    CASE d.type = "local" -> <<"local", EncodeSegment(path)>>
      [] d.type = "webdav" -> <<"webdav", d.account, EncodeSegment(path)>>
      [] d.type = "smb" ->
           LET parts == SmbUrlParts(d.initial, path)
           IN <<"smb", d.account, EncodeSegment(parts.initial), EncodeSegment(parts.rel)>>
      [] d.type = "archive" /\ d.origin.type = "local" ->
           <<"archive", "local", EncodeSegment(d.archive), EncodeSegment(path)>>
      [] d.type = "archive" /\ d.origin.type = "webdav" ->
           <<"archive", "webdav", d.origin.account, EncodeSegment(d.rel), EncodeSegment(path)>>
      [] OTHER ->
           LET parts == SmbUrlParts(d.origin.initial, d.rel)
           IN <<"archive", "smb", d.origin.account, EncodeSegment(parts.initial), EncodeSegment(parts.rel),
                EncodeSegment(path)>>

------------------------------------------------------------------------------
(* parse_media_path: by the first segments, each shape its number of them.   *)
BadShape == [error |-> "shape"]

Texts(segments) == [i \in DOMAIN segments |-> DecodeSegment(segments[i])]

Parsed(segments, paths, result(_)) ==
    LET texts == Texts(segments)
    IN IF \E i \in DOMAIN texts : "error" \in DOMAIN texts[i] THEN Undecodable
       ELSE IF \E i \in DOMAIN texts : ~(IF paths[i] = "abs" THEN ValidAbs(texts[i].text) ELSE ValidRel(texts[i].text))
       THEN [error |-> "path"]
       ELSE result([i \in DOMAIN texts |-> texts[i].text])

ParseMediaPath(u) ==
    LET n == Len(u) IN
    CASE u[1] = "local" /\ n = 2 ->
           Parsed(<<u[2]>>, <<"abs">>, LAMBDA t : [type |-> "local", abs |-> t[1]])
      [] u[1] = "webdav" /\ n = 3 ->
           Parsed(<<u[3]>>, <<"rel">>, LAMBDA t : [type |-> "webdav", account |-> u[2], rel |-> t[1]])
      [] u[1] = "smb" /\ n = 4 ->
           Parsed(<<u[3], u[4]>>, <<"rel", "rel">>,
                  LAMBDA t : [type |-> "smb", account |-> u[2], initial |-> t[1], rel |-> t[2]])
      [] u[1] = "archive" /\ n = 4 /\ u[2] = "local" ->
           Parsed(<<u[3], u[4]>>, <<"abs", "rel">>,
                  LAMBDA t : [type |-> "archive", origin |-> "local", abs |-> t[1], entry |-> t[2]])
      [] u[1] = "archive" /\ n = 5 /\ u[2] = "webdav" ->
           Parsed(<<u[4], u[5]>>, <<"rel", "rel">>,
                  LAMBDA t : [type |-> "archive", origin |-> "webdav", account |-> u[3], rel |-> t[1], entry |-> t[2]])
      [] u[1] = "archive" /\ n = 6 /\ u[2] = "smb" ->
           Parsed(<<u[4], u[5], u[6]>>, <<"rel", "rel", "rel">>,
                  LAMBDA t : [type |-> "archive", origin |-> "smb", account |-> u[3], initial |-> t[1],
                              rel |-> t[2], entry |-> t[3]])
      [] OTHER -> BadShape

(* rebuild_descriptor: [descriptor, path] or the status of a refusal.        *)
Refused(status) == [status |-> status]

HasRow(id, kind) == id \in DOMAIN Accounts /\ Accounts[id].kind = kind

AccountRow(id, kind, then(_)) == IF HasRow(id, kind) THEN then(Accounts[id]) ELSE Refused(404)

InShare(row, initial, result) ==
    IF SplitBy(initial, {"/"})[1] = row.share THEN result ELSE Refused(403)

LocalFile(abs) ==
    LET parts == SplitBy(abs, {"/", "\\"})
        dir == Join(Front(parts))
        root == IF dir = <<>> \/ Last(dir) = ":" THEN Append(dir, "/") ELSE dir
    IN IF Len(parts) < 2 THEN Refused(403)
       ELSE [descriptor |-> [type |-> "local", root |-> root], path |-> Last(parts)]

RebuildDescriptor(t) ==
    CASE t.type = "local" -> LocalFile(t.abs)
      [] t.type = "webdav" -> AccountRow(t.account, "webdav", LAMBDA row :
           [descriptor |-> [type |-> "webdav", account |-> t.account, base |-> row.host], path |-> t.rel])
      [] t.type = "smb" -> AccountRow(t.account, "smb", LAMBDA row : InShare(row, t.initial,
           [descriptor |-> [type |-> "smb", account |-> t.account, initial |-> t.initial], path |-> t.rel]))
      [] t.origin = "local" ->
           [descriptor |-> [type |-> "archive", archive |-> t.abs, origin |-> [type |-> "local"], rel |-> Nil],
            path |-> t.entry]
      [] t.origin = "webdav" -> AccountRow(t.account, "webdav", LAMBDA row :
           [descriptor |-> [type |-> "archive", archive |-> Nil, rel |-> t.rel,
                            origin |-> [type |-> "webdav", account |-> t.account, base |-> row.host]],
            path |-> t.entry])
      [] OTHER -> AccountRow(t.account, "smb", LAMBDA row : InShare(row, t.initial,
           [descriptor |-> [type |-> "archive", archive |-> Nil, rel |-> t.rel,
                            origin |-> [type |-> "smb", account |-> t.account, initial |-> t.initial]],
            path |-> t.entry]))

(* The path is put behind the base address as it is and the whole read as an *)
(* address: spaces at the end are dropped, "?" and "#" end the path, a       *)
(* backslash is a slash. The URL type escapes what has to be but no "%", so  *)
(* the server decodes every escape, those of the name too.                   *)
RequestPath(path) ==
    LET end == Max({0} \cup {i \in DOMAIN path : path[i] # " "})
        kept == Head(SplitBy(SubSeq(path, 1, end), {"?", "#"}))
    IN Decoded([i \in DOMAIN kept |-> IF kept[i] = "\\" THEN "/" ELSE kept[i]])

(* What a source opens for a descriptor and a path: resolve_path, what the   *)
(* server takes for the path of the request, the share without its first     *)
(* segment (unc_rel).                                                        *)
OpensFile(d, path) ==
    CASE d.type = "local" -> <<"file", (IF Last(d.root) = "/" THEN d.root ELSE Append(d.root, "/")) \o path>>
      [] d.type = "webdav" -> <<"url", d.base, RequestPath(path)>>
      [] OTHER ->
           <<"smb", Accounts[d.account].share,
             (IF d.initial = <<>> THEN <<>> ELSE FlattenSeq(Tail([i \in DOMAIN SplitBy(d.initial, {"/"}) |->
                  SplitBy(d.initial, {"/"})[i] \o <<"/">>]))) \o path>>

Opens(d, path) ==
    IF d.type # "archive" THEN OpensFile(d, path)
    ELSE <<"entry", IF d.origin.type = "local" THEN d.archive ELSE OpensFile(d.origin, d.rel), path>>

------------------------------------------------------------------------------
(* parse_range_header on the size of the file.                               *)

(* Mutant of LastByte: what is past the end is cut one byte late.            *)
LastByteLate(last, total) == IF last = Nil \/ last > total THEN total ELSE last

LastByte(last, total) == IF last = Nil \/ last > total - 1 THEN total - 1 ELSE last

ParseRange(header, total) ==
    CASE header = Nil -> [kind |-> "full"]
      [] header.first = Nil -> [kind |-> "malformed"]
      [] header.first >= total -> [kind |-> "unsatisfiable"]
      [] header.last # Nil /\ header.last < header.first -> [kind |-> "malformed"]
      [] OTHER -> LET last == LastByte(header.last, total)
                  IN [kind |-> "partial", offset |-> header.first, length |-> last - header.first + 1]

(* What is read of a file, or of an entry that is unpacked whole, when it    *)
(* has so many bytes by then; bytes are their offsets.                       *)
Body(offset, length) == [i \in 1 .. length |-> offset + i - 1]

ReadFile(range, now) ==
    CASE range.kind # "partial" -> Body(0, now)
      [] range.offset + range.length <= now -> Body(range.offset, range.length)
      [] OTHER -> Nil

ReadEntry(range, now) ==
    LET end == range.offset + range.length IN
    CASE range.kind # "partial" -> Body(0, now)
      [] end <= now -> SubSeq(Body(0, now), range.offset + 1, end)
      [] OTHER -> Nil

(* handle_media_request from the size on: a part is read past the cache, and *)
(* HEAD gets the size of the whole. The file may change after the size.      *)
Respond(head, header, size, now, type) ==
    LET range == ParseRange(header, size)
        body == IF type = "archive" THEN ReadEntry(range, now) ELSE ReadFile(range, now)
    IN CASE range.kind = "unsatisfiable" -> [status |-> 416, length |-> size, body |-> <<>>]
         [] head -> [status |-> 200, length |-> size, body |-> <<>>]
         [] body = Nil -> Refused(500)
         [] range.kind = "partial" ->
              [status |-> 206, first |-> range.offset, last |-> range.offset + range.length - 1, total |-> size,
               length |-> Len(body), body |-> body]
         [] OTHER -> [status |-> 200, length |-> Len(body), body |-> body]

------------------------------------------------------------------------------
Init == /\ shown \in Pages
        /\ request \in [head : BOOLEAN, header : Headers, size : Sizes, now : Sizes]
        /\ phase = "shown" /\ url = <<>> /\ target = Nil /\ answer = Nil

Address ==
    /\ phase = "shown" /\ phase' = "asked"
    /\ url' = MediaUrl(shown.descriptor, shown.path)
    /\ UNCHANGED <<shown, target, answer, request>>

Refuse(status) == phase' = "answered" /\ answer' = Refused(status) /\ UNCHANGED target

Parse ==
    LET t == ParseMediaPath(url) IN
    /\ phase = "asked"
    /\ IF "error" \in DOMAIN t
       THEN Refuse(IF t.error = "shape" THEN 404 ELSE 403)
       ELSE phase' = "parsed" /\ target' = t /\ UNCHANGED answer
    /\ UNCHANGED <<shown, url, request>>

Rebuild ==
    LET found == RebuildDescriptor(target) IN
    /\ phase = "parsed"
    /\ IF "status" \in DOMAIN found THEN Refuse(found.status)
       ELSE phase' = "rebuilt" /\ target' = found /\ UNCHANGED answer
    /\ UNCHANGED <<shown, url, request>>

Answer ==
    /\ phase = "rebuilt" /\ phase' = "answered"
    /\ answer' = Respond(request.head, request.header, request.size, request.now, target.descriptor.type)
    /\ UNCHANGED <<shown, url, target, request>>

Next == Address \/ Parse \/ Rebuild \/ Answer

Spec == Init /\ [][Next]_vars

------------------------------------------------------------------------------
(* What the listing showed: a local page is shown by its absolute path, one  *)
(* of a WebDAV server by the names the server gave.                          *)
FileShown(d, path) ==
    CASE d.type = "local" -> <<"file", path>>
      [] d.type = "webdav" -> <<"url", d.base, [text |-> path]>>
      [] OTHER -> OpensFile(d, path)

PageShown(d, path) ==
    IF d.type # "archive" THEN FileShown(d, path)
    ELSE <<"entry", IF d.origin.type = "local" THEN d.archive ELSE FileShown(d.origin, d.rel), path>>

AtRootOfShare(d) == \/ d.type = "smb" /\ d.initial = <<>>
                    \/ d.type = "archive" /\ d.origin.type = "smb" /\ d.origin.initial = <<>>

SamePage ==
    phase = "answered" =>
      /\ request.now >= request.size => "body" \in DOMAIN answer
      /\ "body" \in DOMAIN answer =>
           Opens(target.descriptor, target.path) = PageShown(shown.descriptor, shown.path)

(* The text a WebDAV server is asked for, if it is asked, and whether it has *)
(* none of the characters an address gives a meaning to.                     *)
AskedOfServer(d, path) ==
    CASE d.type = "webdav" -> path
      [] d.type = "archive" /\ d.origin.type = "webdav" -> d.rel
      [] OTHER -> <<>>

Plain(text) ==
    /\ \A i \in DOMAIN text : text[i] \notin {"%", "?", "#", "\\"}
    /\ text # <<>> => Last(text) # " "

(* The page that is asked for is the page that was shown: no name, escape or *)
(* prefix leads to another file, or to none, through the address of the page *)
(* and back (mediaUrl, parse_media_path, rebuild_descriptor). Two exceptions *)
(* are the next two properties.                                              *)
PagesOpen ==
    ~AtRootOfShare(shown.descriptor) /\ Plain(AskedOfServer(shown.descriptor, shown.path)) => SamePage

(* The same for every name on a WebDAV server. NOT true of the code, which   *)
(* writes base/path without escaping it (webdav_impl.rs, read_file and stat):*)
(* "%25" asks for "%", "a#b" for "a".                                        *)
PagesOpenByAnyName == ~AtRootOfShare(shown.descriptor) => SamePage

(* What mediaUrl.ts says of shares browsed from their root: they work too.   *)
PagesOpenAtRoot == AtRootOfShare(shown.descriptor) => SamePage

(* A part of a file that is answered is within it, is what was asked for, as *)
(* long as its headers say (parse_range_header, handle_media_request).       *)
PartsExact ==
    phase = "answered" /\ "body" \in DOMAIN answer /\ answer.status = 206 =>
       /\ answer.first = request.header.first
       /\ answer.last = answer.first + Len(answer.body) - 1 /\ Len(answer.body) = answer.length
       /\ answer.length >= 1 /\ answer.last < answer.total
       /\ request.header.last # Nil => answer.last <= request.header.last
       /\ request.header.last = Nil \/ answer.last = request.header.last \/ answer.last = answer.total - 1
=============================================================================
