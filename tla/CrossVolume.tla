----------------------------- MODULE CrossVolume -----------------------------
(***************************************************************************)
(* Reading on into the neighbouring volume (commands/find_next_volume.rs,  *)
(* algorithm/natural_sort.rs, composables/useCrossVolume.ts and the loader *)
(* of ReaderView.vue), on the tables of Library.                           *)
(*                                                                         *)
(* The reader asks for the next or the previous volume of the folder; the  *)
(* command lists the folder, reads the sort of it under one lock and looks *)
(* up each candidate under a lock of its own.  The answer moves the reader *)
(* at once or after a confirmation, and what the user does meanwhile is    *)
(* seen at the checks the controller makes after its waits.                *)
(***************************************************************************)
EXTENDS Library

CONSTANTS
    Folders,     \* what the folder of the volumes may hold: sequences of entries
                 \* [name, parts, dir, size, modified]
    Source,      \* its source
    ParentPath,  \* its path, in segments
    Modes,       \* continueToNextVolume: "auto", "manual", and "force" for Alt and an arrow
    MaxAsks      \* questions in a behaviour (a bound)

VARIABLES folder, reader, cv, flow

cvVars == <<vars, folder, reader, cv, flow>>

-----------------------------------------------------------------------------
(* natural_sort.rs, on names that are split into runs of digits and other   *)
(* text; a text is its rank among the texts in lower case, which is below   *)
(* zero when it comes before the digits.                                   *)

Stripped(digits) ==
    LET used == {i \in DOMAIN digits : digits[i] # 0}
    IN IF used = {} THEN <<0>> ELSE SubSeq(digits, Min(used), Len(digits))

PartLess(a, b) ==
    CASE a.kind = "number" /\ b.kind = "number" ->
           LET x == Stripped(a.digits) y == Stripped(b.digits)
           IN Len(x) < Len(y) \/ (Len(x) = Len(y) /\ Greater(y, x))
      [] a.kind = "text" /\ b.kind = "text" -> a.rank < b.rank
      [] a.kind = "number" /\ b.kind = "text" -> b.rank > 0
      [] a.kind = "text" /\ b.kind = "number" -> a.rank < 0

NaturalLess(p, q) ==
    LET both == 1 .. Min({Len(p), Len(q)})
        differ == {i \in both : PartLess(p[i], q[i]) \/ PartLess(q[i], p[i])}
    IN IF differ = {} THEN Len(p) < Len(q) ELSE PartLess(p[Min(differ)], q[Min(differ)])

(* cmp_sibling: an entry without a date comes after those with one.         *)
SiblingLess(a, b, field) ==
    CASE field = "name" -> NaturalLess(a.parts, b.parts)
      [] field = "modifiedAt" -> a.modified # Nothing /\ (b.modified = Nothing \/ a.modified < b.modified)
      [] field = "size" -> a.size < b.size

(* A stable sort of a sequence by an order.                                *)
Stable(entries, Less(_, _)) ==
    LET n == SetToSortSeq(DOMAIN entries,
               LAMBDA i, j : \/ Less(entries[i], entries[j])
                             \/ ~Less(entries[j], entries[i]) /\ i < j)
    IN [k \in DOMAIN n |-> entries[n[k]]]

Dirs(entries) == SelectSeq(entries, LAMBDA e : e.dir)

(* Mutant of SiblingOrder: downwards by the opposite comparison, which      *)
(* leaves equal ones in the order of the listing.                          *)
OrderByOpposite(entries, sort) ==
    Stable(Dirs(entries), LAMBDA a, b : IF sort.ascending THEN SiblingLess(a, b, sort.field)
                                        ELSE SiblingLess(b, a, sort.field))

(* The directories in the order pick_sibling_where walks them.              *)
SiblingOrder(entries, sort) ==
    LET up == Stable(Dirs(entries), LAMBDA a, b : SiblingLess(a, b, sort.field))
    IN IF sort.ascending THEN up ELSE Reverse(up)

(* resolve_sibling_sort: the sort of the folder, of the settings, by name.  *)
SortOfFolder(d) ==
    LET key == <<Source, ParentPath>>
        setting(k, default) == IF k \in DOMAIN d.settings THEN d.settings[k] ELSE default
    IN IF key \in DOMAIN d.sorts THEN d.sorts[key]
       ELSE [field |-> setting("fb_sort_field", "name"),
             ascending |-> setting("fb_sort_ascending", "1") = "1"]

(* sibling_is_finished                                                     *)
IsFinished(d, name) ==
    \E i \in DOMAIN d.books \cap DOMAIN d.progress :
        d.books[i].place = <<Source, Append(ParentPath, name)>> /\ d.progress[i].finished

-----------------------------------------------------------------------------
(* What the browser shows of the folder: sortEntries of fileSort.ts, whose  *)
(* array sort is stable, under the sort fetch resolves.  A date that is not *)
(* there arrives as null, which the comparison takes for zero.             *)
ShownOrder(entries, d) ==
    LET sort == SortOfFolder(d)
        number(x) == IF x = Nothing THEN 0 ELSE x
        up == Stable(Dirs(entries),
                LAMBDA a, b : CASE sort.field = "name" -> NaturalLess(a.parts, b.parts)
                                [] sort.field = "modifiedAt" -> number(a.modified) - number(b.modified) < 0
                                [] sort.field = "size" -> a.size - b.size < 0)
    IN [k \in DOMAIN up |-> IF sort.ascending THEN up[k].name ELSE up[Len(up) + 1 - k].name]

-----------------------------------------------------------------------------
NoFlow == [step |-> "none"]
Settled == [cv EXCEPT !.phase = "idle", !.pending = Nothing, !.armed = Nothing]

\* currentIdentity: the volume on the screen, unless one is being loaded.
Identity == IF reader.phase = "ready" THEN reader.at ELSE Nothing
Raw(name) == [kind |-> "relative", segs |-> Append(ParentPath, name)]

CvInit ==
    /\ Init
    /\ folder \in Folders
    /\ reader \in [at : {folder[i].name : i \in {i \in DOMAIN folder : folder[i].dir}}, phase : {"ready"}]
    /\ cv = [phase |-> "idle", pending |-> Nothing, armed |-> Nothing, seq |-> 0]
    /\ flow = NoFlow

(* maybeContinue, up to the wait for the command; only auto skips.          *)
MaybeContinue(mode, dir) ==
    /\ cv.phase = "idle" /\ Identity # Nothing /\ cv.seq < MaxAsks
    /\ cv' = [cv EXCEPT !.phase = "resolving", !.seq = @ + 1]
    /\ flow' = [step |-> "listing", start |-> Identity, mode |-> mode, dir |-> dir,
                seq |-> cv.seq + 1, skipped |-> {}, answer |-> Nothing]
    /\ UNCHANGED <<vars, folder, reader>>

(* The listing of the parent, which may also fail.                         *)
ListParent ==
    /\ flow.step = "listing"
    /\ \/ flow' = [step |-> "sorting", listing |-> folder] @@ flow /\ cv' = cv
       \/ flow' = NoFlow /\ cv' = Settled
    /\ UNCHANGED <<vars, folder, reader>>

Places(names, name) == {i \in DOMAIN names : names[i] = name}

ResolveSort ==
    /\ flow.step = "sorting"
    /\ LET order == SiblingOrder(flow.listing, SortOfFolder(db))
           names == [k \in DOMAIN order |-> order[k].name]
           at == Places(names, flow.start)
       IN flow' = [step |-> IF at = {} THEN "answered" ELSE "picking", order |-> names,
                   shown |-> ShownOrder(flow.listing, db), pos |-> IF at = {} THEN 0 ELSE Min(at)] @@ flow
    /\ UNCHANGED <<vars, folder, reader, cv>>

CheckSibling ==
    /\ flow.step = "picking"
    /\ LET next == IF flow.dir = "next" THEN flow.pos + 1 ELSE flow.pos - 1
       IN flow' = CASE next \notin DOMAIN flow.order -> [flow EXCEPT !.step = "answered"]
                    [] next \in DOMAIN flow.order /\ flow.mode = "auto" /\ IsFinished(db, flow.order[next]) ->
                         [flow EXCEPT !.pos = next, !.skipped = @ \cup {flow.order[next]}]
                    [] OTHER -> [flow EXCEPT !.step = "answered", !.answer = flow.order[next]]
    /\ UNCHANGED <<vars, folder, reader, cv>>

Same(name) == Identity # Nothing /\ Identity = name

(* Mutant of Answered: an answer that comes too late is dropped, and the    *)
(* controller stays busy.                                                  *)
AnsweredSilently ==
    /\ flow.step = "answered"
    /\ CASE flow.seq # cv.seq \/ ~Same(flow.start) -> flow' = NoFlow /\ cv' = cv
         [] OTHER -> flow' = NoFlow /\ cv' = Settled
    /\ UNCHANGED <<vars, folder, reader>>

(* The answer is dropped when the volume it was asked of is not the one on  *)
(* the screen any more; "manual" waits for the user.                       *)
Answered ==
    /\ flow.step = "answered"
    /\ LET stale == flow.seq # cv.seq \/ ~Same(flow.start)
       IN CASE stale \/ flow.answer = Nothing ->
                 flow' = NoFlow /\ cv' = Settled
            [] ~stale /\ flow.answer # Nothing /\ flow.mode = "manual" ->
                 flow' = NoFlow /\ cv' = [cv EXCEPT !.phase = "awaiting-confirm", !.pending = flow.answer,
                                                    !.armed = flow.start]
            [] OTHER -> flow' = [flow EXCEPT !.step = "saving"] /\ cv' = [cv EXCEPT !.phase = "navigating"]
    /\ UNCHANGED <<vars, folder, reader>>

ConfirmManual ==
    /\ cv.phase = "awaiting-confirm"
    /\ IF Same(cv.armed)
       THEN /\ cv' = [cv EXCEPT !.phase = "navigating", !.seq = @ + 1]
            /\ flow' = [step |-> "saving", start |-> cv.armed, answer |-> cv.pending, seq |-> cv.seq + 1]
       ELSE cv' = [Settled EXCEPT !.seq = @ + 1] /\ flow' = NoFlow
    /\ UNCHANGED <<vars, folder, reader>>

DismissManual ==
    /\ cv.phase = "awaiting-confirm"
    /\ cv' = [Settled EXCEPT !.seq = @ + 1]
    /\ UNCHANGED <<vars, folder, reader, flow>>

(* saveCurrentProgressNow comes back, having written or not; then the       *)
(* second check, before createBook.                                        *)
Saved ==
    /\ flow.step = "saving"
    /\ db' \in {db} \cup {SaveProgress(db, i, 1, Keep, "yes") : i \in FindId(db, Source, Raw(flow.start))}
    /\ IF flow.seq # cv.seq \/ ~Same(flow.start)
       THEN flow' = NoFlow /\ cv' = Settled
       ELSE flow' = [flow EXCEPT !.step = "ensuring"] /\ cv' = cv
    /\ UNCHANGED <<pager, edits, made, folder, reader>>

(* createBook comes back and the route is replaced, or it failed.           *)
Ensured ==
    /\ flow.step = "ensuring"
    /\ \/ /\ db' = CreateBook(db, Source, Raw(flow.answer), FALSE)
          /\ reader' = [at |-> flow.answer, phase |-> "loading"]
          /\ flow' = [flow EXCEPT !.step = "loading"] /\ cv' = cv
       \/ flow' = NoFlow /\ cv' = Settled /\ UNCHANGED <<db, reader>>
    /\ UNCHANGED <<pager, edits, made, folder>>

(* loadRouteBook: the volume is shown and its visit is recorded, or not.    *)
Loaded ==
    /\ reader.phase = "loading"
    /\ \/ /\ reader' = [reader EXCEPT !.phase = "ready"]
          /\ db' \in {RecordHistory(db, Source, Raw(reader.at), i) : i \in FindId(db, Source, Raw(reader.at))}
       \/ reader' = [reader EXCEPT !.phase = "error"] /\ db' = db
    /\ UNCHANGED <<pager, edits, made, folder, cv, flow>>

Arrived ==
    /\ flow.step = "loading" /\ reader.phase # "loading"
    /\ flow' = NoFlow /\ cv' = Settled
    /\ UNCHANGED <<vars, folder, reader>>

-----------------------------------------------------------------------------
(* What others do meanwhile.                                               *)

OpenBook(name) ==
    /\ edits < MaxEdits
    /\ edits' = edits + 1
    /\ db' = CreateBook(db, Source, Raw(name), FALSE)
    /\ reader' = [at |-> name, phase |-> "loading"]
    /\ UNCHANGED <<pager, made, folder, cv, flow>>

Change ==
    /\ edits < MaxEdits
    /\ edits' = edits + 1
    /\ \/ folder' \in Folders \ {folder} /\ db' = db
       \/ /\ \/ \E i \in DOMAIN db.books, f \in BOOLEAN : db' = MarkFinished(db, i, f)
             \/ \E f \in {"name", "modifiedAt", "size"}, a \in BOOLEAN :
                    db' = SetDirectorySort(db, <<Source, ParentPath>>, f, a)
             \/ db' = SetSetting(db, "fb_sort_ascending", "0")
          /\ folder' = folder
    /\ UNCHANGED <<pager, made, reader, cv, flow>>

Waits == ListParent \/ ResolveSort \/ CheckSibling \/ Answered \/ Saved \/ Ensured \/ Loaded \/ Arrived

CvNext == \/ ListParent \/ ResolveSort \/ CheckSibling \/ Answered \/ Saved \/ Ensured \/ Loaded \/ Arrived
          \/ ConfirmManual \/ DismissManual \/ Change
          \/ \E mode \in Modes, dir \in {"next", "prev"} : MaybeContinue(mode, dir)
          \/ \E i \in DOMAIN folder : folder[i].dir /\ OpenBook(folder[i].name)

(* The awaits of the controller and of the loader come back, with an answer *)
(* or an error, and the command runs to its end.                           *)
CvSpec == CvInit /\ [][CvNext]_cvVars /\ WF_cvVars(Waits)

-----------------------------------------------------------------------------
(* The answer is the neighbour in the order the browser shows the folder    *)
(* in; between the two lie volumes that were found finished and no others,  *)
(* and there is no answer only when nothing else lies that way              *)
(* (pick_sibling_where, resolve_sibling_sort against sortEntries).          *)
NextAsListed ==
    flow.step = "answered" /\ "shown" \in DOMAIN flow =>
        \A at \in Places(flow.shown, flow.start) :
            LET beyond(i, j) == IF flow.dir = "next" THEN i < j ELSE j < i
                passed(i) == \A j \in DOMAIN flow.shown :
                                 beyond(at, j) /\ beyond(j, i) => flow.shown[j] \in flow.skipped
            IN IF flow.answer = Nothing
               THEN \A j \in DOMAIN flow.shown : beyond(at, j) => flow.shown[j] \in flow.skipped
               ELSE \E i \in Places(flow.shown, flow.answer) : beyond(at, i) /\ passed(i)

(* The controller does not stay busy: whatever the user does meanwhile and  *)
(* whichever wait fails, it becomes idle again or asks for a confirmation   *)
(* (useCrossVolume.ts: settleIdle on every way out).                       *)
FlowEnds == cv.phase \in {"resolving", "navigating"} ~> cv.phase \in {"idle", "awaiting-confirm"}
=============================================================================
