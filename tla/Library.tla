------------------------------- MODULE Library -------------------------------
(***************************************************************************)
(* The tables of the library and the commands on them (commands/library,   *)
(* progress, history, history_export, bookmarks, shortcuts, tags,          *)
(* settings, directory_sort, directory_masonry, pagination; path.rs).      *)
(*                                                                         *)
(* Every command holds the lock of the connection from its first statement *)
(* to its last, so a command is one step.  A place is a source and a path  *)
(* relative to its root; callers write a path in more than one way, and    *)
(* only its checked form reaches a table.  A reader of a list asks for it  *)
(* page by page, other commands coming between the pages.                  *)
(***************************************************************************)
EXTENDS Integers, Sequences, SequencesExt, Maps

CONSTANTS
    Sources,     \* source descriptors: numbers in the order of their texts
    Unsupported, \* those the export has no fields for or cannot read
    PathOrder,   \* checked paths, in the order of their texts
    RawPaths,    \* paths as callers write them: [kind, segs]
    Tables,      \* the databases a behaviour starts from
    Lists,       \* the lists that are read page by page
    PageLimit,   \* the limit a reader asks for
    MaxEdits,    \* commands that change a table (a bound)
    MaxId,       \* the largest id of a row (a bound)
    MaxNow,      \* the last moment modelled (a bound)
    Nothing,     \* NULL
    Keep         \* an argument that is not given

VARIABLES db, pager, edits, made

vars == <<db, pager, edits, made>>

-----------------------------------------------------------------------------
(* path.rs                                                                 *)

Segments(raw) == SelectSeq(raw.segs, LAMBDA s : s # "")

(* A path with a NUL byte, of a server, with a drive, from a root or with   *)
(* a step up is refused; of any other the segments count.                  *)
Refused(raw) == raw.kind # "relative" \/ \E i \in DOMAIN raw.segs : raw.segs[i] = ".."

(* Mutant of ValidateSourceRelative: the path is stored as it was written.  *)
AsWritten(raw) == raw.segs

ValidateSourceRelative(raw) == Segments(raw)

(* find_library_id_by_location looks a refused path up as it is.           *)
FindId(d, s, raw) ==
    LET path == IF Refused(raw) THEN raw.segs ELSE Segments(raw)
    IN {i \in DOMAIN d.books : d.books[i].place = <<s, path>>}

-----------------------------------------------------------------------------
(* Commands, from tables to tables.                                        *)

CreateBook(d, s, raw, favorite) ==
    LET place == <<s, ValidateSourceRelative(raw)>>
        existing == {i \in DOMAIN d.books : d.books[i].place = place}
    IN IF existing # {}
       THEN [d EXCEPT !.books = [i \in DOMAIN @ |->
                IF i \in existing THEN [@[i] EXCEPT !.favorite = @ \/ favorite] ELSE @[i]]]
       ELSE [d EXCEPT !.books = Put(@, d.nextId, [place |-> place, favorite |-> favorite,
                                                  added |-> d.now, read |-> Nothing]),
                      !.nextId = @ + 1]

SetFavorite(d, i, favorite) == [d EXCEPT !.books[i].favorite = favorite]

(* What is not given keeps its value; a new row has none and is unread.    *)
SaveProgress(d, i, page, name, finished) ==
    LET old == IF i \in DOMAIN d.progress THEN d.progress[i]
               ELSE [page |-> 0, name |-> Nothing, finished |-> FALSE, at |-> 0]
    IN [d EXCEPT !.progress = Put(@, i, [page |-> page, at |-> d.now,
                                         name |-> IF name = Keep THEN old.name ELSE name,
                                         finished |-> IF finished = Keep THEN old.finished
                                                      ELSE finished = "yes"])]

MarkFinished(d, i, finished) ==
    [d EXCEPT !.progress = Put(@, i,
        IF i \in DOMAIN @ THEN [@[i] EXCEPT !.finished = finished, !.at = d.now]
        ELSE [page |-> 0, name |-> Nothing, finished |-> finished, at |-> d.now])]

ResetProgress(d, s, raw) ==
    [d EXCEPT !.progress = [i \in DOMAIN @ |->
        IF i \in FindId(d, s, raw)
        THEN [page |-> 0, name |-> Nothing, finished |-> FALSE, at |-> d.now] ELSE @[i]]]

RecordHistory(d, s, raw, book) ==
    LET place == <<s, ValidateSourceRelative(raw)>>
    IN [d EXCEPT !.history = Put(@, place,
          [at |-> d.now, book |-> book,
           visits |-> IF place \in DOMAIN @ THEN @[place].visits + 1 ELSE 1])]

DeleteHistory(d, place) == [d EXCEPT !.history = Without(@, {place})]

AddBookmark(d, i, page) ==
    [d EXCEPT !.bookmarks = Put(@, d.nextId, [book |-> i, page |-> page, kind |-> "image", at |-> d.now]),
              !.nextId = @ + 1]
RemoveBookmark(d, k) == [d EXCEPT !.bookmarks = Without(@, {k})]

(* A shortcut to a place that has one stays as it was.                     *)
CreateShortcut(d, s, raw) ==
    LET place == <<s, ValidateSourceRelative(raw)>>
    IN IF \E k \in DOMAIN d.shortcuts : d.shortcuts[k].place = place THEN d
       ELSE [d EXCEPT !.shortcuts = Put(@, d.nextId, [place |-> place, at |-> d.now]),
                      !.nextId = @ + 1]
DeleteShortcut(d, k) == [d EXCEPT !.shortcuts = Without(@, {k})]

(* Names of tags are unique; a tag that goes leaves its pairs behind.      *)
CreateTag(d, name) == [d EXCEPT !.tags = Put(@, d.nextId, name), !.nextId = @ + 1]
DeleteTag(d, t) == [d EXCEPT !.tags = Without(@, {t})]
AddBookTag(d, i, t) == [d EXCEPT !.bookTags = @ \cup {<<i, t>>}]
RemoveBookTag(d, i, t) == [d EXCEPT !.bookTags = @ \ {<<i, t>>}]

SetSetting(d, key, value) == [d EXCEPT !.settings = Put(@, key, value)]
SetDirectorySort(d, place, field, ascending) ==
    [d EXCEPT !.sorts = Put(@, place, [field |-> field, ascending |-> ascending])]

(* A dimension that is not given keeps the value of the row.               *)
SetDirectoryMasonry(d, place, cols, gap) ==
    LET old == IF place \in DOMAIN d.masonry THEN d.masonry[place]
               ELSE [cols |-> Nothing, gap |-> Nothing]
    IN [d EXCEPT !.masonry = Put(@, place,
          [cols |-> IF cols = Nothing THEN old.cols ELSE cols,
           gap |-> IF gap = Nothing THEN old.gap ELSE gap])]

-----------------------------------------------------------------------------
(* Lists in pages.  A row of a list is its sort key, the last part of which *)
(* no two rows share; a larger key comes first.                            *)

Greater(a, b) == \E i \in DOMAIN a : a[i] > b[i] /\ \A j \in 1 .. i - 1 : a[j] = b[j]

(* Unread books come last.  The rows of a list, by their sort keys.        *)
BookKey(i, b) == <<IF b.read = Nothing THEN 0 ELSE 1, IF b.read = Nothing THEN 0 ELSE b.read, b.added, i>>

PathText(path) == CHOOSE n \in DOMAIN PathOrder : PathOrder[n] = path

Rows(d, list) ==
    CASE list = "library" ->
           {BookKey(i, d.books[i]) : i \in {i \in DOMAIN d.books : d.books[i].favorite}}
      [] list = "shortcuts" -> {<<d.shortcuts[k].at, k>> : k \in DOMAIN d.shortcuts}
      [] list = "history" -> {<<d.history[p].at, p[1], PathText(p[2])>> : p \in DOMAIN d.history}

(* The cursor of the history writes the descriptor again, from a value      *)
(* whose keys are sorted: another text than the stored one, whose tag comes *)
(* first, and less than any stored one.                                    *)
Alphabetical(source) == source - Max(Sources)

CursorOf(list, row) ==
    IF list = "history" THEN [row EXCEPT ![2] = Alphabetical(@)] ELSE row

(* Mutant of After: rows of the time of the cursor are not told apart.      *)
AfterByTime(list, row, c) ==
    IF list = "library" THEN Greater(c, row) ELSE row[1] < c[1]

(* The conditions of the three queries.                                    *)
After(list, row, c) ==
    CASE list = "library" /\ c[1] = 1 ->
           \/ row[1] = 0
           \/ row[2] < c[2]
           \/ row[2] = c[2] /\ (row[3] < c[3] \/ (row[3] = c[3] /\ row[4] < c[4]))
      [] list = "library" /\ c[1] = 0 ->
           row[1] = 0 /\ (row[3] < c[3] \/ (row[3] = c[3] /\ row[4] < c[4]))
      [] list = "shortcuts" ->
           row[1] < c[1] \/ (row[1] = c[1] /\ row[2] < c[2])
      [] list = "history" ->
           \/ row[1] < c[1]
           \/ row[1] = c[1] /\ (row[2] < c[2] \/ (row[2] = c[2] /\ row[3] < c[3]))

LimitOf(n) == IF n < 1 THEN 1 ELSE IF n > 500 THEN 500 ELSE n

(* A page that is full has a cursor, the key of its last row.              *)
Page(list, candidates) ==
    LET sorted == SetToSortSeq(candidates, Greater)
        items == SubSeq(sorted, 1, Min({LimitOf(PageLimit), Len(sorted)}))
    IN [items |-> items,
        cursor |-> IF Len(items) = LimitOf(PageLimit) THEN CursorOf(list, items[Len(items)]) ELSE <<>>]

-----------------------------------------------------------------------------
(* history_export.rs: every row of the history, the last visited first,     *)
(* with what the joined tables say; rows of a descriptor that cannot be     *)
(* read, or of an archive on an origin it has no fields for, are warnings.  *)

Item(d, p) ==
    LET b == d.history[p].book
        joined == b # Nothing /\ b \in DOMAIN d.books
        read == joined /\ b \in DOMAIN d.progress
    IN [place |-> p,
        liked |-> joined /\ d.books[b].favorite,
        page |-> IF read THEN d.progress[b].page ELSE Nothing,
        finished |-> IF read THEN d.progress[b].finished ELSE Nothing]

Export(d) ==
    LET known == {p \in DOMAIN d.history : p[1] \notin Unsupported}
    IN [items |-> [n \in DOMAIN SetToSeq(known) |->
                      Item(d, SetToSortSeq(known, LAMBDA p, q : d.history[p].at > d.history[q].at)[n])],
        warnings |-> Cardinality(DOMAIN d.history \ known)]

-----------------------------------------------------------------------------
NoPager == [list |-> Nothing, cursor |-> <<>>, shown |-> <<>>, steady |-> {}, done |-> FALSE]

Init == /\ db \in Tables
        /\ pager = NoPager
        /\ edits = 0
        /\ made = {}

(* The commands that change a table, on places that are not refused.       *)
Edits(d) ==
    LET paths == {r \in RawPaths : ~Refused(r)}
    IN UNION {
         {CreateShortcut(d, s, r) : s \in Sources, r \in paths},
         {RecordHistory(d, s, r, b) : s \in Sources, r \in paths, b \in {Nothing}},
         UNION {{RecordHistory(d, s, r, b) : b \in FindId(d, s, r)} : s \in Sources, r \in paths},
         {ResetProgress(d, s, r) : s \in Sources, r \in RawPaths},
         {SetFavorite(d, i, f) : i \in DOMAIN d.books, f \in BOOLEAN},
         {SaveProgress(d, i, 1, n, f) : i \in DOMAIN d.books, n \in {Keep, "img"}, f \in {Keep, "yes", "no"}},
         {MarkFinished(d, i, f) : i \in DOMAIN d.books, f \in BOOLEAN},
         {AddBookmark(d, i, 1) : i \in DOMAIN d.books},
         {RemoveBookmark(d, k) : k \in DOMAIN d.bookmarks},
         {DeleteShortcut(d, k) : k \in DOMAIN d.shortcuts},
         {DeleteHistory(d, p) : p \in DOMAIN d.history},
         {CreateTag(d, n) : n \in {"t"} \ {d.tags[t] : t \in DOMAIN d.tags}},
         {DeleteTag(d, t) : t \in DOMAIN d.tags},
         {AddBookTag(d, i, t) : i \in DOMAIN d.books, t \in DOMAIN d.tags},
         {RemoveBookTag(d, b[1], b[2]) : b \in d.bookTags},
         {SetSetting(d, "fb_sort_field", v) : v \in {"name", "size"}},
         {SetDirectorySort(d, "p", "size", a) : a \in BOOLEAN},
         {SetDirectoryMasonry(d, "p", c, g) : c \in {Nothing, 2}, g \in {Nothing, 1}}}

Command == /\ edits < MaxEdits
           /\ \E d \in Edits(db) : d.nextId <= MaxId + 1 /\ db' = d
           /\ edits' = edits + 1
           /\ UNCHANGED <<pager, made>>

Create(s, raw) ==
    /\ edits < MaxEdits /\ db.nextId <= MaxId
    /\ ~Refused(raw)
    /\ \E favorite \in BOOLEAN : db' = CreateBook(db, s, raw, favorite)
    /\ edits' = edits + 1
    /\ LET place == <<s, ValidateSourceRelative(raw)>>
       IN made' = made \cup {<<s, raw, i>> : i \in {i \in DOMAIN db'.books : db'.books[i].place = place}}
    /\ UNCHANGED pager

Tick == /\ db.now < MaxNow
        /\ db' = [db EXCEPT !.now = @ + 1]
        /\ UNCHANGED <<pager, edits, made>>

Shows(list, candidates, before) ==
    LET page == Page(list, candidates)
    IN pager' = [list |-> list, cursor |-> page.cursor, shown |-> before.shown \o page.items,
                 steady |-> IF before.list = Nothing THEN Rows(db, list) ELSE before.steady \cap Rows(db, list),
                 done |-> page.cursor = <<>>]

OpenList(list) ==
    /\ pager = NoPager
    /\ Shows(list, Rows(db, list), NoPager)
    /\ UNCHANGED <<db, edits, made>>

NextPage ==
    /\ pager.list # Nothing /\ ~pager.done
    /\ Shows(pager.list, {r \in Rows(db, pager.list) : After(pager.list, r, pager.cursor)}, pager)
    /\ UNCHANGED <<db, edits, made>>

Next == \/ Command \/ Tick \/ NextPage
        \/ \E s \in Sources, raw \in RawPaths : Create(s, raw)
        \/ \E list \in Lists : OpenList(list)

Spec == Init /\ [][Next]_vars

-----------------------------------------------------------------------------
(* A list read page by page, with commands between the pages, shows every   *)
(* row that was on it all the time once, in the order of the list           *)
(* (list_library, list_shortcuts, list_history; from_page).                *)
PagesComplete ==
    /\ pager.done => pager.steady \subseteq ToSet(pager.shown)
    /\ \A i \in 1 .. Len(pager.shown) - 1 : Greater(pager.shown[i], pager.shown[i + 1])

(* One book to a place, however its path was written: the id create_book    *)
(* gave is the one every later look-up finds, the history names no other,   *)
(* and the export says of each place it can what the tables say of it.      *)
PlacesAgree ==
    /\ \A m \in made : FindId(db, m[1], m[2]) = {m[3]}
    /\ \A p \in DOMAIN db.history :
         db.history[p].book # Nothing => db.books[db.history[p].book].place = p
    /\ LET doc == Export(db) IN
         /\ Len(doc.items) + doc.warnings = Cardinality(DOMAIN db.history)
         /\ \A n \in DOMAIN doc.items :
              LET book == {i \in DOMAIN db.books : db.books[i].place = doc.items[n].place}
              IN /\ doc.items[n].liked => \E i \in book : db.books[i].favorite
                 /\ doc.items[n].finished = TRUE => \E i \in book : db.progress[i].finished
=============================================================================
