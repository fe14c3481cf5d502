----------------------------- MODULE Migrations -----------------------------
(***************************************************************************)
(* The upgrade of the library's database at the start of the program       *)
(* (db/migrations.rs, db/mod.rs): eighteen numbered migrations, each run   *)
(* statement by statement and then recorded in _migrations.                *)
(*                                                                         *)
(* No transaction encloses a migration and its record, so every statement  *)
(* is committed by itself: a program that ends between two of them leaves  *)
(* the statements done and the migration unrecorded, and the next start    *)
(* runs the whole of it again.  Statements are modelled with what makes    *)
(* SQLite refuse them (a table or a column that is there already, a table  *)
(* that is missing, a key that is taken).  A table is the pair <<table,    *)
(* Rows>>; a column added later and an index are pairs <<table, name>>.    *)
(***************************************************************************)
EXTENDS Naturals, Sequences, SequencesExt

CONSTANTS
    Disks,      \* the databases earlier releases may have left
    MaxCrashes  \* ends of the program in the middle of an upgrade (a bound)

VARIABLES disk, start, before

vars == <<disk, start, before>>

Last18 == 18
Rows == "rows"

-----------------------------------------------------------------------------
(* Statements on the schema.                                               *)

Create(t) == [do |-> "create", table |-> t, name |-> Rows]
CreateIfMissing(t) == [do |-> "add if missing", table |-> t, name |-> Rows]
AddColumn(t, c) == [do |-> "add", table |-> t, name |-> c]
IndexIfMissing(t, i) == [do |-> "add if missing", table |-> t, name |-> i]
DropTable(t) == [do |-> "drop", table |-> t, name |-> Rows]
DropIfThere(t, n) == [do |-> "drop if there", table |-> t, name |-> n]
Rename(t, u) == [do |-> "rename", table |-> t, name |-> u]

Schema == {"create", "add", "add if missing", "drop", "drop if there", "rename"}

Tables(facts) == {f[1] : f \in facts}

(* What SQLite refuses: to make what is there, to change what is not.      *)
Denied(facts, s) ==
    CASE s.do = "create" -> s.table \in Tables(facts)
      [] s.do = "add" -> \/ s.table \notin Tables(facts)
                         \/ <<s.table, s.name>> \in facts
      [] s.do = "add if missing" -> s.name # Rows /\ s.table \notin Tables(facts)
      [] s.do = "drop" -> s.table \notin Tables(facts)
      [] s.do = "drop if there" -> FALSE
      [] s.do = "rename" -> s.table \notin Tables(facts) \/ s.name \in Tables(facts)

(* The columns and the indexes of a table go with it.                      *)
After(facts, s) ==
    CASE s.do \in {"create", "add", "add if missing"} -> facts \cup {<<s.table, s.name>>}
      [] s.do \in {"drop", "drop if there"} /\ s.name = Rows ->
            {f \in facts : f[1] # s.table}
      [] s.do = "drop if there" -> facts \ {<<s.table, s.name>>}
      [] s.do = "rename" ->
            {IF f[1] = s.table THEN <<s.name, f[2]>> ELSE f : f \in facts}

-----------------------------------------------------------------------------
(* Statements on rows.                                                     *)

Data(kind, arg) == [do |-> kind, arg |-> arg]

(* Two texts of one descriptor: the order of the keys changed ("old" to    *)
(* "new"); a text that cannot be parsed stands for itself.                 *)
Canonical(text) == IF text = "old" THEN "new" ELSE text

Same(a, b) == Canonical(a.text) = Canonical(b.text) /\ a.place = b.place

(* 007: one row after another into the new table.                          *)
CopyShortcut(d, row) == [d EXCEPT !.copies = @ \cup {row}]

(* 011: the likes become a column of the library.                          *)
MergeLikes(d) ==
    [d EXCEPT !.library = {[b EXCEPT !.fav = @ \/ b.id \in d.likes] : b \in @}]

Insert(d, keys) == [d EXCEPT !.settings = [k \in keys |-> "default"] @@ @]
InsertOrIgnore(d, keys) == [d EXCEPT !.settings = @ @@ [k \in keys |-> "default"]]
DeleteKeys(d, keys) ==
    [d EXCEPT !.settings = [k \in DOMAIN @ \ keys |-> @[k]]]

(* Mutant of YieldProgress: the row that stays keeps its own place.        *)
YieldToKeep(d, m) ==
    LET loser == IF m.keep \in DOMAIN d.progress THEN m.old ELSE m.keep
    IN IF m.old \notin DOMAIN d.progress THEN d
       ELSE [d EXCEPT !.progress = [i \in DOMAIN @ \ {loser} |-> @[i]]]

(* 013, references of a book that goes to the one that stays: of two       *)
(* places of reading the newer, the other is deleted, and then it moves.   *)
YieldProgress(d, m) ==
    LET loser == IF m.keep \in DOMAIN d.progress /\ d.progress[m.keep] >= d.progress[m.old]
                 THEN m.old ELSE m.keep
    IN IF m.old \notin DOMAIN d.progress THEN d
       ELSE [d EXCEPT !.progress = [i \in DOMAIN @ \ {loser} |-> @[i]]]

MoveProgress(d, m) ==
    IF m.old \notin DOMAIN d.progress THEN d
    ELSE [d EXCEPT !.progress = (m.keep :> @[m.old])
                                @@ [i \in DOMAIN @ \ {m.old} |-> @[i]]]

MoveBookmarks(d, m) ==
    [d EXCEPT !.bookmarks = {IF k.book = m.old THEN [k EXCEPT !.book = m.keep] ELSE k : k \in @}]

MoveTags(d, m) ==
    [d EXCEPT !.tags = {IF t[1] = m.old THEN <<m.keep, t[2]>> ELSE t : t \in @}]

DeleteBook(d, m) == [d EXCEPT !.library = {b \in @ : b.id # m.old}]

RewriteBook(d, id) ==
    [d EXCEPT !.library = {IF b.id = id THEN [b EXCEPT !.text = Canonical(@)] ELSE b : b \in @}]

Execute(d, s) ==
    CASE s.do \in Schema -> [d EXCEPT !.facts = After(@, s),
                                      !.likes = IF s.table = "like" /\ s.do = "drop if there" THEN {} ELSE @,
                                      !.shortcuts = IF s = Rename("shortcut_new", "shortcut") THEN d.copies ELSE @,
                                      !.history = IF s = DropIfThere("browse_history", Rows) THEN {} ELSE @]
      [] s.do = "insert" -> Insert(d, s.arg)
      [] s.do = "insert or ignore" -> InsertOrIgnore(d, s.arg)
      [] s.do = "delete keys" -> DeleteKeys(d, s.arg)
      [] s.do = "copy" -> CopyShortcut(d, s.arg)
      [] s.do = "likes" -> MergeLikes(d)
      [] s.do = "total" -> [d EXCEPT !.total = d.thumbs]
      [] s.do = "wipe" -> [d EXCEPT !.history = {}]
      [] s.do = "visit" -> [d EXCEPT !.history = @ \cup {s.arg}]
      [] s.do = "yield" -> YieldProgress(d, s.arg)
      [] s.do = "move" -> MoveProgress(d, s.arg)
      [] s.do = "bookmarks" -> MoveBookmarks(d, s.arg)
      [] s.do = "tags" -> MoveTags(d, s.arg)
      [] s.do = "forget" -> DeleteBook(d, s.arg)
      [] s.do = "rewrite" -> RewriteBook(d, s.arg)

(* A key inserted twice, a subquery over a table that is gone, a book      *)
(* rewritten to a text and a place another book has.                       *)
Refused(d, s) ==
    CASE s.do \in Schema -> Denied(d.facts, s)
      [] s.do = "insert" -> s.arg \cap DOMAIN d.settings # {}
      [] s.do = "likes" -> "like" \notin Tables(d.facts)
      [] s.do = "rewrite" -> \E a, b \in d.library : /\ a.id = s.arg
                                                      /\ b.id # s.arg
                                                      /\ b.text = Canonical(a.text)
                                                      /\ b.place = a.place
      [] OTHER -> FALSE

-----------------------------------------------------------------------------
(* 013: rows of one place in both texts become one.                        *)

Newest(rows) == CHOOSE r \in rows : \A q \in rows : q.at <= r.at

(* The row visited last stands for its group and has the visits of all.    *)
Visits(rows) == FoldSet(LAMBDA r, n : r.visits + n, 0, rows)

Merged(history) ==
    {[Newest(g) EXCEPT !.text = Canonical(@), !.visits = Visits(g)] :
        g \in {{r \in history : Same(r, q)} : q \in history}}

CanonicalizeHistory(d) ==
    {<<Data("wipe", {})>> \o order :
        order \in SetToSeqs({Data("visit", r) : r \in Merged(d.history)})}

(* Every book but the last of its group, with the one that stays.          *)
Remap(d) ==
    {[old |-> b.id, keep |-> Max({c.id : c \in {c \in d.library : Same(b, c)}})] :
        b \in {b \in d.library : \E c \in d.library : Same(b, c) /\ c.id > b.id}}

References(m) ==
    <<Data("yield", m), Data("move", m), Data("bookmarks", m), Data("tags", m), Data("forget", m)>>

Rewrites(d) ==
    SetToSeq({Data("rewrite", b.id) : b \in {b \in d.library : Canonical(b.text) # b.text}})

(* Mutant of CanonicalizeLibrary: the texts first, the duplicates after.   *)
RewriteFirst(d) ==
    {Rewrites(d) \o FlattenSeq([i \in DOMAIN order |-> References(order[i])]) :
        order \in SetToSeqs(Remap(d))}

CanonicalizeLibrary(d) ==
    {FlattenSeq([i \in DOMAIN order |-> References(order[i])]) \o Rewrites(d) :
        order \in SetToSeqs(Remap(d))}

-----------------------------------------------------------------------------
(* The migrations, by number.                                              *)

Seeds == {"touch", "archive_cache_size_mb", "locale"}
Retention == {"history_retention_days"}

Init001 == [i \in 1 .. 9 |->
              Create(<<"book", "progress", "bookmark", "like", "browse_history",
                       "account", "tag", "book_tag", "settings">>[i])]
           \o <<Data("insert", Seeds \ {"touch"}), Data("insert", {"touch"})>>

BookUnique004 ==
    <<IndexIfMissing("book", "idx_book_source_descriptor"),
      IndexIfMissing("browse_history", "idx_browse_history_source_descriptor")>>

LibraryColumns == <<"source_type", "absolute_path", "cover_entry_path",
                    "cover_entry_name", "page_count", "added_at">>

Redesign005 ==
    <<Rename("book", "library"),
      DropIfThere("library", "idx_library_source_descriptor"),
      DropIfThere("library", "idx_book_source_descriptor")>>
    \o [i \in DOMAIN LibraryColumns |-> AddColumn("library", LibraryColumns[i])]
    \o <<IndexIfMissing("library", "idx_library_source_path"),
         DropIfThere("browse_history", Rows),
         Create("browse_history"),
         AddColumn("browse_history", "idx_browse_history_last_visited"),
         Create("directory_sort")>>

CrossSource007(d) ==
    {<<Create("shortcut_new")>> \o order
        \o <<DropTable("shortcut"), Rename("shortcut_new", "shortcut")>> :
        order \in SetToSeqs({Data("copy", r) : r \in d.shortcuts})}

Shortcuts002 == <<Create("shortcut")>>
FinishedFlag003 == <<AddColumn("progress", "finished")>>
HistoryBookId006 == <<AddColumn("browse_history", "book_id")>>
DirectoryMasonry008 == <<Create("directory_masonry")>>
ThumbnailCache009 ==
    <<Create("thumbnail_cache"), AddColumn("thumbnail_cache", "idx_thumbnail_cache_lru")>>
ImageName010 == <<AddColumn("progress", "image_name")>>

Likes011 == <<Data("likes", {}), DropIfThere("like", Rows)>>

Retention012 ==
    <<AddColumn("browse_history", "visit_count"),
      AddColumn("browse_history", "last_cleanup_candidate_at"),
      CreateIfMissing("maintenance_state"),
      IndexIfMissing("library", "idx_library_favorite_read"),
      IndexIfMissing("shortcut", "idx_shortcut_created_at"),
      IndexIfMissing("bookmark", "idx_bookmark_book_page"),
      IndexIfMissing("book_tag", "idx_book_tag_tag_book"),
      IndexIfMissing("browse_history", "idx_browse_history_cleanup"),
      DropIfThere("thumbnail_cache", "idx_thumbnail_cache_lru"),
      IndexIfMissing("thumbnail_cache", "idx_thumbnail_cache_lru_key"),
      Data("insert or ignore", Retention),
      Data("total", {})>>

Dedupe013(d) ==
    {h \o l : h \in CanonicalizeHistory(d), l \in CanonicalizeLibrary(d)}

DropTouchZone014 == <<Data("delete keys", {"touch"})>>
PositionKind015 == <<AddColumn("bookmark", "position_kind")>>
ArchiveCache016 == <<Create("archive_cache")>>
AcceptInvalidTls017 == <<AddColumn("account", "accept_invalid_tls")>>
DropCacheSizeKey018 == <<Data("delete keys", {"archive_cache_size_mb"})>>

(* The statements of migration v on database d, in every order they may    *)
(* come (013 goes through the groups of a hash map).                       *)
Statements(v, d) ==
    CASE v = 7 -> CrossSource007(d)
      [] v = 13 -> Dedupe013(d)
      [] OTHER ->
          {<<Init001, Shortcuts002, FinishedFlag003, BookUnique004, Redesign005, HistoryBookId006,
             <<>>, DirectoryMasonry008, ThumbnailCache009, ImageName010, Likes011, Retention012,
             <<>>, DropTouchZone014, PositionKind015, ArchiveCache016, AcceptInvalidTls017,
             DropCacheSizeKey018>>[v]}

-----------------------------------------------------------------------------
(* run: what is above the last recorded number, in order, each recorded    *)
(* when its statements are done.                                           *)

Init == /\ disk \in Disks
        /\ before = disk
        /\ start = [stage |-> "down", v |-> 0, applying |-> FALSE, dirty |-> FALSE,
                    todo |-> <<>>, cuts |-> {}, crashes |-> 0]

Open == /\ start.stage = "down"
        /\ start' = [start EXCEPT !.stage = "up", !.v = disk.version]
        /\ UNCHANGED <<disk, before>>

Begin == /\ start.stage = "up" /\ ~start.applying /\ start.v < Last18
         /\ \E todo \in Statements(start.v + 1, disk) :
              start' = [start EXCEPT !.v = @ + 1, !.applying = TRUE, !.dirty = FALSE, !.todo = todo]
         /\ UNCHANGED <<disk, before>>

Step == /\ start.stage = "up" /\ start.applying /\ start.todo # <<>>
        /\ ~Refused(disk, Head(start.todo))
        /\ disk' = Execute(disk, Head(start.todo))
        /\ start' = [start EXCEPT !.todo = Tail(@), !.dirty = TRUE]
        /\ UNCHANGED before

(* An error ends the start: init fails and with it the program.            *)
Fail == /\ start.stage = "up" /\ start.applying /\ start.todo # <<>>
        /\ Refused(disk, Head(start.todo))
        /\ start' = [start EXCEPT !.stage = "refused", !.applying = FALSE, !.todo = <<>>]
        /\ UNCHANGED <<disk, before>>

Record == /\ start.stage = "up" /\ start.applying /\ start.todo = <<>>
          /\ disk' = [disk EXCEPT !.version = start.v]
          /\ start' = [start EXCEPT !.applying = FALSE, !.dirty = FALSE]
          /\ UNCHANGED before

Ready == /\ start.stage = "up" /\ ~start.applying /\ start.v = Last18
         /\ start' = [start EXCEPT !.stage = "ready"]
         /\ UNCHANGED <<disk, before>>

Crash == /\ start.stage = "up" /\ start.crashes < MaxCrashes
         /\ start' = [start EXCEPT !.stage = "down", !.crashes = @ + 1,
                                   !.applying = FALSE, !.dirty = FALSE, !.todo = <<>>,
                                   !.cuts = IF start.dirty THEN @ \cup {start.v} ELSE @]
         /\ UNCHANGED <<disk, before>>

Again == /\ start.stage \in {"ready", "refused"}
         /\ start' = [start EXCEPT !.stage = "down"]
         /\ UNCHANGED <<disk, before>>

Next == Open \/ Begin \/ Step \/ Fail \/ Record \/ Ready \/ Crash \/ Again

Spec == Init /\ [][Next]_vars

-----------------------------------------------------------------------------
(* The migrations whose statements may run twice, by what they are.        *)
Repeatable == {4, 13, 14, 18}

(* A start is refused only after an earlier one was cut inside a migration *)
(* that cannot run twice, whatever release left the database: no statement *)
(* meets what an earlier one left, a duplicate is gone before its text is  *)
(* written to the row that stays (run 9-158, canonicalize_library).        *)
RefusedOnlyWhenCut ==
    start.stage = "refused" => start.cuts \ Repeatable # {}

Final ==
    FoldLeft(LAMBDA f, s : IF s.do \in Schema THEN After(f, s) ELSE f, {},
             FlattenSeq([v \in 1 .. Last18 |->
                 CHOOSE t \in Statements(v, [before EXCEPT !.shortcuts = {}, !.history = {}, !.library = {}]) : TRUE]))

Group(b) == {c \in before.library : Same(b, c)}
Survivor(b) == Max({c.id : c \in Group(b)})
Latest(b) == {before.progress[c.id] : c \in {c \in Group(b) : c.id \in DOMAIN before.progress}}

(* What a user had is there after the upgrade, from any release and        *)
(* through cuts in the migrations that can run twice: each book once,      *)
(* under the newest of its rows, with the latest of its places of reading, *)
(* its bookmarks and its tags; the likes; the shortcuts; changed settings; *)
(* the schema of a fresh database; and the visits of a place, counted once  *)
(* under its last one, unless 013 was cut, which deletes them all before it *)
(* writes them back (canonicalize_browse_history).                         *)
UpgradeKeeps ==
    (start.stage = "ready" /\ start.cuts \subseteq Repeatable) =>
        /\ disk.facts = Final
        /\ \A b \in before.library :
             /\ Cardinality({c \in disk.library : Same(b, c)}) = 1
             /\ \E c \in disk.library : c.id = Survivor(b) /\ c.text = Canonical(b.text)
             /\ IF Latest(b) = {} THEN Survivor(b) \notin DOMAIN disk.progress
                ELSE /\ Survivor(b) \in DOMAIN disk.progress
                     /\ disk.progress[Survivor(b)] = Max(Latest(b))
             /\ (b.id = Survivor(b) /\ b.id \in before.likes) =>
                    \E c \in disk.library : c.id = b.id /\ c.fav
        /\ {[k EXCEPT !.book = 0] : k \in disk.bookmarks} = {[k EXCEPT !.book = 0] : k \in before.bookmarks}
        /\ {k.book : k \in disk.bookmarks} \cup {t[1] : t \in disk.tags} \subseteq {b.id : b \in disk.library}
        /\ {t[2] : t \in disk.tags} = {t[2] : t \in before.tags}
        /\ disk.shortcuts = before.shortcuts
        /\ disk.total = disk.thumbs
        /\ \A k \in {"locale"} \cap DOMAIN before.settings : disk.settings[k] = before.settings[k]
        /\ (before.version >= 5 /\ 13 \notin start.cuts) =>
             \A r \in before.history :
               LET visits == {h \in before.history : Same(h, r)}
               IN \E q \in disk.history :
                    /\ {h \in disk.history : Same(h, r)} = {q}
                    /\ q.visits = Visits(visits) /\ q.at = Newest(visits).at
=============================================================================
