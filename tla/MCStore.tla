------------------------------- MODULE MCStore -------------------------------
(* The five machines that work on the database, checked in one run: "focus"  *)
(* names the one whose steps a behaviour takes, the others rest in one of    *)
(* their first states. They share tables, and none of the properties is      *)
(* about two of them.  The reader and the maintenance of the history    *)
(* are extended, the others are instances.                                   *)
EXTENDS Reader, Maintenance, TLC

CONSTANTS Disks, MaxCrashes, placeA, placeB, placeC, Keep, LibraryTables, CvTables,
          RawPaths, PathOrder, Folders

VARIABLES focus, disk, start, before,
          db, pager, libEdits, made, cvDb, cvPager, cvEdits, cvMade, folder, reader, cv, flow

Mig == INSTANCE Migrations

Lib == INSTANCE Library
         WITH edits <- libEdits, Sources <- {1, 2}, Unsupported <- {2}, Tables <- LibraryTables,
              Lists <- {"library", "shortcuts"}, PageLimit <- 2, MaxEdits <- 2, MaxId <- 4, MaxNow <- 2

Cv == INSTANCE CrossVolume
        WITH db <- cvDb, pager <- cvPager, edits <- cvEdits, made <- cvMade, Sources <- {1},
             Unsupported <- {}, PathOrder <- {}, RawPaths <- {}, Tables <- CvTables, Lists <- {},
             PageLimit <- 2, MaxEdits <- 1, MaxId <- 9, MaxNow <- 1, Source <- 1,
             ParentPath <- <<"p">>, Modes <- {"auto", "manual", "force"}, MaxAsks <- 1

\* Two books.
MCBooks == {placeA, placeB}

\* The databases of MCMigrations.
Releases == INSTANCE MCMigrations WITH Disks <- {}
MCDisks == Releases!MCDisks

\* Three folders, one of them pinned: two rows with a window of one unit, one row with a rule of days.
Row(t, n) == [at |-> t, visits |-> n]
MCHistories == {placeA :> Row(-3, 1) @@ placeB :> Row(-3, 1) @@ placeC :> Row(-2, 2),
                placeA :> Row(-4, 1) @@ placeC :> Row(-3, 3)}
MCPlaces == {placeA, placeB, placeC}
MCPinned == {placeA}
MCConfigs == {[max |-> 2, days |-> 0, protect |-> 1, auto |-> TRUE],
              [max |-> 1, days |-> 4, protect |-> 0, auto |-> FALSE],
              [max |-> 1, days |-> 4, protect |-> 1, auto |-> TRUE]}

\* Two folders of one source, one of them written in two ways, one path that is refused; tables with
\* three rows of one second on a list.
Raw(kind, segs) == [kind |-> kind, segs |-> segs]
MCRawPaths == {Raw("relative", <<"a">>), Raw("relative", <<"a", "">>),
               Raw("relative", <<"b">>), Raw("relative", <<"a", "..">>), Raw("absolute", <<"a">>)}
MCPathOrder == <<<<"a">>, <<"b">>, <<"c">>>>

Empty == [books |-> EmptyMap, progress |-> EmptyMap, history |-> EmptyMap, bookmarks |-> EmptyMap,
          shortcuts |-> EmptyMap, tags |-> EmptyMap, bookTags |-> {}, settings |-> EmptyMap,
          sorts |-> EmptyMap, masonry |-> EmptyMap, nextId |-> 1, now |-> 1]
Book(path, added, read) == [place |-> <<1, path>>, favorite |-> TRUE, added |-> added, read |-> read]
At(path, t) == [place |-> <<1, path>>, at |-> t]
Seen(t) == [at |-> t, book |-> Nothing, visits |-> 1]
MCLibraryTables ==
    {Empty,
     [Empty EXCEPT !.books = 1 :> Book(<<"a">>, 1, Nothing) @@ 2 :> Book(<<"b">>, 1, Nothing)
                             @@ 3 :> Book(<<"c">>, 1, 1), !.nextId = 4],
     [Empty EXCEPT !.shortcuts = 1 :> At(<<"a">>, 1) @@ 2 :> At(<<"b">>, 1) @@ 3 :> At(<<"c">>, 1),
                   !.history = <<1, <<"a">>>> :> Seen(1) @@ <<1, <<"b">>>> :> Seen(1) @@ <<1, <<"c">>>> :> Seen(1),
                   !.nextId = 4]}

\* A folder of four volumes and a file: two names the natural order does not tell apart, sizes that
\* are equal, and dates; one volume has been read.
Text(r) == [kind |-> "text", rank |-> r]
Number(d) == [kind |-> "number", digits |-> d]
Entry(name, parts, modified, dir) ==
    [name |-> name, parts |-> parts, dir |-> dir, size |-> 0, modified |-> modified]
Vol10 == Entry("v10", <<Text(1), Number(<<1, 0>>)>>, 3, TRUE)
Vol2 == Entry("v2", <<Text(1), Number(<<2>>)>>, 5, TRUE)
Vol02 == Entry("V02", <<Text(1), Number(<<0, 2>>)>>, 5, TRUE)
Note == Entry("a.txt", <<Text(2)>>, 1, FALSE)
Sp == Entry("v sp", <<Text(3)>>, 1, TRUE)
MCFolders == {<<Vol10, Note, Vol2, Vol02, Sp>>, <<Vol02, Sp, Vol2>>}
MCCvTables ==
    {[Empty EXCEPT !.books = 1 :> Book(<<"p", "v2">>, 1, Nothing) @@ 2 :> Book(<<"p", "v10">>, 1, Nothing),
                   !.progress = 1 :> [page |-> 0, name |-> Nothing, finished |-> TRUE, at |-> 0],
                   !.nextId = 3]}

migVars == <<disk, start, before>>
libVars == <<db, pager, libEdits, made>>
cvVars == <<cvDb, cvPager, cvEdits, cvMade, folder, reader, cv, flow>>
storeVars == <<focus, migVars, historyVars, libVars, cvVars, vars>>

First(S) == CHOOSE x \in S : TRUE

StoreInit ==
    /\ focus \in {"migrations", "maintenance", "library", "volumes", "reader"}
    /\ Mig!Init /\ (focus # "migrations" => disk = First(Disks))
    /\ HistoryInit /\ (focus # "maintenance" => history = First(FirstHistories) /\ cfg = First(Configs))
    /\ Lib!Init /\ (focus # "library" => db = First(LibraryTables))
    /\ Cv!CvInit
    /\ focus # "volumes" => folder = First(Folders) /\ reader.at = folder[1].name
    /\ Init /\ (focus # "reader" => mode = "single")

MigrationsStep == focus = "migrations" /\ Mig!Next /\ UNCHANGED <<focus, historyVars, libVars, cvVars, vars>>
MaintenanceStep == focus = "maintenance" /\ HistoryNext /\ UNCHANGED <<focus, migVars, libVars, cvVars, vars>>
LibraryStep == focus = "library" /\ Lib!Next /\ UNCHANGED <<focus, migVars, historyVars, cvVars, vars>>
VolumesStep == focus = "volumes" /\ Cv!CvNext /\ UNCHANGED <<focus, migVars, historyVars, libVars, vars>>
ReaderStep == focus = "reader" /\ Next /\ UNCHANGED <<focus, migVars, historyVars, libVars, cvVars>>

VolumesWait == focus = "volumes" /\ Cv!Waits /\ UNCHANGED <<focus, migVars, historyVars, libVars, vars>>

StoreSpec == /\ StoreInit
             /\ [][MigrationsStep \/ MaintenanceStep \/ LibraryStep \/ VolumesStep \/ ReaderStep]_storeVars
             /\ WF_storeVars(VolumesWait)

(* A start is refused only after an earlier one was cut inside a migration   *)
(* that cannot run twice (Migrations: run, canonicalize_library).             *)
RefusedOnlyWhenCut == Mig!RefusedOnlyWhenCut

(* An upgrade keeps what the user made, through cuts in the migrations that   *)
(* can run twice (Migrations: canonicalize_library, canonicalize_browse_history). *)
UpgradeKeeps == Mig!UpgradeKeeps

(* An upgrade that is cut short can be taken up again and loses nothing the   *)
(* user made, where its migrations can run twice (Migrations: run).           *)
UpgradesSafe == RefusedOnlyWhenCut /\ UpgradeKeeps

(* A list read page by page shows every row that was on it all the time once, *)
(* in order (Library: from_page, decode_cursor and the lists).                *)
PagesComplete == Lib!PagesComplete

(* One book to a place, however its path was written (Library:                *)
(* find_library_id_by_location, validate_source_relative).                    *)
PlacesAgree == Lib!PlacesAgree

(* The lists are true: complete across their pages, one book to a place       *)
(* (Library: the lists' cursors, find_library_id_by_location).                *)
ListsTrue == PagesComplete /\ PlacesAgree

(* The answer is the neighbour in the order the browser shows the folder in   *)
(* (CrossVolume: pick_sibling_where, resolve_sibling_sort).                   *)
NextAsListed == Cv!NextAsListed

(* The controller of the crossing does not stay busy (CrossVolume: the ways   *)
(* out of useCrossVolume.ts).                                                 *)
FlowEnds == Cv!FlowEnds
=============================================================================
