---------------------------- MODULE MCMigrations ----------------------------
(* Databases of five releases: none, 002 with shortcuts, 010 with likes,    *)
(* and 012 with up to three rows of one folder in both texts.               *)
EXTENDS Migrations

Empty == [version |-> 0, facts |-> {}, settings |-> <<>>, library |-> {}, progress |-> <<>>,
          bookmarks |-> {}, tags |-> {}, likes |-> {}, history |-> {}, shortcuts |-> {},
          copies |-> {}, thumbs |-> 0, total |-> 0]

(* The schema migrations 1 to v leave, with the settings they seed.         *)
At(v) ==
    [Empty EXCEPT
       !.version = v,
       !.facts = FoldLeft(LAMBDA f, s : IF s.do \in Schema THEN After(f, s) ELSE f, {},
                     FlattenSeq([i \in 1 .. v |-> CHOOSE t \in Statements(i, Empty) : TRUE])),
       !.settings = [k \in Seeds |-> "default"] @@ (IF v < 12 THEN <<>> ELSE [k \in Retention |-> "default"])]

Book(i, text, place) == [id |-> i, text |-> text, place |-> place, fav |-> FALSE]
Visit(text, place, at, n) == [text |-> text, place |-> place, at |-> at, visits |-> n]

Disks002 ==
    {[At(v) EXCEPT !.shortcuts = s, !.settings["locale"] = "user"] :
        v \in {2, 6}, s \in {{}, {"c", "d"}}}

Disks010 ==
    {[At(10) EXCEPT !.library = {Book(1, "old", "a"), Book(2, "old", "b")},
                    !.likes = l, !.shortcuts = {"c"}, !.thumbs = 3] :
        l \in SUBSET {1, 2}}

Libraries ==
    {{Book(1, "old", "a"), Book(2, "new", "a")},
     {Book(1, "old", "a"), Book(2, "new", "a"), Book(3, "bad", "a")},
     {Book(1, "new", "a"), Book(2, "old", "b"), Book(3, "old", "a")}}

Histories ==
    {{Visit("old", "a", 1, 2), Visit("new", "a", 2, 1)},
     {Visit("old", "a", 3, 1), Visit("new", "a", 2, 4), Visit("old", "b", 1, 1)}}

Disks012 ==
    {[At(12) EXCEPT !.library = l, !.progress = p, !.history = h, !.thumbs = 3, !.total = 3,
                    !.bookmarks = {[id |-> 1, book |-> 1], [id |-> 2, book |-> 2]},
                    !.tags = {<<1, "t">>, <<2, "t">>, <<2, "u">>}] :
        l \in Libraries, h \in Histories,
        p \in {<<>>, 1 :> 2, (1 :> 2) @@ (2 :> 1), (1 :> 1) @@ (2 :> 2), (1 :> 1) @@ (2 :> 1)}}

MCDisks == {Empty} \cup Disks002 \cup Disks010 \cup Disks012
=============================================================================
