--------------------------------- MODULE Reader ---------------------------------
(***************************************************************************)
(* The reader (stores/reader.ts, stores/slideshow.ts, views/ReaderView.vue, *)
(* composables/useWebtoonProgress.ts and useCrossVolume.ts).               *)
(*                                                                         *)
(* The stores are there once; a view, with its loader, its timers and its  *)
(* controller of the crossing, is there once for each visit, and what it   *)
(* waits for comes back after it is gone.  Between the visits the stores,  *)
(* the route and the table of progress are all that is shared.             *)
(***************************************************************************)
EXTENDS Integers, Sequences, FiniteSets

CONSTANTS
    Books,
    PageCount,   \* pages of every book
    MaxVisits,   \* views in a behaviour, and
    MaxMoves,    \* steps of the user, and
    MaxLoads,    \* loads of one view (bounds)
    Nothing

ASSUME ReaderAssumption ==
    /\ Nothing \notin Books
    /\ PageCount \in Nat \ {0} /\ MaxVisits \in Nat

VARIABLES
    route,     \* the book the address names
    mounted,   \* the view on the screen, or 0
    views,     \* of each visit: [phase, seq, last, bottom, stable, marked, auto, cv]
    loads,     \* loads under way: [view, seq, book, explicit, plan]
    marks,     \* calls of markFinished under way: [view, book, latest, waiters]
    store,     \* the reader store: [book, spreads, at]
    debounce,  \* the save that waits for its timer: [book, at], and the plan it was made under
    show,      \* the slide show: [playing, pending, fromShow], and the view that raised the intent
    mode,      \* readerDefaultMode
    switching, \* modeSwitchInFlight
    finished,  \* books the table of progress has as finished
    reached,   \* books that stood on their end
    late,      \* books finished by a save that outlived the plan it was made under
    moves

vars == <<route, mounted, views, loads, marks, store, debounce, show, mode, switching,
          finished, reached, late, moves>>

Modes == <<"single", "double", "webtoon">>

(* SpreadPlanner.plan with the cover alone: the first pages of the spreads; *)
(* spreadIndexForPage, from 1.                                             *)
Plan(single) ==
    IF single THEN [i \in 1 .. PageCount |-> i - 1]
    ELSE [i \in 1 .. PageCount \div 2 + 1 |-> IF i = 1 THEN 0 ELSE 2 * i - 3]

SpreadOf(page, plan) == CHOOSE i \in DOMAIN plan :
    plan[i] <= page /\ (i = Len(plan) \/ page < plan[i + 1])

Closed == [book |-> Nothing, spreads |-> <<>>, at |-> 1]
IdleCv == [phase |-> "idle", by |-> "", start |-> Nothing, target |-> Nothing, resumes |-> FALSE,
           manual |-> FALSE, load |-> 0]
Unused == [phase |-> "idle", seq |-> 0, last |-> Nothing, bottom |-> FALSE, stable |-> FALSE,
           marked |-> FALSE, auto |-> Nothing, cv |-> IdleCv]

Init ==
    /\ route = Nothing /\ mounted = 0 /\ views = [v \in 1 .. MaxVisits |-> Unused]
    /\ loads = {} /\ marks = {} /\ store = Closed /\ debounce = Nothing
    /\ show = [playing |-> FALSE, pending |-> FALSE, fromShow |-> FALSE, raisedIn |-> 0]
    /\ mode \in {Modes[i] : i \in DOMAIN Modes} /\ switching = FALSE
    /\ finished = {} /\ reached = {} /\ late = {} /\ moves = 0

UserMoves == moves < MaxMoves /\ moves' = moves + 1
OnEnd(s) == s.book # Nothing /\ s.at = Len(s.spreads)
Stands(s) == IF OnEnd(s) THEN reached \cup {s.book} ELSE reached
ScreenUp == mounted # 0 /\ views[mounted].phase = "ready"
Paged == mode # "webtoon"

-----------------------------------------------------------------------------
(* What a step of a view does, on its record and the slide show.           *)

(* cancelAutoEnd also puts the answers out of date that are waited for.     *)
CancelAuto(w) == [w EXCEPT !.auto = Nothing]
Unwaited(v) == {[m EXCEPT !.waiters = IF m.view = v THEN @ \ {"auto"} ELSE @] : m \in marks}

(* The watches of reader.bookId: reset of useWebtoonProgress, unless no book *)
(* was there before.                                                       *)
BookChanged(w, next) ==
    IF next = store.book THEN w
    ELSE IF store.book = Nothing THEN CancelAuto(w)
    ELSE [CancelAuto(w) EXCEPT !.marked = FALSE, !.stable = FALSE]

(* The watches of webtoonAtBottom.                                         *)
AtBottom(w, bottom) ==
    CASE bottom /\ ~w.bottom -> [w EXCEPT !.bottom = TRUE, !.stable = @ \/ ~w.marked]
      [] ~bottom /\ w.bottom -> [CancelAuto(w) EXCEPT !.bottom = FALSE, !.stable = FALSE]
      [] OTHER -> w

Consumed(sh) == [sh EXCEPT !.pending = FALSE, !.fromShow = FALSE]
Paused(sh) == [sh EXCEPT !.playing = FALSE]

(* currentIdentity                                                         *)
Identity(w) == IF w.phase = "ready" /\ store.book = route THEN store.book ELSE Nothing

(* maybeContinue, up to the wait for the command.                          *)
MaybeContinue(w, sh, by, how) ==
    CASE w.cv.phase # "idle" -> [view |-> w, show |-> sh]
      [] w.cv.phase = "idle" /\ (w.phase # "ready" \/ Identity(w) = Nothing \/ how = "off") ->
           [view |-> w, show |-> Consumed(sh)]
      [] OTHER ->
           [view |-> [w EXCEPT !.cv = [IdleCv EXCEPT !.phase = "resolving", !.by = by, !.start = store.book,
                                                   !.manual = how = "manual",
                                                   !.resumes = how # "manual" /\ (sh.playing \/ sh.fromShow)]],
            show |-> sh]

ContinueModes == {"off", "auto", "manual"}

(* pendingNextVolume is set; the view on the screen hears it only when it   *)
(* was not set before.                                                     *)
Raise(w, sh, fromShow, by, how) ==
    LET raised == [sh EXCEPT !.pending = TRUE, !.fromShow = fromShow,
                             !.raisedIn = IF sh.pending THEN @ ELSE mounted]
    IN IF sh.pending THEN [view |-> w, show |-> raised] ELSE MaybeContinue(w, raised, by, how)

Become(v, outcome) == views' = [views EXCEPT ![v] = outcome.view] /\ show' = outcome.show

-----------------------------------------------------------------------------
(* Saves.  A save may fail, which changes nothing in the table.            *)

(* saveProgressForCurrentMode: a place in a webtoon says nothing of its end. *)
SaveNow ==
    finished' \in IF Paged /\ OnEnd(store) THEN {finished, finished \cup {store.book}} ELSE {finished}
CancelDebounce == IF Paged THEN Nothing ELSE debounce

DebounceFires ==
    /\ debounce # Nothing
    /\ debounce' = Nothing
    /\ LET last == debounce.at >= Len(store.spreads)
           stale == debounce.book # store.book \/ debounce.plan # store.spreads
       IN \/ /\ last /\ finished' = finished \cup {debounce.book}
             /\ late' = IF stale /\ debounce.book \notin finished THEN late \cup {debounce.book} ELSE late
          \/ UNCHANGED <<finished, late>>
    /\ UNCHANGED <<route, mounted, views, loads, marks, store, show, mode, switching, reached, moves>>

-----------------------------------------------------------------------------
(* Routes and loads.                                                       *)

(* loadRouteBook, up to its first wait; the screen goes down.               *)
Loading(w, book) ==
    IF book = w.last /\ w.phase = "ready" THEN w
    ELSE [w EXCEPT !.seq = @ + 1, !.phase = "loading"]

LoadOf(v, book, explicit) ==
    LET w == Loading(views[v], book)
    IN IF w = views[v] THEN {}
       ELSE {[view |-> v, seq |-> w.seq, book |-> book, explicit |-> explicit, plan |-> <<>>]}

Visits == Cardinality({v \in DOMAIN views : views[v] # Unused})

Mount(book, explicit) ==
    LET v == Visits + 1
    IN /\ mounted = 0 /\ v <= MaxVisits
       /\ mounted' = v /\ route' = book
       /\ views' = [views EXCEPT ![v] = Loading(@, book)]
       /\ loads' = loads \cup LoadOf(v, book, explicit)
       /\ show' = show

Visit ==
    /\ UserMoves
    /\ \E book \in Books, explicit \in BOOLEAN : Mount(book, explicit)
    /\ UNCHANGED <<marks, store, debounce, mode, switching, finished, reached, late>>

(* Mutant of Unmounted: loads under way are not put out of date.           *)
UnmountedKeepingLoads(w) == [CancelAuto(w) EXCEPT !.stable = FALSE]

Unmounted(w) == [CancelAuto(w) EXCEPT !.seq = @ + 1, !.stable = FALSE]

(* onUnmounted of the view and of its screen.                              *)
Leave ==
    /\ mounted # 0 /\ UserMoves
    /\ IF store.book # Nothing THEN SaveNow ELSE finished' = finished
    /\ views' = [views EXCEPT ![mounted] = Unmounted(@)]
    /\ marks' = Unwaited(mounted) /\ show' = Paused(show)
    /\ store' = Closed /\ debounce' = Nothing /\ route' = Nothing /\ mounted' = 0
    /\ UNCHANGED <<loads, mode, switching, reached, late>>

(* The loader plans the spreads, and waits once more for the progress.      *)
Planned(l) ==
    /\ l.plan = <<>>
    /\ loads' = (loads \ {l}) \cup {[l EXCEPT !.plan = Plan(mode = "single")]}
    /\ UNCHANGED <<route, mounted, views, marks, store, debounce, show, mode, switching,
                   finished, reached, late, moves>>

(* resolveInitialSpreadIndex: a place that was saved never is the last one. *)
Openings(l) ==
    IF l.explicit THEN DOMAIN l.plan
    ELSE IF l.book \in finished THEN {1} ELSE {i \in DOMAIN l.plan : i = 1 \/ i < Len(l.plan)}

Loaded(l) ==
    /\ l.plan # <<>>
    /\ loads' = loads \ {l}
    /\ LET w == views[l.view]
       IN IF l.seq # w.seq THEN UNCHANGED <<views, marks, store, reached>>
          ELSE \E at \in Openings(l) :
               /\ store' = [book |-> l.book, spreads |-> l.plan, at |-> at]
               /\ views' = [views EXCEPT ![l.view] =
                              [AtBottom(BookChanged(w, l.book), FALSE) EXCEPT !.last = l.book, !.phase = "ready"]]
               /\ marks' = IF l.book # store.book \/ w.bottom THEN Unwaited(l.view) ELSE marks
               /\ reached' = IF Paged THEN Stands(store') ELSE reached
    /\ UNCHANGED <<route, mounted, debounce, show, mode, switching, finished, late, moves>>

LoadFails(l) ==
    /\ loads' = loads \ {l}
    /\ LET w == views[l.view]
       IN IF l.seq # w.seq THEN UNCHANGED <<views, marks, store, debounce>>
          ELSE /\ store' = Closed /\ debounce' = Nothing
               /\ views' = [views EXCEPT ![l.view] = [BookChanged(w, Nothing) EXCEPT !.phase = "error"]]
               /\ marks' = IF store.book # Nothing THEN Unwaited(l.view) ELSE marks
    /\ UNCHANGED <<route, mounted, show, mode, switching, finished, reached, late, moves>>

-----------------------------------------------------------------------------
(* Pages.                                                                  *)

MoveTo(i) ==
    /\ store' = [store EXCEPT !.at = i]
    /\ debounce' = [book |-> store.book, at |-> i, plan |-> store.spreads]
    /\ reached' = Stands(store')
    /\ UNCHANGED <<views, show>>

(* nextPage and prevPage of the store, also while the next book is loaded;  *)
(* past the last page the intent to cross is raised.                       *)
NextPage ==
    IF OnEnd(store)
    THEN /\ \E how \in ContinueModes : Become(mounted, Raise(views[mounted], show, FALSE, "page", how))
         /\ UNCHANGED <<store, debounce, reached>>
    ELSE MoveTo(store.at + 1)
PrevPage == store.at > 1 /\ MoveTo(store.at - 1)
JumpToSpread == \E i \in DOMAIN store.spreads \ {store.at} : MoveTo(i)

Turn ==
    /\ mounted # 0 /\ store.book # Nothing /\ Paged /\ UserMoves
    /\ NextPage \/ PrevPage \/ JumpToSpread
    /\ UNCHANGED <<route, mounted, loads, marks, mode, switching, finished, late>>

(* onToggleReaderMode saves, waits, and turns the mode over; the watches of *)
(* the mode plan the spreads again around the page that is shown.          *)
ToggleMode ==
    /\ mounted # 0 /\ ~switching /\ UserMoves
    /\ SaveNow /\ debounce' = CancelDebounce /\ switching' = TRUE
    /\ UNCHANGED <<route, mounted, views, loads, marks, store, show, mode, reached, late>>

CycleMode ==
    /\ switching /\ switching' = FALSE
    /\ mode' = (CASE mode = "single" -> "double" [] mode = "double" -> "webtoon" [] mode = "webtoon" -> "single")
    /\ LET plan == Plan(mode' = "single")
       IN store' = IF mounted = 0 \/ store.book = Nothing THEN store
                   ELSE [store EXCEPT !.spreads = plan, !.at = SpreadOf(store.spreads[store.at], plan)]
    /\ IF mounted = 0 \/ "webtoon" \notin {mode, mode'} THEN UNCHANGED <<views, marks>>
       ELSE /\ views' = [views EXCEPT ![mounted] = CancelAuto(IF mode = "webtoon" THEN AtBottom(@, FALSE) ELSE @)]
            /\ marks' = Unwaited(mounted)
    /\ reached' = IF mode' # "webtoon" THEN Stands(store') ELSE reached
    /\ UNCHANGED <<route, mounted, loads, debounce, show, finished, late, moves>>

(* The slide show.                                                         *)
ToggleShow ==
    /\ mounted # 0 /\ UserMoves
    /\ show' = [show EXCEPT !.playing = ~@]
    /\ UNCHANGED <<route, mounted, views, loads, marks, store, debounce, mode, switching, finished, reached, late>>

Tick ==
    /\ show.playing /\ ScreenUp /\ Paged
    /\ IF OnEnd(store)
       THEN /\ \E how \in ContinueModes : Become(mounted, Raise(views[mounted], Paused(show), TRUE, "page", how))
            /\ UNCHANGED <<store, debounce, reached>>
       ELSE MoveTo(store.at + 1) \/ PrevPage
    /\ UNCHANGED <<route, mounted, loads, marks, mode, switching, finished, late, moves>>

-----------------------------------------------------------------------------
(* The webtoon: its end is marked in the table before it is crossed.        *)

ReachBottom(bottom) == reached' = IF bottom THEN reached \cup {store.book} ELSE reached

(* ensureFinished: one call for the callers of a book, the newest one.      *)
EnsureFinished(v, waiter) ==
    LET mine == {m \in marks : m.view = v /\ m.latest}
        same == {m \in mine : m.book = store.book}
    IN marks' = IF same # {} THEN (marks \ same) \cup {[m EXCEPT !.waiters = @ \cup {waiter}] : m \in same}
                ELSE (marks \ mine) \cup {[m EXCEPT !.latest = FALSE] : m \in mine}
                     \cup {[view |-> v, book |-> store.book, latest |-> TRUE, waiters |-> {waiter}]}

(* A step of the user or of the automatic scrolling, which stops at the end. *)
Scroll(auto) ==
    /\ ScreenUp /\ ~Paged
    /\ IF auto THEN show.playing /\ moves' = moves ELSE UserMoves
    /\ \E bottom \in BOOLEAN :
         LET w == AtBottom(views[mounted], bottom)
         IN /\ views' = [views EXCEPT ![mounted] = IF auto /\ bottom THEN [w EXCEPT !.auto = store.book] ELSE w]
            /\ show' = IF auto /\ bottom THEN Paused(show) ELSE show
            /\ marks' = IF (auto /\ bottom) \/ (~bottom /\ views[mounted].bottom) THEN Unwaited(mounted) ELSE marks
            /\ ReachBottom(bottom)
    /\ UNCHANGED <<route, mounted, loads, store, debounce, mode, switching, finished, late>>

StableFires ==
    /\ mounted # 0 /\ views[mounted].stable
    /\ views' = [views EXCEPT ![mounted].stable = FALSE]
    /\ IF views[mounted].marked \/ store.book = Nothing THEN marks' = marks ELSE EnsureFinished(mounted, "stable")
    /\ UNCHANGED <<route, mounted, loads, store, debounce, show, mode, switching, finished, reached, late, moves>>

(* Mutant of StillThere: whichever book is shown by now.                    *)
StillSomewhere(w, book) == ~Paged /\ w.bottom

(* The checks of the end that are made before and after the wait.           *)
StillThere(w, book) == ~Paged /\ store.book = book /\ w.bottom

(* The timer of the automatic end.                                         *)
AutoEnds ==
    /\ mounted # 0 /\ views[mounted].auto # Nothing
    /\ LET w == views[mounted] gone == CancelAuto(w)
       IN CASE ~StillThere(w, w.auto) ->
                 views' = [views EXCEPT ![mounted] = gone] /\ UNCHANGED <<marks, show>>
            [] StillThere(w, w.auto) /\ w.marked ->
                 marks' = marks /\ \E how \in ContinueModes : Become(mounted, Raise(gone, show, TRUE, "bottom", how))
            [] OTHER -> views' = [views EXCEPT ![mounted] = gone] /\ show' = show /\ EnsureFinished(mounted, "auto")
    /\ UNCHANGED <<route, mounted, loads, store, debounce, mode, switching, finished, reached, late, moves>>

(* requestCrossVolumeNext, past the bottom.                                *)
PushBottom ==
    /\ ScreenUp /\ ~Paged /\ UserMoves
    /\ LET w == CancelAuto(AtBottom(views[mounted], TRUE))
       IN IF w.marked
          THEN marks' = marks /\ \E how \in ContinueModes : Become(mounted, MaybeContinue(w, show, "bottom", how))
          ELSE views' = [views EXCEPT ![mounted] = w] /\ show' = show /\ EnsureFinished(mounted, "manual")
    /\ ReachBottom(TRUE)
    /\ UNCHANGED <<route, mounted, loads, store, debounce, mode, switching, finished, late>>

(* markFinished comes back, and with it whoever waited for it.              *)
Marked(m) ==
    /\ m \in marks
    /\ \E ok \in BOOLEAN, how \in ContinueModes :
         LET w == [views[m.view] EXCEPT !.marked = @ \/ (ok /\ store.book = m.book)]
             passes == ok /\ StillThere(w, m.book)
             asked == IF "manual" \in m.waiters /\ passes THEN MaybeContinue(w, show, "bottom", how)
                      ELSE [view |-> w, show |-> show]
         IN /\ finished' = IF ok THEN finished \cup {m.book} ELSE finished
            /\ Become(m.view, IF "auto" \in m.waiters /\ passes
                              THEN Raise(asked.view, asked.show, TRUE, "bottom", how) ELSE asked)
    /\ marks' = marks \ {m}
    /\ UNCHANGED <<route, mounted, loads, store, debounce, mode, switching, reached, late, moves>>

-----------------------------------------------------------------------------
(* The controller of a view, which goes on when the view is gone.           *)

(* Mutant of Settle: the intent is left standing.                           *)
SettleKeeping(v) == Become(v, [view |-> [views[v] EXCEPT !.cv = IdleCv], show |-> show])

(* settleIdle                                                              *)
Settle(v) == Become(v, [view |-> [views[v] EXCEPT !.cv = IdleCv], show |-> Consumed(show)])
Step(v, phase) == views' = [views EXCEPT ![v].cv.phase = phase]

(* Alt and an arrow.                                                       *)
ForceNext ==
    /\ mounted # 0 /\ UserMoves
    /\ Become(mounted, MaybeContinue(views[mounted], show, "force", "auto"))
    /\ UNCHANGED <<route, mounted, loads, marks, store, debounce, mode, switching, finished, reached, late>>

(* findNextVolume comes back.                                              *)
Found(v) ==
    LET cv == views[v].cv current == Identity(views[v]) = cv.start
    IN /\ cv.phase = "resolving"
       /\ \/ Settle(v) /\ UNCHANGED <<finished, debounce>>
          \/ /\ current /\ show' = show
             /\ \E target \in Books \ {cv.start} :
                  IF cv.manual
                  THEN /\ views' = [views EXCEPT ![v].cv = [cv EXCEPT !.phase = "awaiting-confirm", !.target = target]]
                       /\ UNCHANGED <<finished, debounce>>
                  ELSE /\ views' = [views EXCEPT ![v].cv = [cv EXCEPT !.phase = "saving", !.target = target]]
                       /\ SaveNow /\ debounce' = CancelDebounce
       /\ UNCHANGED <<route, mounted, loads, marks, store, mode, switching, reached, late, moves>>

(* confirmManual and dismissManual.                                        *)
Decide ==
    /\ mounted # 0 /\ views[mounted].cv.phase = "awaiting-confirm" /\ UserMoves
    /\ \/ Settle(mounted) /\ UNCHANGED <<finished, debounce>>
       \/ /\ Identity(views[mounted]) = views[mounted].cv.start
          /\ Step(mounted, "saving") /\ show' = show /\ SaveNow /\ debounce' = CancelDebounce
    /\ UNCHANGED <<route, mounted, loads, marks, store, mode, switching, reached, late>>

Saved(v) ==
    /\ views[v].cv.phase = "saving"
    /\ IF Identity(views[v]) = views[v].cv.start
       THEN Step(v, "ensuring") /\ show' = Paused(show)
       ELSE Become(v, [view |-> [views[v] EXCEPT !.cv = IdleCv], show |-> Consumed(Paused(show))])
    /\ UNCHANGED <<route, mounted, loads, marks, store, debounce, mode, switching, finished, reached, late, moves>>

(* createBook comes back: the route is replaced, in whichever view is there. *)
Ensured(v) ==
    /\ views[v].cv.phase = "ensuring"
    /\ LET target == views[v].cv.target
           to(n) == views' = [[views EXCEPT ![n] = Loading(@, target)] EXCEPT
                       ![v].cv = [@ EXCEPT !.phase = "loading",
                                           !.load = IF n = v THEN Loading(views[v], target).seq ELSE 0]]
       IN \/ Settle(v) /\ UNCHANGED <<route, mounted, loads>>
          \/ /\ mounted # 0 /\ views[mounted].seq < MaxLoads
             /\ mounted' = mounted /\ route' = target
             /\ IF route = target THEN Step(v, "loading") /\ UNCHANGED <<loads, show>>
                ELSE /\ to(mounted) /\ loads' = loads \cup LoadOf(mounted, target, FALSE)
                     /\ show' = IF ScreenUp THEN Paused(show) ELSE show
          \/ /\ mounted = 0 /\ Visits < MaxVisits
             /\ mounted' = Visits + 1 /\ route' = target /\ show' = show
             /\ to(Visits + 1) /\ loads' = loads \cup LoadOf(Visits + 1, target, FALSE)
    /\ UNCHANGED <<marks, store, debounce, mode, switching, finished, reached, late, moves>>

(* activeLoadPromise comes back; the slide show goes on where it was.       *)
Arrived(v) ==
    /\ views[v].cv.phase = "loading"
    /\ ~\E l \in loads : l.view = v /\ l.seq = views[v].cv.load
    /\ LET resumes == views[v].cv.resumes /\ Identity(views[v]) # Nothing
       IN Become(v, [view |-> [views[v] EXCEPT !.cv = IdleCv],
                     show |-> Consumed([show EXCEPT !.playing = @ \/ resumes])])
    /\ UNCHANGED <<route, mounted, loads, marks, store, debounce, mode, switching, finished, reached, late, moves>>

Comeback == \E v \in DOMAIN views : Found(v) \/ Saved(v) \/ Ensured(v) \/ Arrived(v)

Next ==
    \/ Visit \/ Leave \/ Turn \/ ToggleMode \/ CycleMode \/ ToggleShow \/ Tick \/ DebounceFires
    \/ Scroll(TRUE) \/ Scroll(FALSE) \/ StableFires \/ AutoEnds \/ PushBottom \/ ForceNext \/ Decide
    \/ \E l \in loads : Planned(l) \/ Loaded(l) \/ LoadFails(l)
    \/ \E m \in marks : Marked(m)
    \/ \E v \in DOMAIN views : Found(v) \/ Saved(v) \/ Ensured(v) \/ Arrived(v)

Spec == Init /\ [][Next]_vars

-----------------------------------------------------------------------------
(* The page on the screen is of the book in the address, however many loads *)
(* were begun, by however many views; and the slide show plays only while a *)
(* reader is there (ReaderView.vue: activeLoadSeq, onUnmounted, resume).    *)
ShownIsRoute ==
    /\ ScreenUp => store.book = route
    /\ show.playing => mounted # 0

(* An intent to cross that was raised in the view on the screen does not    *)
(* outlive the controller's work on it (useCrossVolume.ts: every early     *)
(* return and settleIdle consume it).                                      *)
IntentsHeard ==
    mounted # 0 /\ show.pending /\ show.raisedIn = mounted => views[mounted].cv.phase # "idle"

(* A book is finished when the reader stood on its end, and a crossing that *)
(* began at an end began at the end of its own book, which in a webtoon is  *)
(* in the table by then (ReaderView.vue: the checks around ensureFinished;  *)
(* a save that outlives its plan is left aside, see the README).            *)
EndsTrue ==
    /\ finished \ late \subseteq reached
    /\ \A v \in DOMAIN views :
         LET cv == views[v].cv
         IN /\ cv.by \in {"page", "bottom"} => cv.start \in reached
            /\ cv.by = "bottom" => cv.start \in finished
=============================================================================
