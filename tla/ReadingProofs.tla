------------------------------ MODULE ReadingProofs ------------------------------
(***************************************************************************)
(* What the Reader shows, hears and marks, for every number of books,      *)
(* pages and visits, and what the history of reading keeps, for every      *)
(* number of places, visits and settings.                                  *)
(*                                                                         *)
(* A view that is gone keeps its number, so that the first view without a   *)
(* load is the next one to be mounted, and the loads, marks and intents     *)
(* that outlive a view never are those of a later one.  A load is current   *)
(* only in the view on the screen, for the book in the address.  A reader   *)
(* stands on the end of a book before a save, a mark or a crossing that     *)
(* says so is begun, and the book is still there when it was checked again. *)
(*                                                                         *)
(* The marks of the history wait in the queue in the order they were made,  *)
(* behind every number that was received, is asleep or was dropped: the     *)
(* newest is met or still on its way.                                      *)
(***************************************************************************)
EXTENDS Reader, Maintenance, FiniteSetTheorems, TLAPS

View == 1 .. MaxVisits
Known == Books \cup {Nothing}
Plans == {<<>>, Plan(TRUE), Plan(FALSE)}
CvRecord ==
    {cv \in [phase : {"idle", "resolving", "awaiting-confirm", "saving", "ensuring", "loading"},
             by : {"", "page", "bottom", "force"}, start : Known, target : Known,
             resumes : BOOLEAN, manual : BOOLEAN, load : Nat] :
        cv.phase \in {"awaiting-confirm", "saving", "ensuring"} => cv.target \in Books}
ViewRecord == [phase : {"idle", "loading", "ready", "error"}, seq : Nat, last : Known, bottom : BOOLEAN,
               stable : BOOLEAN, marked : BOOLEAN, auto : Known, cv : CvRecord]
LoadRecord == [view : View, seq : Nat, book : Books, explicit : BOOLEAN, plan : Plans]
MarkRecord == [view : View, book : Books, latest : BOOLEAN, waiters : SUBSET {"stable", "auto", "manual"}]
ShowRecord == [playing : BOOLEAN, pending : BOOLEAN, fromShow : BOOLEAN, raisedIn : 0 .. MaxVisits]
StoreRecord == [book : Known, spreads : Plans, at : Int]
SaveRecord == [book : Known, at : Int, plan : Plans]

Types ==
    /\ route \in Known /\ mounted \in 0 .. MaxVisits
    /\ views \in [View -> ViewRecord]
    /\ loads \subseteq LoadRecord /\ marks \subseteq MarkRecord
    /\ store \in StoreRecord /\ debounce \in SaveRecord \cup {Nothing} /\ show \in ShowRecord

(* The first n views were on the screen.                                   *)
Fresh(n) == \A v \in View : IF v <= n THEN views[v].seq > 0 ELSE views[v] = Unused

VisitsOK ==
    /\ \E n \in 0 .. MaxVisits : Fresh(n)
    /\ mounted # 0 => (route \in Books /\ views[mounted].seq > 0)
    /\ mounted = 0 => (route = Nothing /\ store = Closed /\ ~show.playing)
    /\ show.pending => (show.raisedIn # 0 /\ views[show.raisedIn].seq > 0)

(* Only a load of the view on the screen, for the book in the address, is   *)
(* the newest of its view.                                                 *)
LoadsOK ==
    \A l \in loads :
        /\ 0 < l.seq /\ l.seq <= views[l.view].seq
        /\ l.seq = views[l.view].seq => (l.view = mounted /\ l.book = route)

ScreenOK == ScreenUp => (store.book = route /\ views[mounted].last = route)

StoreOK ==
    store.book # Nothing =>
        /\ store.at \in 1 .. Len(store.spreads)
        /\ (Paged /\ store.at = Len(store.spreads)) => store.book \in reached

SavesOK ==
    debounce # Nothing /\ debounce.at >= Len(debounce.plan) => debounce.book \in reached

MarksOK ==
    \A m \in marks : /\ m.book \in reached /\ views[m.view].seq > 0
                     /\ "auto" \in m.waiters => m.view = mounted

(* What the view on the screen knows of an end is of the book that is shown. *)
BottomOK ==
    /\ \A v \in View : views[v].stable => views[v].bottom
    /\ mounted # 0 =>
         /\ (views[mounted].bottom /\ store.book # Nothing) => store.book \in reached
         /\ views[mounted].marked => (store.book # Nothing /\ store.book \in finished)

Inv == /\ Types /\ VisitsOK /\ LoadsOK /\ ScreenOK /\ IntentsHeard
       /\ StoreOK /\ SavesOK /\ MarksOK /\ BottomOK /\ EndsTrue

-----------------------------------------------------------------------------
(* Plans and places.                                                       *)

\* The lengths and the first pages of the two plans.
LEMMA PlanShape ==
  ASSUME NEW single \in BOOLEAN
  PROVE  /\ Plan(single) \in Seq(Nat) /\ Plan(single) # <<>>
         /\ Len(Plan(single)) = IF single THEN PageCount ELSE PageCount \div 2 + 1
         /\ Len(Plan(single)) \in Nat \ {0}
         /\ \A i \in 1 .. Len(Plan(single)) :
              /\ Plan(single)[i] = IF single THEN i - 1 ELSE IF i = 1 THEN 0 ELSE 2 * i - 3
              /\ Plan(single)[i] \in 0 .. PageCount - 1
<1>1. PageCount \in Nat \ {0}
  BY ReaderAssumption
<1> DEFINE n == IF single THEN PageCount ELSE PageCount \div 2 + 1
           p == [i \in 1 .. n |-> IF single THEN i - 1 ELSE IF i = 1 THEN 0 ELSE 2 * i - 3]
<1>2. n \in Nat \ {0}
  BY <1>1
<1>3. \A i \in 1 .. n : (IF single THEN i - 1 ELSE IF i = 1 THEN 0 ELSE 2 * i - 3) \in 0 .. PageCount - 1
  BY <1>1
<1>4. Plan(single) = p
  BY DEF Plan
<1> HIDE DEF n
<1>5. p \in Seq(Nat) /\ Len(p) = n
  BY <1>2, <1>3
<1> QED BY <1>2, <1>3, <1>4, <1>5 DEF n

\* Some spread of a plan shows a page.
LEMMA SpreadExists ==
  ASSUME NEW single \in BOOLEAN, NEW page \in 0 .. PageCount - 1
  PROVE  SpreadOf(page, Plan(single)) \in 1 .. Len(Plan(single))
<1> DEFINE p == Plan(single)
           i == IF single THEN page + 1 ELSE (page + 1) \div 2 + 1
<1>1. PageCount \in Nat \ {0}
  BY ReaderAssumption
<1>2. /\ p \in Seq(Nat) /\ DOMAIN p = 1 .. Len(p)
      /\ Len(p) = IF single THEN PageCount ELSE PageCount \div 2 + 1
      /\ \A j \in 1 .. Len(p) : p[j] = IF single THEN j - 1 ELSE IF j = 1 THEN 0 ELSE 2 * j - 3
  BY PlanShape
<1> HIDE DEF p
<1>3. i \in 1 .. Len(p)
  BY <1>1, <1>2
<1>4. p[i] <= page
  BY <1>1, <1>2, <1>3
<1>5. i = Len(p) \/ page < p[i + 1]
  <2>1. CASE i # Len(p)
    <3>1. i + 1 \in 1 .. Len(p) /\ i + 1 # 1
      BY <1>1, <1>2, <1>3, <2>1
    <3>2. p[i + 1] = IF single THEN i ELSE 2 * i - 1
      BY <1>2, <1>3, <3>1
    <3> QED BY <3>2
  <2> QED BY <2>1
<1>6. \E k \in DOMAIN p : p[k] <= page /\ (k = Len(p) \/ page < p[k + 1])
  BY <1>2, <1>3, <1>4, <1>5
<1>7. SpreadOf(page, p) \in DOMAIN p
  BY <1>6 DEF SpreadOf
<1> QED BY <1>2, <1>7 DEF p

-----------------------------------------------------------------------------
(* What the operators do to a view.                                        *)

\* What the loads see of a view.
Loader(x, w) == x.seq = w.seq /\ x.phase = w.phase /\ x.last = w.last

\* An automatic end is called off.
LEMMA CancelGives ==
  ASSUME NEW w \in ViewRecord
  PROVE  LET x == CancelAuto(w) IN
         /\ x \in ViewRecord /\ Loader(x, w) /\ x.cv = w.cv /\ x.auto = Nothing
         /\ x.bottom = w.bottom /\ x.stable = w.stable /\ x.marked = w.marked
BY DEF CancelAuto, ViewRecord, Known, Loader

\* The view hears of the bottom.
LEMMA BottomGives ==
  ASSUME NEW w \in ViewRecord, NEW bottom \in BOOLEAN
  PROVE  LET x == AtBottom(w, bottom) IN
         /\ x \in ViewRecord /\ Loader(x, w) /\ x.cv = w.cv
         /\ x.bottom = bottom /\ x.marked = w.marked
         /\ (w.stable => w.bottom) => (x.stable => x.bottom)
<1>1. CASE bottom /\ ~w.bottom
  BY <1>1 DEF AtBottom, ViewRecord, Loader
<1>2. CASE ~bottom /\ w.bottom
  <2> DEFINE c == CancelAuto(w)
  <2>1. c \in ViewRecord /\ Loader(c, w) /\ c.cv = w.cv /\ c.marked = w.marked
    BY CancelGives
  <2> HIDE DEF c
  <2>2. [c EXCEPT !.bottom = FALSE, !.stable = FALSE] \in ViewRecord
    BY <2>1 DEF ViewRecord
  <2>3. AtBottom(w, bottom) = [c EXCEPT !.bottom = FALSE, !.stable = FALSE]
    BY <1>2 DEF AtBottom, c
  <2> QED BY <1>2, <2>1, <2>2, <2>3 DEF ViewRecord, Loader
<1>3. CASE bottom = w.bottom
  BY <1>3 DEF AtBottom, Loader, ViewRecord
<1> QED BY <1>1, <1>2, <1>3 DEF ViewRecord

\* The view hears of another book: what was marked was of the book before.
LEMMA ChangeGives ==
  ASSUME NEW w \in ViewRecord, NEW next
  PROVE  LET x == BookChanged(w, next) IN
         /\ x \in ViewRecord /\ Loader(x, w) /\ x.cv = w.cv /\ x.bottom = w.bottom
         /\ x.stable => w.stable
         /\ x.marked => w.marked
         /\ next # store.book /\ store.book # Nothing => ~x.marked
<1> DEFINE c == CancelAuto(w)
<1>1. /\ c \in ViewRecord /\ Loader(c, w) /\ c.cv = w.cv /\ c.bottom = w.bottom /\ c.marked = w.marked
      /\ c.stable = w.stable
  BY CancelGives
<1>2. BookChanged(w, next) = IF next = store.book THEN w ELSE IF store.book = Nothing THEN c
                             ELSE [c EXCEPT !.marked = FALSE, !.stable = FALSE]
  BY DEF BookChanged
<1> HIDE DEF c
<1>3. [c EXCEPT !.marked = FALSE, !.stable = FALSE] \in ViewRecord
  BY <1>1 DEF ViewRecord
<1> QED BY <1>1, <1>2, <1>3 DEF ViewRecord, Loader

\* A load is begun unless the book is there.
LEMMA LoadingGives ==
  ASSUME NEW w \in ViewRecord, NEW book
  PROVE  LET x == Loading(w, book) IN
         /\ x \in ViewRecord /\ x.cv = w.cv /\ x.last = w.last /\ x.bottom = w.bottom
         /\ x.stable = w.stable /\ x.marked = w.marked
         /\ IF book = w.last /\ w.phase = "ready" THEN x = w ELSE x.seq = w.seq + 1 /\ x.phase = "loading"
<1> DEFINE s == w.seq + 1
           y == [w EXCEPT !.seq = s, !.phase = "loading"]
<1>0. s \in Nat
  BY DEF ViewRecord
<1> HIDE DEF s
<1>1. /\ y \in ViewRecord /\ y.seq = s /\ y.phase = "loading" /\ y.cv = w.cv /\ y.last = w.last
      /\ y.bottom = w.bottom /\ y.stable = w.stable /\ y.marked = w.marked
  BY <1>0 DEF ViewRecord
<1>2. Loading(w, book) = IF book = w.last /\ w.phase = "ready" THEN w ELSE y
  BY DEF Loading, s
<1> HIDE DEF y
<1> QED BY <1>1, <1>2 DEF s

\* The new load of a view.
LEMMA LoadOfGives ==
  ASSUME Types, NEW v \in View, NEW book \in Books, NEW explicit \in BOOLEAN
  PROVE  \/ /\ book = views[v].last /\ views[v].phase = "ready"
            /\ LoadOf(v, book, explicit) = {}
         \/ /\ ~(book = views[v].last /\ views[v].phase = "ready")
            /\ LoadOf(v, book, explicit) \subseteq LoadRecord
            /\ \A l \in LoadOf(v, book, explicit) :
                  l.view = v /\ l.book = book /\ l.seq = views[v].seq + 1
<1> DEFINE w == views[v]
           x == Loading(w, book)
           l == [view |-> v, seq |-> x.seq, book |-> book, explicit |-> explicit, plan |-> <<>>]
<1>1. w \in ViewRecord
  BY DEF Types
<1>2. /\ x \in ViewRecord
      /\ IF book = w.last /\ w.phase = "ready" THEN x = w ELSE x.seq = w.seq + 1 /\ x.phase = "loading"
  BY <1>1, LoadingGives
<1>3. LoadOf(v, book, explicit) = IF x = w THEN {} ELSE {l}
  BY DEF LoadOf
<1>4. w.seq \in Nat /\ x.seq \in Nat
  BY <1>1, <1>2 DEF ViewRecord
<1>5. l \in LoadRecord
  BY <1>4 DEF LoadRecord, Plans
<1> HIDE DEF x, w
<1>6. CASE book = w.last /\ w.phase = "ready"
  BY <1>2, <1>3, <1>6 DEF w
<1>7. CASE ~(book = w.last /\ w.phase = "ready")
  <2>1. x # w /\ x.seq = w.seq + 1
    BY <1>2, <1>4, <1>7
  <2>2. LoadOf(v, book, explicit) = {l}
    BY <1>3, <2>1
  <2>3. l.view = v /\ l.book = book /\ l.seq = w.seq + 1
    BY <2>1
  <2> HIDE DEF l
  <2> QED BY <1>5, <1>7, <2>2, <2>3 DEF w
<1> QED BY <1>6, <1>7

-----------------------------------------------------------------------------
(* A step of one view and of the slide show.                               *)

\* The controller of a view takes up nothing but an end of the book that is
\* shown, and what it leaves standing of an intent is heard.
Outcome(x, sh, w, old, by) ==
    /\ x \in ViewRecord /\ sh \in ShowRecord /\ Loader(x, w)
    /\ x.bottom = w.bottom /\ x.stable = w.stable /\ x.marked = w.marked
    /\ sh.playing => (old.playing \/ mounted # 0)
    /\ \/ x.cv.by = ""
       \/ x.cv.by = w.cv.by /\ x.cv.start = w.cv.start
       \/ x.cv.by = by /\ x.cv.start = store.book
    /\ sh.pending => /\ x.cv.phase # "idle" \/ x.cv = w.cv
                     /\ \/ sh.raisedIn = mounted /\ x.cv.phase # "idle" /\ mounted # 0
                        \/ old.pending /\ sh.raisedIn = old.raisedIn

\* The show is stopped, or the intent is taken back.
LEMMA ShowGives ==
  ASSUME NEW sh \in ShowRecord
  PROVE  /\ Consumed(sh) \in ShowRecord /\ ~Consumed(sh).pending /\ Consumed(sh).playing = sh.playing
         /\ Paused(sh) \in ShowRecord /\ ~Paused(sh).playing
         /\ Paused(sh).pending = sh.pending /\ Paused(sh).raisedIn = sh.raisedIn
BY DEF ShowRecord, Consumed, Paused

\* The controller is asked.
LEMMA ContinueGives ==
  ASSUME Types, NEW w \in ViewRecord, NEW sh \in ShowRecord, NEW by \in {"page", "bottom", "force"}, NEW how
  PROVE  LET o == MaybeContinue(w, sh, by, how) IN
         /\ Outcome(o.view, o.show, w, sh, by)
         /\ o.show.raisedIn = sh.raisedIn
         /\ o.show.pending => (sh.pending /\ o.view.cv.phase # "idle")
<1> DEFINE o == MaybeContinue(w, sh, by, how)
           goal == /\ Outcome(o.view, o.show, w, sh, by)
                   /\ o.show.raisedIn = sh.raisedIn
                   /\ o.show.pending => (sh.pending /\ o.view.cv.phase # "idle")
<1>1. ASSUME w.cv.phase # "idle" PROVE goal
  <2>1. o.view = w /\ o.show = sh
    BY <1>1 DEF MaybeContinue
  <2> HIDE DEF o
  <2> QED BY <1>1, <2>1 DEF Outcome, Loader
<1>2. ASSUME w.cv.phase = "idle" /\ (w.phase # "ready" \/ Identity(w) = Nothing \/ how = "off") PROVE goal
  <2>1. o.view = w /\ o.show = Consumed(sh)
    BY <1>2 DEF MaybeContinue
  <2>2. /\ Consumed(sh) \in ShowRecord /\ ~Consumed(sh).pending /\ Consumed(sh).playing = sh.playing
        /\ Consumed(sh).raisedIn = sh.raisedIn
    BY DEF ShowRecord, Consumed
  <2> HIDE DEF o
  <2> QED BY <2>1, <2>2 DEF Outcome, Loader
<1>3. ASSUME w.cv.phase = "idle" /\ ~(w.phase # "ready" \/ Identity(w) = Nothing \/ how = "off") PROVE goal
  <2> DEFINE cv == [IdleCv EXCEPT !.phase = "resolving", !.by = by, !.start = store.book,
                                  !.manual = how = "manual",
                                  !.resumes = how # "manual" /\ (sh.playing \/ sh.fromShow)]
  <2>1. o.view = [w EXCEPT !.cv = cv] /\ o.show = sh
    BY <1>3 DEF MaybeContinue
  <2>2. /\ cv \in CvRecord /\ cv.phase = "resolving" /\ cv.by = by /\ cv.start = store.book
    <3>1. store.book \in Known /\ sh.playing \in BOOLEAN /\ sh.fromShow \in BOOLEAN /\ Nothing \in Known
      BY DEF Types, StoreRecord, ShowRecord, Known
    <3> QED BY <3>1 DEF CvRecord, IdleCv
  <2> HIDE DEF cv, o
  <2>3. [w EXCEPT !.cv = cv] \in ViewRecord
    BY <2>2 DEF ViewRecord
  <2>4. o.view \in ViewRecord /\ Loader(o.view, w) /\ o.view.cv = cv
        /\ o.view.bottom = w.bottom /\ o.view.stable = w.stable /\ o.view.marked = w.marked
    BY <2>1, <2>3 DEF ViewRecord, Loader
  <2> QED BY <2>1, <2>2, <2>4 DEF Outcome
<1> QED BY <1>1, <1>2, <1>3

\* The intent to cross is raised in the view on the screen.
LEMMA RaiseGives ==
  ASSUME Types, mounted # 0, NEW w \in ViewRecord, NEW sh \in ShowRecord, NEW fromShow \in BOOLEAN,
         NEW by \in {"page", "bottom", "force"}, NEW how
  PROVE  LET o == Raise(w, sh, fromShow, by, how) IN Outcome(o.view, o.show, w, sh, by)
<1> DEFINE o == Raise(w, sh, fromShow, by, how)
           raised == [sh EXCEPT !.pending = TRUE, !.fromShow = fromShow,
                                !.raisedIn = IF sh.pending THEN @ ELSE mounted]
           p == MaybeContinue(w, raised, by, how)
           goal == Outcome(o.view, o.show, w, sh, by)
<1>1. /\ raised \in ShowRecord /\ raised.playing = sh.playing /\ raised.pending
      /\ raised.raisedIn = IF sh.pending THEN sh.raisedIn ELSE mounted
  BY DEF ShowRecord, Types
<1>2. o = IF sh.pending THEN [view |-> w, show |-> raised] ELSE p
  BY DEF Raise
<1> HIDE DEF o, raised
<1>3. ASSUME sh.pending PROVE goal
  <2>1. o.view = w /\ o.show = raised
    BY <1>2, <1>3
  <2> QED BY <1>1, <1>3, <2>1 DEF Outcome, Loader
<1>4. ASSUME ~sh.pending PROVE goal
  <2>1. /\ Outcome(p.view, p.show, w, raised, by)
        /\ p.show.raisedIn = raised.raisedIn
        /\ p.show.pending => p.view.cv.phase # "idle"
    BY <1>1, ContinueGives
  <2>2. o = p
    BY <1>2, <1>4
  <2> HIDE DEF p
  <2> QED BY <1>1, <1>4, <2>1, <2>2 DEF Outcome
<1> QED BY <1>3, <1>4 DEF o

-----------------------------------------------------------------------------
(* What a step keeps.                                                      *)

Ended(cv) == /\ cv.by \in {"page", "bottom"} => cv.start \in reached
             /\ cv.by = "bottom" => cv.start \in finished

LEMMA EndsAre ==
  EndsTrue <=> finished \ late \subseteq reached /\ \A v \in DOMAIN views : Ended(views[v].cv)
BY DEF EndsTrue, Ended

\* What stood on its end stays known, and what is finished stood on it.
Grows == /\ reached \subseteq reached' /\ finished \subseteq finished'
         /\ finished' \ late' \subseteq reached'

\* A view that was on the screen stays known.
Older == \A v \in View : views[v].seq > 0 => views'[v].seq > 0

Stays == /\ UNCHANGED <<route, mounted, loads>> /\ store'.book = store.book
         /\ mounted = 0 => store' = store

\* Views and show are left alone.
LEMMA StillKept ==
  ASSUME Inv, Stays, Grows, UNCHANGED <<views, show>>
  PROVE  VisitsOK' /\ LoadsOK' /\ ScreenOK' /\ IntentsHeard' /\ BottomOK' /\ EndsTrue'
<1>1. VisitsOK'
  BY DEF Inv, VisitsOK, Stays, Fresh, View
<1>2. LoadsOK'
  BY DEF Inv, LoadsOK, Stays
<1>3. ScreenOK'
  BY DEF Inv, ScreenOK, Stays, ScreenUp
<1>4. IntentsHeard'
  BY DEF Inv, IntentsHeard, Stays
<1>5. BottomOK'
  BY DEF Inv, BottomOK, Stays, Grows
<1>6. EndsTrue'
  BY DEF Inv, EndsTrue, Grows
<1> QED BY <1>1, <1>2, <1>3, <1>4, <1>5, <1>6

\* One view comes by its new record, and the show with it.
Becomes(v, w, x, sh, by) ==
    /\ views[v].seq > 0 /\ Loader(w, views[v]) /\ w.cv = views[v].cv
    /\ Outcome(x, sh, w, show, by)
    /\ v = mounted \/ (sh.pending => (show.pending /\ sh.raisedIn = show.raisedIn))
    /\ views' = [views EXCEPT ![v] = x] /\ show' = sh
    /\ w.stable => w.bottom
    /\ v = mounted => /\ (w.bottom /\ store.book # Nothing) => store.book \in reached'
                      /\ w.marked => (store.book # Nothing /\ store.book \in finished')
    /\ by \in {"page", "bottom"} => store.book \in reached'
    /\ by = "bottom" => store.book \in finished'

LEMMA BecomesKept ==
  ASSUME Inv, Stays, Grows, NEW v \in View, NEW w, NEW x, NEW sh, NEW by, Becomes(v, w, x, sh, by)
  PROVE  /\ VisitsOK' /\ LoadsOK' /\ ScreenOK' /\ IntentsHeard' /\ BottomOK' /\ EndsTrue'
         /\ views' \in [View -> ViewRecord] /\ show' \in ShowRecord /\ Older
<1>1. /\ views' \in [View -> ViewRecord] /\ show' \in ShowRecord /\ x \in ViewRecord
      /\ views'[v] = x /\ \A u \in View \ {v} : views'[u] = views[u]
      /\ views \in [View -> ViewRecord] /\ mounted \in 0 .. MaxVisits
  BY DEF Inv, Types, Becomes, Outcome
<1>2. \A u \in View : Loader(views'[u], views[u])
  BY <1>1 DEF Becomes, Outcome, Loader
<1>3. VisitsOK'
  <2>1. PICK n \in 0 .. MaxVisits : Fresh(n)
    BY DEF Inv, VisitsOK
  <2>2. v <= n
    <3>1. views[v] # Unused
      BY DEF Becomes, Unused
    <3> QED BY <2>1, <3>1 DEF Fresh
  <2>3. Fresh(n)'
    <3>1. ASSUME NEW u \in View PROVE IF u <= n THEN views'[u].seq > 0 ELSE views'[u] = Unused
      BY <1>1, <1>2, <2>1, <2>2, <3>1 DEF Fresh, Loader, View
    <3> QED BY <3>1 DEF Fresh, View
  <2>4. mounted' # 0 => (route' \in Books /\ views'[mounted'].seq > 0)
    BY <1>1, <1>2 DEF Inv, VisitsOK, Stays, Loader, View
  <2>5. mounted' = 0 => (route' = Nothing /\ store' = Closed /\ ~show'.playing)
    BY DEF Inv, VisitsOK, Stays, Becomes, Outcome
  <2>6. ASSUME sh.pending PROVE sh.raisedIn # 0 /\ views'[sh.raisedIn].seq > 0
    <3>1. CASE sh.raisedIn = mounted /\ mounted # 0
      BY <1>1, <1>2, <3>1 DEF Inv, VisitsOK, Loader, View
    <3>2. CASE show.pending /\ sh.raisedIn = show.raisedIn
      <4>1. show.raisedIn \in View /\ views[show.raisedIn].seq > 0
        BY <3>2 DEF Inv, VisitsOK, Types, ShowRecord, View
      <4> QED BY <1>2, <3>2, <4>1 DEF Loader, View
    <3>3. Outcome(x, sh, w, show, by)
      BY DEF Becomes
    <3>4. \/ sh.raisedIn = mounted /\ mounted # 0
          \/ show.pending /\ sh.raisedIn = show.raisedIn
      BY <2>6, <3>3 DEF Outcome
    <3> QED BY <3>1, <3>2, <3>4
  <2>7. \E k \in 0 .. MaxVisits : Fresh(k)'
    BY <2>3
  <2> QED BY <1>1, <2>4, <2>5, <2>6, <2>7 DEF VisitsOK, Becomes
<1>4. LoadsOK'
  <2>1. \A l \in loads : l.view \in View
    BY DEF Inv, Types, LoadRecord
  <2> QED BY <1>2, <2>1 DEF Inv, LoadsOK, Stays, Loader
<1>5. ScreenOK'
  BY <1>1, <1>2 DEF Inv, ScreenOK, ScreenUp, Stays, Loader, View
<1>6. IntentsHeard'
  <2> SUFFICES ASSUME mounted # 0, sh.pending, sh.raisedIn = mounted
               PROVE  views'[mounted].cv.phase # "idle"
    BY DEF IntentsHeard, Stays, Becomes
  <2>1. mounted \in View
    BY <1>1 DEF View
  <2>2. CASE x.cv.phase # "idle" /\ v = mounted
    BY <1>1, <2>2
  <2>3. CASE show.pending /\ sh.raisedIn = show.raisedIn
    <3>1. views[mounted].cv.phase # "idle"
      BY <2>3 DEF Inv, IntentsHeard
    <3>2. CASE v = mounted
      <4>1. x.cv.phase # "idle" \/ x.cv = w.cv
        BY DEF Becomes, Outcome
      <4>2. w.cv = views[mounted].cv
        BY <3>2 DEF Becomes
      <4> QED BY <1>1, <3>1, <3>2, <4>1, <4>2
    <3>3. CASE v # mounted
      BY <1>1, <2>1, <3>1, <3>3
    <3> QED BY <3>2, <3>3
  <2> QED BY <2>2, <2>3 DEF Becomes, Outcome
<1>7. BottomOK'
  <2>1. x.bottom = w.bottom /\ x.stable = w.stable /\ x.marked = w.marked
    BY DEF Becomes, Outcome
  <2>2. \A u \in View : views'[u].stable => views'[u].bottom
    BY <1>1, <2>1 DEF Inv, BottomOK, Becomes
  <2>3. ASSUME mounted # 0
        PROVE  /\ (views'[mounted].bottom /\ store.book # Nothing) => store.book \in reached'
               /\ views'[mounted].marked => (store.book # Nothing /\ store.book \in finished')
    <3>1. CASE mounted = v
      BY <1>1, <2>1, <3>1 DEF Becomes
    <3>2. CASE mounted # v
      BY <1>1, <2>3, <3>2 DEF Inv, BottomOK, Grows, View
    <3> QED BY <3>1, <3>2
  <2> QED BY <2>2, <2>3 DEF BottomOK, Stays
<1>8. EndsTrue'
  <2>1. \A u \in View : Ended(views[u].cv)
    BY <1>1, EndsAre DEF Inv
  <2>2. \A u \in View : Ended(views[u].cv)'
    <3>1. Ended(x.cv)'
      BY <2>1 DEF Ended, Becomes, Outcome, Grows
    <3>2. ASSUME NEW u \in View, u # v PROVE Ended(views[u].cv)'
      BY <1>1, <2>1, <3>2 DEF Ended, Grows
    <3> QED BY <1>1, <3>1, <3>2
  <2>3. DOMAIN views' = View
    BY <1>1
  <2> QED BY <2>2, <2>3 DEF EndsTrue, Ended, Grows
<1>9. Older
  BY <1>2 DEF Older, Loader
<1> QED BY <1>1, <1>3, <1>4, <1>5, <1>6, <1>7, <1>8, <1>9

\* What a save finishes stood on its end.
LEMMA SaveGives ==
  ASSUME Inv, SaveNow, UNCHANGED <<reached, late>>
  PROVE  Grows
<1>1. OnEnd(store) /\ Paged => store.book \in reached
  BY DEF Inv, StoreOK, OnEnd
<1>2. finished \ late \subseteq reached
  BY DEF Inv, EndsTrue
<1> QED BY <1>1, <1>2 DEF SaveNow, Grows

\* Nobody waits for the answers any more.
LEMMA UnwaitedGives ==
  ASSUME Types, NEW v
  PROVE  /\ Unwaited(v) \subseteq MarkRecord
         /\ \A m \in Unwaited(v) :
              /\ m.view = v => "auto" \notin m.waiters
              /\ \E n \in marks : m.book = n.book /\ m.view = n.view /\ m.waiters \subseteq n.waiters
<1> DEFINE x(m) == [m EXCEPT !.waiters = IF m.view = v THEN @ \ {"auto"} ELSE @]
<1>1. ASSUME NEW m \in marks
      PROVE  /\ x(m) \in MarkRecord /\ x(m).book = m.book /\ x(m).view = m.view
             /\ x(m).waiters = IF m.view = v THEN m.waiters \ {"auto"} ELSE m.waiters
  <2>1. m \in MarkRecord
    BY DEF Types
  <2> QED BY <2>1 DEF MarkRecord
<1>2. Unwaited(v) = {x(m) : m \in marks}
  BY DEF Unwaited
<1> HIDE DEF x
<1> QED BY <1>1, <1>2

LEMMA UnwaitedKept ==
  ASSUME Inv, marks' = Unwaited(mounted), Grows, Older, mounted' = mounted
  PROVE  marks' \subseteq MarkRecord /\ MarksOK'
<1>1. Types
  BY DEF Inv
<1>2. \A n \in marks : n.book \in reached' /\ views'[n.view].seq > 0 /\ ("auto" \in n.waiters => n.view = mounted)
  BY DEF Inv, MarksOK, Grows, Older, Types, MarkRecord
<1>3. marks' \subseteq MarkRecord
  BY <1>1, UnwaitedGives
<1>4. \A m \in marks' : \E n \in marks : m.book = n.book /\ m.view = n.view /\ m.waiters \subseteq n.waiters
  BY <1>1, UnwaitedGives
<1> HIDE DEF Grows, Older
<1> QED BY <1>2, <1>3, <1>4 DEF MarksOK

\* A mark is asked for in the view on the screen, for a book on its end.
LEMMA EnsureGives ==
  ASSUME Inv, NEW waiter \in {"stable", "auto", "manual"}, EnsureFinished(mounted, waiter),
         mounted # 0, store.book \in Books, store.book \in reached', Grows, Older, mounted' = mounted
  PROVE  marks' \subseteq MarkRecord /\ MarksOK'
<1> DEFINE mine == {m \in marks : m.view = mounted /\ m.latest}
           same == {m \in mine : m.book = store.book}
           more(m) == [m EXCEPT !.waiters = @ \cup {waiter}]
           older(m) == [m EXCEPT !.latest = FALSE]
           one == [view |-> mounted, book |-> store.book, latest |-> TRUE, waiters |-> {waiter}]
<1>1. marks \subseteq MarkRecord /\ mounted \in View
  BY DEF Inv, Types, View
<1>2. ASSUME NEW m \in marks
      PROVE  /\ more(m) \in MarkRecord /\ more(m).book = m.book /\ more(m).view = m.view
             /\ more(m).waiters = m.waiters \cup {waiter}
             /\ older(m) \in MarkRecord /\ older(m).book = m.book /\ older(m).view = m.view
             /\ older(m).waiters = m.waiters
  <2>1. m \in MarkRecord
    BY <1>1
  <2> QED BY <2>1 DEF MarkRecord
<1>3. one \in MarkRecord /\ one.book = store.book /\ one.view = mounted
  BY <1>1 DEF MarkRecord
<1>4. marks' = IF same # {} THEN (marks \ same) \cup {more(m) : m \in same}
               ELSE (marks \ mine) \cup {older(m) : m \in mine} \cup {one}
  BY DEF EnsureFinished
<1> HIDE DEF more, older, one
<1>5. marks' \subseteq MarkRecord
  BY <1>1, <1>2, <1>3, <1>4
<1>6. ASSUME NEW m \in marks'
      PROVE  m.book \in reached' /\ views'[m.view].seq > 0 /\ ("auto" \in m.waiters => m.view = mounted)
  <2>1. \A k \in marks : k.book \in reached' /\ views'[k.view].seq > 0 /\ ("auto" \in k.waiters => k.view = mounted)
    BY DEF Inv, MarksOK, Grows, Older, Types, MarkRecord
  <2>2. views'[mounted].seq > 0
    BY <1>1 DEF Inv, VisitsOK, Older
  <2> QED BY <1>2, <1>3, <1>4, <1>6, <2>1, <2>2
<1> QED BY <1>5, <1>6 DEF MarksOK

\* A view without a load never was on the screen.
LEMMA UsedViews ==
  ASSUME Inv, NEW v \in View
  PROVE  /\ views[v] \in ViewRecord /\ v # 0
         /\ views[v].seq = 0 => views[v] = Unused
         /\ views[v].cv.phase # "idle" => views[v].seq > 0
<1>1. views[v] \in ViewRecord /\ v # 0
  BY DEF Inv, Types, View
<1>2. views[v].seq > 0 \/ views[v] = Unused
  BY DEF Inv, VisitsOK, Fresh
<1>3. Unused.cv.phase = "idle"
  <2>1. Unused.cv = IdleCv
    BY DEF Unused
  <2>2. IdleCv.phase = "idle"
    BY DEF IdleCv
  <2> QED BY <2>1, <2>2
<1>4. views[v].seq > 0 => views[v].seq # 0
  BY <1>1 DEF ViewRecord
<1> QED BY <1>1, <1>2, <1>3, <1>4

\* What is left alone.
LEMMA Alone ==
  ASSUME Inv
  PROVE  /\ UNCHANGED <<store, mode>> /\ reached \subseteq reached' => StoreOK'
         /\ (debounce' = debounce \/ debounce' = Nothing) /\ reached \subseteq reached' => SavesOK'
         /\ marks' \subseteq marks /\ Older /\ mounted' = mounted /\ reached \subseteq reached' => MarksOK'
<1>1. UNCHANGED <<store, mode>> /\ reached \subseteq reached' => StoreOK'
  BY DEF Inv, StoreOK, Paged
<1>2. (debounce' = debounce \/ debounce' = Nothing) /\ reached \subseteq reached' => SavesOK'
  BY DEF Inv, SavesOK
<1>3. ASSUME marks' \subseteq marks, Older, mounted' = mounted, reached \subseteq reached' PROVE MarksOK'
  BY <1>3 DEF Inv, MarksOK, Older, Types, MarkRecord
<1> QED BY <1>1, <1>2, <1>3

\* The parts a step has shown.
LEMMA Together ==
  ASSUME VisitsOK', LoadsOK', ScreenOK', IntentsHeard', BottomOK', EndsTrue',
         StoreOK', SavesOK', MarksOK', Types'
  PROVE  Inv'
BY DEF Inv

\* Nothing happens.
LEMMA StutterKeeps ==
  ASSUME Inv, UNCHANGED vars PROVE Inv'
<1>1. Stays /\ Grows /\ Older /\ UNCHANGED <<views, show>>
  BY DEF vars, Stays, Grows, Older, Inv, EndsTrue
<1>2. Types' /\ StoreOK' /\ SavesOK' /\ MarksOK'
  BY DEF vars, Inv, Types, StoreOK, SavesOK, MarksOK, Paged
<1> QED BY <1>1, <1>2, StillKept, Together

LEMMA ToggleModeKeeps ==
  ASSUME Inv, ToggleMode PROVE Inv'
<1>1. Grows
  BY SaveGives DEF ToggleMode
<1>2. Stays /\ Older /\ UNCHANGED <<views, show, store, mode, marks>>
  BY DEF ToggleMode, Stays, Older
<1>3. debounce' = debounce \/ debounce' = Nothing
  BY DEF ToggleMode, CancelDebounce
<1>4. StoreOK' /\ SavesOK' /\ MarksOK'
  BY <1>1, <1>2, <1>3, Alone DEF Grows, Stays
<1>5. Types'
  BY <1>3 DEF ToggleMode, Inv, Types
<1> QED BY <1>1, <1>2, <1>4, <1>5, StillKept, Together

LEMMA DebounceKeeps ==
  ASSUME Inv, DebounceFires PROVE Inv'
<1>1. Grows
  <2>1. finished \ late \subseteq reached /\ reached' = reached
    BY DEF Inv, EndsTrue, DebounceFires
  <2>2. debounce.book = store.book /\ debounce.plan = store.spreads /\ debounce.at >= Len(store.spreads)
          => debounce.book \in reached
    BY DEF Inv, SavesOK, DebounceFires
  <2>3. \/ finished' = finished /\ late' = late
        \/ /\ debounce.at >= Len(store.spreads)
           /\ finished' = finished \cup {debounce.book}
           /\ late' = IF (debounce.book # store.book \/ debounce.plan # store.spreads)
                         /\ debounce.book \notin finished
                      THEN late \cup {debounce.book} ELSE late
    BY DEF DebounceFires
  <2> QED BY <2>1, <2>2, <2>3 DEF Grows
<1>2. Stays /\ Older /\ UNCHANGED <<views, show, store, mode, marks>> /\ debounce' = Nothing
  BY DEF DebounceFires, Stays, Older
<1>3. StoreOK' /\ SavesOK' /\ MarksOK'
  BY <1>1, <1>2, Alone DEF Grows, Stays
<1>4. Types'
  BY DEF DebounceFires, Inv, Types
<1> QED BY <1>1, <1>2, <1>3, <1>4, StillKept, Together

-----------------------------------------------------------------------------
(* Pages.                                                                  *)

\* The store goes to a place of its plan.
LEMMA MoveGives ==
  ASSUME Inv, store.book # Nothing, NEW i \in 1 .. Len(store.spreads), MoveTo(i), mounted # 0,
         UNCHANGED <<route, mounted, loads, marks, mode, finished, late>>
  PROVE  Inv'
<1>0. store \in StoreRecord
  BY DEF Inv, Types
<1>1. /\ store' \in StoreRecord /\ store'.book = store.book /\ store'.spreads = store.spreads /\ store'.at = i
      /\ debounce' = [book |-> store.book, at |-> i, plan |-> store.spreads]
      /\ reached' = IF i = Len(store.spreads) THEN reached \cup {store.book} ELSE reached
  <2>1. store' = [store EXCEPT !.at = i] /\ i \in Int
    BY DEF MoveTo
  <2>2. store' \in StoreRecord /\ store'.book = store.book /\ store'.spreads = store.spreads /\ store'.at = i
    BY <1>0, <2>1 DEF StoreRecord
  <2> QED BY <2>2 DEF MoveTo, Stands, OnEnd
<1>2. debounce' \in SaveRecord
  BY <1>0, <1>1 DEF StoreRecord, SaveRecord
<1>3. Stays /\ Older /\ Grows /\ UNCHANGED <<views, show, marks>>
  BY <1>1 DEF MoveTo, Stays, Older, Grows, Inv, EndsTrue
<1>4. StoreOK'
  BY <1>1 DEF StoreOK
<1>5. SavesOK'
  <2>1. Len(store.spreads) \in Nat
    BY <1>0, PlanShape DEF StoreRecord, Plans
  <2>2. debounce'.book = store.book /\ debounce'.at = i /\ debounce'.plan = store.spreads
    BY <1>1
  <2>3. i >= Len(store.spreads) => i = Len(store.spreads)
    BY <2>1
  <2> QED BY <1>1, <2>2, <2>3 DEF SavesOK
<1>6. MarksOK'
  BY <1>3, Alone DEF Grows, Stays
<1>7. Types'
  BY <1>1, <1>2, <1>3 DEF Inv, Types, Stays
<1> QED BY <1>3, <1>4, <1>5, <1>6, <1>7, StillKept, Together

\* What rests when one view and the show change.
LEMMA OnlyOneView ==
  ASSUME Inv, NEW v \in View, NEW w, NEW x, NEW sh, NEW by, Becomes(v, w, x, sh, by), Grows,
         UNCHANGED <<route, mounted, loads, store, mode>>, debounce' = debounce \/ debounce' = Nothing,
         marks' \subseteq marks \/ (marks' \subseteq MarkRecord /\ (Older => MarksOK'))
  PROVE  Inv'
<1>1. Stays
  BY DEF Stays
<1>2. /\ VisitsOK' /\ LoadsOK' /\ ScreenOK' /\ IntentsHeard' /\ BottomOK' /\ EndsTrue'
      /\ views' \in [View -> ViewRecord] /\ show' \in ShowRecord /\ Older
  BY <1>1, BecomesKept
<1>3. StoreOK' /\ SavesOK' /\ MarksOK'
  BY <1>2, Alone DEF Grows
<1>4. Types'
  BY <1>2 DEF Inv, Types
<1> QED BY <1>2, <1>3, <1>4, Together

\* An end in pages is raised.
LEMMA EndRaised ==
  ASSUME Inv, mounted # 0, Paged, OnEnd(store), NEW sh \in {show, Paused(show)}, NEW fromShow \in BOOLEAN,
         NEW how, Become(mounted, Raise(views[mounted], sh, fromShow, "page", how)),
         UNCHANGED <<route, mounted, loads, marks, store, debounce, mode, finished, reached, late>>
  PROVE  Inv'
<1> DEFINE w == views[mounted]
           o == Raise(w, sh, fromShow, "page", how)
<1>1. /\ Types /\ mounted \in View /\ w \in ViewRecord /\ show \in ShowRecord /\ w.seq > 0
  BY DEF Inv, Types, VisitsOK, View
<1>2. /\ sh \in ShowRecord /\ (sh.playing => show.playing) /\ sh.pending = show.pending
      /\ sh.raisedIn = show.raisedIn
  BY <1>1, ShowGives
<1> HIDE DEF w
<1>3. Outcome(o.view, o.show, w, sh, "page")
  BY <1>1, <1>2, RaiseGives
<1>4. views' = [views EXCEPT ![mounted] = o.view] /\ show' = o.show
  BY DEF Become, w
<1> HIDE DEF o
<1>5. Outcome(o.view, o.show, w, show, "page")
  BY <1>2, <1>3 DEF Outcome
<1>6. store.book \in reached
  BY DEF Inv, StoreOK, OnEnd
<1>7. /\ w.stable => w.bottom
      /\ (w.bottom /\ store.book # Nothing) => store.book \in reached
      /\ w.marked => (store.book # Nothing /\ store.book \in finished)
  BY <1>1 DEF Inv, BottomOK, w
<1>8. Becomes(mounted, w, o.view, o.show, "page")
  BY <1>1, <1>4, <1>5, <1>6, <1>7 DEF Becomes, w, Loader
<1>9. Grows
  BY DEF Grows, Inv, EndsTrue
<1> QED BY <1>1, <1>8, <1>9, OnlyOneView

LEMMA TurnKeeps ==
  ASSUME Inv, Turn PROVE Inv'
<1>1. /\ mounted # 0 /\ store.book # Nothing /\ Paged
      /\ UNCHANGED <<route, mounted, loads, marks, mode, finished, late>>
  BY DEF Turn
<1>2. store.at \in 1 .. Len(store.spreads) /\ Len(store.spreads) \in Nat /\ DOMAIN store.spreads = 1 .. Len(store.spreads)
  BY <1>1, PlanShape DEF Inv, StoreOK, Types, StoreRecord, Plans
<1>3. CASE NextPage /\ OnEnd(store)
  BY <1>1, <1>3, EndRaised DEF NextPage
<1>4. CASE NextPage /\ ~OnEnd(store)
  <2>1. store.at + 1 \in 1 .. Len(store.spreads)
    BY <1>1, <1>2, <1>4 DEF OnEnd
  <2>2. MoveTo(store.at + 1)
    BY <1>4 DEF NextPage
  <2> QED BY <1>1, <2>1, <2>2, MoveGives
<1>5. CASE PrevPage
  <2>1. store.at - 1 \in 1 .. Len(store.spreads)
    BY <1>2, <1>5 DEF PrevPage
  <2>2. MoveTo(store.at - 1)
    BY <1>5 DEF PrevPage
  <2> QED BY <1>1, <2>1, <2>2, MoveGives
<1>6. CASE JumpToSpread
  BY <1>1, <1>2, <1>6, MoveGives DEF JumpToSpread
<1> QED BY <1>3, <1>4, <1>5, <1>6 DEF Turn

LEMMA TickKeeps ==
  ASSUME Inv, Tick PROVE Inv'
<1>1. /\ mounted # 0 /\ store.book # Nothing /\ Paged
      /\ UNCHANGED <<route, mounted, loads, marks, mode, finished, late>>
  BY ReaderAssumption DEF Tick, ScreenUp, Inv, ScreenOK, VisitsOK
<1>2. store.at \in 1 .. Len(store.spreads) /\ Len(store.spreads) \in Nat
  BY <1>1, PlanShape DEF Inv, StoreOK, Types, StoreRecord, Plans
<1>3. CASE OnEnd(store)
  BY <1>1, <1>3, EndRaised DEF Tick
<1>4. CASE ~OnEnd(store)
  <2>1. CASE MoveTo(store.at + 1)
    <3>1. store.at + 1 \in 1 .. Len(store.spreads)
      BY <1>1, <1>2, <1>4 DEF OnEnd
    <3> QED BY <1>1, <2>1, <3>1, MoveGives
  <2>2. CASE PrevPage
    <3>1. store.at - 1 \in 1 .. Len(store.spreads)
      BY <1>2, <2>2 DEF PrevPage
    <3>2. MoveTo(store.at - 1)
      BY <2>2 DEF PrevPage
    <3> QED BY <1>1, <3>1, <3>2, MoveGives
  <2> QED BY <1>4, <2>1, <2>2 DEF Tick
<1> QED BY <1>3, <1>4

-----------------------------------------------------------------------------
(* Modes and the slide show.                                               *)

LEMMA ToggleShowKeeps ==
  ASSUME Inv, ToggleShow PROVE Inv'
<1> DEFINE w == views[mounted]
           sh == [show EXCEPT !.playing = ~@]
<1>1. /\ mounted \in View /\ mounted # 0 /\ w \in ViewRecord /\ show \in ShowRecord /\ w.seq > 0
      /\ views \in [View -> ViewRecord]
  BY DEF Inv, Types, VisitsOK, View, ToggleShow
<1>2. sh \in ShowRecord /\ sh.pending = show.pending /\ sh.raisedIn = show.raisedIn
  BY <1>1 DEF ShowRecord
<1>3. show' = sh /\ UNCHANGED <<route, mounted, views, loads, marks, store, debounce, mode, finished, reached, late>>
  BY DEF ToggleShow
<1> HIDE DEF sh
<1>4. Outcome(w, sh, w, show, "force")
  BY <1>1, <1>2 DEF Outcome, Loader
<1>5. views' = [views EXCEPT ![mounted] = w]
  BY <1>1, <1>3
<1>6. /\ w.stable => w.bottom
      /\ (w.bottom /\ store.book # Nothing) => store.book \in reached
      /\ w.marked => (store.book # Nothing /\ store.book \in finished)
  BY <1>1 DEF Inv, BottomOK
<1>7. Becomes(mounted, w, w, sh, "force")
  BY <1>1, <1>3, <1>4, <1>5, <1>6 DEF Becomes, Loader
<1>8. Grows
  BY <1>3 DEF Grows, Inv, EndsTrue
<1> QED BY <1>1, <1>3, <1>7, <1>8, OnlyOneView

\* The spreads are planned again.
LEMMA Replanned ==
  ASSUME Inv, CycleMode
  PROVE  /\ store' \in StoreRecord /\ store'.book = store.book /\ (mounted = 0 => store' = store)
         /\ store.book # Nothing => store'.at \in 1 .. Len(store'.spreads)
<1> DEFINE plan == Plan(mode' = "single")
           at == SpreadOf(store.spreads[store.at], plan)
<1>1. store \in StoreRecord
  BY DEF Inv, Types
<1>2. store' = IF mounted = 0 \/ store.book = Nothing THEN store
               ELSE [store EXCEPT !.spreads = plan, !.at = at]
  BY DEF CycleMode
<1>3. CASE mounted = 0 \/ store.book = Nothing
  <2>1. mounted = 0 => store.book = Nothing
    BY DEF Inv, VisitsOK, Closed
  <2> QED BY <1>1, <1>2, <1>3, <2>1
<1>4. CASE ~(mounted = 0 \/ store.book = Nothing)
  <2>1. (mode' = "single") \in BOOLEAN
    OBVIOUS
  <2>2. store.at \in 1 .. Len(store.spreads)
    BY <1>4 DEF Inv, StoreOK
  <2>3. store.spreads[store.at] \in 0 .. PageCount - 1
    <3>1. CASE store.spreads = <<>>
      BY <2>2, <3>1
    <3>2. CASE store.spreads = Plan(TRUE)
      BY <2>2, <3>2, PlanShape
    <3>3. CASE store.spreads = Plan(FALSE)
      BY <2>2, <3>3, PlanShape
    <3> QED BY <1>1, <3>1, <3>2, <3>3 DEF StoreRecord, Plans
  <2>4. plan \in Plans /\ Len(plan) \in Nat /\ at \in 1 .. Len(plan)
    BY <2>1, <2>3, SpreadExists, PlanShape DEF Plans
  <2> HIDE DEF plan, at
  <2>5. [store EXCEPT !.spreads = plan, !.at = at] \in StoreRecord
    <3>1. at \in Int
      BY <2>4
    <3>2. [store EXCEPT !.spreads = plan] \in StoreRecord
      BY <1>1, <2>4 DEF StoreRecord
    <3>3. ASSUME NEW s \in StoreRecord PROVE [s EXCEPT !.at = at] \in StoreRecord
      BY <3>1, <3>3 DEF StoreRecord
    <3> QED BY <3>2, <3>3
  <2>6. /\ store' \in StoreRecord /\ store'.book = store.book /\ store'.spreads = plan /\ store'.at = at
    BY <1>1, <1>2, <1>4, <2>5 DEF StoreRecord
  <2> QED BY <1>4, <2>4, <2>6
<1> QED BY <1>3, <1>4

LEMMA CycleModeKeeps ==
  ASSUME Inv, CycleMode PROVE Inv'
<1>1. /\ store' \in StoreRecord /\ store'.book = store.book /\ (mounted = 0 => store' = store)
      /\ store.book # Nothing => store'.at \in 1 .. Len(store'.spreads)
  BY Replanned
<1>2. UNCHANGED <<route, mounted, loads, debounce, show, finished, late>>
  BY DEF CycleMode
<1>3. reached' = IF mode' # "webtoon" THEN (IF OnEnd(store') THEN reached \cup {store'.book} ELSE reached)
                 ELSE reached
  BY DEF CycleMode, Stands
<1>4. Stays /\ Grows
  BY <1>1, <1>2, <1>3 DEF Stays, Grows, Inv, EndsTrue
<1>5. StoreOK'
  BY <1>1, <1>3 DEF StoreOK, OnEnd, Paged
<1>6. SavesOK'
  BY <1>2, <1>4, Alone DEF Grows
<1>7. CASE UNCHANGED <<views, marks>>
  <2>1. Older
    BY <1>7 DEF Older
  <2>2. MarksOK'
    BY <1>2, <1>4, <1>7, <2>1, Alone DEF Grows
  <2>3. Types'
    BY <1>1, <1>2, <1>7 DEF Inv, Types
  <2> QED BY <1>2, <1>4, <1>5, <1>6, <1>7, <2>2, <2>3, StillKept, Together
<1>8. CASE ~(mounted = 0 \/ "webtoon" \notin {mode, mode'})
  <2> DEFINE w == views[mounted]
             b == IF mode = "webtoon" THEN AtBottom(w, FALSE) ELSE w
             x == CancelAuto(b)
  <2>1. /\ Types /\ mounted \in View /\ w \in ViewRecord /\ show \in ShowRecord /\ w.seq > 0
    BY <1>8 DEF Inv, Types, VisitsOK, View
  <2>2. /\ w.stable => w.bottom
        /\ (w.bottom /\ store.book # Nothing) => store.book \in reached
        /\ w.marked => (store.book # Nothing /\ store.book \in finished)
    BY <2>1, <1>8 DEF Inv, BottomOK
  <2>3. views' = [views EXCEPT ![mounted] = x] /\ marks' = Unwaited(mounted)
    BY <1>8 DEF CycleMode
  <2> HIDE DEF w
  <2>4. /\ b \in ViewRecord /\ Loader(b, w) /\ b.cv = w.cv /\ b.marked = w.marked
        /\ (b.stable => b.bottom) /\ (b.bottom => w.bottom)
    BY <2>1, <2>2, BottomGives DEF Loader
  <2> HIDE DEF b
  <2>5. /\ x \in ViewRecord /\ Loader(x, b) /\ x.cv = b.cv /\ x.bottom = b.bottom /\ x.stable = b.stable
        /\ x.marked = b.marked
    BY <2>4, CancelGives
  <2> HIDE DEF x
  <2>6. Outcome(x, show, x, show, "force")
    BY <2>1, <2>5 DEF Outcome, Loader
  <2>7. Becomes(mounted, x, x, show, "force")
    <3>1. Loader(x, views[mounted]) /\ x.cv = views[mounted].cv
      BY <2>4, <2>5 DEF Loader, w
    <3>2. (x.bottom /\ store.book # Nothing) => store.book \in reached'
      BY <1>4, <2>2, <2>4, <2>5 DEF Grows
    <3>3. x.marked => (store.book # Nothing /\ store.book \in finished')
      BY <1>4, <2>2, <2>4, <2>5 DEF Grows
    <3> QED BY <1>2, <2>1, <2>3, <2>4, <2>5, <2>6, <3>1, <3>2, <3>3 DEF Becomes, w
  <2>8. /\ VisitsOK' /\ LoadsOK' /\ ScreenOK' /\ IntentsHeard' /\ BottomOK' /\ EndsTrue'
        /\ views' \in [View -> ViewRecord] /\ show' \in ShowRecord /\ Older
    BY <1>4, <2>1, <2>7, BecomesKept
  <2>9. marks' \subseteq MarkRecord /\ MarksOK'
    BY <1>2, <1>4, <2>3, <2>8, UnwaitedKept
  <2>10. Types'
    BY <1>1, <1>2, <2>8, <2>9 DEF Inv, Types
  <2> QED BY <1>5, <1>6, <2>8, <2>9, <2>10, Together
<1> QED BY <1>7, <1>8 DEF CycleMode

-----------------------------------------------------------------------------
(* The end of a webtoon.                                                   *)

\* What the view on the screen is, at the beginning of a step.
LEMMA Shown ==
  ASSUME Inv, mounted # 0
  PROVE  /\ Types /\ mounted \in View /\ show \in ShowRecord /\ views \in [View -> ViewRecord]
         /\ views[mounted] \in ViewRecord /\ views[mounted].seq > 0 /\ route \in Books
         /\ views[mounted].stable => views[mounted].bottom
         /\ (views[mounted].bottom /\ store.book # Nothing) => store.book \in reached
         /\ views[mounted].marked => (store.book # Nothing /\ store.book \in finished)
         /\ ScreenUp => (store.book = route /\ store.book \in Books /\ store.book # Nothing)
         /\ store.book \in Known
BY ReaderAssumption DEF Inv, Types, VisitsOK, BottomOK, ScreenOK, View, StoreRecord

LEMMA ScrollKeeps ==
  ASSUME Inv, NEW auto \in BOOLEAN, Scroll(auto) PROVE Inv'
<1>1. mounted # 0 /\ ScreenUp
  BY DEF Scroll, ScreenUp
<1>2. PICK bottom \in BOOLEAN :
        LET w == AtBottom(views[mounted], bottom)
        IN /\ views' = [views EXCEPT ![mounted] = IF auto /\ bottom THEN [w EXCEPT !.auto = store.book] ELSE w]
           /\ show' = IF auto /\ bottom THEN Paused(show) ELSE show
           /\ marks' = IF (auto /\ bottom) \/ (~bottom /\ views[mounted].bottom) THEN Unwaited(mounted) ELSE marks
           /\ reached' = IF bottom THEN reached \cup {store.book} ELSE reached
  BY DEF Scroll, ReachBottom
<1> DEFINE w == AtBottom(views[mounted], bottom)
           x == IF auto /\ bottom THEN [w EXCEPT !.auto = store.book] ELSE w
           sh == IF auto /\ bottom THEN Paused(show) ELSE show
<1>3. /\ views' = [views EXCEPT ![mounted] = x] /\ show' = sh
      /\ marks' = marks \/ marks' = Unwaited(mounted)
      /\ reached' = IF bottom THEN reached \cup {store.book} ELSE reached
  BY <1>2
<1>4. /\ w \in ViewRecord /\ Loader(w, views[mounted]) /\ w.cv = views[mounted].cv
      /\ w.bottom = bottom /\ w.marked = views[mounted].marked /\ (w.stable => w.bottom)
  BY <1>1, Shown, BottomGives
<1> HIDE DEF w
<1>5. /\ x \in ViewRecord /\ Loader(x, views[mounted]) /\ x.cv = views[mounted].cv
      /\ x.bottom = bottom /\ x.marked = views[mounted].marked /\ (x.stable => x.bottom)
  <2>1. [w EXCEPT !.auto = store.book] \in ViewRecord
    BY <1>1, <1>4, Shown DEF ViewRecord
  <2> QED BY <1>4, <2>1 DEF ViewRecord, Loader
<1>6. sh \in ShowRecord /\ (sh.playing => show.playing) /\ sh.pending = show.pending /\ sh.raisedIn = show.raisedIn
  BY <1>1, Shown, ShowGives
<1> HIDE DEF x, sh
<1>7. UNCHANGED <<route, mounted, loads, store, debounce, mode, finished, late>>
  BY DEF Scroll
<1>8. Grows
  BY <1>3, <1>7 DEF Grows, Inv, EndsTrue
<1>9. Becomes(mounted, x, x, sh, "force")
  <2>1. Outcome(x, sh, x, show, "force")
    BY <1>5, <1>6 DEF Outcome, Loader
  <2>2. (x.bottom /\ store.book # Nothing) => store.book \in reached'
    BY <1>3, <1>5
  <2>3. x.marked => (store.book # Nothing /\ store.book \in finished')
    BY <1>1, <1>5, <1>7, Shown
  <2> QED BY <1>1, <1>3, <1>5, <1>6, <2>1, <2>2, <2>3, Shown DEF Becomes
<1>10. Older => marks' \subseteq marks \/ (marks' \subseteq MarkRecord /\ MarksOK')
  BY <1>3, <1>7, <1>8, UnwaitedKept
<1>11. marks' \subseteq marks \/ marks' \subseteq MarkRecord
  BY <1>1, <1>3, Shown, UnwaitedGives
<1> QED BY <1>1, <1>7, <1>8, <1>9, <1>10, <1>11, Shown, OnlyOneView

\* A view changes without its controller.
LEMMA PlainBecomes ==
  ASSUME Inv, mounted # 0, NEW x \in ViewRecord,
         Loader(x, views[mounted]) /\ x.cv = views[mounted].cv /\ (x.stable => x.bottom)
           /\ (x.marked => views[mounted].marked),
         (x.bottom /\ store.book # Nothing) => store.book \in reached',
         views' = [views EXCEPT ![mounted] = x], show' = show, finished \subseteq finished'
  PROVE  Becomes(mounted, x, x, show, "force")
<1>1. Outcome(x, show, x, show, "force")
  BY Shown DEF Outcome, Loader
<1>2. x.marked => (store.book # Nothing /\ store.book \in finished')
  BY Shown
<1> QED BY <1>1, <1>2, Shown DEF Becomes, Loader

LEMMA StableKeeps ==
  ASSUME Inv, StableFires PROVE Inv'
<1>1. mounted # 0 /\ views[mounted].stable
  BY DEF StableFires
<1> DEFINE w == views[mounted]
           x == [w EXCEPT !.stable = FALSE]
<1>2. views' = [views EXCEPT ![mounted] = x]
  BY DEF StableFires
<1>3. w \in ViewRecord /\ w.bottom /\ w.stable
  BY <1>1, Shown
<1> HIDE DEF w
<1>4. x \in ViewRecord /\ Loader(x, w) /\ x.cv = w.cv /\ x.bottom = w.bottom /\ ~x.stable /\ x.marked = w.marked
  BY <1>3 DEF ViewRecord, Loader
<1> HIDE DEF x
<1>5. UNCHANGED <<route, mounted, loads, store, debounce, show, mode, finished, reached, late>>
  BY DEF StableFires
<1>6. Grows
  BY <1>5 DEF Grows, Inv, EndsTrue
<1>7. Becomes(mounted, x, x, show, "force")
  BY <1>1, <1>2, <1>4, <1>5, <1>6, Shown, PlainBecomes DEF Grows, w
<1>8. CASE marks' = marks
  BY <1>1, <1>5, <1>6, <1>7, <1>8, Shown, OnlyOneView
<1>9. CASE store.book # Nothing /\ EnsureFinished(mounted, "stable")
  <2>1. store.book \in Books /\ store.book \in reached'
    BY <1>1, <1>3, <1>5, <1>9, Shown DEF w, Known
  <2>2. Older
    BY <1>1, <1>5, <1>6, <1>7, Shown, BecomesKept DEF Stays
  <2>3. marks' \subseteq MarkRecord /\ MarksOK'
    BY <1>1, <1>5, <1>6, <1>9, <2>1, <2>2, EnsureGives
  <2> QED BY <1>1, <1>5, <1>6, <1>7, <2>3, Shown, OnlyOneView
<1> QED BY <1>8, <1>9 DEF StableFires

LEMMA AutoEndsKeeps ==
  ASSUME Inv, AutoEnds PROVE Inv'
<1> DEFINE w == views[mounted]
           gone == CancelAuto(w)
<1>1. mounted # 0 /\ w.auto # Nothing
  BY DEF AutoEnds
<1>2. UNCHANGED <<route, mounted, loads, store, debounce, mode, finished, reached, late>>
  BY DEF AutoEnds
<1>3. Grows
  BY <1>2 DEF Grows, Inv, EndsTrue
<1>4. \/ /\ views' = [views EXCEPT ![mounted] = gone] /\ UNCHANGED <<marks, show>>
      \/ /\ StillThere(w, w.auto) /\ w.marked /\ marks' = marks
         /\ \E how \in ContinueModes : Become(mounted, Raise(gone, show, TRUE, "bottom", how))
      \/ /\ StillThere(w, w.auto) /\ ~w.marked
         /\ views' = [views EXCEPT ![mounted] = gone] /\ show' = show /\ EnsureFinished(mounted, "auto")
  BY DEF AutoEnds
<1>5. /\ w \in ViewRecord /\ mounted \in View /\ Types /\ show \in ShowRecord
      /\ (w.stable => w.bottom)
      /\ (w.bottom /\ store.book # Nothing) => store.book \in reached
      /\ w.marked => (store.book # Nothing /\ store.book \in finished)
  BY <1>1, Shown
<1>6. StillThere(w, w.auto) => store.book = w.auto /\ w.bottom
  BY DEF StillThere
<1> HIDE DEF w
<1>7. /\ gone \in ViewRecord /\ Loader(gone, w) /\ gone.cv = w.cv /\ gone.bottom = w.bottom
      /\ gone.stable = w.stable /\ gone.marked = w.marked
  BY <1>5, CancelGives
<1> HIDE DEF gone
<1>8. ASSUME views' = [views EXCEPT ![mounted] = gone], show' = show
      PROVE  Becomes(mounted, gone, gone, show, "force")
  BY <1>1, <1>2, <1>3, <1>5, <1>7, <1>8, PlainBecomes DEF Grows, w
<1>9. CASE views' = [views EXCEPT ![mounted] = gone] /\ UNCHANGED <<marks, show>>
  BY <1>2, <1>3, <1>5, <1>7, <1>8, <1>9, OnlyOneView
<1>10. CASE /\ StillThere(w, w.auto) /\ w.marked /\ marks' = marks
            /\ \E how \in ContinueModes : Become(mounted, Raise(gone, show, TRUE, "bottom", how))
  <2>1. PICK how \in ContinueModes : Become(mounted, Raise(gone, show, TRUE, "bottom", how))
    BY <1>10
  <2> DEFINE o == Raise(gone, show, TRUE, "bottom", how)
  <2>2. Outcome(o.view, o.show, gone, show, "bottom")
    BY <1>1, <1>5, <1>7, RaiseGives
  <2>3. views' = [views EXCEPT ![mounted] = o.view] /\ show' = o.show
    BY <2>1 DEF Become
  <2> HIDE DEF o
  <2>4. store.book \in reached /\ store.book \in finished
    BY <1>1, <1>5, <1>6, <1>10
  <2>5. Becomes(mounted, gone, o.view, o.show, "bottom")
    BY <1>1, <1>2, <1>5, <1>7, <2>2, <2>3, <2>4, Shown DEF Becomes, Loader, w
  <2> QED BY <1>2, <1>3, <1>5, <1>10, <2>5, OnlyOneView
<1>11. CASE /\ StillThere(w, w.auto) /\ ~w.marked
            /\ views' = [views EXCEPT ![mounted] = gone] /\ show' = show /\ EnsureFinished(mounted, "auto")
  <2>1. Becomes(mounted, gone, gone, show, "force")
    BY <1>8, <1>11
  <2>2. Older
    BY <1>2, <1>3, <1>5, <2>1, BecomesKept DEF Stays
  <2>3. store.book \in Books /\ store.book \in reached'
    BY <1>1, <1>2, <1>5, <1>6, <1>11, Shown DEF Known
  <2>4. marks' \subseteq MarkRecord /\ MarksOK'
    BY <1>1, <1>2, <1>3, <1>11, <2>2, <2>3, EnsureGives
  <2> QED BY <1>2, <1>3, <1>5, <2>1, <2>4, OnlyOneView
<1> QED BY <1>4, <1>9, <1>10, <1>11

LEMMA PushBottomKeeps ==
  ASSUME Inv, PushBottom PROVE Inv'
<1> DEFINE b == AtBottom(views[mounted], TRUE)
           w == CancelAuto(b)
<1>1. mounted # 0 /\ ScreenUp
  BY DEF PushBottom, ScreenUp
<1>2. /\ UNCHANGED <<route, mounted, loads, store, debounce, mode, finished, late>>
      /\ reached' = reached \cup {store.book}
  BY DEF PushBottom, ReachBottom
<1>3. Grows
  BY <1>2 DEF Grows, Inv, EndsTrue
<1>4. \/ /\ w.marked /\ marks' = marks
         /\ \E how \in ContinueModes : Become(mounted, MaybeContinue(w, show, "bottom", how))
      \/ /\ views' = [views EXCEPT ![mounted] = w] /\ show' = show /\ EnsureFinished(mounted, "manual")
  BY DEF PushBottom
<1>5. /\ b \in ViewRecord /\ Loader(b, views[mounted]) /\ b.cv = views[mounted].cv
      /\ b.bottom /\ b.marked = views[mounted].marked
  BY <1>1, Shown, BottomGives
<1> HIDE DEF b
<1>6. /\ w \in ViewRecord /\ Loader(w, views[mounted]) /\ w.cv = views[mounted].cv
      /\ w.bottom /\ w.marked = views[mounted].marked
  BY <1>5, CancelGives DEF Loader
<1> HIDE DEF w
<1>7. /\ mounted \in View /\ Types /\ show \in ShowRecord /\ views[mounted].seq > 0
      /\ w.marked => (store.book # Nothing /\ store.book \in finished)
      /\ store.book \in Books
  BY <1>1, <1>6, Shown
<1>8. CASE /\ w.marked /\ marks' = marks
           /\ \E how \in ContinueModes : Become(mounted, MaybeContinue(w, show, "bottom", how))
  <2>1. PICK how \in ContinueModes : Become(mounted, MaybeContinue(w, show, "bottom", how))
    BY <1>8
  <2> DEFINE o == MaybeContinue(w, show, "bottom", how)
  <2>2. Outcome(o.view, o.show, w, show, "bottom")
    BY <1>6, <1>7, ContinueGives
  <2>3. views' = [views EXCEPT ![mounted] = o.view] /\ show' = o.show
    BY <2>1 DEF Become
  <2> HIDE DEF o
  <2>4. Becomes(mounted, w, o.view, o.show, "bottom")
    BY <1>2, <1>6, <1>7, <1>8, <2>2, <2>3 DEF Becomes
  <2> QED BY <1>2, <1>3, <1>7, <1>8, <2>4, OnlyOneView
<1>9. CASE /\ views' = [views EXCEPT ![mounted] = w] /\ show' = show /\ EnsureFinished(mounted, "manual")
  <2>1. Becomes(mounted, w, w, show, "force")
    BY <1>1, <1>2, <1>6, <1>9, PlainBecomes
  <2>2. Older
    BY <1>2, <1>3, <1>7, <2>1, BecomesKept DEF Stays
  <2>3. marks' \subseteq MarkRecord /\ MarksOK'
    BY <1>1, <1>2, <1>3, <1>7, <1>9, <2>2, EnsureGives
  <2> QED BY <1>2, <1>3, <1>7, <2>1, <2>3, OnlyOneView
<1> QED BY <1>4, <1>8, <1>9

\* One outcome after another.
LEMMA OutcomeChain ==
  ASSUME NEW x, NEW sh, NEW y, NEW mid, NEW w, NEW old, NEW by,
         Outcome(y, mid, w, old, by), Outcome(x, sh, y, mid, by)
  PROVE  Outcome(x, sh, w, old, by)
BY DEF Outcome, Loader

LEMMA MarkedKeeps ==
  ASSUME Inv, NEW m \in marks, Marked(m) PROVE Inv'
<1>1. PICK ok \in BOOLEAN, how \in ContinueModes :
        LET w == [views[m.view] EXCEPT !.marked = @ \/ (ok /\ store.book = m.book)]
            passes == ok /\ StillThere(w, m.book)
            asked == IF "manual" \in m.waiters /\ passes THEN MaybeContinue(w, show, "bottom", how)
                     ELSE [view |-> w, show |-> show]
        IN /\ finished' = IF ok THEN finished \cup {m.book} ELSE finished
           /\ Become(m.view, IF "auto" \in m.waiters /\ passes
                             THEN Raise(asked.view, asked.show, TRUE, "bottom", how) ELSE asked)
  BY DEF Marked
<1> DEFINE v == m.view
           u == views[v]
           w == [u EXCEPT !.marked = @ \/ (ok /\ store.book = m.book)]
           passes == ok /\ StillThere(w, m.book)
           asked == IF "manual" \in m.waiters /\ passes THEN MaybeContinue(w, show, "bottom", how)
                    ELSE [view |-> w, show |-> show]
           o == IF "auto" \in m.waiters /\ passes
                THEN Raise(asked.view, asked.show, TRUE, "bottom", how) ELSE asked
           by == IF passes THEN "bottom" ELSE "force"
<1>2. /\ finished' = IF ok THEN finished \cup {m.book} ELSE finished
      /\ views' = [views EXCEPT ![v] = o.view] /\ show' = o.show
  BY <1>1 DEF Become
<1>3. /\ UNCHANGED <<route, mounted, loads, store, debounce, mode, reached, late>> /\ marks' \subseteq marks
  BY DEF Marked
<1>4. /\ v \in View /\ m.book \in Books /\ m.book \in reached /\ u.seq > 0
      /\ "auto" \in m.waiters => v = mounted
      /\ u \in ViewRecord /\ Types /\ show \in ShowRecord
  BY DEF Inv, Types, MarksOK, MarkRecord
<1>5. Grows
  BY <1>2, <1>3, <1>4 DEF Grows, Inv, EndsTrue
<1> HIDE DEF u, v
<1>6. /\ w \in ViewRecord /\ Loader(w, u) /\ w.cv = u.cv /\ w.bottom = u.bottom /\ w.stable = u.stable
      /\ w.marked = (u.marked \/ (ok /\ store.book = m.book))
  BY <1>4 DEF ViewRecord, Loader
<1>7. passes => store.book = m.book /\ ok
  BY DEF StillThere
<1> HIDE DEF w, passes
<1>8. /\ Outcome(asked.view, asked.show, w, show, "bottom")
      /\ ~passes => asked.view = w /\ asked.show = show
      /\ asked.show.pending => (show.pending /\ asked.show.raisedIn = show.raisedIn)
  <2>1. CASE "manual" \in m.waiters /\ passes
    <3> DEFINE p == MaybeContinue(w, show, "bottom", how)
    <3>1. /\ Outcome(p.view, p.show, w, show, "bottom")
          /\ p.show.raisedIn = show.raisedIn
          /\ p.show.pending => show.pending
      BY <1>4, <1>6, ContinueGives
    <3>2. asked = p
      BY <2>1
    <3> HIDE DEF p, asked
    <3> QED BY <2>1, <3>1, <3>2
  <2>2. CASE ~("manual" \in m.waiters /\ passes)
    <3>1. asked.view = w /\ asked.show = show
      BY <2>2
    <3> HIDE DEF asked
    <3> QED BY <1>4, <1>6, <3>1 DEF Outcome, Loader
  <2> QED BY <2>1, <2>2
<1> HIDE DEF asked
<1>9. /\ Outcome(o.view, o.show, w, show, by)
      /\ v = mounted \/ (o.show.pending => (show.pending /\ o.show.raisedIn = show.raisedIn))
  <2>1. CASE "auto" \in m.waiters /\ passes
    <3> DEFINE r == Raise(asked.view, asked.show, TRUE, "bottom", how)
    <3>1. mounted # 0 /\ v = mounted
      BY <1>4, <2>1 DEF View
    <3>2. asked.view \in ViewRecord /\ asked.show \in ShowRecord
      BY <1>8 DEF Outcome
    <3>3. Outcome(r.view, r.show, asked.view, asked.show, "bottom")
      BY <1>4, <3>1, <3>2, RaiseGives
    <3>4. o = r
      BY <2>1
    <3> HIDE DEF r, o
    <3>5. Outcome(o.view, o.show, w, show, "bottom")
      BY <1>8, <3>3, <3>4, OutcomeChain
    <3> QED BY <2>1, <3>1, <3>5
  <2>2. CASE ~("auto" \in m.waiters /\ passes)
    <3>1. o = asked
      BY <2>2
    <3> HIDE DEF o
    <3>2. CASE passes
      BY <1>8, <3>1, <3>2
    <3>3. CASE ~passes
      <4>1. o.view = w /\ o.show = show
        BY <1>8, <3>1, <3>3
      <4> QED BY <1>4, <1>6, <4>1 DEF Outcome, Loader
    <3> QED BY <3>2, <3>3
  <2> QED BY <2>1, <2>2
<1> HIDE DEF o
<1>10. Becomes(v, w, o.view, o.show, by)
  <2>1. views[v] = u
    BY DEF u
  <2>2. w.stable => w.bottom
    BY <1>4, <1>6, <2>1 DEF Inv, BottomOK
  <2>3. v = mounted => /\ (w.bottom /\ store.book # Nothing) => store.book \in reached'
                       /\ w.marked => (store.book # Nothing /\ store.book \in finished')
    <3>1. ASSUME v = mounted
          PROVE  /\ (u.bottom /\ store.book # Nothing) => store.book \in reached
                 /\ u.marked => (store.book # Nothing /\ store.book \in finished)
      BY <1>4, <2>1, <3>1, Shown DEF View
    <3> QED BY <1>2, <1>3, <1>4, <1>6, <3>1, ReaderAssumption
  <2>4. /\ by \in {"page", "bottom"} => store.book \in reached'
        /\ by = "bottom" => store.book \in finished'
    BY <1>2, <1>3, <1>4, <1>7
  <2> QED BY <1>2, <1>4, <1>6, <1>9, <2>1, <2>2, <2>3, <2>4 DEF Becomes
<1> QED BY <1>3, <1>4, <1>5, <1>10, OnlyOneView

-----------------------------------------------------------------------------
(* The controller of the crossing.                                         *)

\* The controller of a view goes on or settles.
LEMMA CvBecomes ==
  ASSUME Inv, NEW v \in View, views[v].cv.phase # "idle", NEW c \in CvRecord, NEW sh \in ShowRecord,
         c.by = "" \/ (c.by = views[v].cv.by /\ c.start = views[v].cv.start),
         sh.playing => (show.playing \/ mounted # 0),
         sh.pending => (c.phase # "idle" /\ show.pending /\ sh.raisedIn = show.raisedIn),
         views' = [views EXCEPT ![v] = [views[v] EXCEPT !.cv = c]], show' = sh,
         reached \subseteq reached', finished \subseteq finished'
  PROVE  Becomes(v, views[v], [views[v] EXCEPT !.cv = c], sh, "force")
<1> DEFINE w == views[v]
           x == [w EXCEPT !.cv = c]
<1>1. w \in ViewRecord /\ w.seq > 0
  BY UsedViews
<1>2. views' = [views EXCEPT ![v] = x]
  OBVIOUS
<1>3. /\ w.stable => w.bottom
      /\ v = mounted => /\ (w.bottom /\ store.book # Nothing) => store.book \in reached'
                        /\ w.marked => (store.book # Nothing /\ store.book \in finished')
  <2>1. w.stable => w.bottom
    BY DEF Inv, BottomOK
  <2>2. v # 0
    BY UsedViews
  <2> QED BY <2>1, <2>2, Shown
<1> HIDE DEF w
<1>4. /\ x \in ViewRecord /\ Loader(x, w) /\ x.cv = c /\ x.bottom = w.bottom /\ x.stable = w.stable
      /\ x.marked = w.marked
  BY <1>1 DEF ViewRecord, Loader
<1>5. w.cv = views[v].cv
  BY DEF w
<1> HIDE DEF x
<1>6. Outcome(x, sh, w, show, "force")
  BY <1>4, <1>5 DEF Outcome
<1>7. Becomes(v, w, x, sh, "force")
  BY <1>1, <1>2, <1>3, <1>4, <1>5, <1>6 DEF Becomes, Loader, w
<1> QED BY <1>7 DEF w, x

LEMMA CvKeeps ==
  ASSUME Inv, NEW v \in View, views[v].cv.phase # "idle", NEW c \in CvRecord, NEW sh \in ShowRecord,
         c.by = "" \/ (c.by = views[v].cv.by /\ c.start = views[v].cv.start),
         sh.playing => (show.playing \/ mounted # 0),
         sh.pending => (c.phase # "idle" /\ show.pending /\ sh.raisedIn = show.raisedIn),
         views' = [views EXCEPT ![v] = [views[v] EXCEPT !.cv = c]], show' = sh,
         Grows, UNCHANGED <<route, mounted, loads, marks, store, mode>>,
         debounce' = debounce \/ debounce' = Nothing
  PROVE  Inv'
<1>1. Becomes(v, views[v], [views[v] EXCEPT !.cv = c], sh, "force")
  BY CvBecomes DEF Grows
<1> QED BY <1>1, OnlyOneView

\* The controller settles.
LEMMA SettleKeeps ==
  ASSUME Inv, NEW v \in View, views[v].cv.phase # "idle", NEW sh \in ShowRecord,
         Become(v, [view |-> [views[v] EXCEPT !.cv = IdleCv], show |-> sh]),
         ~sh.pending, sh.playing => (show.playing \/ mounted # 0),
         UNCHANGED <<route, mounted, loads, marks, store, mode, finished, reached, late, debounce>>
  PROVE  Inv'
<1>1. IdleCv \in CvRecord /\ IdleCv.by = ""
  BY DEF IdleCv, CvRecord, Known
<1>2. views' = [views EXCEPT ![v] = [views[v] EXCEPT !.cv = IdleCv]] /\ show' = sh
  BY DEF Become
<1>3. Grows
  BY DEF Grows, Inv, EndsTrue
<1> QED BY <1>1, <1>2, <1>3, CvKeeps

\* The controller goes to another phase.
LEMMA StepKeeps ==
  ASSUME Inv, NEW v \in View, views[v].cv.phase \in {"awaiting-confirm", "saving", "ensuring"},
         NEW phase \in {"saving", "ensuring", "loading"},
         Step(v, phase), show' = show \/ show' = Paused(show),
         Grows, UNCHANGED <<route, mounted, loads, marks, store, mode>>,
         debounce' = debounce \/ debounce' = Nothing
  PROVE  Inv'
<1> DEFINE c == [views[v].cv EXCEPT !.phase = phase]
<1>1. views[v] \in ViewRecord /\ views[v].cv \in CvRecord /\ views \in [View -> ViewRecord] /\ show \in ShowRecord
  BY DEF Inv, Types, ViewRecord
<1>2. views' = [views EXCEPT ![v] = [views[v] EXCEPT !.cv = c]]
  BY <1>1 DEF Step
<1>3. c \in CvRecord /\ c.by = views[v].cv.by /\ c.start = views[v].cv.start /\ c.phase # "idle"
  BY <1>1 DEF CvRecord
<1> HIDE DEF c
<1>4. show' \in ShowRecord /\ (show'.playing => show.playing) /\ show'.pending = show.pending
      /\ show'.raisedIn = show.raisedIn
  BY <1>1, ShowGives
<1> DEFINE sh == show'
<1>5. sh \in ShowRecord /\ (sh.playing => show.playing) /\ sh.pending = show.pending
      /\ sh.raisedIn = show.raisedIn /\ show' = sh
  BY <1>4
<1> HIDE DEF sh
<1> QED BY <1>2, <1>3, <1>5, CvKeeps

LEMMA ForceKeeps ==
  ASSUME Inv, ForceNext PROVE Inv'
<1> DEFINE w == views[mounted]
           o == MaybeContinue(w, show, "force", "auto")
<1>1. mounted # 0 /\ UNCHANGED <<route, mounted, loads, marks, store, debounce, mode, finished, reached, late>>
  BY DEF ForceNext
<1>2. /\ mounted \in View /\ w \in ViewRecord /\ Types /\ show \in ShowRecord /\ w.seq > 0
      /\ (w.stable => w.bottom)
      /\ (w.bottom /\ store.book # Nothing) => store.book \in reached
      /\ w.marked => (store.book # Nothing /\ store.book \in finished)
  BY <1>1, Shown
<1>3. views' = [views EXCEPT ![mounted] = o.view] /\ show' = o.show
  BY DEF ForceNext, Become
<1> HIDE DEF w
<1>4. Outcome(o.view, o.show, w, show, "force")
  BY <1>2, ContinueGives
<1> HIDE DEF o
<1>5. Becomes(mounted, w, o.view, o.show, "force")
  BY <1>1, <1>2, <1>3, <1>4 DEF Becomes, Loader, w
<1>6. Grows
  BY <1>1 DEF Grows, Inv, EndsTrue
<1> QED BY <1>1, <1>2, <1>5, <1>6, OnlyOneView

LEMMA FoundKeeps ==
  ASSUME Inv, NEW v \in View, Found(v) PROVE Inv'
<1> DEFINE cv == views[v].cv
<1>1. cv.phase = "resolving" /\ UNCHANGED <<route, mounted, loads, marks, store, mode, reached, late>>
  BY DEF Found
<1>2. cv \in CvRecord /\ show \in ShowRecord
  BY DEF Inv, Types, ViewRecord
<1>3. CASE Settle(v) /\ UNCHANGED <<finished, debounce>>
  <2>1. Consumed(show) \in ShowRecord /\ ~Consumed(show).pending /\ Consumed(show).playing = show.playing
    BY <1>2, ShowGives
  <2> QED BY <1>1, <1>3, <2>1, SettleKeeps DEF Settle
<1>4. ASSUME show' = show, NEW target \in Books, NEW phase \in {"awaiting-confirm", "saving"},
             views' = [views EXCEPT ![v].cv = [cv EXCEPT !.phase = phase, !.target = target]],
             UNCHANGED <<finished, debounce>> \/ (SaveNow /\ debounce' = CancelDebounce)
      PROVE  Inv'
  <2> DEFINE c == [cv EXCEPT !.phase = phase, !.target = target]
  <2>1. views' = [views EXCEPT ![v] = [views[v] EXCEPT !.cv = c]]
    BY <1>4
  <2>2. views[v].cv.phase # "idle"
    BY <1>1
  <2> HIDE DEF cv
  <2>3. c \in CvRecord /\ c.by = cv.by /\ c.start = cv.start /\ c.phase # "idle"
    BY <1>2, <1>4 DEF CvRecord, Known
  <2> HIDE DEF c
  <2>4. Grows
    BY <1>1, <1>4, SaveGives DEF Grows, Inv, EndsTrue
  <2>5. debounce' = debounce \/ debounce' = Nothing
    BY <1>4 DEF CancelDebounce
  <2> QED BY <1>1, <1>2, <1>4, <2>1, <2>2, <2>3, <2>4, <2>5, CvKeeps DEF cv
<1>5. CASE /\ show' = show
           /\ \E target \in Books \ {cv.start} :
                IF cv.manual
                THEN /\ views' = [views EXCEPT ![v].cv = [cv EXCEPT !.phase = "awaiting-confirm", !.target = target]]
                     /\ UNCHANGED <<finished, debounce>>
                ELSE /\ views' = [views EXCEPT ![v].cv = [cv EXCEPT !.phase = "saving", !.target = target]]
                     /\ SaveNow /\ debounce' = CancelDebounce
  BY <1>4, <1>5
<1> QED BY <1>3, <1>5 DEF Found

LEMMA DecideKeeps ==
  ASSUME Inv, Decide PROVE Inv'
<1>1. /\ mounted # 0 /\ views[mounted].cv.phase = "awaiting-confirm"
      /\ UNCHANGED <<route, mounted, loads, marks, store, mode, reached, late>>
  BY DEF Decide
<1>2. mounted \in View /\ show \in ShowRecord
  BY <1>1, Shown
<1>3. CASE Settle(mounted) /\ UNCHANGED <<finished, debounce>>
  <2>1. Consumed(show) \in ShowRecord /\ ~Consumed(show).pending /\ Consumed(show).playing = show.playing
    BY <1>2, ShowGives
  <2> QED BY <1>1, <1>2, <1>3, <2>1, SettleKeeps DEF Settle
<1>4. CASE Step(mounted, "saving") /\ show' = show /\ SaveNow /\ debounce' = CancelDebounce
  <2>1. Grows
    BY <1>1, <1>4, SaveGives
  <2>2. debounce' = debounce \/ debounce' = Nothing
    BY <1>4 DEF CancelDebounce
  <2> QED BY <1>1, <1>2, <1>4, <2>1, <2>2, StepKeeps
<1> QED BY <1>3, <1>4 DEF Decide

LEMMA SavedKeeps ==
  ASSUME Inv, NEW v \in View, Saved(v) PROVE Inv'
<1>1. /\ views[v].cv.phase = "saving"
      /\ UNCHANGED <<route, mounted, loads, marks, store, debounce, mode, finished, reached, late>>
  BY DEF Saved
<1>2. show \in ShowRecord
  BY DEF Inv, Types
<1>3. CASE Step(v, "ensuring") /\ show' = Paused(show)
  <2>1. Grows
    BY <1>1 DEF Grows, Inv, EndsTrue
  <2> QED BY <1>1, <1>3, <2>1, StepKeeps
<1>4. CASE Become(v, [view |-> [views[v] EXCEPT !.cv = IdleCv], show |-> Consumed(Paused(show))])
  <2>1. /\ Consumed(Paused(show)) \in ShowRecord /\ ~Consumed(Paused(show)).pending
        /\ ~Consumed(Paused(show)).playing
    BY <1>2, ShowGives
  <2> QED BY <1>1, <1>4, <2>1, SettleKeeps
<1> QED BY <1>3, <1>4 DEF Saved

LEMMA ArrivedKeeps ==
  ASSUME Inv, NEW v \in View, Arrived(v) PROVE Inv'
<1> DEFINE resumes == views[v].cv.resumes /\ Identity(views[v]) # Nothing
           again == [show EXCEPT !.playing = @ \/ resumes]
           sh == Consumed(again)
<1>1. /\ views[v].cv.phase = "loading"
      /\ Become(v, [view |-> [views[v] EXCEPT !.cv = IdleCv], show |-> sh])
      /\ UNCHANGED <<route, mounted, loads, marks, store, debounce, mode, finished, reached, late>>
  BY DEF Arrived
<1>2. show \in ShowRecord /\ resumes \in BOOLEAN
  BY DEF Inv, Types
<1>3. resumes => mounted # 0
  BY DEF Identity, Inv, VisitsOK, Closed
<1> HIDE DEF resumes
<1>4. again \in ShowRecord /\ again.playing = (show.playing \/ resumes)
  BY <1>2 DEF ShowRecord
<1> HIDE DEF again
<1>5. sh \in ShowRecord /\ ~sh.pending /\ sh.playing = again.playing
  BY <1>4, ShowGives
<1> HIDE DEF sh
<1> QED BY <1>1, <1>3, <1>4, <1>5, SettleKeeps

-----------------------------------------------------------------------------
(* Visits and loads.                                                       *)

\* The next view is the first that never was on the screen.
LEMMA NextView ==
  ASSUME Inv, Visits < MaxVisits
  PROVE  /\ Visits + 1 \in View /\ views[Visits + 1] = Unused /\ Visits \in 0 .. MaxVisits
         /\ Fresh(Visits)
<1>1. PICK n \in 0 .. MaxVisits : Fresh(n)
  BY DEF Inv, VisitsOK
<1>2. MaxVisits \in Nat /\ DOMAIN views = View
  BY ReaderAssumption DEF Inv, Types
<1>3. {v \in DOMAIN views : views[v] # Unused} = 1 .. n
  <2>1. Unused.seq = 0
    BY DEF Unused
  <2>2. ASSUME NEW v \in View PROVE views[v] # Unused <=> v <= n
    BY <1>1, <2>1, <2>2 DEF Fresh
  <2> QED BY <1>1, <1>2, <2>2 DEF View
<1>4. Cardinality(1 .. n) = n
  BY <1>1, FS_Interval
<1>5. Visits = n
  BY <1>3, <1>4 DEF Visits
<1> QED BY <1>1, <1>2, <1>5 DEF Fresh, View

\* A view is mounted, and with it a load begun; what a controller of a view
\* that is gone notes does not matter.
LEMMA Mounts ==
  ASSUME Inv, mounted = 0, Visits < MaxVisits, mounted' = Visits + 1, NEW book \in Books, route' = book,
         NEW explicit \in BOOLEAN, loads' = loads \cup LoadOf(Visits + 1, book, explicit),
         views' \in [View -> ViewRecord],
         views'[Visits + 1] = Loading(Unused, book),
         \A u \in View \ {Visits + 1} :
            /\ Loader(views'[u], views[u]) /\ views'[u].bottom = views[u].bottom
            /\ views'[u].stable = views[u].stable /\ views'[u].marked = views[u].marked
            /\ views'[u].cv.by = views[u].cv.by /\ views'[u].cv.start = views[u].cv.start
            /\ views[u].seq = 0 => views'[u] = views[u],
         show' \in ShowRecord, show'.pending => (show.pending /\ show'.raisedIn = show.raisedIn),
         UNCHANGED <<marks, store, debounce, mode, finished, reached, late>>
  PROVE  Inv'
<1> DEFINE n == Visits
           k == n + 1
           new == LoadOf(k, book, explicit)
           fresh == Loading(Unused, book)
<1>1. k \in View /\ views[k] = Unused /\ n \in 0 .. MaxVisits /\ k = n + 1 /\ Fresh(n) /\ Types
  BY NextView DEF Inv
<1>2. /\ Unused \in ViewRecord /\ Unused.seq = 0 /\ Unused.phase = "idle" /\ ~Unused.bottom /\ ~Unused.stable
      /\ ~Unused.marked /\ Unused.cv = IdleCv
  BY <1>1 DEF Types, Unused
<1>3. /\ fresh \in ViewRecord /\ fresh.seq = 1 /\ fresh.phase = "loading" /\ ~fresh.bottom /\ ~fresh.stable
      /\ ~fresh.marked /\ fresh.cv = IdleCv
  BY <1>2, LoadingGives
<1>4. new \subseteq LoadRecord /\ \A l \in new : l.view = k /\ l.book = book /\ l.seq = 1
  BY <1>1, <1>2, LoadOfGives
<1>5. loads' = loads \cup new /\ views'[k] = fresh /\ mounted' = k /\ route' = book
  OBVIOUS
<1>6. \A u \in View \ {k} :
            /\ Loader(views'[u], views[u]) /\ views'[u].bottom = views[u].bottom
            /\ views'[u].stable = views[u].stable /\ views'[u].marked = views[u].marked
            /\ views'[u].cv.by = views[u].cv.by /\ views'[u].cv.start = views[u].cv.start
            /\ views[u].seq = 0 => views'[u] = views[u]
  OBVIOUS
<1> HIDE DEF n, k, new, fresh
<1>7. Types'
  <2>1. loads' \subseteq LoadRecord
    BY <1>1, <1>4, <1>5 DEF Types
  <2> QED BY <1>1, <1>5, <2>1 DEF Types, Known, View
<1>8. VisitsOK'
  <2>0. PICK i \in 0 .. MaxVisits : i = k
    BY <1>1 DEF View
  <2>1. Fresh(i)'
    <3>1. ASSUME NEW u \in View PROVE IF u <= k THEN views'[u].seq > 0 ELSE views'[u] = Unused
      <4>1. CASE u = k
        BY <1>1, <1>3, <1>5, <4>1 DEF View
      <4>2. CASE u # k
        <5>1. IF u <= n THEN views[u].seq > 0 ELSE views[u] = Unused
          BY <1>1 DEF Fresh
        <5>2. u <= k <=> u <= n
          BY <1>1, <4>2 DEF View
        <5> QED BY <1>2, <1>6, <4>2, <5>1, <5>2 DEF Loader
      <4> QED BY <4>1, <4>2
    <3> QED BY <2>0, <3>1 DEF Fresh, View
  <2>2. k \in 0 .. MaxVisits /\ k # 0
    BY <1>1 DEF View
  <2>3. show'.pending => (show'.raisedIn # 0 /\ views'[show'.raisedIn].seq > 0)
    <3>1. ASSUME show.pending PROVE show.raisedIn \in View /\ show.raisedIn # k /\ views[show.raisedIn].seq > 0
      BY <1>1, <1>2, <3>1 DEF Inv, VisitsOK, Types, ShowRecord, View
    <3> QED BY <1>6, <3>1 DEF Loader, View
  <2>4. \E j \in 0 .. MaxVisits : Fresh(j)'
    BY <2>1
  <2> QED BY <1>3, <1>5, <2>2, <2>3, <2>4 DEF VisitsOK
<1>9. LoadsOK'
  <2>1. ASSUME NEW l \in loads
        PROVE  /\ 0 < l.seq /\ l.seq <= views'[l.view].seq
               /\ l.seq # views'[l.view].seq
    <3>1. l.view \in View /\ l.seq \in Nat
      BY <1>1 DEF Types, LoadRecord
    <3>2. 0 < l.seq /\ l.seq <= views[l.view].seq /\ l.seq # views[l.view].seq
      BY <3>1 DEF Inv, LoadsOK, View
    <3>3. l.view # k
      BY <1>1, <1>2, <3>1, <3>2
    <3> QED BY <1>6, <3>1, <3>2, <3>3 DEF Loader
  <2>2. ASSUME NEW l \in new
        PROVE  /\ 0 < l.seq /\ l.seq <= views'[l.view].seq /\ l.view = mounted' /\ l.book = route'
    BY <1>3, <1>4, <1>5
  <2> QED BY <1>5, <2>1, <2>2 DEF LoadsOK
<1>10. ScreenOK'
  BY <1>3, <1>5 DEF ScreenOK, ScreenUp
<1>11. IntentsHeard'
  <2>1. show.pending => show.raisedIn # k
    BY <1>1, <1>2 DEF Inv, VisitsOK
  <2> QED BY <1>5, <2>1 DEF IntentsHeard
<1>12. StoreOK' /\ SavesOK'
  BY Alone
<1>13. MarksOK'
  <2>1. ASSUME NEW m \in marks PROVE m.book \in reached /\ views'[m.view].seq > 0 /\ "auto" \notin m.waiters
    <3>1. m.view \in View /\ m.book \in reached /\ views[m.view].seq > 0 /\ "auto" \notin m.waiters
      BY <1>1 DEF Inv, MarksOK, Types, MarkRecord, View
    <3>2. m.view # k
      BY <1>1, <1>2, <3>1
    <3> QED BY <1>6, <3>1, <3>2 DEF Loader
  <2> QED BY <2>1 DEF MarksOK
<1>14. BottomOK'
  <2>1. \A u \in View : views'[u].stable => views'[u].bottom
    BY <1>3, <1>5, <1>6 DEF Inv, BottomOK
  <2> QED BY <1>3, <1>5, <2>1 DEF BottomOK
<1>15. EndsTrue'
  <2>1. finished \ late \subseteq reached /\ \A u \in View : Ended(views[u].cv)
    BY <1>1, EndsAre DEF Inv, Types
  <2>2. ASSUME NEW u \in View PROVE Ended(views'[u].cv)
    <3>1. CASE u = k
      <4>1. IdleCv.by = ""
        BY DEF IdleCv
      <4> QED BY <1>3, <1>5, <3>1, <4>1 DEF Ended
    <3>2. CASE u # k
      BY <1>6, <2>1, <3>2 DEF Ended
    <3> QED BY <3>1, <3>2
  <2>3. DOMAIN views' = View
    OBVIOUS
  <2> QED BY <2>1, <2>2, <2>3 DEF EndsTrue, Ended
<1> QED BY <1>7, <1>8, <1>9, <1>10, <1>11, <1>12, <1>13, <1>14, <1>15, Together

LEMMA VisitKeeps ==
  ASSUME Inv, Visit PROVE Inv'
<1>1. PICK book \in Books, explicit \in BOOLEAN : Mount(book, explicit)
  BY DEF Visit
<1> DEFINE k == Visits + 1
<1>2. /\ mounted = 0 /\ k <= MaxVisits /\ mounted' = k /\ route' = book
      /\ views' = [views EXCEPT ![k] = Loading(@, book)]
      /\ loads' = loads \cup LoadOf(k, book, explicit) /\ show' = show
      /\ UNCHANGED <<marks, store, debounce, mode, finished, reached, late>>
  BY <1>1 DEF Mount, Visit
<1>3. Visits < MaxVisits
  <2>1. MaxVisits \in Nat /\ Visits \in Int
    <3>1. IsFiniteSet(View)
      BY ReaderAssumption, FS_Interval DEF View
    <3>2. DOMAIN views = View
      BY DEF Inv, Types
    <3>3. IsFiniteSet({v \in DOMAIN views : views[v] # Unused})
      BY <3>1, <3>2, FS_Subset
    <3> QED BY <3>3, ReaderAssumption, FS_CardinalityType DEF Visits
  <2> QED BY <1>2, <2>1
<1>4. k \in View /\ views[k] = Unused /\ views \in [View -> ViewRecord] /\ show \in ShowRecord
  BY <1>3, NextView DEF Inv, Types
<1>5. Loading(Unused, book) \in ViewRecord
  BY <1>4, LoadingGives
<1>6. /\ views' \in [View -> ViewRecord] /\ views'[k] = Loading(Unused, book)
      /\ \A u \in View \ {k} : views'[u] = views[u]
  BY <1>2, <1>4, <1>5
<1>7. /\ mounted' = Visits + 1 /\ loads' = loads \cup LoadOf(Visits + 1, book, explicit)
      /\ views'[Visits + 1] = Loading(Unused, book)
      /\ \A u \in View \ {Visits + 1} :
            /\ Loader(views'[u], views[u]) /\ views'[u].bottom = views[u].bottom
            /\ views'[u].stable = views[u].stable /\ views'[u].marked = views[u].marked
            /\ views'[u].cv.by = views[u].cv.by /\ views'[u].cv.start = views[u].cv.start
            /\ views[u].seq = 0 => views'[u] = views[u]
  BY <1>2, <1>6 DEF Loader
<1> HIDE DEF k
<1> QED BY <1>2, <1>3, <1>4, <1>6, <1>7, Mounts

LEMMA LeaveKeeps ==
  ASSUME Inv, Leave PROVE Inv'
<1> DEFINE w == views[mounted]
           x == Unmounted(w)
<1>1. /\ mounted # 0 /\ views' = [views EXCEPT ![mounted] = x]
      /\ marks' = Unwaited(mounted) /\ show' = Paused(show)
      /\ store' = Closed /\ debounce' = Nothing /\ route' = Nothing /\ mounted' = 0
      /\ UNCHANGED <<loads, mode, reached, late>>
  BY DEF Leave
<1>2. /\ Types /\ mounted \in View /\ w \in ViewRecord /\ w.seq > 0 /\ views \in [View -> ViewRecord]
      /\ show \in ShowRecord
  BY <1>1, Shown
<1>3. Grows
  <2>1. CASE SaveNow
    BY <1>1, <2>1, SaveGives
  <2>2. CASE finished' = finished
    BY <1>1, <2>2 DEF Grows, Inv, EndsTrue
  <2> QED BY <2>1, <2>2 DEF Leave
<1> HIDE DEF w
<1>4. /\ x \in ViewRecord /\ x.seq = w.seq + 1 /\ x.cv = w.cv /\ ~x.stable
  <2> DEFINE c == CancelAuto(w)
             s == c.seq + 1
  <2>1. c \in ViewRecord /\ c.cv = w.cv /\ c.seq = w.seq
    BY <1>2, CancelGives DEF Loader
  <2>2. x = [c EXCEPT !.seq = s, !.stable = FALSE]
    BY DEF Unmounted
  <2> HIDE DEF c
  <2>3. s \in Nat
    BY <2>1 DEF ViewRecord
  <2> HIDE DEF s, x
  <2>4. [c EXCEPT !.seq = s] \in ViewRecord
    BY <2>1, <2>3 DEF ViewRecord
  <2>5. ASSUME NEW y \in ViewRecord PROVE [y EXCEPT !.stable = FALSE] \in ViewRecord
    BY <2>5 DEF ViewRecord
  <2>6. x \in ViewRecord
    BY <2>2, <2>4, <2>5
  <2>7. x.seq = s /\ x.cv = c.cv /\ ~x.stable
    BY <2>1, <2>2 DEF ViewRecord
  <2> QED BY <2>1, <2>6, <2>7 DEF s
<1> HIDE DEF x
<1>5. /\ views' \in [View -> ViewRecord] /\ views'[mounted] = x
      /\ \A u \in View \ {mounted} : views'[u] = views[u]
  BY <1>1, <1>2, <1>4
<1>6. w.seq \in Nat /\ w = views[mounted]
  BY <1>2 DEF ViewRecord, w
<1>7. Older
  BY <1>2, <1>4, <1>5, <1>6 DEF Older
<1>8. /\ Paused(show) \in ShowRecord /\ ~Paused(show).playing
      /\ Paused(show).pending = show.pending /\ Paused(show).raisedIn = show.raisedIn
  BY <1>2, ShowGives
<1>9. Types'
  <2>1. Closed \in StoreRecord
    BY DEF Closed, StoreRecord, Known, Plans
  <2>2. marks' \subseteq MarkRecord
    BY <1>1, <1>2, UnwaitedGives
  <2>3. 0 \in 0 .. MaxVisits
    BY ReaderAssumption
  <2> QED BY <1>1, <1>2, <1>5, <1>8, <2>1, <2>2, <2>3 DEF Types, Known
<1>10. VisitsOK'
  <2>1. PICK n \in 0 .. MaxVisits : Fresh(n)
    BY DEF Inv, VisitsOK
  <2>2. Fresh(n)'
    <3>1. ASSUME NEW u \in View PROVE IF u <= n THEN views'[u].seq > 0 ELSE views'[u] = Unused
      <4>1. CASE u = mounted
        <5>1. views[u] # Unused
          BY <1>2, <4>1 DEF Unused, w
        <5>2. u <= n
          BY <2>1, <5>1 DEF Fresh
        <5> QED BY <1>4, <1>5, <1>6, <4>1, <5>2
      <4>2. CASE u # mounted
        BY <1>5, <2>1, <4>2 DEF Fresh
      <4> QED BY <4>1, <4>2
    <3> QED BY <3>1 DEF Fresh, View
  <2>3. show.pending => (show.raisedIn # 0 /\ show.raisedIn \in View /\ views[show.raisedIn].seq > 0)
    BY <1>2 DEF Inv, VisitsOK, ShowRecord, View
  <2>4. \E k \in 0 .. MaxVisits : Fresh(k)'
    BY <2>2
  <2>5. show'.pending => (show'.raisedIn # 0 /\ views'[show'.raisedIn].seq > 0)
    BY <1>1, <1>7, <1>8, <2>3 DEF Older
  <2> QED BY <1>1, <1>8, <2>4, <2>5 DEF VisitsOK
<1>11. LoadsOK'
  <2>1. ASSUME NEW l \in loads
        PROVE  0 < l.seq /\ l.seq <= views'[l.view].seq /\ l.seq # views'[l.view].seq
    <3>1. l.view \in View /\ l.seq \in Nat /\ views[l.view].seq \in Nat
      BY <1>2 DEF Types, LoadRecord, ViewRecord
    <3>2. 0 < l.seq /\ l.seq <= views[l.view].seq /\ (l.seq = views[l.view].seq => l.view = mounted)
      BY DEF Inv, LoadsOK
    <3> QED BY <1>4, <1>5, <1>6, <3>1, <3>2
  <2> QED BY <1>1, <2>1 DEF LoadsOK
<1>12. ScreenOK' /\ IntentsHeard' /\ SavesOK'
  BY <1>1 DEF ScreenOK, ScreenUp, IntentsHeard, SavesOK
<1>13. StoreOK'
  BY <1>1 DEF StoreOK, Closed
<1>14. MarksOK'
  <2>1. \A n \in marks : n.book \in reached /\ views'[n.view].seq > 0 /\ ("auto" \in n.waiters => n.view = mounted)
    BY <1>2, <1>7 DEF Inv, MarksOK, Older, Types, MarkRecord
  <2>2. ASSUME NEW m \in marks' PROVE m.book \in reached' /\ views'[m.view].seq > 0 /\ "auto" \notin m.waiters
    <3>1. /\ m.view = mounted => "auto" \notin m.waiters
          /\ \E n \in marks : m.book = n.book /\ m.view = n.view /\ m.waiters \subseteq n.waiters
      BY <1>1, <1>2, UnwaitedGives
    <3> QED BY <1>1, <2>1, <3>1
  <2> QED BY <2>2 DEF MarksOK
<1>15. BottomOK'
  BY <1>1, <1>4, <1>5 DEF Inv, BottomOK
<1>16. EndsTrue'
  <2>1. \A u \in View : Ended(views[u].cv)
    BY <1>2, EndsAre DEF Inv
  <2>2. ASSUME NEW u \in View PROVE Ended(views[u].cv)'
    <3>1. views'[u].cv = views[u].cv
      BY <1>4, <1>5, <1>6
    <3> QED BY <1>3, <2>1, <3>1 DEF Ended, Grows
  <2>3. DOMAIN views' = View
    BY <1>5
  <2> QED BY <1>3, <2>2, <2>3 DEF EndsTrue, Ended, Grows
<1> QED BY <1>9, <1>10, <1>11, <1>12, <1>13, <1>14, <1>15, <1>16, Together

LEMMA PlannedKeeps ==
  ASSUME Inv, NEW l \in loads, Planned(l) PROVE Inv'
<1> DEFINE plan == Plan(mode = "single")
           n == [l EXCEPT !.plan = plan]
<1>1. /\ loads' = (loads \ {l}) \cup {n}
      /\ UNCHANGED <<route, mounted, views, marks, store, debounce, show, mode, finished, reached, late>>
  BY DEF Planned
<1>2. l \in LoadRecord /\ plan \in Plans
  BY DEF Inv, Types, Plans
<1> HIDE DEF plan
<1>3. n \in LoadRecord /\ n.seq = l.seq /\ n.view = l.view /\ n.book = l.book
  BY <1>2 DEF LoadRecord
<1> HIDE DEF n
<1>4. Types'
  BY <1>1, <1>3 DEF Inv, Types
<1>5. LoadsOK'
  BY <1>1, <1>3 DEF Inv, LoadsOK
<1>6. VisitsOK' /\ ScreenOK' /\ IntentsHeard' /\ BottomOK' /\ EndsTrue'
  BY <1>1 DEF Inv, VisitsOK, Fresh, View, ScreenOK, ScreenUp, IntentsHeard, BottomOK, EndsTrue
<1>7. StoreOK' /\ SavesOK' /\ MarksOK'
  BY <1>1 DEF Inv, StoreOK, Paged, SavesOK, MarksOK
<1> QED BY <1>4, <1>5, <1>6, <1>7, Together

\* A load that comes too late changes nothing.
LEMMA LoadGone ==
  ASSUME Inv, loads' \subseteq loads,
         UNCHANGED <<route, mounted, views, marks, store, debounce, show, mode, finished, reached, late>>
  PROVE  Inv'
<1>1. Types'
  BY DEF Inv, Types
<1>2. LoadsOK'
  BY DEF Inv, LoadsOK
<1>3. VisitsOK' /\ ScreenOK' /\ IntentsHeard' /\ BottomOK' /\ EndsTrue'
  BY DEF Inv, VisitsOK, Fresh, View, ScreenOK, ScreenUp, IntentsHeard, BottomOK, EndsTrue
<1>4. StoreOK' /\ SavesOK' /\ MarksOK'
  BY DEF Inv, StoreOK, Paged, SavesOK, MarksOK
<1> QED BY <1>1, <1>2, <1>3, <1>4, Together

\* The newest load of a view is of the view on the screen.
LEMMA Current ==
  ASSUME Inv, NEW l \in loads, l.seq = views[l.view].seq
  PROVE  /\ l \in LoadRecord /\ l.view = mounted /\ l.book = route /\ mounted # 0 /\ route \in Books
         /\ mounted \in View
BY ReaderAssumption DEF Inv, Types, LoadsOK, LoadRecord, VisitsOK, View

\* What comes of it, whatever the store becomes.
LEMMA LoadEnds ==
  ASSUME Inv, mounted \in View, mounted # 0, NEW x \in ViewRecord,
         x.seq = views[mounted].seq /\ x.cv = views[mounted].cv,
         views' = [views EXCEPT ![mounted] = x], loads' \subseteq loads,
         UNCHANGED <<route, mounted, show, finished, late>>, reached \subseteq reached'
  PROVE  /\ VisitsOK' /\ LoadsOK' /\ IntentsHeard' /\ EndsTrue' /\ Older
         /\ views' \in [View -> ViewRecord]
         /\ views'[mounted] = x /\ \A u \in View \ {mounted} : views'[u] = views[u]
<1>1. /\ views' \in [View -> ViewRecord] /\ views \in [View -> ViewRecord]
      /\ views'[mounted] = x /\ \A u \in View \ {mounted} : views'[u] = views[u]
  BY DEF Inv, Types
<1>2. \A u \in View : views'[u].seq = views[u].seq /\ views'[u].cv = views[u].cv
  BY <1>1
<1>3. views[mounted].seq > 0 /\ views[mounted] # Unused
  BY DEF Inv, VisitsOK, Unused
<1>4. VisitsOK'
  <2>1. PICK n \in 0 .. MaxVisits : Fresh(n)
    BY DEF Inv, VisitsOK
  <2>2. mounted <= n
    BY <1>3, <2>1 DEF Fresh
  <2>3. Fresh(n)'
    <3>1. ASSUME NEW u \in View PROVE IF u <= n THEN views'[u].seq > 0 ELSE views'[u] = Unused
      BY <1>1, <1>2, <2>1, <2>2, <3>1 DEF Fresh
    <3> QED BY <3>1 DEF Fresh, View
  <2>4. \E k \in 0 .. MaxVisits : Fresh(k)'
    BY <2>3
  <2>5. show.pending => (show.raisedIn # 0 /\ views'[show.raisedIn].seq > 0)
    BY <1>2 DEF Inv, VisitsOK, Types, ShowRecord, View
  <2> QED BY <1>2, <1>3, <2>4, <2>5 DEF Inv, VisitsOK
<1>5. LoadsOK'
  <2>1. \A l \in loads : l.view \in View
    BY DEF Inv, Types, LoadRecord
  <2> QED BY <1>2, <2>1 DEF Inv, LoadsOK
<1>6. IntentsHeard'
  BY <1>2 DEF Inv, IntentsHeard
<1>7. EndsTrue'
  <2>1. \A u \in View : Ended(views[u].cv)
    BY <1>1, EndsAre DEF Inv
  <2>2. \A u \in View : Ended(views[u].cv)'
    BY <1>2, <2>1 DEF Ended
  <2>3. DOMAIN views' = View
    BY <1>1
  <2>4. finished' \ late' \subseteq reached'
    BY DEF Inv, EndsTrue
  <2> QED BY <2>2, <2>3, <2>4 DEF EndsTrue, Ended
<1>8. Older
  BY <1>2 DEF Older
<1> QED BY <1>1, <1>4, <1>5, <1>6, <1>7, <1>8

LEMMA LoadedKeeps ==
  ASSUME Inv, NEW l \in loads, Loaded(l) PROVE Inv'
<1> DEFINE w == views[l.view]
           b == BookChanged(w, l.book)
           a == AtBottom(b, FALSE)
           x == [a EXCEPT !.last = l.book, !.phase = "ready"]
<1>1. /\ l.plan # <<>> /\ loads' \subseteq loads
      /\ UNCHANGED <<route, mounted, debounce, show, mode, finished, late>>
  BY DEF Loaded
<1>2. CASE l.seq # w.seq
  BY <1>1, <1>2, LoadGone DEF Loaded
<1>3. CASE l.seq = w.seq
  <2>1. /\ l \in LoadRecord /\ l.view = mounted /\ l.book = route /\ mounted # 0 /\ route \in Books
        /\ mounted \in View /\ l.book \in Books
    BY <1>3, Current
  <2>2. PICK at \in Openings(l) :
          /\ store' = [book |-> l.book, spreads |-> l.plan, at |-> at]
          /\ views' = [views EXCEPT ![mounted] = x]
          /\ marks' = IF l.book # store.book \/ w.bottom THEN Unwaited(mounted) ELSE marks
          /\ reached' = IF Paged THEN Stands(store') ELSE reached
    BY <1>3, <2>1 DEF Loaded
  <2>3. /\ w \in ViewRecord /\ w = views[mounted]
        /\ (w.stable => w.bottom)
        /\ w.marked => (store.book # Nothing /\ store.book \in finished)
    BY <2>1, Shown
  <2> HIDE DEF w
  <2>4. /\ b \in ViewRecord /\ Loader(b, w) /\ b.cv = w.cv
        /\ b.stable => b.bottom
        /\ b.marked => w.marked
        /\ (l.book # store.book /\ store.book # Nothing) => ~b.marked
    BY <2>3, ChangeGives
  <2> HIDE DEF b
  <2>5. /\ a \in ViewRecord /\ Loader(a, b) /\ a.cv = b.cv /\ ~a.bottom /\ ~a.stable /\ a.marked = b.marked
    BY <2>4, BottomGives
  <2> HIDE DEF a
  <2>6. /\ x \in ViewRecord /\ x.seq = a.seq /\ x.cv = a.cv /\ ~x.bottom /\ ~x.stable /\ x.marked = a.marked
        /\ x.last = l.book
    <3>1. [a EXCEPT !.last = l.book] \in ViewRecord
      BY <2>1, <2>5 DEF ViewRecord, Known
    <3>2. ASSUME NEW y \in ViewRecord PROVE [y EXCEPT !.phase = "ready"] \in ViewRecord
      BY <3>2 DEF ViewRecord
    <3>3. x \in ViewRecord
      BY <3>1, <3>2
    <3> QED BY <2>5, <3>3 DEF ViewRecord
  <2> HIDE DEF x
  <2>7. x.seq = views[mounted].seq /\ x.cv = views[mounted].cv
    BY <2>3, <2>4, <2>5, <2>6 DEF Loader
  <2>8. store'.book = l.book /\ store'.spreads = l.plan /\ store'.at = at
    BY <2>2
  <2>9. at \in 1 .. Len(l.plan)
    <3>1. DOMAIN l.plan = 1 .. Len(l.plan) /\ Len(l.plan) \in Nat \ {0}
      BY <1>1, <2>1, PlanShape DEF LoadRecord, Plans
    <3> QED BY <2>2, <3>1 DEF Openings
  <2>10. reached' = IF Paged /\ at = Len(l.plan) THEN reached \cup {l.book} ELSE reached
    BY <2>1, <2>2, <2>8, ReaderAssumption DEF Stands, OnEnd
  <2>11. /\ VisitsOK' /\ LoadsOK' /\ IntentsHeard' /\ EndsTrue' /\ Older
         /\ views' \in [View -> ViewRecord]
         /\ views'[mounted] = x /\ \A u \in View \ {mounted} : views'[u] = views[u]
    BY <1>1, <2>1, <2>2, <2>6, <2>7, <2>10, LoadEnds
  <2>12. Grows
    BY <1>1, <2>10 DEF Grows, Inv, EndsTrue
  <2>13. StoreOK'
    BY <1>1, <2>8, <2>9, <2>10 DEF StoreOK, Paged
  <2>14. SavesOK'
    BY <1>1, <2>12, Alone DEF Grows
  <2>15. marks' \subseteq MarkRecord /\ MarksOK'
    <3>1. CASE marks' = Unwaited(mounted)
      BY <1>1, <2>11, <2>12, <3>1, UnwaitedKept
    <3>2. CASE marks' = marks
      BY <1>1, <2>11, <2>12, <3>2, Alone DEF Grows, Inv, Types
    <3> QED BY <2>2, <3>1, <3>2
  <2>16. ScreenOK'
    BY <1>1, <2>1, <2>6, <2>8, <2>11 DEF ScreenOK
  <2>17. BottomOK'
    <3>1. \A u \in View : views'[u].stable => views'[u].bottom
      BY <2>6, <2>11 DEF Inv, BottomOK
    <3>2. x.marked => (l.book # Nothing /\ l.book \in finished)
      BY <2>1, <2>3, <2>4, <2>5, <2>6, ReaderAssumption
    <3> QED BY <1>1, <2>6, <2>8, <2>11, <3>1, <3>2 DEF BottomOK
  <2>18. Types'
    <3>1. store' \in StoreRecord
      BY <2>1, <2>2, <2>9 DEF StoreRecord, LoadRecord, Known
    <3> QED BY <1>1, <2>11, <2>15, <3>1 DEF Inv, Types
  <2> QED BY <2>11, <2>13, <2>14, <2>15, <2>16, <2>17, <2>18, Together
<1> QED BY <1>2, <1>3

LEMMA LoadFailsKeeps ==
  ASSUME Inv, NEW l \in loads, LoadFails(l) PROVE Inv'
<1> DEFINE w == views[l.view]
           b == BookChanged(w, Nothing)
           x == [b EXCEPT !.phase = "error"]
<1>1. /\ loads' \subseteq loads
      /\ UNCHANGED <<route, mounted, show, mode, finished, reached, late>>
  BY DEF LoadFails
<1>2. CASE l.seq # w.seq
  BY <1>1, <1>2, LoadGone DEF LoadFails
<1>3. CASE l.seq = w.seq
  <2>1. /\ l \in LoadRecord /\ l.view = mounted /\ mounted # 0 /\ route \in Books /\ mounted \in View
    BY <1>3, Current
  <2>2. /\ store' = Closed /\ debounce' = Nothing
        /\ views' = [views EXCEPT ![mounted] = x]
        /\ marks' = IF store.book # Nothing THEN Unwaited(mounted) ELSE marks
    BY <1>3, <2>1 DEF LoadFails
  <2>3. /\ w \in ViewRecord /\ w = views[mounted] /\ (w.stable => w.bottom)
        /\ w.marked => (store.book # Nothing /\ store.book \in finished)
    BY <2>1, Shown
  <2> HIDE DEF w
  <2>4. /\ b \in ViewRecord /\ Loader(b, w) /\ b.cv = w.cv
        /\ b.stable => b.bottom
        /\ ~b.marked
    BY <2>3, ChangeGives
  <2> HIDE DEF b
  <2>5. /\ x \in ViewRecord /\ x.seq = b.seq /\ x.cv = b.cv /\ x.stable = b.stable /\ x.bottom = b.bottom
        /\ ~x.marked /\ x.phase = "error"
    BY <2>4 DEF ViewRecord
  <2> HIDE DEF x
  <2>6. x.seq = views[mounted].seq /\ x.cv = views[mounted].cv
    BY <2>3, <2>4, <2>5 DEF Loader
  <2>7. /\ VisitsOK' /\ LoadsOK' /\ IntentsHeard' /\ EndsTrue' /\ Older
        /\ views' \in [View -> ViewRecord]
        /\ views'[mounted] = x /\ \A u \in View \ {mounted} : views'[u] = views[u]
    BY <1>1, <2>1, <2>2, <2>5, <2>6, LoadEnds
  <2>8. Grows
    BY <1>1 DEF Grows, Inv, EndsTrue
  <2>9. store'.book = Nothing
    BY <2>2 DEF Closed
  <2>10. StoreOK' /\ SavesOK'
    BY <2>2, <2>9 DEF StoreOK, SavesOK
  <2>11. marks' \subseteq MarkRecord /\ MarksOK'
    <3>1. CASE marks' = Unwaited(mounted)
      BY <1>1, <2>7, <2>8, <3>1, UnwaitedKept
    <3>2. CASE marks' = marks
      BY <1>1, <2>7, <2>8, <3>2, Alone DEF Grows, Inv, Types
    <3> QED BY <2>2, <3>1, <3>2
  <2>12. ScreenOK'
    BY <1>1, <2>5, <2>7 DEF ScreenOK, ScreenUp
  <2>13. BottomOK'
    <3>1. \A u \in View : views'[u].stable => views'[u].bottom
      BY <2>4, <2>5, <2>7 DEF Inv, BottomOK
    <3> QED BY <1>1, <2>5, <2>7, <2>9, <3>1 DEF BottomOK
  <2>14. Types'
    <3>1. Closed \in StoreRecord
      BY DEF Closed, StoreRecord, Known, Plans
    <3> QED BY <1>1, <2>2, <2>7, <2>11, <3>1 DEF Inv, Types
  <2> QED BY <2>7, <2>10, <2>11, <2>12, <2>13, <2>14, Together
<1> QED BY <1>2, <1>3

\* The route is replaced: the view on the screen begins a load, the controller
\* that asked for it waits for the load.
LEMMA RouteTurned ==
  ASSUME Inv, NEW v \in View, views[v].cv.phase = "ensuring", NEW n \in View, NEW target \in Books, NEW ld \in Nat,
         views' = [[views EXCEPT ![n] = Loading(@, target)] EXCEPT ![v].cv = [@ EXCEPT !.phase = "loading", !.load = ld]]
  PROVE  LET y == Loading(views[n], target) IN
         /\ views' \in [View -> ViewRecord]
         /\ Loader(views'[n], y) /\ (n # v => views'[n] = y)
         /\ \A u \in View \ {n} : Loader(views'[u], views[u]) /\ (u # v => views'[u] = views[u])
         /\ \A u \in View :
              /\ views'[u].bottom = views[u].bottom /\ views'[u].stable = views[u].stable
              /\ views'[u].marked = views[u].marked
              /\ views'[u].cv.by = views[u].cv.by /\ views'[u].cv.start = views[u].cv.start
              /\ views'[u].cv.phase = (IF u = v THEN "loading" ELSE views[u].cv.phase)
<1> DEFINE y == Loading(views[n], target)
           g == [views EXCEPT ![n] = y]
           c == [g[v].cv EXCEPT !.phase = "loading", !.load = ld]
           x == [g[v] EXCEPT !.cv = c]
<1>1. views \in [View -> ViewRecord]
  BY DEF Inv, Types
<1>2. /\ y \in ViewRecord /\ y.cv = views[n].cv /\ y.bottom = views[n].bottom /\ y.stable = views[n].stable
      /\ y.marked = views[n].marked
  BY <1>1, LoadingGives
<1>3. views' = [g EXCEPT ![v].cv = [@ EXCEPT !.phase = "loading", !.load = ld]]
  OBVIOUS
<1> HIDE DEF y
<1>4. /\ g \in [View -> ViewRecord] /\ g[n] = y /\ \A u \in View \ {n} : g[u] = views[u]
  BY <1>1, <1>2
<1> HIDE DEF g
<1>5. views' = [g EXCEPT ![v].cv = c]
  BY <1>3
<1>6. g[v] \in ViewRecord /\ g[v].cv \in CvRecord /\ g[v].cv = views[v].cv
  BY <1>2, <1>4 DEF ViewRecord
<1>7. c \in CvRecord /\ c.phase = "loading" /\ c.by = g[v].cv.by /\ c.start = g[v].cv.start
  BY <1>6 DEF CvRecord
<1> HIDE DEF c
<1>8. /\ x \in ViewRecord /\ Loader(x, g[v]) /\ x.cv = c /\ x.bottom = g[v].bottom /\ x.stable = g[v].stable
      /\ x.marked = g[v].marked
  BY <1>6, <1>7 DEF ViewRecord, Loader
<1> HIDE DEF x
<1>9. /\ views' \in [View -> ViewRecord] /\ views'[v] = x /\ \A u \in View \ {v} : views'[u] = g[u]
  <2>1. views'[v] = [g[v] EXCEPT !.cv = c] /\ \A u \in View \ {v} : views'[u] = g[u]
    BY <1>4, <1>5
  <2>2. views'[v] = x
    BY <2>1 DEF x
  <2>3. DOMAIN views' = View /\ views' = [u \in View |-> views'[u]]
    BY <1>4, <1>5
  <2> QED BY <1>4, <1>8, <2>1, <2>2, <2>3
<1>10. \A u \in View : Loader(views'[u], g[u])
  BY <1>8, <1>9 DEF Loader
<1>11. ASSUME NEW u \in View
       PROVE  /\ g[u].bottom = views[u].bottom /\ g[u].stable = views[u].stable /\ g[u].marked = views[u].marked
              /\ g[u].cv = views[u].cv
  BY <1>2, <1>4
<1>12. ASSUME NEW u \in View
       PROVE  /\ views'[u].bottom = views[u].bottom /\ views'[u].stable = views[u].stable
              /\ views'[u].marked = views[u].marked
              /\ views'[u].cv.by = views[u].cv.by /\ views'[u].cv.start = views[u].cv.start
              /\ views'[u].cv.phase = (IF u = v THEN "loading" ELSE views[u].cv.phase)
  <2>1. CASE u = v
    BY <1>6, <1>7, <1>8, <1>9, <1>11, <2>1
  <2>2. CASE u # v
    BY <1>9, <1>11, <2>2
  <2> QED BY <2>1, <2>2
<1>13. Loader(views'[n], y) /\ (n # v => views'[n] = y)
  BY <1>4, <1>9, <1>10
<1>14. \A u \in View \ {n} : Loader(views'[u], views[u]) /\ (u # v => views'[u] = views[u])
  BY <1>4, <1>9, <1>10
<1> QED BY <1>9, <1>12, <1>13, <1>14 DEF y

LEMMA EnsuredKeeps ==
  ASSUME Inv, NEW v \in View, Ensured(v) PROVE Inv'
<1> DEFINE cv == views[v].cv
           target == cv.target
           to(n) == views' = [[views EXCEPT ![n] = Loading(@, target)] EXCEPT
             ![v].cv = [@ EXCEPT !.phase = "loading",
                                 !.load = IF n = v THEN Loading(views[v], target).seq ELSE 0]]
<1>1. /\ cv.phase = "ensuring"
      /\ UNCHANGED <<marks, store, debounce, mode, finished, reached, late>>
  BY DEF Ensured
<1>2. \/ Settle(v) /\ UNCHANGED <<route, mounted, loads>>
      \/ /\ mounted # 0 /\ mounted' = mounted /\ route' = target /\ route = target
         /\ Step(v, "loading") /\ UNCHANGED <<loads, show>>
      \/ /\ mounted # 0 /\ mounted' = mounted /\ route' = target /\ route # target
         /\ to(mounted) /\ loads' = loads \cup LoadOf(mounted, target, FALSE)
         /\ show' = IF ScreenUp THEN Paused(show) ELSE show
      \/ /\ mounted = 0 /\ Visits < MaxVisits
         /\ mounted' = Visits + 1 /\ route' = target /\ show' = show
         /\ to(Visits + 1) /\ loads' = loads \cup LoadOf(Visits + 1, target, FALSE)
  BY DEF Ensured
<1>3. /\ cv \in CvRecord /\ target \in Books /\ show \in ShowRecord /\ views \in [View -> ViewRecord] /\ Types
      /\ views[v] \in ViewRecord /\ views[v].seq > 0
  <2>1. /\ cv \in CvRecord /\ show \in ShowRecord /\ views \in [View -> ViewRecord] /\ Types
        /\ views[v] \in ViewRecord
    BY DEF Inv, Types, ViewRecord
  <2>2. target \in Books
    BY <1>1, <2>1 DEF CvRecord
  <2>3. views[v].seq > 0
    BY <1>1, UsedViews
  <2> QED BY <2>1, <2>2, <2>3
<1>4. Grows
  BY <1>1 DEF Grows, Inv, EndsTrue
<1>5. CASE Settle(v) /\ UNCHANGED <<route, mounted, loads>>
  <2>1. Consumed(show) \in ShowRecord /\ ~Consumed(show).pending /\ Consumed(show).playing = show.playing
    BY <1>3, ShowGives
  <2> QED BY <1>1, <1>5, <2>1, SettleKeeps DEF Settle
<1>6. CASE /\ mounted # 0 /\ mounted' = mounted /\ route' = target /\ route = target
           /\ Step(v, "loading") /\ UNCHANGED <<loads, show>>
  BY <1>1, <1>4, <1>6, StepKeeps
<1>7. Loading(views[v], target).seq \in Nat
  BY <1>3, LoadingGives DEF ViewRecord
<1>8. ASSUME NEW n \in View, to(n)
      PROVE  LET y == Loading(views[n], target) IN
             /\ views' \in [View -> ViewRecord]
             /\ Loader(views'[n], y) /\ (n # v => views'[n] = y)
             /\ \A u \in View \ {n} : Loader(views'[u], views[u]) /\ (u # v => views'[u] = views[u])
             /\ \A u \in View :
                  /\ views'[u].bottom = views[u].bottom /\ views'[u].stable = views[u].stable
                  /\ views'[u].marked = views[u].marked
                  /\ views'[u].cv.by = views[u].cv.by /\ views'[u].cv.start = views[u].cv.start
                  /\ views'[u].cv.phase = (IF u = v THEN "loading" ELSE views[u].cv.phase)
  <2> DEFINE ld == IF n = v THEN Loading(views[v], target).seq ELSE 0
  <2>1. ld \in Nat
    BY <1>7
  <2>2. views' = [[views EXCEPT ![n] = Loading(@, target)] EXCEPT ![v].cv = [@ EXCEPT !.phase = "loading", !.load = ld]]
    BY <1>8
  <2> HIDE DEF ld, target
  <2> QED BY <1>1, <1>3, <2>1, <2>2, RouteTurned
<1>9. CASE /\ mounted = 0 /\ Visits < MaxVisits
           /\ mounted' = Visits + 1 /\ route' = target /\ show' = show
           /\ to(Visits + 1) /\ loads' = loads \cup LoadOf(Visits + 1, target, FALSE)
  <2>1. Visits + 1 \in View /\ views[Visits + 1] = Unused
    BY <1>9, NextView
  <2>2. Visits + 1 # v
    BY <1>3, <2>1 DEF Unused
  <2>3. to(Visits + 1)
    BY <1>9
  <2> HIDE DEF to
  <2>4. /\ views' \in [View -> ViewRecord]
        /\ views'[Visits + 1] = Loading(Unused, target)
        /\ \A u \in View \ {Visits + 1} : Loader(views'[u], views[u]) /\ (u # v => views'[u] = views[u])
        /\ \A u \in View :
             /\ views'[u].bottom = views[u].bottom /\ views'[u].stable = views[u].stable
             /\ views'[u].marked = views[u].marked
             /\ views'[u].cv.by = views[u].cv.by /\ views'[u].cv.start = views[u].cv.start
    BY <1>8, <2>1, <2>2, <2>3
  <2>5. \A u \in View \ {Visits + 1} :
            /\ Loader(views'[u], views[u]) /\ views'[u].bottom = views[u].bottom
            /\ views'[u].stable = views[u].stable /\ views'[u].marked = views[u].marked
            /\ views'[u].cv.by = views[u].cv.by /\ views'[u].cv.start = views[u].cv.start
            /\ views[u].seq = 0 => views'[u] = views[u]
    BY <1>3, <2>4
  <2>6. show' \in ShowRecord /\ show'.pending => (show.pending /\ show'.raisedIn = show.raisedIn)
    BY <1>9
  <2> HIDE DEF target
  <2> QED BY <1>1, <1>3, <1>9, <2>4, <2>5, <2>6, Mounts
<1>10. CASE /\ mounted # 0 /\ mounted' = mounted /\ route' = target /\ route # target
            /\ to(mounted) /\ loads' = loads \cup LoadOf(mounted, target, FALSE)
            /\ show' = IF ScreenUp THEN Paused(show) ELSE show
  <2> DEFINE y == Loading(views[mounted], target)
             new == LoadOf(mounted, target, FALSE)
  <2>1. /\ mounted \in View /\ mounted # 0 /\ views[mounted] \in ViewRecord /\ views[mounted].seq > 0
        /\ mounted' = mounted /\ route' = target /\ loads' = loads \cup new
    BY <1>10, Shown
  <2>2. ~(target = views[mounted].last /\ views[mounted].phase = "ready")
    BY <1>10, <2>1 DEF Inv, ScreenOK, ScreenUp
  <2>3. y.seq = views[mounted].seq + 1 /\ y.phase = "loading"
    BY <2>1, <2>2, LoadingGives
  <2>4. new \subseteq LoadRecord /\ \A l \in new : l.view = mounted /\ l.book = target /\ l.seq = views[mounted].seq + 1
    BY <1>3, <2>1, <2>2, LoadOfGives
  <2>5. to(mounted)
    BY <1>10
  <2> HIDE DEF to
  <2>6. /\ views' \in [View -> ViewRecord]
        /\ Loader(views'[mounted], y)
        /\ \A u \in View \ {mounted} : Loader(views'[u], views[u]) /\ (u # v => views'[u] = views[u])
        /\ \A u \in View :
             /\ views'[u].bottom = views[u].bottom /\ views'[u].stable = views[u].stable
             /\ views'[u].marked = views[u].marked
             /\ views'[u].cv.by = views[u].cv.by /\ views'[u].cv.start = views[u].cv.start
             /\ views'[u].cv.phase = (IF u = v THEN "loading" ELSE views[u].cv.phase)
    BY <1>8, <2>1, <2>5
  <2> HIDE DEF y, new
  <2>7. views'[mounted].seq = views[mounted].seq + 1 /\ views'[mounted].phase = "loading"
    BY <2>3, <2>6 DEF Loader
  <2>8. \A u \in View : views[u].seq \in Nat
    BY <1>3 DEF ViewRecord
  <2>9. Older
    BY <2>1, <2>6, <2>7, <2>8 DEF Older, Loader
  <2>10. show' \in ShowRecord /\ show'.pending = show.pending /\ show'.raisedIn = show.raisedIn
    BY <1>3, <1>10, ShowGives
  <2>11. VisitsOK'
    <3>1. PICK n \in 0 .. MaxVisits : Fresh(n)
      BY DEF Inv, VisitsOK
    <3>2. ASSUME NEW u \in View, views[u].seq > 0 PROVE u <= n
      <4>1. views[u] # Unused
        BY <3>2 DEF Unused
      <4> QED BY <3>1, <4>1 DEF Fresh
    <3>3. ASSUME NEW u \in View PROVE IF u <= n THEN views'[u].seq > 0 ELSE views'[u] = Unused
      <4>1. CASE u <= n
        BY <2>9, <3>1, <4>1 DEF Fresh, Older
      <4>2. CASE ~(u <= n)
        <5>1. views[u] = Unused /\ u # mounted /\ u # v
          BY <1>3, <2>1, <3>1, <3>2, <4>2 DEF Fresh
        <5> QED BY <2>6, <4>2, <5>1
      <4> QED BY <4>1, <4>2
    <3>4. Fresh(n)'
      BY <3>3 DEF Fresh, View
    <3>5. \E k \in 0 .. MaxVisits : Fresh(k)'
      BY <3>4
    <3>6. show.pending => (show.raisedIn # 0 /\ show.raisedIn \in View /\ views[show.raisedIn].seq > 0)
      BY <1>3 DEF Inv, VisitsOK, ShowRecord, View
    <3>7. show'.pending => (show'.raisedIn # 0 /\ views'[show'.raisedIn].seq > 0)
      BY <2>9, <2>10, <3>6 DEF Older
    <3>8. views'[mounted].seq > 0
      BY <2>1, <2>9 DEF Older
    <3> QED BY <1>3, <2>1, <3>5, <3>7, <3>8 DEF VisitsOK
  <2>12. LoadsOK'
    <3>1. ASSUME NEW l \in loads PROVE 0 < l.seq /\ l.seq <= views'[l.view].seq /\ l.seq # views'[l.view].seq
      <4>1. l.view \in View /\ l.seq \in Nat
        BY <1>3 DEF Types, LoadRecord
      <4>2. 0 < l.seq /\ l.seq <= views[l.view].seq /\ (l.seq = views[l.view].seq => l.view = mounted)
        BY DEF Inv, LoadsOK
      <4>3. CASE l.view = mounted
        BY <2>7, <2>8, <4>1, <4>2, <4>3
      <4>4. CASE l.view # mounted
        BY <2>6, <4>1, <4>2, <4>4 DEF Loader
      <4> QED BY <4>3, <4>4
    <3>2. ASSUME NEW l \in new
          PROVE  0 < l.seq /\ l.seq <= views'[l.view].seq /\ l.view = mounted /\ l.book = target
      BY <2>1, <2>4, <2>7, <2>8
    <3> QED BY <2>1, <3>1, <3>2 DEF LoadsOK
  <2>13. ScreenOK'
    BY <2>1, <2>7 DEF ScreenOK, ScreenUp
  <2>14. IntentsHeard'
    BY <2>1, <2>6, <2>10 DEF Inv, IntentsHeard
  <2>15. StoreOK' /\ SavesOK' /\ MarksOK'
    BY <1>1, <2>1, <2>9, Alone
  <2>16. BottomOK'
    <3>1. \A u \in View : views'[u].stable => views'[u].bottom
      BY <2>6 DEF Inv, BottomOK
    <3>2. /\ (views'[mounted].bottom /\ store.book # Nothing) => store.book \in reached
          /\ views'[mounted].marked => (store.book # Nothing /\ store.book \in finished)
      BY <2>1, <2>6, Shown
    <3> QED BY <1>1, <2>1, <3>1, <3>2 DEF BottomOK
  <2>17. EndsTrue'
    <3>1. finished \ late \subseteq reached /\ \A u \in View : Ended(views[u].cv)
      BY <1>3, EndsAre DEF Inv
    <3>2. \A u \in View : Ended(views[u].cv)'
      BY <1>1, <2>6, <3>1 DEF Ended
    <3>3. DOMAIN views' = View
      BY <2>6
    <3> QED BY <1>1, <3>1, <3>2, <3>3 DEF EndsTrue, Ended
  <2>18. Types'
    <3>1. loads' \subseteq LoadRecord
      BY <1>3, <2>1, <2>4 DEF Types
    <3> QED BY <1>1, <1>3, <2>1, <2>6, <2>10, <3>1 DEF Types, Known
  <2> QED BY <2>11, <2>12, <2>13, <2>14, <2>15, <2>16, <2>17, <2>18, Together
<1> HIDE DEF to, target, cv
<1> QED BY <1>2, <1>5, <1>6, <1>9, <1>10

-----------------------------------------------------------------------------
(* The invariant and what follows from it.                                 *)

LEMMA InitHolds == Init => Inv
<1> SUFFICES ASSUME Init PROVE Inv
  OBVIOUS
<1>1. /\ route = Nothing /\ mounted = 0 /\ views = [v \in View |-> Unused]
      /\ loads = {} /\ marks = {} /\ store = Closed /\ debounce = Nothing
      /\ show = [playing |-> FALSE, pending |-> FALSE, fromShow |-> FALSE, raisedIn |-> 0]
      /\ finished = {} /\ reached = {} /\ late = {}
  BY DEF Init, View
<1>2. IdleCv \in CvRecord /\ IdleCv.by = ""
  BY DEF IdleCv, CvRecord, Known
<1>3. Unused \in ViewRecord /\ Unused.cv = IdleCv /\ ~Unused.stable /\ ~Unused.marked /\ Unused.seq = 0
  BY <1>2 DEF Unused, ViewRecord, Known
<1>4. MaxVisits \in Nat /\ 0 \in 0 .. MaxVisits
  BY ReaderAssumption
<1>5. Types
  <2>1. store \in StoreRecord
    BY <1>1 DEF Closed, StoreRecord, Known, Plans
  <2>2. show \in ShowRecord
    BY <1>1, <1>4 DEF ShowRecord
  <2> QED BY <1>1, <1>3, <1>4, <2>1, <2>2 DEF Types, Known
<1>6. VisitsOK
  <2>1. Fresh(0)
    BY <1>1, <1>4 DEF Fresh, View
  <2> QED BY <1>1, <1>4, <2>1 DEF VisitsOK
<1>7. LoadsOK /\ ScreenOK /\ IntentsHeard /\ SavesOK /\ MarksOK
  BY <1>1 DEF LoadsOK, ScreenOK, ScreenUp, IntentsHeard, SavesOK, MarksOK
<1>8. StoreOK
  BY <1>1 DEF StoreOK, Closed
<1>9. BottomOK
  BY <1>1, <1>3 DEF BottomOK
<1>10. EndsTrue
  BY <1>1, <1>2, <1>3 DEF EndsTrue
<1> QED BY <1>5, <1>6, <1>7, <1>8, <1>9, <1>10 DEF Inv

LEMMA NextHolds == Inv /\ [Next]_vars => Inv'
<1> SUFFICES ASSUME Inv, [Next]_vars PROVE Inv'
  OBVIOUS
<1>1. DOMAIN views = View
  BY DEF Inv, Types
<1>2. CASE UNCHANGED vars
  BY <1>2, StutterKeeps
<1>3. CASE Visit \/ Leave \/ Turn \/ ToggleMode \/ CycleMode \/ ToggleShow \/ Tick \/ DebounceFires
  BY <1>3, VisitKeeps, LeaveKeeps, TurnKeeps, ToggleModeKeeps, CycleModeKeeps, ToggleShowKeeps, TickKeeps,
     DebounceKeeps
<1>4. CASE Scroll(TRUE) \/ Scroll(FALSE) \/ StableFires \/ AutoEnds \/ PushBottom \/ ForceNext \/ Decide
  BY <1>4, ScrollKeeps, StableKeeps, AutoEndsKeeps, PushBottomKeeps, ForceKeeps, DecideKeeps
<1>5. CASE \E l \in loads : Planned(l) \/ Loaded(l) \/ LoadFails(l)
  BY <1>5, PlannedKeeps, LoadedKeeps, LoadFailsKeeps
<1>6. CASE \E m \in marks : Marked(m)
  BY <1>6, MarkedKeeps
<1>7. CASE \E v \in DOMAIN views : Found(v) \/ Saved(v) \/ Ensured(v) \/ Arrived(v)
  BY <1>1, <1>7, FoundKeeps, SavedKeeps, EnsuredKeeps, ArrivedKeeps
<1> QED BY <1>2, <1>3, <1>4, <1>5, <1>6, <1>7 DEF Next

LEMMA InvHolds == Spec => []Inv
BY InitHolds, NextHolds, PTL DEF Spec

(* The page on the screen is of the book in the address, however many loads *)
(* and views were begun, and the slide show plays only in a reader          *)
(* (ReaderView.vue: activeLoadSeq, onUnmounted).                            *)
THEOREM ShownIsRouteHolds == Spec => []ShownIsRoute
<1>1. Inv => ShownIsRoute
  BY DEF Inv, ShownIsRoute, ScreenOK, VisitsOK
<1> QED BY <1>1, InvHolds, PTL

(* An intent raised in the view on the screen is never left standing by an  *)
(* idle controller (useCrossVolume.ts: settleIdle and the early returns).   *)
THEOREM IntentsHeardHolds == Spec => []IntentsHeard
<1>1. Inv => IntentsHeard
  BY DEF Inv
<1> QED BY <1>1, InvHolds, PTL

(* A book is finished, and left for the next at its end, only when the      *)
(* reader stood on its end (ReaderView.vue, useWebtoonProgress.ts).         *)
THEOREM EndsTrueHolds == Spec => []EndsTrue
<1>1. Inv => EndsTrue
  BY DEF Inv
<1> QED BY <1>1, InvHolds, PTL

-----------------------------------------------------------------------------
(***************************************************************************)
(* Maintenance of the history: marks, timers and the queue of the actor.    *)
(***************************************************************************)

Message == [msg : {"HistoryDirty", "DebounceFired"}, gen : Nat]

IsMark(m) == m.msg = "HistoryDirty"

\* The marks wait in their order, behind all that was received of them: the
\* timers, what fired, and the one the throttle dropped.
MessagesOK(queue, newest, asleep, dropped) ==
  /\ queue \in Seq(Message) /\ newest \in Nat /\ dropped \in Nat /\ dropped <= newest
  /\ \A t \in asleep : t.gen \in Nat /\ t.gen <= newest
  /\ \A i \in DOMAIN queue : queue[i].gen <= newest
  /\ \A i \in DOMAIN queue : IsMark(queue[i]) =>
       /\ dropped < queue[i].gen
       /\ \A t \in asleep : t.gen < queue[i].gen
       /\ \A j \in DOMAIN queue : ~IsMark(queue[j]) => queue[j].gen < queue[i].gen
       /\ \A j \in DOMAIN queue : IsMark(queue[j]) /\ i < j => queue[i].gen < queue[j].gen

\* Some message or timer carries the newest mark.
OnItsWay(queue, newest, asleep) ==
  \/ \E i \in DOMAIN queue : queue[i].gen = newest
  \/ \E t \in asleep : t.gen = newest

LEMMA Appended ==
  ASSUME NEW queue \in Seq(Message), NEW m \in Message
  PROVE  /\ Append(queue, m) \in Seq(Message)
         /\ DOMAIN Append(queue, m) = DOMAIN queue \cup {Len(queue) + 1}
         /\ Len(queue) + 1 \notin DOMAIN queue /\ \A i \in DOMAIN queue : i < Len(queue) + 1
         /\ \A i \in DOMAIN queue : Append(queue, m)[i] = queue[i]
         /\ Append(queue, m)[Len(queue) + 1] = m
<1> DEFINE T == Message
<1>1. queue \in Seq(T) /\ m \in T
  OBVIOUS
<1> HIDE DEF T
<1>2. Append(queue, m) \in Seq(T) /\ Len(Append(queue, m)) = Len(queue) + 1
  BY <1>1
<1>3. DOMAIN queue = 1 .. Len(queue) /\ DOMAIN Append(queue, m) = 1 .. Len(queue) + 1 /\ Len(queue) \in Nat
  BY <1>1, <1>2
<1>4. DOMAIN Append(queue, m) = DOMAIN queue \cup {Len(queue) + 1}
  BY <1>3
<1>5. \A i \in 1 .. Len(queue) : Append(queue, m)[i] = queue[i]
  BY <1>1
<1>6. Append(queue, m)[Len(queue) + 1] = m
  BY <1>1
<1>7. Len(queue) + 1 \notin DOMAIN queue /\ \A i \in DOMAIN queue : i < Len(queue) + 1
  BY <1>3
<1>. QED BY <1>2, <1>3, <1>4, <1>5, <1>6, <1>7 DEF T

LEMMA Rest ==
  ASSUME NEW queue \in Seq(Message), queue # <<>>
  PROVE  /\ Tail(queue) \in Seq(Message) /\ 1 \in DOMAIN queue /\ Head(queue) = queue[1] /\ queue[1] \in Message
         /\ \A i \in DOMAIN Tail(queue) : i + 1 \in DOMAIN queue /\ Tail(queue)[i] = queue[i + 1] /\ i \in Nat
                                          /\ 1 < i + 1
         /\ \A i \in DOMAIN queue : i # 1 => \E j \in DOMAIN Tail(queue) : Tail(queue)[j] = queue[i]
<1> DEFINE T == Message
<1>1. queue \in Seq(T)
  OBVIOUS
<1> HIDE DEF T
<1>2. Len(queue) \in Nat /\ Len(queue) > 0 /\ DOMAIN queue = 1 .. Len(queue)
  BY <1>1
<1>3. Tail(queue) \in Seq(T) /\ Len(Tail(queue)) = Len(queue) - 1
  BY <1>1
<1>4. DOMAIN Tail(queue) = 1 .. Len(queue) - 1
  BY <1>2, <1>3
<1>5. \A i \in 1 .. Len(queue) - 1 : Tail(queue)[i] = queue[i + 1]
  BY <1>1, <1>2
<1>6. 1 \in DOMAIN queue /\ Head(queue) = queue[1] /\ queue[1] \in T
  BY <1>1, <1>2
<1>7. ASSUME NEW i \in DOMAIN queue, i # 1 PROVE \E j \in DOMAIN Tail(queue) : Tail(queue)[j] = queue[i]
  <2>1. i - 1 \in 1 .. Len(queue) - 1 /\ (i - 1) + 1 = i
    BY <1>2, <1>7
  <2>2. Tail(queue)[i - 1] = queue[i]
    BY <1>5, <2>1
  <2>. QED BY <1>4, <2>1, <2>2
<1>8. ASSUME NEW i \in DOMAIN Tail(queue)
      PROVE  i + 1 \in DOMAIN queue /\ Tail(queue)[i] = queue[i + 1] /\ i \in Nat /\ 1 < i + 1
  BY <1>2, <1>4, <1>5
<1>. QED BY <1>3, <1>6, <1>7, <1>8 DEF T

\* A mark is made: it is the newest.
LEMMA MarkMade ==
  ASSUME NEW q, NEW n, NEW a, NEW d, MessagesOK(q, n, a, d)
  PROVE  MessagesOK(Append(q, Dirty(n + 1)), n + 1, a, d) /\ OnItsWay(Append(q, Dirty(n + 1)), n + 1, a)
<1> DEFINE m == Dirty(n + 1)
           new == Append(q, m)
           k == Len(q) + 1
<1>1. m \in Message /\ IsMark(m) /\ m.gen = n + 1
  BY DEF MessagesOK, Message, Dirty, IsMark
<1> HIDE DEF m
<1>2. /\ new \in Seq(Message) /\ DOMAIN new = DOMAIN q \cup {k} /\ k \notin DOMAIN q
      /\ \A i \in DOMAIN q : i < k /\ new[i] = q[i]
      /\ new[k] = m
  BY <1>1, Appended DEF MessagesOK
<1> HIDE DEF new
<1>3. n \in Nat /\ d \in Nat /\ d <= n /\ \A i \in DOMAIN q : q[i] \in Message /\ q[i].gen <= n /\ i \in Nat
  BY DEF MessagesOK
<1>4. \A i \in DOMAIN q : q[i].gen \in Nat
  BY <1>3 DEF Message
<1>5. k \in Nat
  BY DEF MessagesOK
<1> HIDE DEF k
<1>6. \A t \in a : t.gen \in Nat /\ t.gen <= n
  BY DEF MessagesOK
<1>7. ASSUME NEW i \in DOMAIN new, IsMark(new[i])
      PROVE  /\ d < new[i].gen
             /\ \A t \in a : t.gen < new[i].gen
             /\ \A j \in DOMAIN new : ~IsMark(new[j]) => new[j].gen < new[i].gen
             /\ \A j \in DOMAIN new : IsMark(new[j]) /\ i < j => new[i].gen < new[j].gen
  <2>1. CASE i = k
    <3>1. \A j \in DOMAIN q : ~(k < j)
      BY <1>2, <1>3, <1>5
    <3>. QED BY <1>1, <1>2, <1>3, <1>4, <1>5, <1>6, <2>1, <3>1
  <2>2. CASE i \in DOMAIN q
    <3>1. /\ d < q[i].gen
          /\ \A t \in a : t.gen < q[i].gen
          /\ \A j \in DOMAIN q : ~IsMark(q[j]) => q[j].gen < q[i].gen
          /\ \A j \in DOMAIN q : IsMark(q[j]) /\ i < j => q[i].gen < q[j].gen
      BY <1>2, <1>7, <2>2 DEF MessagesOK
    <3>2. q[i].gen < m.gen
      BY <1>1, <1>3, <1>4, <2>2
    <3>. QED BY <1>1, <1>2, <2>2, <3>1, <3>2
  <2>. QED BY <1>2, <2>1, <2>2
<1>8. \A i \in DOMAIN new : new[i].gen <= n + 1
  BY <1>1, <1>2, <1>3, <1>4
<1>9. n + 1 \in Nat /\ d <= n + 1 /\ \A t \in a : t.gen <= n + 1
  BY <1>3, <1>6
<1>. QED BY <1>1, <1>2, <1>3, <1>6, <1>7, <1>8, <1>9 DEF MessagesOK, OnItsWay, new, m, k

\* A timer fires: its number is behind those of the marks.
LEMMA TimerTold ==
  ASSUME NEW q, NEW n, NEW a, NEW d, MessagesOK(q, n, a, d), NEW t \in a
  PROVE  /\ MessagesOK(Append(q, Fired(t.gen)), n, a \ {t}, d)
         /\ OnItsWay(q, n, a) => OnItsWay(Append(q, Fired(t.gen)), n, a \ {t})
<1> DEFINE m == Fired(t.gen)
           new == Append(q, m)
           k == Len(q) + 1
<1>1. m \in Message /\ ~IsMark(m) /\ m.gen = t.gen /\ t.gen \in Nat
  BY DEF MessagesOK, Message, Fired, IsMark
<1> HIDE DEF m
<1>2. /\ new \in Seq(Message) /\ DOMAIN new = DOMAIN q \cup {k} /\ k \notin DOMAIN q
      /\ \A i \in DOMAIN q : i < k /\ new[i] = q[i]
      /\ new[k] = m
  BY <1>1, Appended DEF MessagesOK
<1> HIDE DEF new, k
<1>3. \A i \in DOMAIN new : new[i].gen <= n
  BY <1>1, <1>2 DEF MessagesOK
<1>4. ASSUME NEW i \in DOMAIN new, IsMark(new[i])
      PROVE  /\ d < new[i].gen
             /\ \A s \in a \ {t} : s.gen < new[i].gen
             /\ \A j \in DOMAIN new : ~IsMark(new[j]) => new[j].gen < new[i].gen
             /\ \A j \in DOMAIN new : IsMark(new[j]) /\ i < j => new[i].gen < new[j].gen
  <2>1. i \in DOMAIN q /\ new[i] = q[i]
    BY <1>1, <1>2, <1>4
  <2>2. /\ d < q[i].gen
        /\ \A s \in a : s.gen < q[i].gen
        /\ \A j \in DOMAIN q : ~IsMark(q[j]) => q[j].gen < q[i].gen
        /\ \A j \in DOMAIN q : IsMark(q[j]) /\ i < j => q[i].gen < q[j].gen
    BY <1>4, <2>1 DEF MessagesOK
  <2>. QED BY <1>1, <1>2, <2>1, <2>2
<1>5. MessagesOK(new, n, a \ {t}, d)
  BY <1>2, <1>3, <1>4 DEF MessagesOK
<1>6. OnItsWay(q, n, a) => OnItsWay(new, n, a \ {t})
  BY <1>1, <1>2 DEF OnItsWay
<1>. QED BY <1>5, <1>6 DEF new, m

\* A message is taken.
LEMMA MessageTaken ==
  ASSUME NEW q, NEW n, NEW a, NEW d, MessagesOK(q, n, a, d), q # <<>>
  PROVE  /\ MessagesOK(Tail(q), n, a, d)
         /\ OnItsWay(q, n, a) /\ Head(q).gen # n => OnItsWay(Tail(q), n, a)
<1> DEFINE new == Tail(q)
<1>1. /\ new \in Seq(Message) /\ 1 \in DOMAIN q /\ Head(q) = q[1]
      /\ \A i \in DOMAIN new : i + 1 \in DOMAIN q /\ new[i] = q[i + 1] /\ i \in Nat
      /\ \A i \in DOMAIN q : i # 1 => \E j \in DOMAIN new : new[j] = q[i]
  BY Rest DEF MessagesOK
<1> HIDE DEF new
<1>2. ASSUME NEW i \in DOMAIN new, IsMark(new[i])
      PROVE  /\ d < new[i].gen
             /\ \A t \in a : t.gen < new[i].gen
             /\ \A j \in DOMAIN new : ~IsMark(new[j]) => new[j].gen < new[i].gen
             /\ \A j \in DOMAIN new : IsMark(new[j]) /\ i < j => new[i].gen < new[j].gen
  <2>1. i + 1 \in DOMAIN q /\ new[i] = q[i + 1]
    BY <1>1
  <2>2. /\ d < q[i + 1].gen
        /\ \A t \in a : t.gen < q[i + 1].gen
        /\ \A j \in DOMAIN q : ~IsMark(q[j]) => q[j].gen < q[i + 1].gen
        /\ \A j \in DOMAIN q : IsMark(q[j]) /\ i + 1 < j => q[i + 1].gen < q[j].gen
    BY <1>2, <2>1 DEF MessagesOK
  <2>3. \A j \in DOMAIN new : i < j => i + 1 < j + 1
    BY <1>1
  <2>. QED BY <1>1, <2>1, <2>2, <2>3
<1>3. MessagesOK(new, n, a, d)
  BY <1>1, <1>2 DEF MessagesOK
<1>4. OnItsWay(q, n, a) /\ Head(q).gen # n => OnItsWay(new, n, a)
  BY <1>1 DEF OnItsWay
<1>. QED BY <1>3, <1>4 DEF new

\* A mark is taken: those behind it are newer.
LEMMA MarkTaken ==
  ASSUME NEW q, NEW n, NEW a, NEW d, MessagesOK(q, n, a, d), q # <<>>, NEW g, Head(q) = Dirty(g)
  PROVE  /\ g \in Nat /\ g <= n /\ d < g
         /\ \A i \in DOMAIN Tail(q) : IsMark(Tail(q)[i]) => g < Tail(q)[i].gen
<1>1. /\ 1 \in DOMAIN q /\ q[1] = Dirty(g) /\ q[1] \in Message
      /\ \A i \in DOMAIN Tail(q) : i + 1 \in DOMAIN q /\ Tail(q)[i] = q[i + 1] /\ 1 < i + 1
  BY Rest DEF MessagesOK
<1>2. IsMark(q[1]) /\ q[1].gen = g /\ g \in Nat
  BY <1>1 DEF Dirty, IsMark, Message
<1>3. d < q[1].gen /\ q[1].gen <= n /\ \A j \in DOMAIN q : IsMark(q[j]) /\ 1 < j => q[1].gen < q[j].gen
  BY <1>1, <1>2 DEF MessagesOK
<1>. QED BY <1>1, <1>2, <1>3

\* The throttle drops what it has received: a mark, or the newest timer.
LEMMA Dropped ==
  ASSUME NEW q, NEW n, NEW a, NEW d, MessagesOK(q, n, a, d), NEW g \in Nat, g <= n,
         \A i \in DOMAIN q : IsMark(q[i]) => g < q[i].gen
  PROVE  MessagesOK(q, n, a, g)
BY DEF MessagesOK

LEMMA TimerSet ==
  ASSUME NEW q, NEW n, NEW a, NEW d, MessagesOK(q, n, a, d), NEW t, t.gen \in Nat, t.gen <= n,
         \A i \in DOMAIN q : IsMark(q[i]) => t.gen < q[i].gen
  PROVE  MessagesOK(q, n, a \cup {t}, d)
BY DEF MessagesOK

\* No mark is left when the timer of the newest fires.
LEMMA NewestFired ==
  ASSUME NEW q, NEW n, NEW a, NEW d, MessagesOK(q, n, a, d), q # <<>>, Head(q) = Fired(n)
  PROVE  \A i \in DOMAIN Tail(q) : ~IsMark(Tail(q)[i])
<1>1. /\ 1 \in DOMAIN q /\ q[1] = Fired(n)
      /\ \A i \in DOMAIN Tail(q) : i + 1 \in DOMAIN q /\ Tail(q)[i] = q[i + 1]
  BY Rest DEF MessagesOK
<1>2. ~IsMark(q[1]) /\ q[1].gen = n /\ n \in Nat
  BY <1>1 DEF Fired, IsMark, MessagesOK
<1>3. ASSUME NEW i \in DOMAIN q, IsMark(q[i]) PROVE FALSE
  <2>1. n < q[i].gen /\ q[i].gen <= n
    BY <1>1, <1>2, <1>3 DEF MessagesOK
  <2>2. q[i].gen \in Nat
    <3>1. q[i] \in Message
      BY DEF MessagesOK
    <3>. QED BY <3>1 DEF Message
  <2>. QED BY <1>2, <2>1, <2>2
<1>. QED BY <1>1, <1>3

MarksInv ==
  /\ DOMAIN actor = {"queue", "gen", "last"} /\ DOMAIN answered = {"served", "dropped"}
  /\ MessagesOK(actor.queue, actor.gen, timers, answered.dropped)
  /\ \/ actor.gen = answered.served \/ actor.gen = answered.dropped
     \/ OnItsWay(actor.queue, actor.gen, timers)

\* A message the actor takes leaves the counter and the others as they were.
LEMMA ActorReads ==
  ASSUME NEW m, Reads(m), MarksInv
  PROVE  /\ actor.queue # <<>> /\ Head(actor.queue) = m
         /\ DOMAIN actor' = {"queue", "gen", "last"} /\ actor'.queue = Tail(actor.queue) /\ actor'.gen = actor.gen
BY DEF Reads, MarksInv

LEMMA MarksStart ==
  HistoryInit => MarksInv
<1> SUFFICES ASSUME HistoryInit PROVE MarksInv
  OBVIOUS
<1> DEFINE q == actor.queue
<1>1. q = <<>> /\ actor.gen = 0 /\ timers = {} /\ answered.dropped = 0 /\ answered.served = 0
  BY DEF HistoryInit
<1>2. DOMAIN actor = {"queue", "gen", "last"} /\ DOMAIN answered = {"served", "dropped"}
  BY DEF HistoryInit
<1> HIDE DEF q
<1>3. q \in Seq(Message) /\ DOMAIN q = {}
  BY <1>1
<1>4. MessagesOK(q, 0, {}, 0)
  BY <1>3 DEF MessagesOK
<1>. QED BY <1>1, <1>2, <1>4 DEF MarksInv, q

LEMMA MarksRecord ==
  ASSUME MarksInv, NEW p, RecordHistory(p)
  PROVE  MarksInv'
<1>1. /\ DOMAIN actor' = {"queue", "gen", "last"} /\ actor'.gen = actor.gen + 1
      /\ actor'.queue = Append(actor.queue, Dirty(actor.gen + 1))
      /\ answered' = answered /\ timers' = timers
  BY DEF MarksInv, RecordHistory
<1> DEFINE q == actor.queue
           n == actor.gen
           d == answered.dropped
<1>2. MessagesOK(q, n, timers, d)
  BY DEF MarksInv
<1> HIDE DEF q, n, d
<1>3. MessagesOK(Append(q, Dirty(n + 1)), n + 1, timers, d) /\ OnItsWay(Append(q, Dirty(n + 1)), n + 1, timers)
  BY <1>2, MarkMade
<1>. QED BY <1>1, <1>3 DEF MarksInv, q, n, d

LEMMA MarksTimer ==
  ASSUME MarksInv, TimerFires
  PROVE  MarksInv'
<1>1. PICK t \in timers : /\ timers' = timers \ {t}
                          /\ actor' = [actor EXCEPT !.queue = Append(@, Fired(t.gen))]
                          /\ answered' = answered
  BY DEF TimerFires
<1>2. /\ DOMAIN actor' = {"queue", "gen", "last"} /\ actor'.gen = actor.gen
      /\ actor'.queue = Append(actor.queue, Fired(t.gen))
  BY <1>1 DEF MarksInv
<1> DEFINE q == actor.queue
           n == actor.gen
           d == answered.dropped
<1>3. MessagesOK(q, n, timers, d)
  BY DEF MarksInv
<1> HIDE DEF q, n, d
<1>4. /\ MessagesOK(Append(q, Fired(t.gen)), n, timers \ {t}, d)
      /\ OnItsWay(q, n, timers) => OnItsWay(Append(q, Fired(t.gen)), n, timers \ {t})
  BY <1>3, TimerTold
<1>. QED BY <1>1, <1>2, <1>4 DEF MarksInv, q, n, d

LEMMA MarksDirty ==
  ASSUME MarksInv, NEW g, ReceiveDirty(g)
  PROVE  MarksInv'
<1>1. /\ actor.queue # <<>> /\ Head(actor.queue) = Dirty(g)
      /\ DOMAIN actor' = {"queue", "gen", "last"} /\ actor'.queue = Tail(actor.queue) /\ actor'.gen = actor.gen
  <2>1. Reads(Dirty(g))
    BY DEF ReceiveDirty
  <2>. QED BY <2>1, ActorReads
<1> DEFINE q == actor.queue
           n == actor.gen
           d == answered.dropped
           served == answered.served
<1>2. MessagesOK(q, n, timers, d) /\ (n = served \/ n = d \/ OnItsWay(q, n, timers))
  BY DEF MarksInv
<1>3. q # <<>> /\ Head(q) = Dirty(g)
  BY <1>1
<1>4. \/ answered' = [answered EXCEPT !.served = n] /\ timers' = timers
      \/ answered' = [answered EXCEPT !.dropped = g] /\ timers' = timers
      \/ timers' = timers \cup {[gen |-> g, due |-> now + Debounce]} /\ answered' = answered
  BY DEF ReceiveDirty, Starts
<1>5. /\ DOMAIN answered' = {"served", "dropped"}
      /\ \/ answered'.served = n /\ answered'.dropped = d /\ timers' = timers
         \/ answered'.served = served /\ answered'.dropped = g /\ timers' = timers
         \/ timers' = timers \cup {[gen |-> g, due |-> now + Debounce]} /\ answered' = answered
  BY <1>4 DEF MarksInv
<1> HIDE DEF q, n, d, served
<1>6. /\ MessagesOK(Tail(q), n, timers, d)
      /\ OnItsWay(q, n, timers) /\ g # n => OnItsWay(Tail(q), n, timers)
  BY <1>2, <1>3, MessageTaken DEF Dirty
<1>7. g \in Nat /\ g <= n /\ d < g /\ \A i \in DOMAIN Tail(q) : IsMark(Tail(q)[i]) => g < Tail(q)[i].gen
  BY <1>2, <1>3, MarkTaken
<1>8. n # d
  BY <1>2, <1>7 DEF MessagesOK
<1>9. CASE answered'.served = n /\ answered'.dropped = d /\ timers' = timers
  BY <1>1, <1>5, <1>6, <1>9 DEF MarksInv, q, n
<1>10. CASE answered'.served = served /\ answered'.dropped = g /\ timers' = timers
  <2>1. MessagesOK(Tail(q), n, timers, g)
    BY <1>6, <1>7, Dropped
  <2>2. n = served \/ n = g \/ OnItsWay(Tail(q), n, timers)
    BY <1>2, <1>6, <1>8
  <2>. QED BY <1>1, <1>5, <1>10, <2>1, <2>2 DEF MarksInv, q, n
<1>11. CASE timers' = timers \cup {[gen |-> g, due |-> now + Debounce]} /\ answered' = answered
  <2> DEFINE t == [gen |-> g, due |-> now + Debounce]
  <2>0. t.gen = g
    OBVIOUS
  <2>00. timers' = timers \cup {t}
    BY <1>11
  <2> HIDE DEF t
  <2>1. MessagesOK(Tail(q), n, timers \cup {t}, d)
    BY <1>6, <1>7, <2>0, TimerSet
  <2>2. n = served \/ OnItsWay(Tail(q), n, timers \cup {t})
    BY <1>2, <1>6, <1>8, <2>0 DEF OnItsWay
  <2>. QED BY <1>1, <1>5, <1>11, <2>00, <2>1, <2>2 DEF MarksInv, q, n, d, served
<1>. QED BY <1>5, <1>9, <1>10, <1>11

LEMMA MarksFired ==
  ASSUME MarksInv, NEW g, ReceiveFired(g)
  PROVE  MarksInv'
<1>1. /\ actor.queue # <<>> /\ Head(actor.queue) = Fired(g)
      /\ DOMAIN actor' = {"queue", "gen", "last"} /\ actor'.queue = Tail(actor.queue) /\ actor'.gen = actor.gen
  <2>1. Reads(Fired(g))
    BY DEF ReceiveFired
  <2>. QED BY <2>1, ActorReads
<1> DEFINE q == actor.queue
           n == actor.gen
           d == answered.dropped
           served == answered.served
<1>2. MessagesOK(q, n, timers, d) /\ (n = served \/ n = d \/ OnItsWay(q, n, timers))
  BY DEF MarksInv
<1>3. q # <<>> /\ Head(q) = Fired(g)
  BY <1>1
<1>4. /\ timers' = timers
      /\ \/ g # n /\ answered' = answered
         \/ g = n /\ answered' = [answered EXCEPT !.served = n]
         \/ g = n /\ answered' = [answered EXCEPT !.dropped = g]
  BY DEF ReceiveFired, Starts, Latest
<1>5. /\ DOMAIN answered' = {"served", "dropped"}
      /\ \/ g # n /\ answered' = answered
         \/ g = n /\ answered'.served = n /\ answered'.dropped = d
         \/ g = n /\ answered'.dropped = n
  BY <1>4 DEF MarksInv
<1> HIDE DEF q, n, d, served
<1>6. /\ MessagesOK(Tail(q), n, timers, d)
      /\ OnItsWay(q, n, timers) /\ g # n => OnItsWay(Tail(q), n, timers)
  BY <1>2, <1>3, MessageTaken DEF Fired
<1>7. CASE g # n /\ answered' = answered
  BY <1>1, <1>2, <1>4, <1>5, <1>6, <1>7 DEF MarksInv, q, n, d, served
<1>8. CASE g = n /\ answered'.served = n /\ answered'.dropped = d
  BY <1>1, <1>4, <1>5, <1>6, <1>8 DEF MarksInv, q, n
<1>9. CASE g = n /\ answered'.dropped = n
  <2>1. \A i \in DOMAIN Tail(q) : ~IsMark(Tail(q)[i])
    BY <1>2, <1>3, <1>9, NewestFired
  <2>2. n \in Nat /\ n <= n
    BY <1>2 DEF MessagesOK
  <2>3. MessagesOK(Tail(q), n, timers, n)
    BY <1>6, <2>1, <2>2, Dropped
  <2>. QED BY <1>1, <1>4, <1>5, <1>9, <2>3 DEF MarksInv, q, n
<1>. QED BY <1>5, <1>7, <1>8, <1>9

\* Nothing else touches the queue, the counter or the timers.
LEMMA MarksElse ==
  ASSUME MarksInv, timers' = timers, answered' = answered,
         actor' = actor \/ actor' = [actor EXCEPT !.last = now]
  PROVE  MarksInv'
<1>1. DOMAIN actor' = {"queue", "gen", "last"} /\ actor'.queue = actor.queue /\ actor'.gen = actor.gen
  BY DEF MarksInv
<1>. QED BY <1>1 DEF MarksInv

LEMMA MarksStep ==
  ASSUME MarksInv, [HistoryNext]_historyVars
  PROVE  MarksInv'
<1>1. ASSUME NEW p \in BrowsedPlaces, RecordHistory(p) PROVE MarksInv'
  BY <1>1, MarksRecord
<1>2. ASSUME NEW p \in BrowsedPlaces, DeleteHistory(p) PROVE MarksInv'
  BY <1>2, MarksElse DEF DeleteHistory
<1>3. CASE UpdateSettings \/ Clock \/ RunManual
  BY <1>3, MarksElse DEF UpdateSettings, Clock, RunManual
<1>4. CASE TimerFires
  BY <1>4, MarksTimer
<1>5. ASSUME NEW g \in 1 .. MaxMarks, ReceiveDirty(g) \/ ReceiveFired(g) PROVE MarksInv'
  BY <1>5, MarksDirty, MarksFired
<1>6. ASSUME NEW w \in Who, ReadConfig(w) \/ MakePlan(w) \/ ApplyDeletes(w) \/ Finish(w) PROVE MarksInv'
  BY <1>6, MarksElse DEF ReadConfig, MakePlan, ApplyDeletes, Finish
<1>7. CASE UNCHANGED historyVars
  BY <1>7, MarksElse DEF historyVars
<1>. QED BY <1>1, <1>2, <1>3, <1>4, <1>5, <1>6, <1>7 DEF HistoryNext

\* When the actor has nothing left to do, the newest mark was met.
LEMMA MarksGiveServed ==
  MarksInv => MarksServed
<1> SUFFICES ASSUME MarksInv, actor.queue = <<>>, timers = {} PROVE answered.served = actor.gen \/ answered.dropped = actor.gen
  BY DEF MarksServed
<1> DEFINE q == actor.queue
<1>1. q = <<>>
  OBVIOUS
<1>2. OnItsWay(q, actor.gen, timers) => FALSE
  <2> HIDE DEF q
  <2>. QED BY <1>1 DEF OnItsWay
<1>. QED BY <1>2 DEF MarksInv, q

-----------------------------------------------------------------------------
(***************************************************************************)
(* What a run plans.                                                       *)
(***************************************************************************)

\* The counts of a plan that takes something, the rest being in the window.
LEMMA PlanCounts ==
  ASSUME NEW D, IsFiniteSet(D), NEW E, E \subseteq D, NEW P, P \subseteq D, NEW max \in Int,
         Cardinality(P) < max, Cardinality(D \ E) - max > 0
  PROVE  /\ IsFiniteSet((D \ E) \ P)
         /\ Cardinality(D \ E) - max < Cardinality((D \ E) \ P)
         /\ Cardinality(D \ E) - max < Cardinality(D \ E) - Cardinality(P)
<1> DEFINE L == D \ E
<1>1. IsFiniteSet(L) /\ IsFiniteSet(P) /\ IsFiniteSet(L \cap P)
  BY FS_Subset
<1>2. Cardinality(L \ P) = Cardinality(L) - Cardinality(L \cap P) /\ IsFiniteSet(L \ P)
  BY <1>1, FS_Difference
<1>3. Cardinality(L \cap P) <= Cardinality(P)
  BY <1>1, FS_Subset
<1>4. Cardinality(L) \in Nat /\ Cardinality(P) \in Nat /\ Cardinality(L \cap P) \in Nat
  BY <1>1, FS_CardinalityType
<1> HIDE DEF L
<1>. QED BY <1>2, <1>3, <1>4 DEF L

\* What a run takes besides what is too old, and what is left.
Parts(rows, old, live, more, gone, kept) ==
  /\ IsFiniteSet(rows) /\ old \subseteq rows /\ live = rows \ old
  /\ more \subseteq live /\ gone = old \cup more /\ kept = rows \ gone

LEMMA TakenCounts ==
  ASSUME NEW rows, NEW old, NEW live, NEW more, NEW gone, NEW kept, Parts(rows, old, live, more, gone, kept)
  PROVE  /\ Cardinality(gone) = Cardinality(old) + Cardinality(more)
         /\ Cardinality(kept) = Cardinality(live) - Cardinality(more)
         /\ Cardinality(live) = Cardinality(rows) - Cardinality(old)
         /\ Cardinality(rows) \in Nat /\ Cardinality(old) \in Nat /\ Cardinality(more) \in Nat
<1>1. IsFiniteSet(old) /\ IsFiniteSet(more) /\ IsFiniteSet(live)
  BY FS_Subset DEF Parts
<1>2. old \cap more = {} /\ rows \cap old = old /\ live \cap more = more /\ live \ more = kept /\ rows \ old = live /\ old \cup more = gone
  BY DEF Parts
<1>3. Cardinality({}) = 0
  BY FS_EmptySet
<1>4. Cardinality(rows) \in Nat /\ Cardinality(old) \in Nat /\ Cardinality(more) \in Nat
  BY <1>1, FS_CardinalityType DEF Parts
<1>5. Cardinality(old \cup more) = Cardinality(old) + Cardinality(more) - Cardinality(old \cap more)
  BY <1>1, FS_Union
<1>6. Cardinality(live \ more) = Cardinality(live) - Cardinality(live \cap more)
  BY <1>1, FS_Difference
<1>7. Cardinality(rows \ old) = Cardinality(rows) - Cardinality(rows \cap old)
  BY FS_Difference DEF Parts
<1>8. Cardinality(old \cap more) = 0
  BY <1>2, <1>3, Zenon
<1>9. Cardinality(gone) = Cardinality(old) + Cardinality(more)
  <2>1. Cardinality(old \cup more) = Cardinality(old) + Cardinality(more)
    BY <1>4, <1>5, <1>8
  <2>. QED BY <1>2, <2>1, Zenon
<1>10. Cardinality(kept) = Cardinality(live) - Cardinality(more)
  BY <1>2, <1>6, Zenon
<1>11. Cardinality(live) = Cardinality(rows) - Cardinality(old)
  BY <1>2, <1>7, Zenon
<1>. QED BY <1>4, <1>9, <1>10, <1>11

\* What the deletion of the rows in K beside what is too old leaves and takes (CleanupKeepsBest).
BestKept(h, c, t, K) ==
  LET gone == Expired(h, c, t) \cup K
      kept == DOMAIN h \ gone
      extra == gone \ Expired(h, c, t)
  IN /\ Cardinality(gone) = Preview(h, c, t)
     /\ extra \cap Protected(h, c, t) = {}
     /\ extra # {} => Cardinality(kept) = c.max
     /\ (c.max > 0 /\ Cardinality(kept) > c.max) => Cardinality(Protected(h, c, t)) >= c.max
     /\ \A p \in extra, q \in kept \ Protected(h, c, t) : ~(Score(q, h[q], t) < Score(p, h[p], t))

LEMMA SelectionsKeepBest ==
  ASSUME NEW h, IsFiniteSet(DOMAIN h), NEW c, c.max \in Int, NEW t,
         NEW K \in Selections(h, BuildPlan(h, c, t), t)
  PROVE  BestKept(h, c, t, K)
<1> DEFINE D == DOMAIN h
           E == Expired(h, c, t)
           P == Protected(h, c, t)
           plan == BuildPlan(h, c, t)
           max == c.max
           over == Cardinality(D \ E) - max
           takes == max > 0 /\ over > 0 /\ Cardinality(P) < max
<1>1. E \subseteq D /\ P \subseteq D /\ IsFiniteSet(D) /\ max \in Int
  BY DEF Expired, Protected
<1>2. IsFiniteSet(D \ E) /\ IsFiniteSet(P) /\ IsFiniteSet(E)
  BY <1>1, FS_Subset
<1>3. Cardinality(P) \in Nat /\ Cardinality(D) \in Nat /\ Cardinality(E) \in Nat /\ Cardinality(D \ E) \in Nat
  BY <1>1, <1>2, FS_CardinalityType
<1>4. /\ takes => plan.candidates = (D \ E) \ P /\ plan.over = over
      /\ ~takes => plan.candidates = {} /\ plan.over = 0
  <2>1. plan = (IF max <= 0 \/ over <= 0 THEN [candidates |-> {}, over |-> 0, exceeds |-> FALSE]
                ELSE IF Cardinality(P) >= max THEN [[candidates |-> {}, over |-> 0, exceeds |-> FALSE] EXCEPT !.exceeds = TRUE]
                ELSE [candidates |-> (D \ E) \ P, over |-> over, exceeds |-> FALSE])
    BY DEF BuildPlan
  <2> DEFINE live == (D \ E) \ P
             wins == Cardinality(P)
             rest == Cardinality(D \ E)
  <2>2. /\ rest \in Nat /\ wins \in Nat /\ over = rest - max
        /\ takes <=> max > 0 /\ rest - max > 0 /\ wins < max
    BY <1>3
  <2> HIDE DEF D, E, P, plan, max, over, takes, live, wins, rest
  <2>3. plan = (IF max <= 0 \/ over <= 0 THEN [candidates |-> {}, over |-> 0, exceeds |-> FALSE]
                ELSE IF wins >= max THEN [[candidates |-> {}, over |-> 0, exceeds |-> FALSE] EXCEPT !.exceeds = TRUE]
                ELSE [candidates |-> live, over |-> over, exceeds |-> FALSE])
    BY <2>1 DEF live, wins
  <2>4. CASE takes
    BY <1>1, <2>2, <2>3, <2>4 DEF live
  <2>5. CASE ~takes
    BY <1>1, <2>2, <2>3, <2>5
  <2>. QED BY <2>4, <2>5
<1>5. /\ K \subseteq plan.candidates
      /\ Cardinality(K) = (IF plan.over < Cardinality(plan.candidates) THEN plan.over ELSE Cardinality(plan.candidates))
      /\ \A p \in K, q \in plan.candidates \ K : ~(Score(q, h[q], t) < Score(p, h[p], t))
  BY DEF Selections, Before
<1>6. Preview(h, c, t) = IF takes
        THEN Cardinality(E) + (IF Cardinality(D) - Cardinality(E) - max < Cardinality(D) - Cardinality(E) - Cardinality(P)
                               THEN Cardinality(D) - Cardinality(E) - max
                               ELSE IF Cardinality(D) - Cardinality(E) > Cardinality(P)
                                    THEN Cardinality(D) - Cardinality(E) - Cardinality(P) ELSE 0)
        ELSE Cardinality(E)
  <2>1. Cardinality(D \ E) = Cardinality(D) - Cardinality(E)
    BY <1>1, FS_Difference, D \cap E = E
  <2>. QED BY <1>3, <2>1 DEF Preview
<1>7. BestKept(h, c, t, K) <=>
        /\ Cardinality(E \cup K) = Preview(h, c, t)
        /\ ((E \cup K) \ E) \cap P = {}
        /\ (E \cup K) \ E # {} => Cardinality(D \ (E \cup K)) = max
        /\ (max > 0 /\ Cardinality(D \ (E \cup K)) > max) => Cardinality(P) >= max
        /\ \A p \in (E \cup K) \ E, q \in (D \ (E \cup K)) \ P : ~(Score(q, h[q], t) < Score(p, h[p], t))
  BY DEF BestKept
<1> HIDE DEF D, E, P, plan, max
<1>8. K \subseteq D \ E
  BY <1>1, <1>4, <1>5
<1>9. /\ Cardinality(E \cup K) = Cardinality(E) + Cardinality(K)
      /\ Cardinality(D \ (E \cup K)) = Cardinality(D \ E) - Cardinality(K)
      /\ Cardinality(D \ E) = Cardinality(D) - Cardinality(E)
      /\ Cardinality(K) \in Nat
  <2> DEFINE gone == E \cup K
             live == D \ E
             kept == D \ gone
  <2>1. Parts(D, E, live, K, gone, kept)
    BY <1>1, <1>8 DEF Parts
  <2> HIDE DEF gone, live, kept
  <2>2. /\ Cardinality(gone) = Cardinality(E) + Cardinality(K)
        /\ Cardinality(kept) = Cardinality(live) - Cardinality(K)
        /\ Cardinality(live) = Cardinality(D) - Cardinality(E)
        /\ Cardinality(K) \in Nat
    BY <2>1, TakenCounts
  <2>. QED BY <2>2 DEF gone, live, kept
<1>10. (E \cup K) \ E = K
  BY <1>8
<1>11. CASE takes
  <2>1. over < Cardinality((D \ E) \ P) /\ over < Cardinality(D \ E) - Cardinality(P)
    BY <1>1, <1>11, PlanCounts
  <2>2. Cardinality(K) = over
    BY <1>4, <1>5, <1>11, <2>1
  <2>3. Preview(h, c, t) = Cardinality(E) + over
    BY <1>1, <1>3, <1>6, <1>9, <1>11, <2>1
  <2>4. Cardinality(E \cup K) = Preview(h, c, t)
    BY <1>9, <2>2, <2>3
  <2>5. K \cap P = {}
    BY <1>4, <1>5, <1>11
  <2>6. Cardinality(D \ (E \cup K)) = max
    BY <1>1, <1>3, <1>9, <2>2
  <2>7. \A p \in K, q \in (D \ (E \cup K)) \ P : ~(Score(q, h[q], t) < Score(p, h[p], t))
    BY <1>4, <1>5, <1>11
  <2>. QED BY <1>1, <1>7, <1>10, <2>4, <2>5, <2>6, <2>7
<1>12. CASE ~takes
  <2>1. K = {}
    BY <1>4, <1>5, <1>12
  <2>2. Cardinality(K) = 0
    BY <2>1, FS_EmptySet
  <2>3. Cardinality(E \cup K) = Preview(h, c, t)
    BY <1>3, <1>6, <1>9, <1>12, <2>2
  <2>4. (max > 0 /\ Cardinality(D \ (E \cup K)) > max) => Cardinality(P) >= max
    BY <1>1, <1>3, <1>9, <1>12, <2>2
  <2>. QED BY <1>7, <1>10, <2>1, <2>3, <2>4
<1>. QED BY <1>11, <1>12

\* A run planned from rows it read itself, by what the settings said then.
JobOK(j) ==
  /\ j.phase \in {"config", "planned"} => j.cfg \in Configs
  /\ j.phase = "planned" =>
       /\ IsFiniteSet(DOMAIN j.seen)
       /\ j.keys \in Selections(j.seen, BuildPlan(j.seen, j.cfg, j.now), j.now)

JobsInv ==
  /\ DOMAIN jobs = Who /\ cfg \in Configs /\ IsFiniteSet(DOMAIN history)
  /\ \A w \in Who : JobOK(jobs[w])

LEMMA JobsStart ==
  ASSUME HistoryAssumption, HistoryInit
  PROVE  JobsInv
BY DEF HistoryAssumption, HistoryInit, JobsInv, JobOK, Idle

\* One run moves on: the others stay what they were.
LEMMA JobMoves ==
  ASSUME JobsInv, NEW w \in Who, NEW j, jobs' = [jobs EXCEPT ![w] = j], JobOK(j),
         cfg' = cfg, IsFiniteSet(DOMAIN history')
  PROVE  JobsInv'
<1> SUFFICES /\ DOMAIN jobs' = Who /\ cfg' \in Configs
             /\ \A v \in Who : JobOK(jobs[v])'
  BY DEF JobsInv
<1>1. DOMAIN jobs' = Who /\ cfg' \in Configs /\ \A v \in Who : jobs'[v] = IF v = w THEN j ELSE jobs[v]
  BY DEF JobsInv
<1>2. ASSUME NEW v \in Who PROVE JobOK(jobs[v])'
  <2>1. JobOK(jobs[v])
    BY DEF JobsInv
  <2>2. jobs'[v] = j \/ jobs'[v] = jobs[v]
    BY <1>1
  <2>. QED BY <2>1, <2>2 DEF JobOK
<1>. QED BY <1>1, <1>2

\* A step that moves no run on.
LEMMA JobsStay ==
  ASSUME JobsInv, jobs' = jobs, cfg' \in Configs, IsFiniteSet(DOMAIN history')
  PROVE  JobsInv'
BY DEF JobsInv, JobOK

LEMMA JobsStep ==
  ASSUME JobsInv, [HistoryNext]_historyVars
  PROVE  JobsInv'
<1>0. IsFiniteSet(DOMAIN history) /\ cfg \in Configs
  BY DEF JobsInv
<1>1. ASSUME NEW p \in BrowsedPlaces, RecordHistory(p) PROVE JobsInv'
  <2>1. DOMAIN history' = DOMAIN history \cup {p}
    BY <1>1 DEF RecordHistory, Put
  <2>2. IsFiniteSet(DOMAIN history')
    BY <1>0, <2>1, FS_AddElement
  <2>. QED BY <1>0, <1>1, <2>2, JobsStay DEF RecordHistory
<1>2. ASSUME NEW p \in BrowsedPlaces, DeleteHistory(p) PROVE JobsInv'
  <2>1. DOMAIN history' = DOMAIN history \ {p}
    BY <1>2 DEF DeleteHistory, Without
  <2>2. IsFiniteSet(DOMAIN history')
    BY <1>0, <2>1, FS_RemoveElement
  <2>. QED BY <1>0, <1>2, <2>2, JobsStay DEF DeleteHistory
<1>3. CASE UpdateSettings
  <2>1. cfg' \in Configs /\ history' = history /\ jobs' = jobs
    BY <1>3 DEF UpdateSettings
  <2>. QED BY <1>0, <2>1, JobsStay
<1>4. CASE Clock \/ TimerFires \/ UNCHANGED historyVars
  <2>1. cfg' = cfg /\ history' = history /\ jobs' = jobs
    BY <1>4 DEF Clock, TimerFires, historyVars
  <2>. QED BY <1>0, <2>1, JobsStay
<1>5. JobOK([phase |-> "begun"]) /\ JobOK([phase |-> "done"]) /\ JobOK(Idle)
  BY DEF JobOK, Idle
<1>6. CASE RunManual
  <2>1. /\ jobs' = [jobs EXCEPT !["manual"] = [phase |-> "begun"]]
        /\ cfg' = cfg /\ history' = history /\ "manual" \in Who
    BY <1>6 DEF RunManual, Who
  <2>. QED BY <1>0, <1>5, <2>1, JobMoves
<1>7. ASSUME NEW g \in 1 .. MaxMarks, ReceiveDirty(g) \/ ReceiveFired(g) PROVE JobsInv'
  <2>1. /\ jobs' = jobs \/ jobs' = [jobs EXCEPT !["auto"] = [phase |-> "begun"]]
        /\ cfg' = cfg /\ history' = history /\ "auto" \in Who
    BY <1>7 DEF ReceiveDirty, ReceiveFired, Starts, Who
  <2>2. CASE jobs' = jobs
    BY <1>0, <2>1, <2>2, JobsStay
  <2>3. CASE jobs' = [jobs EXCEPT !["auto"] = [phase |-> "begun"]]
    BY <1>0, <1>5, <2>1, <2>3, JobMoves
  <2>. QED BY <2>1, <2>2, <2>3
<1>8. ASSUME NEW w \in Who, ReadConfig(w) PROVE JobsInv'
  <2> DEFINE j == [phase |-> "config", cfg |-> cfg, now |-> now]
  <2>1. JobOK(j)
    BY <1>0 DEF JobOK
  <2> HIDE DEF j
  <2>2. /\ jobs' = [jobs EXCEPT ![w] = j] \/ jobs' = [jobs EXCEPT ![w] = [phase |-> "done"]]
        /\ cfg' = cfg /\ history' = history
    BY <1>8 DEF ReadConfig, j
  <2>3. CASE jobs' = [jobs EXCEPT ![w] = j]
    BY <1>0, <2>1, <2>2, <2>3, JobMoves
  <2>4. CASE jobs' = [jobs EXCEPT ![w] = [phase |-> "done"]]
    BY <1>0, <1>5, <2>2, <2>4, JobMoves
  <2>. QED BY <2>2, <2>3, <2>4
<1>9. ASSUME NEW w \in Who, MakePlan(w) PROVE JobsInv'
  <2>1. PICK keys \in Selections(history, BuildPlan(history, jobs[w].cfg, jobs[w].now), jobs[w].now) :
          jobs' = [jobs EXCEPT ![w] = [phase |-> "planned", cfg |-> jobs[w].cfg, now |-> jobs[w].now,
                                       keys |-> keys, seen |-> history]]
    BY <1>9 DEF MakePlan
  <2> DEFINE c == jobs[w].cfg
             t == jobs[w].now
             j == [phase |-> "planned", cfg |-> c, now |-> t, keys |-> keys, seen |-> history]
  <2>2. c \in Configs
    BY <1>9 DEF MakePlan, JobsInv, JobOK
  <2>3. keys \in Selections(history, BuildPlan(history, c, t), t) /\ jobs' = [jobs EXCEPT ![w] = j]
    BY <2>1
  <2> HIDE DEF c, t
  <2>4. JobOK(j)
    BY <1>0, <2>2, <2>3 DEF JobOK
  <2> HIDE DEF j
  <2>5. cfg' = cfg /\ history' = history
    BY <1>9 DEF MakePlan
  <2>. QED BY <1>0, <2>3, <2>4, <2>5, JobMoves
<1>10. ASSUME NEW w \in Who, ApplyDeletes(w) PROVE JobsInv'
  <2>1. DOMAIN history' = DOMAIN history \ Deleted(w) /\ cfg' = cfg
        /\ jobs' = [jobs EXCEPT ![w] = [phase |-> "done"]]
    BY <1>10 DEF ApplyDeletes, Without
  <2>2. IsFiniteSet(DOMAIN history')
    BY <1>0, <2>1, FS_Difference
  <2>. QED BY <1>5, <2>1, <2>2, JobMoves
<1>11. ASSUME NEW w \in Who, Finish(w) PROVE JobsInv'
  <2>1. cfg' = cfg /\ history' = history /\ jobs' = [jobs EXCEPT ![w] = Idle]
    BY <1>11 DEF Finish
  <2>. QED BY <1>0, <1>5, <2>1, JobMoves
<1>. QED BY <1>1, <1>2, <1>3, <1>4, <1>6, <1>7, <1>8, <1>9, <1>10, <1>11 DEF HistoryNext

LEMMA JobsKeepBest ==
  ASSUME HistoryAssumption, JobsInv
  PROVE  CleanupKeepsBest
<1>1. ASSUME NEW w \in Who, jobs[w].phase = "planned", jobs[w].seen = history
      PROVE  BestKept(history, jobs[w].cfg, jobs[w].now, jobs[w].keys)
  <2>1. jobs[w].cfg \in Configs /\ IsFiniteSet(DOMAIN history)
        /\ jobs[w].keys \in Selections(history, BuildPlan(history, jobs[w].cfg, jobs[w].now), jobs[w].now)
    BY <1>1 DEF JobsInv, JobOK
  <2>2. jobs[w].cfg.max \in Int
    BY <2>1 DEF HistoryAssumption
  <2>. QED BY <2>1, <2>2, SelectionsKeepBest
<1>. QED BY <1>1 DEF CleanupKeepsBest, BestKept, Deleted

\* The history keeps what it should, whatever is visited, set and run by hand in between: every mark
\* is followed by a run or met by the throttle (scheduler.rs run), and a run nothing came between
\* takes what the preview announced, the lowest scores outside the window (history.rs build_plan,
\* score_and_select, apply_deletes).
THEOREM HistoryKeptAlways ==
  ASSUME HistoryAssumption
  PROVE  HistorySpec => []HistoryKept
<1>1. HistoryInit => MarksInv /\ JobsInv
  BY MarksStart, JobsStart
<1>2. MarksInv /\ JobsInv /\ [HistoryNext]_historyVars => (MarksInv /\ JobsInv)'
  BY MarksStep, JobsStep
<1>3. MarksInv /\ JobsInv => HistoryKept
  BY MarksGiveServed, JobsKeepBest DEF HistoryKept
<1>. QED BY <1>1, <1>2, <1>3, PTL DEF HistorySpec
=============================================================================
