----------------------------- MODULE Maintenance -----------------------------
(***************************************************************************)
(* Retention of the browsing history (maintenance/history.rs, mod.rs,      *)
(* scheduler.rs, commands/maintenance.rs): visits mark the history dirty,  *)
(* an actor turns marks into runs (debounce, throttle, at once above          *)
(* 110 % of the limit), the user may run one by hand at any time, and each *)
(* run plans under the lock of the database, scores without it and deletes *)
(* under it again.                                                         *)
(*                                                                         *)
(* One unit of time stands for a second of the actor and for a day of the  *)
(* retention at once: the constants name no relation between the two.      *)
(***************************************************************************)
EXTENDS Integers, Sequences, FiniteSets, Maps

CONSTANTS
    BrowsedPlaces, \* (source_descriptor, rel_path) of folders
    Pinned,        \* those of the library or of the shortcuts
    FirstHistories, \* the rows at the start
    Configs,       \* what the settings may say
    Debounce,      \* MaintenanceTiming::debounce
    MinInterval,   \* MaintenanceTiming::min_interval
    MaxMarks,      \* visits in a behaviour (a bound)
    MaxEdits,      \* deletions, changes of settings and runs by hand (a bound)
    MaxTime        \* the last moment modelled (a bound)

ASSUME HistoryAssumption ==
    /\ \A c \in Configs : c.max \in Int
    /\ \A h \in FirstHistories : IsFiniteSet(DOMAIN h)

VARIABLES
    now,
    edits,         \* counts up to MaxEdits
    history,       \* browse_history: place -> [at, visits]
    cfg,           \* settings: [max, days, protect, auto]
    actor,         \* [queue, gen, last]: messages, the shared counter, last_run
    timers,        \* sleeping debounce timers: [gen, due]
    jobs,          \* runs by who runs them: "auto" (the actor) and "manual"
    answered       \* ghost: the last mark a run started after, and the last a throttle dropped

historyVars == <<now, edits, history, cfg, actor, timers, jobs, answered>>

None == -1
Who == {"auto", "manual"}
Idle == [phase |-> "idle"]
Dirty(g) == [msg |-> "HistoryDirty", gen |-> g]
Fired(g) == [msg |-> "DebounceFired", gen |-> g]

-----------------------------------------------------------------------------
(* history.rs                                                              *)

Logs == <<40, 63, 80, 93, 103>>   \* 40 * log2(n + 1) for visits 1 to 5

(* score_entry in units of 1/1600: a linear decay over ninety days, the     *)
(* logarithm of the visits, a bonus for what is pinned.                    *)
Score(p, row, t) ==
    LET age == IF t >= row.at THEN t - row.at ELSE 0
        recency == IF age >= 90 THEN 0 ELSE ((90 - age) * 32) \div 3
    IN recency + Logs[row.visits] + (IF p \in Pinned THEN 240 ELSE 0)

Expired(h, c, t) == IF c.days > 0 THEN {p \in DOMAIN h : h[p].at < t - c.days} ELSE {}
Protected(h, c, t) == {p \in DOMAIN h : h[p].at >= t - c.protect}

(* Mutant of BuildPlan: rows past the rule of days count against the limit. *)
BuildPlanBeforeDays(h, c, t) ==
    LET live == DOMAIN h
        over == Cardinality(live) - c.max
        exceeds == Cardinality(Protected(h, c, t)) >= c.max
        none == [candidates |-> {}, over |-> 0, exceeds |-> FALSE]
    IN IF c.max <= 0 \/ over <= 0 THEN none
       ELSE IF exceeds THEN [none EXCEPT !.exceeds = TRUE]
       ELSE [candidates |-> live \ Protected(h, c, t), over |-> over, exceeds |-> FALSE]

(* build_plan: what the rule of days will take no longer counts against     *)
(* the limit, and what is left is only taken from outside the window.      *)
BuildPlan(h, c, t) ==
    LET live == DOMAIN h \ Expired(h, c, t)
        over == Cardinality(live) - c.max
        exceeds == Cardinality(Protected(h, c, t)) >= c.max
        none == [candidates |-> {}, over |-> 0, exceeds |-> FALSE]
    IN IF c.max <= 0 \/ over <= 0 THEN none
       ELSE IF exceeds THEN [none EXCEPT !.exceeds = TRUE]
       ELSE [candidates |-> live \ Protected(h, c, t), over |-> over, exceeds |-> FALSE]

(* score_and_select: the lowest scores first, of equal ones the older      *)
(* visit, then the place, whose order is left open here.                   *)
Before(h, t, p, q) ==
    LET s == Score(p, h[p], t) r == Score(q, h[q], t)
    IN s < r \/ (s = r /\ h[p].at < h[q].at)

Selections(h, plan, t) ==
    {k \in SUBSET plan.candidates :
        /\ Cardinality(k) = (IF plan.over < Cardinality(plan.candidates)
                             THEN plan.over ELSE Cardinality(plan.candidates))
        /\ \A p \in k, q \in plan.candidates \ k : ~Before(h, t, q, p)}

(* preview_history_cleanup, a count of its own of what a run would take.    *)
Preview(h, c, t) ==
    LET days == Cardinality(Expired(h, c, t))
        after == Cardinality(DOMAIN h) - days
        window == Cardinality(Protected(h, c, t))
        over == after - c.max
    IN IF c.max > 0 /\ over > 0 /\ window < c.max
       THEN days + (IF over < after - window THEN over ELSE IF after > window THEN after - window ELSE 0)
       ELSE days

(* is_history_over_110                                                     *)
Over110 == cfg.max # 0 /\ 10 * Cardinality(DOMAIN history) > 11 * cfg.max

-----------------------------------------------------------------------------
HistoryInit == /\ now = 0 /\ edits = 0
        /\ history \in FirstHistories
        /\ cfg \in Configs
        /\ actor = [queue |-> <<>>, gen |-> 0, last |-> None]
        /\ timers = {}
        /\ jobs = [w \in Who |-> Idle]
        /\ answered = [served |-> 0, dropped |-> 0]

(* record_history: the row and the mark, under the lock of the database.    *)
RecordHistory(p) ==
    /\ actor.gen < MaxMarks
    /\ history' = Put(history, p, [at |-> now,
                                   visits |-> IF p \in DOMAIN history THEN history[p].visits + 1 ELSE 1])
    /\ actor' = [actor EXCEPT !.gen = @ + 1, !.queue = Append(@, Dirty(actor.gen + 1))]
    /\ UNCHANGED <<now, edits, cfg, timers, jobs, answered>>

(* delete_history marks nothing.                                           *)
DeleteHistory(p) ==
    /\ edits < MaxEdits /\ edits' = edits + 1
    /\ p \in DOMAIN history
    /\ history' = Without(history, {p})
    /\ UNCHANGED <<now, cfg, actor, timers, jobs, answered>>

UpdateSettings ==
    /\ edits < MaxEdits /\ edits' = edits + 1
    /\ \E c \in Configs : c # cfg /\ cfg' = c
    /\ UNCHANGED <<now, history, actor, timers, jobs, answered>>

Clock == /\ now < MaxTime
        /\ now' = now + 1
        /\ UNCHANGED <<edits, history, cfg, actor, timers, jobs, answered>>

TimerFires ==
    \E t \in timers :
        /\ t.due <= now
        /\ timers' = timers \ {t}
        /\ actor' = [actor EXCEPT !.queue = Append(@, Fired(t.gen))]
        /\ UNCHANGED <<now, edits, history, cfg, jobs, answered>>

-----------------------------------------------------------------------------
(* The actor: one message at a time, and none while its run goes on.        *)

ShouldRun == actor.last = None \/ now - actor.last >= MinInterval

Reads(m) == /\ jobs["auto"] = Idle
            /\ actor.queue # <<>>
            /\ Head(actor.queue) = m
            /\ actor' = [actor EXCEPT !.queue = Tail(@)]

Starts == /\ jobs' = [jobs EXCEPT !["auto"] = [phase |-> "begun"]]
          /\ answered' = [answered EXCEPT !.served = actor.gen]

ReceiveDirty(g) ==
    /\ Reads(Dirty(g))
    /\ \/ /\ Over110 /\ ShouldRun
          /\ Starts
          /\ UNCHANGED timers
       \/ /\ Over110 /\ ~ShouldRun
          /\ answered' = [answered EXCEPT !.dropped = g]
          /\ UNCHANGED <<timers, jobs>>
       \/ /\ ~Over110
          /\ timers' = timers \cup {[gen |-> g, due |-> now + Debounce]}
          /\ UNCHANGED <<jobs, answered>>
    /\ UNCHANGED <<now, edits, history, cfg>>

(* Mutant of Latest: marks carry the counter as it was before the mark.     *)
LatestButOne(g) == g + 1 = actor.gen

(* Only the timer of the newest mark counts, and it is not set again when   *)
(* the throttle refuses it.                                                *)
Latest(g) == g = actor.gen

ReceiveFired(g) ==
    /\ Reads(Fired(g))
    /\ \/ /\ ~Latest(g)
          /\ UNCHANGED <<jobs, answered>>
       \/ /\ Latest(g) /\ ShouldRun
          /\ Starts
       \/ /\ Latest(g) /\ ~ShouldRun
          /\ answered' = [answered EXCEPT !.dropped = g]
          /\ UNCHANGED jobs
    /\ UNCHANGED <<now, edits, history, cfg, timers>>

(* run_maintenance on a blocking thread of its own.                        *)
RunManual ==
    /\ edits < MaxEdits /\ edits' = edits + 1
    /\ jobs["manual"] = Idle
    /\ jobs' = [jobs EXCEPT !["manual"] = [phase |-> "begun"]]
    /\ UNCHANGED <<now, history, cfg, actor, timers, answered>>

-----------------------------------------------------------------------------
(* run_maintenance_once                                                    *)

(* The settings, under the lock; an automatic run that is switched off      *)
(* deletes nothing.                                                        *)
ReadConfig(w) ==
    /\ jobs[w].phase = "begun"
    /\ jobs' = [jobs EXCEPT ![w] =
                  IF w = "manual" \/ cfg.auto THEN [phase |-> "config", cfg |-> cfg, now |-> now]
                  ELSE [phase |-> "done"]]
    /\ UNCHANGED <<now, edits, history, cfg, actor, timers, answered>>

(* Phase A, and B with it, which reads nothing but the plan.               *)
MakePlan(w) ==
    /\ jobs[w].phase = "config"
    /\ \E keys \in Selections(history, BuildPlan(history, jobs[w].cfg, jobs[w].now), jobs[w].now) :
         jobs' = [jobs EXCEPT ![w] = [phase |-> "planned", cfg |-> jobs[w].cfg, now |-> jobs[w].now,
                                      keys |-> keys, seen |-> history]]
    /\ UNCHANGED <<now, edits, history, cfg, actor, timers, answered>>

(* Phase C, one transaction: by age as it is now, by key as planned.        *)
Deleted(w) == Expired(history, jobs[w].cfg, jobs[w].now) \cup jobs[w].keys

ApplyDeletes(w) ==
    /\ jobs[w].phase = "planned"
    /\ history' = Without(history, Deleted(w))
    /\ jobs' = [jobs EXCEPT ![w] = [phase |-> "done"]]
    /\ UNCHANGED <<now, edits, cfg, actor, timers, answered>>

(* The thumbnails and the record of the result follow; the actor notes the  *)
(* time and takes its next message.                                        *)
Finish(w) ==
    /\ jobs[w].phase = "done"
    /\ jobs' = [jobs EXCEPT ![w] = Idle]
    /\ actor' = IF w = "auto" THEN [actor EXCEPT !.last = now] ELSE actor
    /\ UNCHANGED <<now, edits, history, cfg, timers, answered>>

HistoryNext ==
    \/ \E p \in BrowsedPlaces : RecordHistory(p) \/ DeleteHistory(p)
    \/ UpdateSettings \/ Clock \/ TimerFires \/ RunManual
    \/ \E g \in 1 .. MaxMarks : ReceiveDirty(g) \/ ReceiveFired(g)
    \/ \E w \in Who : ReadConfig(w) \/ MakePlan(w) \/ ApplyDeletes(w) \/ Finish(w)

HistorySpec == HistoryInit /\ [][HistoryNext]_historyVars

-----------------------------------------------------------------------------
(* No visit is forgotten: when nothing is queued, asleep or running, a run   *)
(* started after the last mark, or the throttle met that mark, which the    *)
(* tests ask for (run, scheduler.rs 119-163).                              *)
MarksServed ==
    (actor.queue = <<>> /\ timers = {} /\ jobs["auto"] = Idle) =>
        answered.served = actor.gen \/ answered.dropped = actor.gen

(* A run nothing came between the reading and the deletion of takes what    *)
(* the preview announced: all that is past the rule of days; of the rest    *)
(* only what is over the limit, none of the window, and no row that scores   *)
(* above one it leaves outside the window.                                 *)
CleanupKeepsBest ==
    \A w \in Who : (jobs[w].phase = "planned" /\ jobs[w].seen = history) =>
        LET c == jobs[w].cfg
            kept == DOMAIN history \ Deleted(w)
            extra == Deleted(w) \ Expired(history, c, jobs[w].now)
        IN /\ Cardinality(Deleted(w)) = Preview(history, c, jobs[w].now)
           /\ extra \cap Protected(history, c, jobs[w].now) = {}
           /\ extra # {} => Cardinality(kept) = c.max
           /\ (c.max > 0 /\ Cardinality(kept) > c.max) =>
                  Cardinality(Protected(history, c, jobs[w].now)) >= c.max
           /\ \A p \in extra, q \in kept \ Protected(history, c, jobs[w].now) :
                  ~(Score(q, history[q], jobs[w].now) < Score(p, history[p], jobs[w].now))

(* Both: the history keeps what it should.                                  *)
HistoryKept == MarksServed /\ CleanupKeepsBest

(* What is left above the limit is inside the window (design 3.2: the       *)
(* lowest scores outside the window go until the count is back at the       *)
(* limit; build_plan takes nothing once the window alone fills it).        *)
OnlyWindowOverLimit ==
    \A w \in Who : (jobs[w].phase = "planned" /\ jobs[w].seen = history) =>
        LET c == jobs[w].cfg
            kept == DOMAIN history \ Deleted(w)
        IN (c.max > 0 /\ Cardinality(kept) > c.max) =>
               kept \subseteq Protected(history, c, jobs[w].now)

(* A row visited inside the window of protection is only deleted by the     *)
(* user or by the rule of days.                                            *)
ProtectedStay ==
    [][\A w \in Who : ApplyDeletes(w) =>
          \A p \in DOMAIN history \ DOMAIN history' :
              p \in Expired(history, jobs[w].cfg, jobs[w].now)
              \/ p \notin Protected(history, jobs[w].cfg, jobs[w].now)]_historyVars
=============================================================================
