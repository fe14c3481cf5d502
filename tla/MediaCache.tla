----------------------------- MODULE MediaCache -----------------------------
(* Pages of remote books by media:// (src/src-tauri/src/media_cache.rs, the  *)
(* handler in lib.rs, commands/warm.rs, commands/accounts.rs): the cache of  *)
(* pages as its linked list, one download for all who want a page, reading   *)
(* ahead, and the account the pages come from.                               *)
(*                                                                           *)
(* A page's content is the version of the account's row its descriptor was   *)
(* made from. Everything a mutex covers is one step, everything else is not: *)
(* looking, joining, taking the generation, storing, telling the waiters and *)
(* leaving the registry come apart.                                          *)
EXTENDS Integers, SequencesExt, Maps

CONSTANTS
    Pages,      \* files of a remote book
    SizeOf,     \* their bytes
    Cap,        \* MediaLru.cap
    LocalPages, \* those of a local folder
    Tasks,      \* requests of the page view and tasks of warm_media_urls, one
                \* after another
    MaxEdits,   \* account commands (a bound)
    Sessions,   \* what advance_warm_session names, from 1, each once
    Nil         \* None

(* The handler finds a page under the path of its URL, which begins with a   *)
(* slash; what media_path_of leaves for a warm task does not.                *)
Keys == [slash : BOOLEAN, page : Pages]

Rows == [ver : Nat, secret : Nat]
Commands == [kind : {"edit"}, old : Rows, password : BOOLEAN] \cup [kind : {"delete"}, forgets : BOOLEAN]

ASSUME MediaAssumption ==
    /\ Nil \notin Rows \cup Commands \cup Keys /\ Sessions \subseteq Nat
    /\ \A page \in Pages : SizeOf[page] \in Nat
    /\ Cap \in Nat /\ MaxEdits \in Nat

VARIABLES
    account,    \* [row, secret: version or Nil; command: the one that holds the connection;
                \* torn: a statement beside the keyring failed, a ghost]
    lru,        \* MediaLru: [map, head, tail, bytes, gen]
    inflight,   \* inflight_registry: key -> the task whose channel it is
    tasks,      \* requests and warm tasks
    session,    \* WARM_SESSION
    edits       \* account commands so far

mediaVars == <<account, lru, inflight, tasks, session, edits>>

------------------------------------------------------------------------------
Key(t) == [slash |-> ~tasks[t].warm, page |-> tasks[t].page]

Entry(media, next) == [media |-> media, prev |-> Nil, next |-> next]

Link(map, key, field, to) == IF key = Nil THEN map ELSE [map EXCEPT ![key][field] = to]

(* Mutant of Detach: the bytes of what leaves stay counted.                  *)
DetachKeepsBytes(l, key) ==
    LET e == l.map[key]
    IN [l EXCEPT !.map = Link(Link(Without(@, {key}), e.prev, "next", e.next), e.next, "prev", e.prev),
                 !.head = IF @ = key THEN e.next ELSE @,
                 !.tail = IF @ = key THEN e.prev ELSE @]

Detach(l, key) ==
    LET e == l.map[key]
    IN [l EXCEPT !.map = Link(Link(Without(@, {key}), e.prev, "next", e.next), e.next, "prev", e.prev),
                 !.bytes = @ - SizeOf[e.media.page],
                 !.head = IF @ = key THEN e.next ELSE @,
                 !.tail = IF @ = key THEN e.prev ELSE @]

AtHead(l, key, media) ==
    [l EXCEPT !.map = Link(Put(@, key, Entry(media, l.head)), l.head, "prev", key),
              !.bytes = @ + SizeOf[media.page],
              !.head = key,
              !.tail = IF l.head = Nil THEN key ELSE @]

Touch(l, key) == IF l.head = key THEN l ELSE AtHead(Detach(l, key), key, l.map[key].media)

EvictTail(l, size) == IF l.bytes + size > Cap /\ l.tail # Nil THEN Detach(l, l.tail) ELSE l

MakeRoom(l, size) ==
    FoldLeft(LAMBDA m, i : EvictTail(m, size), l, [i \in 1 .. Cardinality(DOMAIN l.map) |-> i])

PutMedia(l, key, media) ==
    LET size == SizeOf[media.page]
        old == IF key \in DOMAIN l.map THEN Detach(l, key) ELSE l
    IN IF size > Cap THEN l ELSE AtHead(MakeRoom(old, size), key, media)

(* Mutant of PutIfGeneration: what an old download brings is kept.           *)
PutAlways(key, media, expected) == lru' = PutMedia(lru, key, media)

PutIfGeneration(key, media, expected) ==
    lru' = IF lru.gen = expected THEN PutMedia(lru, key, media) ELSE lru

ClearAndBump == lru' = [map |-> EmptyMap, head |-> Nil, tail |-> Nil, bytes |-> 0, gen |-> lru.gen + 1]

------------------------------------------------------------------------------
(* Account commands hold the connection from their first statement to their  *)
(* return; an edit whose password cannot be saved takes its row back, if     *)
(* that statement does not fail too, and clears nothing. A deletion forgets  *)
(* the password, or cannot, and then deletes the row, or fails. Others' new  *)
(* accounts clear the cache of all. A first statement that fails is no       *)
(* command.                                                                  *)

Free == account.command = Nil
Begins(c) == Free /\ edits < MaxEdits /\ edits' = edits + 1 /\ account' = c
Rest == UNCHANGED <<inflight, tasks, session>>

EditAccount(password) ==
    /\ account.row # Nil
    /\ Begins([account EXCEPT !.row = [ver |-> edits + 1, secret |-> IF password THEN edits + 1 ELSE account.row.secret],
                              !.command = [kind |-> "edit", old |-> account.row, password |-> password]])
    /\ UNCHANGED lru /\ Rest

(* Mutant of PasswordFails: the row stays as the edit left it.               *)
PasswordFailsOnly ==
    /\ ~Free /\ account.command.kind = "edit" /\ account.command.password
    /\ account' = [account EXCEPT !.command = Nil]
    /\ UNCHANGED <<lru, edits>> /\ Rest

PasswordFails ==
    /\ ~Free /\ account.command.kind = "edit" /\ account.command.password
    /\ \/ account' = [account EXCEPT !.row = account.command.old, !.command = Nil]
       \/ account' = [account EXCEPT !.torn = TRUE, !.command = Nil]
    /\ UNCHANGED <<lru, edits>> /\ Rest

EditSaved ==
    /\ ~Free /\ account.command.kind = "edit"
    /\ account' = IF account.command.password
                   THEN [account EXCEPT !.secret = account.row.secret, !.torn = FALSE, !.command = Nil]
                   ELSE [account EXCEPT !.command = Nil]
    /\ ClearAndBump
    /\ UNCHANGED edits /\ Rest

CreateAnother ==
    /\ Begins(account)
    /\ lru' = lru \/ ClearAndBump
    /\ Rest

DeleteAccount ==
    /\ account.row # Nil
    /\ \E forgets \in BOOLEAN :
         Begins([account EXCEPT !.secret = IF forgets THEN Nil ELSE @,
                                !.command = [kind |-> "delete", forgets |-> forgets]])
    /\ UNCHANGED lru /\ Rest

DeleteFails ==
    /\ ~Free /\ account.command.kind = "delete"
    /\ account' = [account EXCEPT !.torn = @ \/ account.command.forgets, !.command = Nil]
    /\ UNCHANGED <<lru, edits>> /\ Rest

Deleted ==
    /\ ~Free /\ account.command.kind = "delete"
    /\ account' = [account EXCEPT !.row = Nil, !.command = Nil]
    /\ ClearAndBump
    /\ UNCHANGED edits /\ Rest

------------------------------------------------------------------------------
(* Requests and warm tasks.                                                  *)

Idle == [phase |-> "idle", warm |-> FALSE, page |-> Nil, ver |-> Nil, gen |-> Nil,
         owner |-> Nil, outcome |-> "pending", session |-> Nil]

Waiters(t) == {u \in Tasks : tasks[u].phase = "wait" /\ tasks[u].owner = t}

Goes(t, phase) == tasks' = [tasks EXCEPT ![t].phase = phase]
Ends(t) == tasks' = [tasks EXCEPT ![t] = [Idle EXCEPT !.outcome = tasks[t].outcome]]
Others == UNCHANGED <<account, session, edits>>

(* handle_media_request up to its first await: the descriptor is made from   *)
(* the row as it is, and the account is not looked at again.                 *)
Ask(t, page) ==
    /\ tasks[t].phase = "idle" /\ Waiters(t) = {} /\ Free
    /\ page \in LocalPages \/ account.row # Nil
    /\ tasks' = [tasks EXCEPT ![t] = [Idle EXCEPT !.phase = "stat", !.page = page,
           !.ver = IF page \in LocalPages THEN Nil ELSE account.row.ver]]
    /\ UNCHANGED <<lru, inflight>> /\ Others

(* A stat that fails ends a request; one for a local file or with a range    *)
(* ends with a read past the cache.                                          *)
StatOrStraight(t) == tasks[t].phase = "stat" /\ Ends(t) /\ UNCHANGED <<lru, inflight>> /\ Others

Look(t) ==
    /\ tasks[t].phase = "stat" /\ tasks[t].page \notin LocalPages
    /\ IF Key(t) \in DOMAIN lru.map
       THEN Ends(t) /\ lru' = Touch(lru, Key(t))
       ELSE Goes(t, "join") /\ UNCHANGED lru
    /\ UNCHANGED inflight /\ Others

(* warm_media_urls with one URL: checked when submitted and again when its   *)
(* task starts, which then goes on to download without a look at the cache.  *)
Warm(t, page) ==
    /\ tasks[t].phase = "idle" /\ Waiters(t) = {}
    /\ tasks' = [tasks EXCEPT ![t] = [Idle EXCEPT !.phase = "check", !.warm = TRUE, !.page = page,
                                                  !.session = session]]
    /\ UNCHANGED <<lru, inflight>> /\ Others

WarmStarts(t) ==
    /\ tasks[t].phase = "check" /\ Free
    /\ IF tasks[t].session # session \/ tasks[t].page \in LocalPages \/ account.row = Nil
       THEN Ends(t)
       ELSE tasks' = [tasks EXCEPT ![t] = [@ EXCEPT !.phase = "join", !.ver = account.row.ver, !.session = Nil]]
    /\ UNCHANGED <<lru, inflight>> /\ Others

AdvanceSession(s) ==
    /\ s > session
    /\ session' = s
    /\ UNCHANGED <<account, lru, inflight, tasks, edits>>

------------------------------------------------------------------------------
(* fetch_remote_to_cache_with.                                               *)

(* Mutant of Join: whoever comes downloads.                                  *)
JoinAlone(t) ==
    /\ tasks[t].phase = "join"
    /\ Goes(t, "begin") /\ inflight' = Put(inflight, Key(t), t)
    /\ UNCHANGED lru /\ Others

Join(t) ==
    /\ tasks[t].phase = "join"
    /\ IF Key(t) \in DOMAIN inflight
       THEN tasks' = [tasks EXCEPT ![t] = [@ EXCEPT !.phase = "wait", !.owner = inflight[Key(t)]]] /\ UNCHANGED inflight
       ELSE Goes(t, "begin") /\ inflight' = Put(inflight, Key(t), t)
    /\ UNCHANGED lru /\ Others

Woken(t) ==
    /\ tasks[t].phase = "wait" /\ tasks[tasks[t].owner].outcome # "pending"
    /\ IF tasks[tasks[t].owner].outcome = "done" /\ Key(t) \in DOMAIN lru.map
       THEN Goes(t, "again") /\ lru' = Touch(lru, Key(t))
       ELSE Ends(t) /\ UNCHANGED lru
    /\ UNCHANGED inflight /\ Others

TakeGeneration(t) ==
    /\ tasks[t].phase = "begin"
    /\ tasks' = [tasks EXCEPT ![t] = [@ EXCEPT !.phase = "fetching", !.gen = lru.gen]]
    /\ UNCHANGED <<lru, inflight>> /\ Others

FetchFails(t) ==
    /\ tasks[t].phase = "fetching"
    /\ Goes(t, "failed")
    /\ UNCHANGED <<lru, inflight>> /\ Others

Store(t) ==
    /\ tasks[t].phase = "fetching"
    /\ PutIfGeneration(Key(t), [page |-> tasks[t].page, ver |-> tasks[t].ver, gen |-> tasks[t].gen], tasks[t].gen)
    /\ Goes(t, IF lru.gen = tasks[t].gen THEN "stored" ELSE "failed")
    /\ UNCHANGED inflight /\ Others

(* Mutant of Send: a download that failed tells nobody.                      *)
SendDone(t) ==
    /\ tasks[t].phase \in {"stored", "failed"}
    /\ tasks' = [tasks EXCEPT ![t] = [@ EXCEPT !.outcome = IF tasks[t].phase = "stored" THEN "done" ELSE @,
                                 !.phase = IF @ = "stored" THEN "leave" ELSE "leave failed"]]
    /\ UNCHANGED <<lru, inflight>> /\ Others

Send(t) ==
    /\ tasks[t].phase \in {"stored", "failed"}
    /\ tasks' = [tasks EXCEPT ![t] = [@ EXCEPT !.outcome = IF tasks[t].phase = "stored" THEN "done" ELSE "failed",
                                 !.phase = IF tasks[t].phase = "stored" THEN "leave" ELSE "leave failed"]]
    /\ UNCHANGED <<lru, inflight>> /\ Others

Leave(t) ==
    /\ tasks[t].phase \in {"leave", "leave failed"}
    /\ inflight' = Without(inflight, {Key(t)})
    /\ IF tasks[t].phase = "leave" THEN Goes(t, "again") ELSE Ends(t)
    /\ UNCHANGED lru /\ Others

(* The handler looks for the page once more; a warm task has done its work.  *)
LookAgain(t) ==
    /\ tasks[t].phase = "again"
    /\ lru' = IF ~tasks[t].warm /\ Key(t) \in DOMAIN lru.map THEN Touch(lru, Key(t)) ELSE lru
    /\ Ends(t)
    /\ UNCHANGED inflight /\ Others

------------------------------------------------------------------------------
MediaInit ==
    /\ account = [row |-> [ver |-> 0, secret |-> 0], secret |-> 0, torn |-> FALSE, command |-> Nil]
    /\ lru = [map |-> EmptyMap, head |-> Nil, tail |-> Nil, bytes |-> 0, gen |-> 0]
    /\ inflight = EmptyMap
    /\ tasks = [t \in Tasks |-> Idle]
    /\ session = 1
    /\ edits = 0

AccountCommands == \/ \E password \in BOOLEAN : EditAccount(password)
                   \/ PasswordFails \/ EditSaved \/ CreateAnother
                   \/ DeleteAccount \/ DeleteFails \/ Deleted

Moves(t) == \/ StatOrStraight(t) \/ Look(t) \/ WarmStarts(t) \/ Join(t) \/ Woken(t)
            \/ TakeGeneration(t) \/ FetchFails(t) \/ Store(t) \/ Send(t) \/ Leave(t) \/ LookAgain(t)

MediaNext == \/ AccountCommands
             \/ \E s \in Sessions : AdvanceSession(s)
             \/ \E t \in Tasks : Moves(t)
             \/ \E t \in Tasks, page \in Pages : Ask(t, page) \/ Warm(t, page)

(* The runtime runs every task that can go on, commands return, and every    *)
(* read of a remote file ends, for reqwest and the SMB source limit it.      *)
Goals == PasswordFails \/ EditSaved \/ DeleteFails \/ Deleted

MediaSpec == MediaInit /\ [][MediaNext]_mediaVars /\ WF_mediaVars(Goals) /\ \A t \in Tasks : WF_mediaVars(Moves(t))

------------------------------------------------------------------------------
(* The linked list is a list of pages by their last use within its bytes,    *)
(* and nothing leaves it but to make room or when it is cleared              *)
(* (MediaLru: put, touch, detach).                                           *)
Linked(l, keys) ==
    LET at(i) == IF i \in DOMAIN keys THEN keys[i] ELSE Nil IN
    /\ l.head = at(1) /\ l.tail = at(Cardinality(DOMAIN keys))
    /\ \A i \in DOMAIN keys : l.map[keys[i]].prev = at(i - 1) /\ l.map[keys[i]].next = at(i + 1)

Order(l) == CHOOSE keys \in Bijection(1 .. Cardinality(DOMAIN l.map), DOMAIN l.map) : Linked(l, keys)

Listed(l) == LET keys == Order(l) IN [i \in DOMAIN keys |-> [key |-> keys[i], item |-> l.map[keys[i]].media]]

ItemSize(media) == SizeOf[media.page]

Lru == INSTANCE ByteLru
         WITH Items <- [page : Pages, ver : 0 .. MaxEdits, gen : 0 .. MaxEdits], Size <- ItemSize, Capacity <- Cap,
              entries <- Listed(lru), total <- lru.bytes

ImplementsByteLru == Lru!Spec

(* What was downloaded before the cache was last cleared is not in it: a     *)
(* page is as new as the generation its download began in, for which an      *)
(* account command ended (put_if_generation, clear_all in accounts.rs).      *)
OldDownloadsDiscarded == \A key \in DOMAIN lru.map : lru.map[key].media.gen = lru.gen

(* One download at a time under a key, and whoever waits waits for one that  *)
(* will tell (fetch_remote_to_cache_with).                                   *)
Downloading(t) == tasks[t].phase \in {"begin", "fetching"}
OneDownload ==
    /\ \A t, u \in Tasks : Downloading(t) /\ Downloading(u) /\ Key(t) = Key(u) => t = u
    /\ \A t \in {u \in Tasks : tasks[u].phase = "wait"} :
         tasks[tasks[t].owner].outcome = "pending" =>
             (Key(t) \in DOMAIN inflight /\ inflight[Key(t)] = tasks[t].owner)

(* Outside a command the password that is kept is the one the row was saved  *)
(* with: a keyring that fails leaves no row without its password, and one    *)
(* saved later mends what a failing statement of the database tore           *)
(* (upsert_account_impl, delete_account_impl).                               *)
SecretOfRow == Free /\ account.row # Nil /\ ~account.torn => account.secret = account.row.secret

(* All three: what is kept is sound, the pages and the password.             *)
DownloadsSound == OldDownloadsDiscarded /\ OneDownload /\ SecretOfRow

(* Every request for a page is answered: by a download, by somebody else's,  *)
(* or with a failure (handle_media_request, fetch_remote_to_cache_with).     *)
Waits(t) == tasks[t].phase # "idle"
RequestsAnswered == \A t \in Tasks : Waits(t) ~> ~Waits(t)

------------------------------------------------------------------------------
(* What the module's head promises of the two ways to a page: no two         *)
(* downloads of the same page at once.                                       *)
OneDownloadPerPage ==
    \A t, u \in Tasks : Downloading(t) /\ Downloading(u) /\ tasks[t].page = tasks[u].page => t = u

(* What "keeps configuration and password of an account consistent" says     *)
(* (accounts.rs:102): not so where the database fails beside the keyring.    *)
SecretAlwaysOfRow == Free /\ account.row # Nil => account.secret = account.row.secret

(* What the generation is for: when no command is under way, no page of an   *)
(* account as it was before is in the cache.                                 *)
PagesOfAccountNow ==
    Free /\ account.row # Nil => \A key \in DOMAIN lru.map : lru.map[key].media.ver = account.row.ver
=============================================================================
