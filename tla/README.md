# MiraPage Desktop: specifications

MiraPage Desktop is a manga reader (Tauri: a Rust back end in `src-tauri/src`, a
Vue front end in `src`).  It shows directories of images and archives from local
disks, SMB shares and WebDAV servers, with thumbnails that are generated and
cached, archives that are downloaded and cached, and a reader.  This directory
holds TLA+ modules of the system, the TLC instances that check them, and proofs of
theorems about them.

## Inventory

| Component | State | Operations | Hard behaviour | What makes it correct |
|---|---|---|---|---|
| Thumbnail scheduler (`thumbnail/scheduler.rs`) | queue, dedup table, running count, memory account, epoch, configuration | submit, new epoch, cancel keys or all, configure, complete | cancellation races with the worker; resubmission of a running key; aging against a memory budget | every waiter told once, one job per key, slots and memory exact, no starvation |
| Thumbnail service and index (`thumbnail/service.rs`, `index.rs`) | rows, byte counter, files, protected keys, completions, limit | request, retry, resubmit, complete, evict, sample, purge, clear, invalidate | a completion against clear, eviction and epochs | the counter is what the rows hold; the oldest goes; who waits is told |
| Thumbnail migration (`thumbnail/migration.rs`) | manifest, two directories, root in memory and in the settings | plan, copy, verify, switch, commit, cancel, roll back, resume | an end of the program at any step | a move takes nothing from the root in use |
| Thumbnail planning (`policy.rs`, `key.rs`, `generator.rs`, `orientation.rs`) | none but jobs being decoded | bucket, source, size, estimate, key, stages | strips of any proportion; an estimate made before the image is opened | clear where it can be, within memory |
| Remote thumbnail fetch (`thumbnail/fetch.rs`) | mailbox, keys in flight, keys cancelled, two semaphores | submit, new epoch, cancel keys, fetch | two semaphores held together; epochs | whoever is owed an answer gets one |
| Archive materializer (`source/archive/materializer.rs`) | downloads in flight, `.part` files and sidecars, final files, rows, generation, window epoch | ensure_cached, cancel, drop, download, budget, startup cleanup | callers, owners, aborts; resuming; a file that changes on its origin | a fresh row has the content of its version; every caller is answered |
| Cache coordinator and clear (`cache_coordinator.rs`, `commands/archive_cache.rs`) | gate, active count, generation | admit, begin_clear, drain, delete, reopen | admission against the gate | nobody is admitted while files are deleted |
| Archive open requests (`source/archive/service.rs`, `commands/archive_access.rs`) | session, active request, cancel watermark | begin session, prepare, unlock, commit, cancel | commands that overtake each other; a reloaded page | what is cancelled is never committed, an older page takes nothing over |
| Archive content (`source/archive/service.rs`, `backend.rs`, `password.rs`) | catalog LRU, passwords, format and memory semaphores | prepare, unlock, list, read, stat | a catalog loaded across a clear, growth of decoders, degradation of streams | no refusal for what others hold; nothing unproved or outdated is kept |
| Archive backends (`zip_backend.rs`, `rar_backend.rs`, `rar_callback.rs`, `sevenz_backend.rs`) | one container under way | probe, catalog, stat, read | errors that pass through libraries; limits in four places | the four operations agree; the first fault is told |
| 7z header check (`sevenz_header_precheck.rs`) | the parser, the chain of coders, a filter's buffer | parse, decode, filter | a header that says anything | no buffer before its number is checked; a writer's archive is believed |
| Remote zip (`remote_zip.rs`) | blocks, loads under way, readers | read, seek, load, clear | one load for several sleepers | a read gets the bytes at its position |
| Archive prefetch (`prefetch.rs`, `useArchiveWindowPrefetch.ts`) | window, epoch, setting, batches | tell a window, switch, work | windows that overtake each other | only the newest window begins downloads |
| SMB source and pool (`source/smb/`) | slots by account | list, size, read, stat, connect, evict | connecting without the lock, second tries, servers that hang | the second try is on another connection; the file opened is the one named |
| WebDAV source (`webdav_impl.rs`) | answers and bodies under way | list, read, retry | spellings of servers, ranges ignored, moved or cut | a listing is what is in the folder, a part that says where it begins is that part |
| Remote gate (`source/remote_gate.rs`) | permits, reserved bytes | enter, reserve | permits across time limits and second tries | what is taken comes back |
| Media protocol and cache (`media_protocol.rs`, `media_cache.rs`, `lib.rs`, `commands/warm.rs`, `mediaUrl.ts`) | linked list of pages, downloads, waiters, generation | request, read ahead, clear | one download for all; addresses made in one language and read in another | the page answered is the page shown; an old download is not kept |
| Accounts (`commands/accounts.rs`) | rows, secrets | create, edit, delete | a keyring that fails half-way | secret and row belong together |
| Library tables (`commands/*.rs`, `algorithm/path.rs`) | books, progress, history, bookmarks, shortcuts, tags | every command, lists by pages, export | pages read while rows change; a path written in several ways | lists complete; one book to a place |
| Maintenance (`maintenance/`) | marks, timers, runs, history | visit, debounce, throttle, run, preview | marks made during a run; a cleanup in three phases | no mark is forgotten; the best rows stay |
| Migrations (`db/migrations.rs`) | tables, recorded versions | eighteen migrations | an end of the program between two statements | user data kept, later starts possible |
| Cross-volume navigation (`find_next_volume.rs`, `useCrossVolume.ts`) | controller, question under way | ask, confirm, dismiss | answers after the user has moved on; two sorts | the next volume is the one below on the screen |
| File browser store (`stores/fileBrowser.ts`) | source, path, listing, open epoch, pending open in three stages, session | navigate, up, refresh, open, password, cancel, leave | answers that arrive late | the last act of the user wins; nothing abandoned stays registered |
| Reader (`stores/reader.ts`, `stores/slideshow.ts`, `ReaderView.vue`, `useWebtoonProgress.ts`, `spreadPlanner.ts`) | the open book, its spreads, a debounced save, the slide show, the view of each visit | open, turn, jump, change mode, play, scroll, cross, leave | stores that outlive the views, loads and timers of a view that is gone | the book on the screen is the route's; a volume is finished at its end only |
| Masonry view, shell | see `PROJECT.json` | | | not modelled |

The service hands cache misses to the scheduler and, for remote images, to the
fetch actor first; both report back through callbacks that write the index and emit
an event with the epoch of the request.  The file browser opens an archive through
the archive service, which asks the materializer for a local copy when the format
cannot be read remotely; windows ask for neighbouring archives ahead of time through
the prefetcher.  The clear command shuts the coordinator's gate, which every call of
the materializer, the service and the remote zip passes.  A page of a reader is an
`media://` address whose handler goes through the cache of pages to one of the
sources.  Reading records progress and a visit, visits mark the history for
maintenance, and the end of a volume asks for the next.

`PROJECT.json` lists under `hazards` what is hard to test, each with the properties
that would catch it.

## Modules

| Module | Models |
|---|---|
| `Maps` | hash maps and tables with a unique key |
| `SingleFlight` | abstract: what a receiver of the scheduler sees; a key is worked on by at most one job |
| `ThumbnailScheduler` | the scheduler actor and its workers |
| `ThumbnailSchedulerProofs` | theorems about it |
| `SumLemmas` | induction over finite sets, sums of a function over one, the greatest of one; sequences as functions |
| `Materializer` | the materializer, the cache coordinator and the clear command |
| `MaterializerProofs` | theorems about it |
| `ArchiveRequests` | the registry of archive-open requests behind its five commands |
| `FileBrowser` | the state of the file browser's page, fetching and browsing |
| `ArchiveOpen` | opening an archive, the session handshake, reloads; the page and the registry together |
| `ArchiveOpenProofs` | theorems about the registry's actions and about the whole |
| `ThumbnailCache` | the thumbnail service, its index, the migration of the cache |
| `ThumbnailPlan` | sizes, buckets, memory and the stages of a generation |
| `RemoteFetch` | the actor that fetches images for thumbnails |
| `ArchiveContent` | prepare, unlock, list, read and stat as concurrent calls |
| `ArchiveContentProofs` | theorems about it |
| `ArchiveFormats` | the three backends on a container |
| `SevenZHeader`, `BranchFilter` | the check of a 7z header, and the filters in its chain of coders |
| `ArchivePrefetch` | windows, their commands, batches |
| `ByteLru` | abstract: what a cache bounded in bytes promises |
| `MediaCache` | the cache of pages and the accounts its pages come from; implements `ByteLru` |
| `MediaProtocol` | a page as an address and back, ranges, the answer |
| `RangeBlocks` | blocks of a remote zip; implements `ByteLru` |
| `SmbReads`, `WebDavReads` | the two network sources and the gate |
| `RemoteProofs` | theorems about `RangeBlocks` and `SmbReads` |
| `RequestsProofs` | theorems about `MediaCache` and `ArchivePrefetch` |
| `Library`, `CrossVolume` | the tables and their commands; reading on into the next volume, which extends it |
| `Reader` | the stores of the reader and of the slide show, and a view for each visit |
| `Maintenance`, `Migrations` | retention of the history; upgrades of the database |
| `ReadingProofs` | theorems about `Reader` and `Maintenance` |
| `MC*` | instances for TLC |

Small machines that share nothing are checked in one run: `MCThumbnails`, `MCRemote`,
`MCReads` (which extends `MCArchives`) and `MCStore` hold several of them, and a variable
(`focus`, `asked`, `opened`) fixed in the initial state names the one whose steps the
behaviour takes while the others rest in a first state.  The state space is the sum of
theirs, not the product; each property names one machine, or is the conjunction of one
property of each of several.  A machine with theorems is extended (`RangeBlocks` and
`SmbReads` by `MCRemote`, `MediaCache` and `ArchivePrefetch` by `MCReads`, `Reader` and
`Maintenance` by `MCStore`), so that the run checks the very definition the theorem names,
which is why its variables and its specification carry a name of their own; the others are
instances.

### ThumbnailScheduler

The actor handles one message at a time, so every message is one action, followed
by the scheduling round the handler calls; `Submit`, `SubmitForEpoch`, `NewEpoch`,
`CancelKeys`, `CancelAll`, `UpdateConfig` and the completion are named as in the
code.  Workers run beside the actor: they end on their own, or notice their abort
flag at a stage boundary; what they report is delivered later.  Time is left out:
a task ages by an action that may happen at any moment, and so does the end of fast
scrolling.  A receiver is an identity that is submitted once.

### Materializer

A call of `ensure_cached` is a process with a program counter that ends its steps
where the code awaits and where it touches the database, a file or an atomic.
The same holds for the owner task (`run_owner` and `download`) and for the clear
command.  The critical sections under the in-flight lock are single steps.

* Data: a version number stands for size and modification time; a chunk is the
  version it was read from, so a file is a sequence of versions, and a file that
  mixes versions is visible as such.  Sizes are a constant of the version; in the
  instances all versions have the same size, the case in which only the
  modification time tells them apart.  Origins that report no modification time
  are left out: for those the code compares sizes only, by design.
* Abort: `JoinHandle::abort` takes effect where the task awaits.  An owner that is
  running when it is aborted (`aborted`) goes on to its next wait; a wait for a
  free lock is none.  This is why an aborted owner may still reach `Finish`.
* Files: an owner's handle stays with the file it opened when that is renamed
  (`handle` = "final"), replaced or removed ("gone").
* Eviction chooses what to delete without a measure of sizes: any `.part` files
  first, then rows with their files, never a protected key.
* `Restart` ends the program anywhere, then runs `startup_cleanup`.
* `cleared`, `misled` and `wiped_gen` are history, read by properties only.

### ArchiveRequests, FileBrowser, ArchiveOpen

`ArchiveOpen` extends `FileBrowser`, which extends `ArchiveRequests`; the two sides
share nothing but `wire`, the commands on their way, and `answers`.  Tauri serves
each command in a task of its own, so `wire` is a set: a command may overtake any
other.  A promise the page awaits is a number (`from`), 0 if nobody awaits it.

* Registry: `begin_session`, `register_request` (the head of prepare and unlock),
  `commit_request` and `cancel_request` each hold its lock once and are one action
  each.  What they do after an await (stopping the displaced download, subscribing
  to one, its result, stopping the downloads of a cancelled request) are actions of
  the `tasks`.  What an archive holds is a choice among the outcomes the service
  distinguishes: ready, streamed, password needed, failed, cancelled.  The two
  calls of `cancel_interactive` in `cancel_request` are one step.
* Page: JavaScript runs from one await to the next, and so does an action.  An
  `openArchive` is an entry of `opens`, whose `pc` names the await it is in; the
  spinner, the password dialog and the commit handshake are the three refs of the
  code (`pendingOpen`, `pendingPassword`, `commitPending`), which hold an index.
  The two awaits of `fetch` are one, and its answer is a success or an error.
* A reload starts a new page with a new session, a listing on show, and a clock
  that has gone on, stood still or gone back by one; calls of the old page stay on
  their way, with nobody awaiting them.
* Every source has one folder, any listing outside an archive may show any
  archive.  `setRoot(null)`, which nothing calls, is left out.
* `intent` (the open the user last asked for, unless something else came after it)
  and `pastBoot` are history, read by properties only.

### ThumbnailCache, ThumbnailPlan, RemoteFetch

* A step of `ThumbnailCache` is what the code does under one hold of the database
  lock, or a group of file operations between two holds.  The scheduler appears from
  outside, as a table of jobs by key (`ThumbnailScheduler` has its inside).  Sizes are
  constants of keys, since a key is a digest of what determines the bytes; the time of
  a row is its place in the order of accesses.
* A migration goes through its manifest file by file; `Crash` ends the program at any
  step, keeps files, database and settings, and the next start resumes.  The write of
  the settings after the switch may fail, and the commit follows all the same.
* `ThumbnailPlan` computes with lengths in units of 16 px and constants of the code
  (budgets, ratios) scaled alike.  `RemoteFetch` keeps the two lines of semaphores in
  the order Tokio serves them.

### ArchiveContent, ArchiveFormats, SevenZHeader, BranchFilter

* A call of `ArchiveContent` is a sequence of steps (`Plan`); what is under one lock
  is one step, every await is a step of its own.  Memory is counted in permits of one
  MiB.  The LRU of opened archives is a sequence, oldest first, with each archive at one
  `Position` of it at most.  A backend here is an outcome; `ArchiveFormats` has its inside.
* `ArchiveFormats` takes what a library finds from the container's record.  What a
  library hides (an aborted call of UnRAR leaves one code) is the variable `fault`.
* `SevenZHeader` reads a header whose declarations are chosen while they are read, so
  that it may say anything; a sound archive is one a writer made.  The numbers of a 7z
  (0 to 2^64) are those of `Counts` and `Sizes` on both sides of each limit.
* `BranchFilter` converts real bytes for x86, ARM, ARM Thumb, PowerPC and SPARC, with
  arithmetic below 2^31; IA64 is in the module and out of the instance (see Known
  deviations).

### MediaCache, MediaProtocol, RangeBlocks, SmbReads, WebDavReads, ArchivePrefetch

* `MediaCache` keeps the code's doubly linked list by keys and its byte counter;
  `ImplementsByteLru` maps it to the plain list of `ByteLru`, as `BlocksAreLru` maps the
  blocks of `RangeBlocks`, which keep their order oldest first.  A page's content is the
  version of the account row its descriptor was made from, so a page of the old server
  is visible as such.
* In `MediaProtocol` a text is the sequence of its characters and every conversion
  (splitting, escaping, decoding) is done on them, up to the request to a WebDAV server,
  whose address is the base and the path joined as they are (`RequestPath`): the server
  decodes the escapes that a name happens to hold.  `PagesOpen` is about names that an
  address reads as they stand (`Plain`), and about folders of a share, not its root.
* In `RangeBlocks` and `WebDavReads` the byte at an offset is the offset: a read that
  returns other bytes is seen.  A WebDAV answer is the sequence of events its reader
  makes of it, in sixty-four spellings of servers, some of which write the folder's
  address unlike the client.  `ListingTrue` lets the folder show itself there and only
  there.  A range may be answered by a 206 that begins elsewhere or is cut, by the whole
  file, and by a 200 with as many bytes of any place; `RangesExact` promises the length of
  all and the place of a 206.
* The SMB library answers, fails or does not answer; a time limit may pass whenever it
  runs.

### Library, CrossVolume, Reader, Maintenance, Migrations

* A command holds the lock of the connection from its first statement to its last, so
  it is one step; a run of the maintenance and a search for the next volume take
  several, with other commands between them.
* In `Reader` the stores are there once and a view for each visit to the route; a view
  that is gone may still have a load, a timer or a question under way.  Which spread a
  page is on is computed as the planner does, for three pages.  The controller's command
  (`CrossVolume` has its inside) answers with any other book, or with none.
* `Migrations` is statement by statement: no transaction encloses a migration and its
  record.  A statement is refused when what it makes exists or what it needs does not.

## Runs

| Run | Instance | Shows |
|---|---|---|
| `scheduler` | 3 keys, one over the memory budget, 3 receivers, 2 epochs | whoever asked is told once (`EveryWaiterTold`), exact accounts, a queue that serves in order and does not idle (`QueueServed`), refinement of `SingleFlight` |
| `scheduler_aging` | one worker, endless newer requests | an aged task leaves the queue, a started job ends (`TasksGetOn`) |
| `thumbnails` | 3 keys of which 2 fit, epochs, sweeps and clears; 2 migrations with a restart | the counter is exact and the oldest go (`EvictionExact`); a migration, cut, failing or rolled back, takes nothing from the root in use and switches with nothing left behind (`MoveLosesNothing`); `ThumbnailsEnd` |
| `materializer` | 2 callers, 2 versions, 2 window epochs, 2 rounds, 1 restart, 1 owner at a time | fresh means content; a forced call outlives the window |
| `materializer_clear` | 1 caller, 2 owners at a time, 1 clear | deletion excludes everybody; nothing comes back |
| `materializer_returns` | 2 callers, fairness | every call returns |
| `archive_open` | 2 opens, 1 other act, 1 reload, 1 failing listing; one local root, one remote source, one archive | no late answer moves the page; nothing abandoned occupies the registry; no older page takes the session; a spinner has an open |
| `archive_content` | 2 calls on an encrypted remote zip and an encrypted local 7z, 3 permits, an LRU of one, 1 clear | refusals are real (`LimitIsReal`), what is kept is true (`StoresTrue`), calls end |
| `library` | `MCStore`: 4 machines on the database, and the reader | upgrades, retention, lists, the next volume, a controller that does not stay busy; the reader shows its route, hears each intent to cross and finishes a volume at its end |
| `remote` | `MCRemote`: pages, blocks, fetches, SMB | bytes are those of the file, calls reach what they name, nobody waits for ever but where the two lines of the fetches have crossed |
| `reads` | `MCReads`: 9 machines | downloads, the list of pages that refines `ByteLru`, addresses, WebDAV, thumbnails' sizes, prefetch, backends, 7z headers and filters |
| `pages_open_at_root` | one page, every kind of source | violated: a page of a share browsed from its root is refused |

Bounds.  Three receivers suffice for one that runs, one that joins and one that is
queued; two epochs for an old and a current one.  In the materializer two callers
are an owner and a joiner, which may exchange roles; the second owner matters only
beside an aborted one, so it is given to the instance of the clear command, where
one caller that cancels and returns already produces both.  Two rounds are a first
attempt and a takeover (the code allows five); two versions are a resumed and a
superseding one.  A call in the initial state of its record can be made again
without limit, so runs are not bounded in length.  `MaxVersion`, `MaxEpoch` and
`MaxCrashes` bound the environment only.

In `ArchiveOpen` two opens are one that is superseded and the one that supersedes
it; one other act of the user is what happens between, and a reload turns
everything in progress into calls of an older page.  `FirstPlaces` has one folder
of the local root, so that there is a way up, and one remote root, where leaving an
archive takes another path than for a local one.  `FirstBoot` is 2, so that a
reload may find a clock one behind.

In `thumbnails` two of three thumbnails fit, so that one more evicts; a migration is
resumed once and repeated once.  In `archive_content` the budget is one permit short
of what two reads need.  In `remote` a file of five bytes in blocks of two ends within
a block, two blocks fit; of three images two fit the budget one at a time, with one
permit, and one is larger than it; two readers and one clear meet in every order.  In `reads` the cache of pages is there twice: one page and
every account command, and two pages of one and two bytes, each under two keys, with room
for three bytes, between account commands; every coder stands on one side of a line of the
compatibility matrix, chains have up to three coders with all their lines and four
pairings that are none, machine code is every concatenation of three pieces, branches
and look-alikes, read in portions of 1, 3 and 20 around a buffer of 8; of two images one is a strip over ten times
as long as it is wide, whose budget decides, and one a turned photograph; containers have
up to three entries of ten kinds; ranges begin and end on both sides of each end of a
file.  In `library` the disks are those of five earlier releases and one restart cuts an
upgrade anywhere; three rows of one second test the cursor's ties; the two volumes
"v2" and "V02" test the ties of the natural order; the reader has two books of three
pages, two visits, two loads and four acts, enough for a view to be left with something
under way and another to be entered.

`CHECK_DEADLOCK FALSE` is set where the environment may fall silent: no request,
no window and no clear is ever due; a question that has been answered ends there; in
`ArchiveOpen` the user's acts run out.

### The violated run

`pages_open_at_root`: a share browsed from its root has an empty prefix and paths below
the share; the address puts the first folder of such a path where the handler expects
the name of the share, and the handler answers 403 (finding in `PROJECT.json`).

## Known deviations

Properties that state what the code or its documents say, and that the code does not
keep, stay in the modules beside those that hold.  Each is found by TLC with the
constants named here; those of the runs are used unless others are given.

| Property | With | What happens |
|---|---|---|
| `AgedTaskLeaves` (ThumbnailScheduler) | `Priorities = {0}`, `MCMixed`, `Limits = {2}`, `Budgets = {2}`, `MaxEpoch = 1` | a large image is passed over for ever: it runs only when nothing else does, and small jobs keep one of two workers busy (scheduler.rs:20 promises otherwise) |
| `NotWrittenBack` (ThumbnailCache) | keys 1..3, `MaxSweeps = 1`, `MaxEpoch = 1` | a completion that already has its answer writes its row after the table was emptied (service.rs:1164-1166) |
| `SwitchesWhenComplete` (ThumbnailCache) | `Moves` with `Limits = {10}` | an eviction decided under the first root deletes its file there after a second migration has copied it back: what is missing at the switch is a thumbnail the index had given up (service.rs, `spawn_completion`) |
| `SourceKept` (ThumbnailCache) | `Moves` as the run | the write of the settings that fails is ignored: a move empties the old directory, and a restart goes back to it (service.rs:1256-1265) |
| `RolledBackStays`, `RootInUseKept` (ThumbnailCache) | `LateRollBack = TRUE` | a roll-back called after the switch removes the files of the root in use |
| `HitsClear`, `AllDecodingFits` (ThumbnailPlan) | widths {70, 94}; both images | a hit of a smaller bucket may be blurred; a job larger than the whole memory is let through alone |
| `LaterRequestsSpared` (RemoteFetch) | as the run | a cancellation that finds no fetch stays and withdraws the next request of its key (fetch.rs:31-33) |
| `AlwaysServed` (RemoteFetch) | as the run | two images that exceed the budget together: one task holds the permit, the other the bytes, and both wait, as does every image after them (`Crossed`; fetch.rs:148) |
| `WipeIsExclusive` (Materializer) | two clears | the first to end opens both gates while the second deletes (archive_cache.rs:110) |
| `WritersKeepTheirFile` (Materializer) | two archives, two owners | the keys in flight are read before the deletion; an archive registered in between loses the `.part` it is writing (materializer.rs:1163, 1177) |
| `ListingMatchesPath` (ArchiveOpen) | 1 open, 2 other acts | the listing after the commit handshake replaces that of a navigation (fileBrowser.ts:114, 611) |
| `NoHijack` (ArchiveOpen) | 4 opens, 1 other act | the mark of an open that waits for a cancel is one Boolean; a navigation does not stop the second (fileBrowser.ts:567, 574) |
| `CancelStopsDownload` (ArchiveRequests) | 1 open, 2 other acts | a prepare that has not subscribed yet downloads after its cancel (service.rs:555, 1339) |
| `PlainImagesReadable` (ArchiveFormats) | as the run | a plain image behind an encrypted folder of a 7z needs the password (sevenz_backend.rs:562-577) |
| `OuterDigestsBounded` (SevenZHeader) | as the run | digests of the outer header have no limit of their own |
| `InverseInAnyPortions` (BranchFilter) | an IA64 program of two bundles, a buffer of 18 | `ia64_code` never advances its position, so the second buffer is converted as if it were the first |
| `PagesOfAccountNow`, `OneDownloadPerPage` (MediaCache) | as the run, an edit | the descriptor is made before the stat is awaited and the generation taken after it, so a page of the old server is kept under the new generation |
| `SecretAlwaysOfRow` (MediaCache) | as the run | a deletion that forgot the password fails to delete the row, or the statement that takes an edit back fails: the row stays without its password (accounts.rs:114, 171-178), until one is saved |
| `ConnectionsAlike` (SmbReads) | `MaxEdits = 1` | editing an account does not tell the pool, which serves the old server until the slot ages |
| `PagesOpenByAnyName` (MediaProtocol) | as the run | a WebDAV request writes the name into its address as it is: `%25` asks for `%`, `a#b` and `a?b` for `a`, a backslash is a slash, a space at the end is dropped (webdav_impl.rs:417, 458, 560) |
| `FolderLeftOut` (WebDavReads) | as the run | a WebDAV folder lists itself when the server writes a full URL, or other escapes than the client's (webdav_impl.rs:355) |
| `RangesAlwaysExact` (WebDavReads) | as the run | a 200 with as many bytes as were asked for is taken, wherever they are from (webdav_impl.rs:282) |
| `GoneBeginsNothing` (ArchivePrefetch) | `MaxOff = 1` | a window told while prefetching is off does not advance the epoch; the old batch resumes when it is on |
| `OnlyWindowOverLimit`, `ProtectedStay` (Maintenance) | as the run | rows are chosen without the lock and deleted by key: a row visited meanwhile goes (design of 2026-08-12, lines 46-48) |
| `PagesComplete` (Library) | `Lists = {"history"}` | the cursor writes the keys of its descriptor in another order than the row has; the list has no second page in the product |

Met while modelling, without a property of their own: the clearing of a cancelled
request's slot before sequences are compared (service.rs:1312); the place to return to
after an archive, which `setRoot` and `openDescriptorAt` leave set (fileBrowser.ts:309);
a 7z read that reserves the dictionary of one folder and decodes those before it
(service.rs:867, sevenz_backend.rs:562); a wrong password of an encoded header that is
reported as a damaged archive; a dictionary limit of 32 MiB where the module comment
says 8; local archives' pages, which the cache of pages keeps by path only; entries
without a date, which sort first in the browser and last in the command; a reader pulled
into the next volume when it is left during `createBook`, where a slide show may go on; a
debounced save that outlives its plan and judges "last page" by the spreads of another
mode or volume (reader.ts:106-131; `late` sets these aside in `EndsTrue`); an intent to
cross that stays raised when the reader is left while the toast waits, so that the next
reader does not hear its own (useCrossVolume.ts:204; `IntentsHeard` speaks of intents
raised in the view on the screen).

## Fairness

Scheduler: the actor handles what is in its mailbox, a worker ends, and the aging
clock runs on; submissions are never due.  Materializer: every task that can run
runs (tokio's scheduler), the network answers or fails (the sources have request
timeouts), drains time out.  `Register` gets strong fairness, because the code can
always spawn an owner while the model has a fixed number of them, and because
tokio's mutex is granted in turn.  Users, windows and origins have none.
`ArchiveOpen` has no fairness: its runs check safety only.
`ArchiveContent`: a call that can go on does, and semaphores are fair (Tokio's are).
`MCThumbnails`: workers, completions, upkeep, a clear and the thread of a migration run
on.  `MCRemote`: every task runs, the actor takes its mail, the network answers, fails
or meets its time limit.  `MCStore`: the waits of the controller of a crossing end, each
with success or failure.  `MCReads` has none: its properties are safety.

## Proofs

`ThumbnailSchedulerProofs` proves, for all values of the constants that satisfy the
named assumptions: type correctness; `OneJobPerKey`; `NoWaiterLost`;
`AbortedEndsStale`; `CancelledNeverFails`, and the four together as `EveryWaiterTold`,
which the run checks; that the running count is the number of running workers;
`AccountsExact`, the memory account included; and that the specification implements
`SingleFlight`.

None of these is inductive alone.  The inductive invariant ties the three places a
task can be in to one another: the keys of the queue, of the running workers and of
reports under way are disjoint, together they are the keys of the dedup table, and
each receiver that waits is held by exactly one of them, under its own key.  Each
handler is split into the part before its scheduling round and the round, which is
a sequence of admissions; admission preserves the invariant, so a lemma about one
admission carries over to the round.  Aborting is inductive once one says that a
job whose flag is set is marked superseded.

`AccountsExact` compares counters with a count and a sum over the set of running workers.
`SumLemmas` has the induction this needs in a form the provers can use: instead of a
predicate it speaks of a set, of naturals that has 0 and the successor of each of its
elements (`SetInduction`), or of subsets of a finite set (`SubsetInduction`).  A sum is a
fold, and what it is worth after one summand is added, removed or changed (`SumSplit`,
`SumExcept`) is then shown for every order of summation.

`MaterializerProofs` proves, for any number of callers, owners, keys, versions, windows
and restarts: type correctness; `WaitersSubscribed`; `FreshMeansContent`; and, under the further assumption
`OneClear` that clears do not overlap, `WipeIsExclusive`, `ClearIsFinal` and
`ForcedOutlivesWindow`.  The assumption is needed: see Known deviations for what two
overlapping clears do.  The run `materializer` checks `ForcedOutlivesWindow`
without a clear; the theorem has one.

* Types (`Typed`): a call under way knows its key, and an owner past its first look at
  the origin knows the version it downloads.
* The clear (`GatesShut`): from its first drain until it reopens them both gates stay
  shut, so what it has waited for cannot come back.
* What it deleted (`Cleared`): the generation of the last deletion is not above the
  generation of the cancellations, and each checkpoint of an owner compares its own
  with the latter.
* The opened archive (`ForcedInv`): entries of the table belong to live owners; who
  subscribes waits under the entry's key; a call inside while the gate is shut has
  seen the clear begin; a forced call's own download is forced; and an owner is
  cancelled only by its window, when not forced, or by a clear.
* What is served as fresh (`FreshInv`): a version somebody knows of a key, a row, a
  sidecar or an owner that has opened the `.part` file, is at most that of every chunk in
  the file or about to be written to it, else the file would have been started anew; a
  rename hands this on to the final file; and versions only rise.  It needs no more of the
  owners: several may be at work on one key, since an aborted one runs on to its next wait.

`ArchiveOpenProofs` proves, for any number of opens, of other acts, of reloads and of
failing listings, and for any sets of sources and archives: type correctness;
`ActiveAboveWatermark`; `PrefetchNotCancelled`; `SessionsAdvance`; `SpinnerHasOwner`;
`SessionIsOurs`; `AbandonedIsCancelled`.  The assumptions are the named ones of `ArchiveRequests` and
`FileBrowser`: the kinds of sources are disjoint, the first place is one outside an
archive, `None` is no session.

* Types need two facts about the calls the store awaits (`PageTyped`): an open that
  waits before its next commit has attempts left, and a listing that ends an open
  belongs to an open that waits for it, to no other.
* The registry theorems rest on lemmas at the head of the module about one command
  or one task at a time; the page touches the registry through its commands only
  (`RegistryKept`).
* The spinner: a step either turns it off, or registers an open, or leaves both the
  registered open and the opens of this epoch that wait for a cancel as they are.
* The session (`SessionInvariant`): a begin on its way is the page's own or one of
  an older page, and then carries a boot some older page had (`BeginsDated`); the
  registry is dated likewise (`RegistryDated`); the shared promise has at most one
  begin or one answer under way, and while the answer is under way what it says is
  still true (`AnswersDated`).  The last is what a second attempt with a new session
  could break, and does not, because nothing of the first is left by then.

* What nobody waits for (`CancelInvariant`): each open has a sequence and an epoch of its
  own (`OpensOwn`), and the refs of the store name the open of the current epoch
  (`PendingOwn`); an open has one command, task or answer under way (`OneAwaited`), about
  its own request (`WireTrue`, `TasksTrue`), and an answer that ends it finds the request
  gone from the registry (`AnswersTrue`); an open of an older epoch that still holds a
  request is covered by the watermark or by a cancel on its way (`StaleCovered`); and what
  was committed is not prepared again (`LastTrue`).

`ArchiveContentProofs` proves, for any number of calls, archives, permits and clears:
type correctness; `LimitIsReal`; `StoresTrue`.  The assumptions say what an archive is,
above all that nothing in it is encrypted unless it has a password.  The invariant:

* `CallsOK`: where a call is in its plan; what it holds, wants and has claimed of the
  budget (`WithinBudget`, from which follows that the branch for a budget that is never
  granted is not reached); and what it knows (`Knows`): an unlock past its read has the
  archive's password.
* `MemoryOK`, `QueuesOK`: permits given out are within the budget, and a call is in a queue,
  once, when it waits for that queue's permit.
* `LruOK`, `PasswordsOK`, `CountersOK`: an archive is in the LRU at most once, read since
  the last clear; a call's generation lies between that of the last clear and the present.

`ReadingProofs` proves, for any number of books, pages, visits, loads and acts:
`ShownIsRoute`, `IntentsHeard` and `EndsTrue`.  The assumption is that a book has a page and
that "no book" is none.  The conjuncts of the invariant, inductive only together:

* `VisitsOK`: the views that were on the screen are the first ones, so that a new one has
  nothing under way that an older one left.
* `LoadsOK`: only a load of the view on the screen, for the book in the address, may be the
  latest of its view.
* `StoreOK`, `SavesOK`, `MarksOK`, `BottomOK`: when the reader stands on the last spread, a
  save that is due says so, a mark is under way or the view knows of a bottom, the book in
  question was read to its end; and only the view on the screen has a timer that waits for a
  mark.
* `ScreenOK`, `IntentsHeard` and `EndsTrue` themselves, and types.

The plan of spreads is written out, single pages or a first page and pairs, and not sorted,
because facts about an order given as an operator cannot be instantiated; `PlanShape` says
what the proof needs of it.

It also proves `HistoryKept`, for any number of places, visits, timers, settings and runs by
hand.  The assumption: a limit is an integer and the table is finite at the start.

* `MarksInv`: the marks in the actor's queue are in the order they were made, and above
  every number that is asleep in a timer, has fired or was dropped by the throttle
  (`MessagesOK`); so a timer that finds itself the newest has no mark behind it, and what the
  throttle drops then is the last.  The newest number was served, was dropped or is still on
  its way (`OnItsWay`).
* `JobsInv`: a run has the settings it read, and its keys were chosen from the rows it saw.
  What such a choice leaves and takes (`SelectionsKeepBest`) is arithmetic of finite sets: the
  rows outside the window are more than those over the limit, since the window alone is
  less than the limit.

`RemoteProofs` proves, for any number of calls, connections and edits of the account,
`CallsReachTheirFile`; and for any number of readers and clears, any size of file, block and
cache, `ReadsExact` and `BlocksAreLru`, that the blocks kept implement `ByteLru`.  The
assumptions: sizes are natural numbers and a block is not empty; a share has a name, and no
connection is called `Nil`.  `BlocksAreLru` is in no run; `ByteLru` is checked in `reads`.

* `SmbInv`: a call's paths are those its descriptor names (`PathsNamed`); a connection just
  made is nobody else's until it is written to the slot (`FreshIsOwn`); and the one the first
  try failed on is not in the slot, nor in the call's hands again (`FailedIsGone`).
* `ZipInv`: every block kept, and every block on its way to a reader, is the range of the
  origin its number stands for, whole; readers' states are typed, and a reader under way is
  at a position within the file.
* `Newest`: some sequence names every block kept once; the code's order is that sequence
  reversed, and the count of bytes is the sum over the set of blocks.  Touching a block drops
  it from the sequence and pushes it in front; the loop of `insert_lru` leaves a prefix.

A loop is a fold over a sequence, and what it leaves is shown without recursion: a table with
a row for every set of its rounds exists (`EvictedTableExists`, by `SetInduction`), the
fold is the table's last row (`LoopIsTable`), and a statement about one round carries over
from each row to the next by `SubsetInduction` (`LoopTrimmed`: what is left is a prefix, the
longest that fits).

`RequestsProofs` proves, for any number of requests, warm tasks, pages, accounts' edits and
clears, any sizes of pages and any cap, `DownloadsSound` and `ImplementsByteLru`; and
`BeginsForNewest`, for any windows in any order, without an assumption.  What is assumed of
the cache: `Nil` is no row, command or key, sessions are numbers, sizes, the cap and the
bound of edits are natural.

* `MediaInv`: entries of the cache are of its present generation (`LruOK`); a key is
  registered as long as some task downloads it or waits for it, each of those who wait will
  be told by the one that downloads, and nobody who has left is told (`RegistryInv`); outside a
  command the password kept is that of the row, until a statement of the database fails
  beside the keyring (`AccountInv`; the ghost `torn`).
* `ListInv`: the linked list is a `Chain`, a sequence of keys, each of them once, that its map,
  head, tail and links spell out; the links determine the sequence (`ChainIsOrder`), so what the
  refinement reads off the links is this sequence.  `Detach` drops one element, `AtHead`
  pushes one, the loop that makes room leaves the longest prefix that fits (`RoomIsLeft`),
  and the count of bytes is the sum over the entries.  `VersionsInv` and `TasksKnow` type what
  a task brings to the cache: a page of some version, with the generation it was asked under.
* For windows: the epoch of the materializer is that of the newest window told.

Left to TLC:

* Liveness (`TasksGetOn`, `CallsReturn`, `CallsEnd`, `ThumbnailsEnd`, `NobodyWaitsForEver`,
  `FlowEnds`), which is out of the prover's reach.
* What sorts, filters by an operator, folds over sequences and recursive definitions
  compute, which is induction over data: `EvictionExact` (victims are the first of a sorted
  sequence), `QueueServed` (the queue is filtered and sorted), `NextAsListed`, `ListsTrue`,
  `UpgradesSafe` (statements of a migration are built by folds and sorts),
  `ServersSeenThrough`, `HeaderDecoded`, `BackendsAgree`, `PagesExact`.
* `ThumbnailsFit`, products and quotients of sizes that are rounded in different places; it is
  claimed of the instance's images only.
* `MoveLosesNothing`, which is not true of every limit (see Known deviations): in the
  instance of the migrations both thumbnails fit, so that only migrations move files.
  What a restart finds is not part of it: `SourceKept` fails with the settings' write.
* `NoHijack`, which is not true of any number of opens.

## Not modelled

* The masonry view (`useMasonryThumbnails.ts`): next in the plan.
* Pagination and layout: pure functions of the front end.
* Pixels, encoders, fonts, styles, menus and window geometry; the settings store beyond
  its table; logging.
* Of the modelled components: what each note in `PROJECT.json` names, above all key
  derivation, CRC and block decryption of 7z headers as arithmetic, the listing of a
  local folder, the statistics queries and progress events, which change nothing.

## Plan

Done: the scheduler, the materializer, the opening of an archive, archive content and the
reader (modelled, checked, proved as far as said above); the thumbnail cache and its
migration; backends and 7z headers; the network sources, the cache of pages and its
addresses; the tables, their maintenance and migrations; crossing into the next volume.

To come, in this order:

1. The masonry view's epochs and events composed with `ThumbnailCache`.
2. Spread planning against a reference.
