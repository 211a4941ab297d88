# tg-export: models, checks and proofs

tg-export copies a Telegram account to disk: messages into SQLite, media into
directories, both into HTML pages; `tg watch` prints new messages as they
arrive. It is one asyncio process per account that talks to a server it does
not control, is stopped by signals, killed, and started again by cron or by
its user. What can go wrong is therefore seldom inside one function: it is a
pointer that moved too early, a snapshot used after it went stale, a record on
its way when the process died.

## The system and where it is modelled

| Component | State | Operations | Module |
|---|---|---|---|
| Export of one chat (`exporter.py`, `state.py`) | row of `export_state` (`last_msg_id`, `oldest_msg_id`, `full_history`, `messages_count`), table `messages`, the walk's batch and pipeline | phase 1 (newer), phase 2 (descending), batches, commits, `reset`, `purge` | `ChatExport`, abstract `Archive` |
| Pages of a chat (`html/renderer.py`) | month pages and `messages.html` | unlink, render a month, write the redirect last | `ChatExport` |
| Run over all chats (`cli/export.py`, `exporter.py`) | resources, flags of the signal handlers, statistics, exit code | open, walk, global data, verify, report, release, signals | `ExportRun` |
| Media pipeline (`exporter.py`, `_MediaPipeline`) | deque of messages, running downloads | submit, take the oldest, window, drain, leave | `ExportRun`; its effect on batches in `ChatExport` |
| Media files (`media.py`) | files on disk, claims of names, rows of `files`, locks per file id | link, copy, download, register, sweep | `MediaStore` |
| Verify (`verify.py`) | broken rows, staging | download again, replace, register | `MediaStore`; its tasks in `ExportRun` |
| Which chats, where (`config.py`, `catalog.py`, `cli/export.py`) | configuration, folders, cached names, directories, index pages | resolve, select, index, `purge` | `ChatTree` |
| Session file, takeout id, locks, login (`session.py`, `api.py`, `cli/takeout.py`, `locking.py`, `auth.py`) | column and backup table of the takeout id, lock, staging file | rescue, restore, resume, discard, clear, login, remove | `AccountSession` |
| Live stream (`watch.py`) | mark per chat and its file, open gaps, ids shown in a gap, the sink's lock | live handlers, catch-up, reconnect, save | `LiveStream` |
| Live status (`exporter.py`, `waits.py`, `media.py`) | counters, announced pauses, active downloads | publish a chat, count, hold, build a frame | `LiveStatus` |
| Parallel upload (`upload.py`) | parts, connections, retries, pause, width | fill, settle, heal, adjust | `ParallelUpload` |
| Conversion, importer, console, privacy, the other commands | - | - | not modelled, see the end |

The components meet in the database and in the output directory. `ExportRun`
opens the session (`AccountSession`), fetches the catalog and chooses chats
(`ChatTree`), and for each of them runs the walk (`ChatExport`), which calls
the pipeline for every message; a download takes its name and its row by the
rules of `MediaStore`, and a pause it waits through is on the board of
`LiveStatus`. The commit at the end of a phase moves the pointers; the renderer
reads the database in a thread and looks at the flag the signal handler sets.
`tg watch` and the upload share nothing with the export but the account.

A module keeps what its neighbours do as a choice: `ExportRun` lets a walk end
or fail at any message, `ChatExport` lets a run be stopped anywhere, `ChatTree`
lets a run go on with a takeout or without.

## ChatExport: one chat, many runs

The durable state is what a kill leaves: `db`, the four columns, `pages` and
`redirect`. Everything in the tuple `process` is gone when a run ends
(`EndRun`). `pc` follows `export_chat`: *phase1*, the *walk* of
`_walk_messages` (used by both phases), *flush* and *store* for the two calls
of `store_messages_batch`, *mark* for the commit of the phase, *gate* between
the phases, *render*, *unlink* and *pages*. One action is one stretch of code
between two awaits that other steps or faults can come between.

* `TakeMessage`, `SkipMessage` and `Break` are the body of the loop, with the
  shutdown flag and the date looked at in the order of the code; `Exhaust` is
  the `else` of the `for`.
* `CommitPhaseProgress` is the upsert with its three merges: the newest id only
  grows, the oldest only falls and zero loses, the flag only turns on.
* `Claimed` is derived: the ids neither phase of a later run would ask for.
* The faults are a first signal (`Signal`, cooperative), a second one
  (`ForceQuit`, the task is cancelled; a shielded write completes), an
  exception at any step (`Fail`, a batch may be stored in part), a kill, a
  message deleted on the server, and the user's reset and purge between runs.

`Archive` is the abstract promise: an id may be claimed only when its message
is stored, is gone, or was never wanted. `ImplementsArchive` says every step
of the export is a step of it under `present <- server, stored <- db,
claimed <- Claimed`.

| Run | Checks | Shows |
|---|---|---|
| `chat_export` | `TypeOK`, `NothingLost`, `ProgressKept`, `ImplementsArchive`, `CountHonest`, `CleanRunComplete`, `EventuallyStored` | no interruption makes the export forget a message; progress never goes back; the advertised count is right after a clean run; repeated runs store everything |
| `chat_export_pages` | `PagesShowDatabase`, `EventuallyShown` | the rule "no message written and messages.html present: keep the pages" is safe under signals at any point |
| `date_from_lifted` (violation) | `NothingKeptLost` | a `date_from` that ended phase 1 moves the pointer over what it cut off |

Bounds: five messages of which one is filtered out, batches of two and pages
of two, so that a walk has a full batch and a remainder, a month has
neighbours, and phase 1 has room below and above the pointer; two values of
each date; two disturbances of any kind in any run (three of the two kinds in
`chat_export_pages`), over any number of runs. Every hazard of the list needs
at most one stop and one later fault. The passing runs start from a chat with
messages; what happens to an empty one is below, among the disagreements.

Fairness: `WF(Step)` - a run that began is scheduled until it ends; `WF(Run)` -
the export is started again, by cron or by the user. Without the second,
nothing the code says about "the next run" has a meaning. Faults are bounded,
so from some point on runs end by themselves.

## LiveStream: one chat under `tg watch`

A live update is a task of its own: `Handle` runs it up to its first await,
`Title` is the lookup of the chat's name, `Emit` the write under the sink's
lock in order of arrival, `NoteLive` the rest. The catch-up holds `_filling`
(`fill`), asks for history once, and replays it one message at a time.
`Reconnect` opens its gap before any update of the new connection, `Start`
before the first update. `Stop` saves the mark and leaves the tasks to die;
`Kill` leaves only the file. The save interval is a choice at each save.

| Run | Checks | Shows |
|---|---|---|
| `live_stream` | `TypeOK`, `LossAccountedFor`, `CaughtUp`, `RepeatsAccountedFor`, `EventuallyHanded` | after any crossing of live messages, reconnects, failed catch-ups, stops and kills, what is below the mark was handed over; quiet means caught up; repeats happen only after a restart or for a message in flight at a reconnect |

Bounds: four messages, one of the account's own, `--no-outgoing`, a catch-up
limit smaller than the longest gap, up to three faults, the chat's name not
known at first (so a handler can be overtaken). Fairness: the event loop runs
what is ready, the connection comes back, the listener is started again.

## MediaStore: files, names and rows

`disk` is a partial function from paths to contents, `rows` the table `files`
by file and chat; both survive a kill, everything else does not. A path is a
chat, a base name and the numbers `TargetRegistry` added. `Begin`, `Lookup`,
`Fetch` and `Register` are the stretches of `download` between its awaits, and
`lock`, `users` and `mine` are the counted dictionary of `_file_lock`. A reuse
runs in a thread of its own (`ClaimForReuse`, `HandOver`, `CopyEnd`), which a
cancelled task leaves behind (`FailChat`). The names in use are those of the
threads at work (`Claimed`): the other two claims are taken and given back
within one step of the event loop. `StartChat` sweeps what no row of the chat
names. `Replace` is the re-download of a broken file up to its row, with the
fresh registry of the verification pass. The rows of the pass are asked for at
the end of each move and written by one connection in that order: `repaired`
is their queue, and `RegisterRepaired` writes its head.

| Run | Checks | Shows |
|---|---|---|
| `media_store` | `TypeOK`, `FineIsWhole`, `OneRowOneFile`, `FetchedOnce`, `EventuallyFine` | a row verification passes over has its file, no two rows share a path, a file is downloaded once, broken rows are repaired in the end |

Bounds: two chats, a file both have (twice in one of them, so that the lock
per file matters), which another export has as well, two files saved under one
name, one of unknown size, and two faults. The shared file has a name of its
own: with a common one a property fails, and so it does with more faults; both
are below, among the disagreements. Fairness: the steps of a run happen and runs are
repeated; a run ends with `--verify`.

## ExportRun: one run, its signals and its exit code

`pc` is the await at which the main task stands. asyncio delivers a
cancellation at an await and runs the exporter's handlers there, so the code
between two awaits is one step (`HandleShutdown`, `EntryCancelled`,
`WalkCancelled`, `GatherCancelled`, ...). Before `InstallHandlers` a Ctrl+C is
answered by asyncio's runner (`RunnerInterrupt`), SIGTERM by the system
(`Terminated`). `queue` is the deque of `_MediaPipeline`, `task` the download
of each message: on the network, in a shielded write to the database, failed,
done or cancelled. `Submit`, `SubmitTakes`, `WindowTakes`, `Drain` are the
waits of the pipeline, `LeavePipeline`, `WaitOver` and `LeaveCancelled` its
exit. `Table` has the six sections of the global data with the two kinds of
step they take, `file` the tasks of the verification. `held` is what was
acquired and not yet released: the database, the connection, the downloader.

| Run | Checks | Shows |
|---|---|---|
| `export_run` | `TypeOK`, `HonestExit`, `WalkLeavesNothing`, `StopRespected`, `EndsAfterForce` | exit code 0 means that all chats, sections and repairs were gone through and that nothing failed but what the code only logs (`logged`: a file of a section, the frequent contacts, the list of left channels); no download outlives the walk that started it, however often the wait for it is cancelled; after a stop nothing of the kind begins; a forced stop ends the run without the network |
| `interrupted_early` (violation) | `InterruptedNonZero` | Ctrl+C before the handlers are installed ends the command with 0, where README.md:339 promises 130 |

Bounds: two chats of up to two messages, a window of two downloads, one
section of each kind, two broken files, three signals and one failure anywhere:
the second signal forces, the third lands while the first cancellation is
being answered. Fairness: steps that need Telegram (`Online`) may never
happen; the event loop, writes to the database and cancelled tasks go on, and
so does the release of the API client: that Telethon's disconnect ends is
assumed, not shown.

## ChatTree: which chats, under which rule, in which directory

A command reads the configuration and the catalog once, and the lock of the
database admits one command at a time; between commands chats are renamed,
archived, published, left and moved, and the user edits the configuration.
`LoadConfig` and `Readable` are the parser, `Resolve` is `resolve_chat_config`
with its five priorities, `MaxMediaFileSize` the one limit of a takeout,
`Catalog` is `fetch_catalog` with the three lists and the folders by flags,
`Selected` is `_select_chats`, `Dir` is `resolve_chat_dir` and `Link` the path
the index puts together by itself. `Asks`, `PurgeRows`, `RemoveDir` and
`EndPurge` are `tg-export purge`.

| Run | Checks | Shows |
|---|---|---|
| `chat_tree` | `TakeoutCoversAll`, `PurgedWhereverItLies`, `IndexReachesPages` | no chat is capped by the takeout a run opens; a purge removes a chat from every place it has been in; the index reaches what lies in its folders |

Bounds: a user and a channel, two names, two folders (one by list, one by
flags and with an exception), six configurations that between them have every
kind of rule, a skipped section with unreadable media in it and a file that
does not load; two changes on Telegram, any number of edits, runs and purges. A
chat visited in every place needs two moves; a third adds nothing the
properties distinguish. One assumption on the server, stated at
catalog.py:337: the main list has the archived chats of named folders.

## AccountSession: the file two commands share

The file has the login it is of, the takeout column (`live`) and the table
`session.py` keeps a copy in (`backup`). `Rescue`, `Restore` and `BackupAfter`
are the three transactions of `FixedSQLiteSession`; `Save` is a commit of
Telethon's at a moment of its own; `Resume`, `ProbeRefused`, `Discard`,
`EnterTakeout` are `start_takeout`; `Finish`, `ClearLocally` `takeout clear`;
`BeginLogin`, `SignIn`, `RemoveOld`, `Replace` `_login_into`. A process that is
killed (`Kill`) loses what was not committed, and the lock. A process that has
the file open when it is replaced writes to nothing (`orphan`).

The errors are as many as the code tells apart. A busy file ends the command
(`Busy`); any other error of SQLite is swallowed (`Unread`,
session.py:327-331), and the start goes on with nothing in hand: if the column
is empty, `_drop_backup` deletes the only copy a killed start left. A probe the
server answers with a no (`ProbeRefused`) discards the id, an ordinary failure
(`TakeoutFails`) does not; one that ran out of retries ends in a bare
`ValueError`, which api.py:183 takes for a no (`ProbeUnanswered`, then `Discard`
from "doubt"). `end_takeout` may also return False without raising, with the
id still set (`DiscardRefused`): no takeout is opened over it. The ids that the
two faulty ways cost the account are in the history variable `lost`, which only
`Unread` and `Discard` after `ProbeUnanswered` extend; `Kept` is what must
survive: alive, saved, not given up and not in `lost`.

| Run | Checks | Shows |
|---|---|---|
| `account_session` | `TypeOK`, `TakeoutKept`, `ReusedWhileAlive`, `NoLostWriter`, `SessionKept`, `BackupEmptied` | a saved takeout id is in the file while the server honours it, unless it is in `lost`; a new one is opened only when none is left but those; a login never takes the file from under an export and leaves the old session until it succeeds; the copy does not come back for ever |
| `takeout_discarded` (violation) | `NeverDiscarded` | one probe that runs out of retries costs the account a takeout the server honours (api.py:183), and with it the cooldown of the next, although api.py:150-151 says that an id "must never be discarded while it still works" |

Bounds: two processes, two takeouts, two logins, three faults: two of the
three copies of an id can be hit in one story, and a third process only waits
for the lock. The violation needs one process and one fault; with two faults a
kill and an `Unread` start violate the same promise (session.py:37-40) sooner. Fairness: a command that began ends, and exports are started
again and again (strongly, as they compete for the lock).

## ParallelUpload: parts, connections, attempts

`Begin` chooses the part size and the way to send; `pc` follows `_run` through
`_fill`, the wait, `_settle`, `_heal` and `_adjust`. `task[p]` is a part on its
way with its connection and its answer; `retries` and `credit` are the parts
that wait for another attempt and those that were answered before their
connection broke; `Requeued` is what `_heal` makes of a broken connection.
The policy of the width is `Record`, `Shrink` and `AllFast`.

| Run | Checks | Shows |
|---|---|---|
| `parallel_upload` | `PartsInOnePlace`, `DoneIsWhole`, `PoolInOrder`, `UploadEnds` | no part is dropped or counted twice; a handle stands for the whole file; the counters of the connections are right, none is closed under a part, the width stays in its bounds; the upload ends |

Bounds: four files (sent whole by the library, in small parts, in large ones, too
large), three part sizes, two to three connections, two attempts, two answers
that are not a success. Fairness: the loop runs, pauses end, every part is
answered or times out, the closing of a connection ends. Nothing is assumed of
opening one (`Connected`, that is `Open` and `Reopened`):
`connect_upload_sender` awaits the answer to its GetConfig without a timeout
(upload.py:253). An upload that waits there for ever (`Connecting`) is the one
exception `UploadEnds` makes.

## LiveStatus: what the refresh thread reads

The event loop publishes a new chat, counts, and keeps the waits; the thread
reads the chat, the counters one by one and the chat again (`chat_view`), then
the waits under their lock. A frame is built from what it read.

| Run | Checks | Shows |
|---|---|---|
| `live_status` | `FrameOfOneChat`, `WaitsReported`, `FrameDrawn` | a frame does not mix two chats; a pause is shown as long as it lasts, or is in the log; every frame is drawn in the end, though the thread retries |

Bounds: two chats, two downloads, two counters of the nine (the same code for
each), three ticks. The total of a chat is idealised: it is what earlier runs
stored of it and `MaxMsgs`, the most this run adds. The code has the count the
server gave when the chat began, and messages that arrive later may take the
counter past it; that a frame does not pass its total is shown of the reads,
not of that count. Fairness: the thread is scheduled; nothing is assumed of
the loop.

## What is proved

Each component has a module of proofs, `ChatExportProofs` and so on. The
theorems hold for every value of the constants that the `ASSUME`s of the module
admit: for any number of messages, chats, parts, processes and faults, where a
run has a handful. The assumptions give the constants their types and keep the
marks for "nothing" apart from the data; those that say more are named here.
Where a property needs more than itself, the invariant that carries it is
`IInv` of the module: proved to hold at first, proved to be kept by each action
(`...Step`, one lemma per action in the longer modules), and strong enough for
the property.

| Module | Theorems | States |
|---|---|---|
| `ChatExportProofs` | `TypeCorrect`, `NoMessageLost`, `ProgressIsKept`, `Refinement`, `CountIsHonest`, `PagesAreShown`, `CleanRunIsComplete` | `TypeOK`, `NothingLost`, `ProgressKept`, `ImplementsArchive`, `CountHonest`, `PagesShowDatabase`, `CleanRunComplete` |
| `AccountSessionProofs` | `TypeCorrect`, `TakeoutIsKept`, `WritersKeepTheFile`, `SessionStays`, `TakeoutIsReused` | `TypeOK`, `TakeoutKept`, `NoLostWriter`, `SessionKept`, `ReusedWhileAlive` |
| `ExportRunProofs` | `TypeCorrect`, `ExitIsHonest`, `NothingOutlivesItsWalk`, `StopIsRespected` | `TypeOK`, `HonestExit`, `WalkLeavesNothing`, `StopRespected` |
| `LiveStreamProofs` | `TypeCorrect`, `NothingIsPassedOver`, `RestIsCaughtUp`, `RepeatsAreAccountedFor` | `TypeOK`, `LossAccountedFor`, `CaughtUp`, `RepeatsAccountedFor` |
| `MediaStoreProofs` | `TypeCorrect`, `OneDownloadPerFile`, `RowsKeepApart`, `FineRowsAreWhole` | `TypeOK`, `FetchedOnce`, `OneRowOneFile`, `FineIsWhole` |
| `ParallelUploadProofs` | `EveryPartOnce`, `HandleIsWhole`, `PoolKeepsItsBooks` | `PartsInOnePlace`, `DoneIsWhole`, `PoolInOrder` |
| `LiveStatusProofs` | `FramesOfOneChat`, `WaitsAreReported` | `FrameOfOneChat`, `WaitsReported` |
| `ChatTreeProofs` | `TakeoutIsEnough`, `PurgeFindsAll`, `IndexIsComplete` | `TakeoutCoversAll`, `PurgedWhereverItLies`, `IndexReachesPages` |

**ChatExport.** `NothingLost` is not inductive: whether a commit is safe
depends on what the walk has seen. `IInv` adds that the snapshot of the
pointers is not ahead of the row, that every wanted message between the
iterator's cursor and the upper end of the walk is stored, in the batch or in
the pipeline, that `newest` and `lowest` bound what was seen, and that a walk
that ended by itself left nothing above its floor. The lemmas about
`MergeOldest`, `MergeLast` and `Anchor` carry the commit. Hypothesis:
`NeverEmpty` (the chat has a message when it is first exported, and one that
stays: `InitTop > 0` and message 1 not deletable; with an empty chat
`NothingLost` is false).
The three theorems about a run that ends by itself have an invariant each.
`CountOK`: a run that took no message has none in hand, so the number it read
at its start is still right, whatever an earlier run stored and died over.
`PagesOK`: messages.html is on disk only with pages that show the whole
database, unless this run has taken messages since; hypothesis `NoAbort` (no
kill, failure or forced stop; with them the property is false, see below).
`RunOK` says what a run nobody stopped has in hand behind its cursor and what
it has stored at the gate between the phases; with `IInv` it closes the gap
between the two phases for `CleanRunIsComplete`, which has `NeverEmpty` too.

**AccountSession.** That a living id is in the file is kept by a commit only
because the process that commits has it in hand: `InHand` says that while a
process has the file open, what must survive is in its memory, and is nothing
when it is about to open another takeout. Ids in `lost` are
not among those, and an id in "doubt" is in hand until `Discard` puts it there.
`OneAtWork` ties this to the lock, `FileOpen` to files that were unlinked, `InFile` says that what the next
`Rescue` takes is that id, `LoginReady` that the new file is there before the
old one goes. `ReusedWhileAlive` is about steps and follows from the same.

**ExportRun.** `HonestExit` looks back over the whole run from its last state.
`Complete` says, for every point of the run, what an undisturbed run has done
when it is there; `Accounted` that a failure is in the statistics, in what was
raised, in `logged` or still in a download whose error nobody has looked at, so
that a run that ends with 0 has as many failures as it has logged ones; `ForceLeads`
that after a forced stop a cancellation is on its way or was taken;
`HeldShape` which resources are held where. `WalkLeavesNothing` needs the
window: the deque is the end of the messages taken, in order, and every running
download is in it (`Deque`, `Pipeline`).

**LiveStream.** `QueueShape`, `HandlersOfGaps`, `Known` and `OneWay` carry
`RepeatsAccountedFor`: a message has at most one way to the reader, the queue
at the sink, a handler or the catch-up, and whoever got it is below the mark or
in the gap. `LossAccountedFor` and `CaughtUp` are about what is below a mark
that jumps when a gap closes. They need a *frontier* (`Frontier(h, r)`): up to
`h` every message is settled, from `h` to `r` it is in the inbox, and above `r`
it was posted while the connection was away. `FillingUp` has one for the last
gap while it is filled, with `todo` in it; `Following` outside any gap.
Hypothesis of these two: the chat has a mark (`InitMark > 0`). Without it they
are false (see below): the catch-up does not ask for a chat without a mark.

**MediaStore.** `FetchedOnce` rests on the counted dictionary of locks:
`SameLock` (those who carry one file hold the lock that is in the dictionary),
`UsersCounted` (the count is the number of those who do, so that the one who
leaves last removes it, and not before), `OneInside`, and `NotYetHad` (who is
past the look at the rows found none). That every search for a free name ends
is a lemma (the disk is finite). Assumption: `Size` is a positive number that
is not the size of a cut file.
The other two theorems look back over all runs. `NamesFit`: whatever a row, a
task, a thread or a repair knows as a file's place is in its chat and under its
name. `Seats`: the path of a file that is not shared is on the disk and belongs
to one row, task or repair only (`Seated`, `Apart`). A repair that moves its
file frees a path before its own row is written; a later repair may take it,
and its row is written later too, so the two rows never say the same. This is
where the order of the writes is needed: with the writes in any order
`OneRowOneFile` fails after three short downloads and two stops. `WholeFiles`:
a thread ends before its task does, so what lies at the path of a row that is
about to be written is what its size says. Hypotheses: `OwnNames` (a file that
two chats or another export have is saved under a name no other file has),
`Calm` (no kill, or no short download) and, for `FineRowsAreWhole`, no failed
chat. The three disagreements about `media_store` below show why: one has a
shared name, one a short download and a kill, one a failed chat. The number of
faults of the other kinds is not bounded.

**ParallelUpload.** That no part is lost needs that `_heal` puts back what was
on a broken connection and nothing that was counted: `AckedFirst` and
`RoomIsKept` with `PartsInOnePlace` itself. The other two theorems are about
sums: the bytes counted are the size of the file, and the counter of a
connection is the sum of what its tasks carry. The sum over a set is a fold of
the library, and what is proved about it first is that it exists for every
finite set and splits off any member (`AdderExists`, `SumSplits`): shown by a
smallest set for which it fails, since the library's induction theorems take an
operator. From there `AllSent` (each part of the file acknowledged and counted
once at the end) gives `HandleIsWhole` with `PartsCoverFile`, and
`PoolOK`, the counters with the tasks and the open connections, is kept by
every action.

**LiveStatus.** The counters only grow within a chat, so what the thread read
before it saw the same chat again is not ahead (`ReadBehind`), and `Books`
splits the counters into what the chat began with and what it added.

**ChatTree.** Three invariants, one for each theorem. `TakeoutIsEnough` needs
no state but that the file does not change during a run: the lemmas show that
the configuration of a readable file is `Sound`, that the rule that decides is
one of its lists (`RuleForIs`, `MatchTypeRuleIs`), that the limit is therefore
one of the `Sizes`, and that a finite set of numbers has a largest (`MaxIs`,
by removing a number from a smallest set without one). `DirsInv` says of
every directory that its chat is in the database, that no purge could know of
it, or that the purge at work has it among those to remove. `Indexed` says of
every folder, while its pages are rendered, that its page has the links, is yet
to come or was replaced. `FilesAreWritten` gives the configuration file its
shape: lists of rules and finitely many folders.

## What is only model-checked

* Liveness (`EventuallyStored`, `EventuallyShown`, `EventuallyHanded`,
  `EventuallyFine`, `EndsAfterForce`, `UploadEnds`, `FrameDrawn`,
  `BackupEmptied`): fairness and `ENABLED` are beyond the prover.
* `OneRowOneFile` and `FineIsWhole` of `MediaStore` outside the hypotheses of
  their theorems: there the run has any two faults, and with more of them both
  can fail, as the next section has it.
* The three runs that expect a violation.

## Known disagreements without a run

The bound on the number of runs is spent on one question each; these were met
on the way. The first five have been seen in counterexamples: the change to a
constant of an existing run is given.

* An empty chat (`chat_export` with `InitTop = 0`, `CleanRunComplete`): the
  exhausted iterator sets `full_history` while `last_msg_id` stays 0, and no
  phase of a later run fetches anything (exporter.py:1453, :1166, :1179).
* A chat without a mark (`live_stream` with `InitMark = 0`, `CaughtUp`): it is
  left out of the catch-up (watch.py:165, :176), yet closing the gap moves its
  mark over what the connection missed (watch.py:646).
* A name that two files share across chats (`media_store` with `f` named
  "photo" in `SmallNameOf`, `OneRowOneFile`): `claim(reuse=True)` takes a
  finished file of another row for a leftover and replaces it (media.py:303;
  state.py:368 says "One row, one file on disk").
* A repair of a row a kill left behind (`media_store` with three files of one
  name in one chat and the faults short, kill, `MaxFaults = 4`, `FineIsWhole`):
  the row names a free path, another file's repair takes it, and the repair of
  the first row replaces that file (media.py:292).
* A thread that still copies for a chat that failed, and a verification pass
  with a registry of its own that repairs into the same path (`media_store`
  with `MaxFaults = 3`); verify.py says the registry is "shared by everything
  writing into the same output tree".

From the models or the code, without a property:

* `date_to` is not enforced by a phase 2 that starts at an id
  (exporter.py:560), although exporter.py:1419 says the bounds are "still
  enforced per-message".
* A run killed, failed or forced out after its pointers were committed and
  before the pages were written leaves the old pages; the next run writes
  nothing and keeps them (`_pages_are_current`). `PagesShowDatabase` is checked
  under signals and deletions, where it holds.
* docs/cli.md says a message one path of `tg watch` has shown the other does
  not repeat. A handler that is at the sink when the connection comes back may
  be repeated by the catch-up: `RepeatsAccountedFor` excludes exactly this.
* While a gap closes, the mark moves over messages that wait for the sink or
  for the chat's name; if the process dies then, with the mark saved, they are
  not shown again. `LossAccountedFor` names them (`dropped`).
* Two handlers of `tg watch` may save at once, `_saved_at` being set after the
  write (watch.py:123): one replace may publish what the other writer has only
  begun, and the other finds no `.tmp` file; `_write` promises that "a kill
  never leaves half a document".
* A file of a global-data section that fails to download is logged only
  (`_download_batch`), so the run still ends with 0, where README.md:343 says
  an export with errors while loading ends with 1. The same holds of the
  frequent contacts (api.py:348-379) and of the list of left channels
  (catalog.py:403-407). The model counts these failures (`Logged`), and
  `HonestExit` names them as its exception.
* upload.py:101-105 gives a part a timeout because a connection that dies
  quietly would keep the upload waiting "for as long as the process lives"; a
  new connection whose GetConfig is never answered does that (upload.py:253).
  `UploadEnds` excludes exactly this.
* A full disk or a session the server refuses breaks the loop over the chats,
  but the global data and the verification start all the same. A stop during
  the global data does not keep the remaining sections from starting, nor one
  during the verification a repair that waits for its turn.
* A forced stop in the last `gather` of the verification goes on to close the
  database while a repair may be inside a shielded commit (verify.py:234).
* `cache_catalog` is called outside of the chat's `try` (exporter.py:936): its
  failure ends the run, although "a failure of a single chat is recorded and
  the run goes on".
* A login killed between removing the old session and moving the new one leaves
  no session (auth.py:413), which the comment at auth.py:359 set out to avoid;
  `SessionKept` excludes exactly this.
* A takeout resumed from an earlier run keeps the `max_file_size` it was opened
  with, although the configuration has raised a limit since.
  `TakeoutCoversAll` is about a takeout the run opens.
* A purge leaves directories under an older name of the chat; one killed
  between the rows and the directories leaves what no later purge finds, as
  the name is gone with the row. `strays` are these.
* Two folders whose names sanitize equally write one folder page.
* The index lists chats by `resolve_chat_config` without `allow_unmatched`: a
  left or archived chat admitted by `export_with_defaults` is not on it, and
  one the flag excludes is, if a rule names it.
* The index links a left or archived chat under its folder or `unfiled/`
  (cli/export.py:948), where it does not lie: a link to a path that does not
  exist, which the comment above that line sets out to avoid.
  `IndexReachesPages` is about the other chats.
* A chat in several folders goes to Telegram's last that lists it;
  docs/configuration.md:251 says the first of the configuration.

## Not modelled

* `converter.py`, `models.py`: a mapping of one Telethon object to one
  dataclass; no state, no order, no failure but an exception.
* `importer.py`: reads another program's `result.json` into an index.
* The commands that print what the API or the database returns; console,
  formatting, file modes.
* In the modelled parts: edits of stored messages, the pair of a migrated
  group, topics, `--rerender`; several chats under one watch file, edited and
  deleted live messages; media skipped by type or size, the free-space check.

## Plan

1. The watch file with its writers as steps; the pair of a migrated chat.
2. Proofs: `OneRowOneFile` and `FineIsWhole` after a kill and a short download,
   for files whose names differ within a chat.
