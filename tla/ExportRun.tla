----------------------------- MODULE ExportRun -----------------------------
(***************************************************************************)
(* One run of `tg-export run` (cli/export.py, exporter.py): the resources  *)
(* it opens, the loop over the chats, the pipeline of downloads of a chat, *)
(* global data, verification, the report, the release and the exit code,   *)
(* under Ctrl+C and SIGTERM at any moment.                                  *)
(*                                                                          *)
(* pc names the await the main task stands at.  asyncio delivers a          *)
(* cancellation at an await only, and runs the handlers of the exporter     *)
(* there; between two awaits the code is one step.  What ChatExport says of *)
(* one chat (pointers, batches, pages) is left to it.                       *)
(***************************************************************************)
EXTENDS Integers, Sequences, FiniteSets

CONSTANTS
  Chats,       \* chats the configuration includes
  Messages,    \* messages of a chat, each may carry a file
  Limit,       \* concurrent_downloads
  Sections,    \* enabled sections of global data
  Broken,      \* files the verification finds broken
  MaxSignals,  \* bound on the signals
  MaxFaults    \* bound on what goes wrong by itself

ASSUME BoundsAreNaturals ==
  /\ Chats \in Nat /\ Messages \in Nat /\ Broken \in Nat
  /\ Limit \in Nat /\ Limit > 0
  /\ MaxSignals \in Nat /\ MaxFaults \in Nat

ASSUME SectionsAreKnown ==
  Sections \subseteq {"personal info", "contacts", "sessions", "userpics", "stories", "other data"}

SIGINT == 2
SIGTERM == 15
NoCode == -1

VARIABLES
  options,     \* the flags of the command
  pc,          \* where the main task stands
  held,        \* resources acquired and not released
  chat,        \* chats the loop has come to
  queue,       \* the deque of the pipeline: messages not handed back yet
  task,        \* the download of each message of the chat
  cause,       \* why the walk is left
  section,     \* sections that are over
  step,        \* where the current one stands
  pages,       \* pages of sections that are written
  file,        \* the files of the verification
  handlers,    \* the exporter has installed its signal handlers
  shutdown, force, sig,
  runner,      \* interrupts taken by the handler of asyncio.run
  cancel,      \* a cancellation of the main task is on its way
  stats,       \* exporter.run has returned its statistics
  errors,      \* stats.errors
  raised,      \* what leaves the body of _run_export
  code,        \* exit code
  signals, faults,
  logged       \* faults the code logs and leaves out of its errors

walkVars   == <<queue, task, cause>>
sectionVars == <<section, step, pages>>
flagVars   == <<handlers, shutdown, sig, runner, signals>>
resultVars == <<stats, errors, raised, code>>
vars == <<options, pc, held, chat, walkVars, sectionVars, file, flagVars, force,
          cancel, resultVars, faults, logged>>

Msgs  == 1..Messages
Files == 1..Broken

(* Downloads and repairs that still run. *)
Alive   == {"net", "write"}
Running == {n \in Msgs : task[n] \in Alive}
Mending == {f \in Files : file[f] \in Alive}

Opening == {"open", "connect", "takeout", "catalog"}
Walking == {"walk", "submit", "window", "drain"}
Ended   == {"exit", "killed"}
Awaits  == Opening \cup Walking \cup
             {"entry", "leave", "section", "request", "gather", "settle", "index", "summary", "close"}

Fine   == UNCHANGED <<faults, logged>>
Fault  == faults < MaxFaults /\ faults' = faults + 1 /\ UNCHANGED logged
(* A failure that is logged and reaches no list of errors. *)
Logged == faults < MaxFaults /\ faults' = faults + 1 /\ logged' = logged + 1

(* The main task resumes at p with nothing to cancel. *)
At(p) == pc = p /\ ~cancel
(* The main task resumes at p with CancelledError. *)
CancelledAt(p) == pc = p /\ cancel /\ cancel' = FALSE

(* Leaving the body of _run_export: the stack of resources unwinds. *)
Raise(what) == raised' = what /\ pc' = "close"

-----------------------------------------------------------------------------
(* Resources *)

(* ExportState.open: lock, file, pragmas, schema.  Whatever interrupts it   *)
(* closes the connection and releases the lock, for nothing is registered.  *)
Open ==
  /\ At("open")
  /\ \/ held' = {"state"} /\ pc' = "connect" /\ Fine /\ UNCHANGED raised
     \/ Raise("error") /\ Fault /\ UNCHANGED held
  /\ UNCHANGED <<options, chat, walkVars, sectionVars, file, flagVars, force, cancel, stats, errors, code>>

(* connected_api: session file, credentials, socket. *)
Connect ==
  /\ At("connect")
  /\ \/ held' = held \cup {"api"} /\ pc' = "takeout" /\ Fine /\ UNCHANGED raised
     \/ Raise("error") /\ Fault /\ UNCHANGED held
  /\ UNCHANGED <<options, chat, walkVars, sectionVars, file, flagVars, force, cancel, stats, errors, code>>

(* A refused takeout is an error only when it was required; the downloader   *)
(* with its readers of the neighbouring exports is built right after.       *)
Takeout ==
  /\ At("takeout")
  /\ \/ /\ pc' = "catalog" /\ held' = held \cup {"downloader"}
        /\ Fine /\ UNCHANGED raised
     \/ options.required /\ Raise("error") /\ Fault /\ UNCHANGED held
  /\ UNCHANGED <<options, chat, walkVars, sectionVars, file, flagVars, force, cancel, stats, errors, code>>

(* Left channels that cannot be listed are missing from the catalog.        *)
FetchCatalog ==
  /\ At("catalog")
  /\ \/ pc' = "prepare" /\ (Fine \/ Logged) /\ UNCHANGED raised
     \/ Raise("error") /\ Fault
  /\ UNCHANGED <<options, held, chat, walkVars, sectionVars, file, flagVars, force, cancel, stats, errors, code>>

(* Cancelled before exporter.run is entered. *)
OpeningCancelled ==
  /\ \E p \in Opening : CancelledAt(p)
  /\ Raise("cancel")
  /\ UNCHANGED <<options, held, chat, walkVars, sectionVars, file, flagVars, force, stats, errors, code, faults, logged>>

(* exporter.run installs the handlers before anything else. *)
InstallHandlers ==
  /\ pc = "prepare"
  /\ handlers' = TRUE /\ pc' = "loop"
  /\ UNCHANGED <<options, held, chat, walkVars, sectionVars, file, shutdown, sig, runner, signals,
                 force, cancel, resultVars, faults, logged>>

-----------------------------------------------------------------------------
(* The loop over the chats *)

(* After the loop: global data, then verification, then the return. *)
VerifyOrReturn(forced) ==
  IF options.verify /\ ~forced
    THEN pc' = "request" /\ UNCHANGED stats
    ELSE pc' = "report" /\ stats' = TRUE

(* Mutation: the loop is left by a stop, and global data starts. *)
GlobalAnyway(forced) ==
  IF ~options.dryRun /\ ~forced
    THEN pc' = "section" /\ UNCHANGED stats
    ELSE VerifyOrReturn(forced)
AfterLoop(forced) ==
  IF ~options.dryRun /\ ~forced /\ ~shutdown
    THEN pc' = "section" /\ UNCHANGED stats
    ELSE VerifyOrReturn(forced)

(* A dry run only names the chats; a stop is looked at before each chat. *)
Loop ==
  /\ pc = "loop"
  /\ \/ /\ ~shutdown /\ chat < Chats /\ ~options.dryRun
        /\ chat' = chat + 1 /\ pc' = "entry"
        /\ UNCHANGED stats
     \/ /\ shutdown \/ chat = Chats \/ options.dryRun
        /\ chat' = IF options.dryRun /\ ~shutdown THEN Chats ELSE chat
        /\ AfterLoop(FALSE)
  /\ UNCHANGED <<options, held, walkVars, sectionVars, file, flagVars, force, cancel, errors, raised, code, faults, logged>>

(* _export_chat_entry writes the catalog row before its own try: a failure  *)
(* of the database there leaves the run, and its statistics are lost.       *)
CacheCatalog ==
  /\ At("entry")
  /\ \/ /\ pc' = "walk" /\ Fine
        /\ queue' = <<>> /\ task' = [n \in Msgs |-> "none"] /\ cause' = "none"
        /\ UNCHANGED raised
     \/ Raise("error") /\ Fault /\ UNCHANGED walkVars
  /\ UNCHANGED <<options, held, chat, sectionVars, file, flagVars, force, cancel, stats, errors, code>>

(* Mutation: the cancellation is swallowed and the flag stays down. *)
ForceUnseen ==
  /\ UNCHANGED force
  /\ VerifyOrReturn(FALSE)

(* CancelledError reaches run: nothing but the return follows. *)
ForcedOut ==
  /\ force' = TRUE
  /\ VerifyOrReturn(TRUE)

EntryCancelled ==
  /\ CancelledAt("entry")
  /\ ForcedOut
  /\ UNCHANGED <<options, held, chat, walkVars, sectionVars, file, flagVars, errors, raised, code, faults, logged>>

-----------------------------------------------------------------------------
(* The pipeline of downloads *)

Taken == Cardinality({n \in Msgs : task[n] # "none"})

(* submit: the message joins the deque, with a download if it has media.  A *)
(* stop ends the loop of the walk before the message is looked at.          *)
Submit ==
  /\ At("walk") /\ ~shutdown /\ Taken < Messages
  /\ \E t \in {"net", "plain"} :
       /\ task' = [task EXCEPT ![Taken + 1] = t]
       /\ queue' = Append(queue, Taken + 1)
  /\ pc' = "submit"
  /\ UNCHANGED <<options, held, chat, cause, sectionVars, file, flagVars, force, cancel, resultVars, faults, logged>>

(* The iterator ends, or the loop is left by break. *)
StopWalk ==
  /\ At("walk") /\ (shutdown \/ Taken = Messages)
  /\ pc' = "drain"
  /\ UNCHANGED <<options, held, chat, walkVars, sectionVars, file, flagVars, force, cancel, resultVars, faults, logged>>

LeavePipeline(why) ==
  /\ cause' = why /\ pc' = "leave"
  /\ UNCHANGED <<queue, task>>

(* The iterator raises, or a write of a batch does. *)
WalkFails ==
  /\ At("walk") \/ At("drain")
  /\ \E why \in {"failed", "unauthorized"} : LeavePipeline(why)
  /\ Fault
  /\ UNCHANGED <<options, held, chat, sectionVars, file, flagVars, force, cancel, resultVars>>

(* _take_oldest: the head is handed back once its download has ended; the   *)
(* one failure a download lets through is that of a full disk.              *)
(* Mutation: the head leaves at once, its download still running. *)
HeadAnyway == queue # <<>>
HeadReady == queue # <<>> /\ Head(queue) \notin Running
TakeOldest ==
  /\ HeadReady
  /\ IF task[Head(queue)] = "disk"
       THEN LeavePipeline("disk")
       ELSE queue' = Tail(queue) /\ UNCHANGED <<task, cause, pc>>

SubmitTakes ==
  /\ At("submit") /\ TakeOldest
  /\ UNCHANGED <<options, held, chat, sectionVars, file, flagVars, force, cancel, resultVars, faults, logged>>

(* The window counts what runs; a full one waits for the head, whatever      *)
(* else ends meanwhile.                                                      *)
Room == Cardinality(Running) < Limit
SubmitReturns ==
  /\ At("submit") /\ ~HeadReady
  /\ pc' = IF Room THEN "walk" ELSE "window"
  /\ UNCHANGED <<options, held, chat, walkVars, sectionVars, file, flagVars, force, cancel, resultVars, faults, logged>>

WindowTakes ==
  /\ At("window") /\ HeadReady
  /\ IF task[Head(queue)] = "disk"
       THEN LeavePipeline("disk")
       ELSE /\ queue' = Tail(queue)
            /\ pc' = IF Room THEN "walk" ELSE "window"
            /\ UNCHANGED <<task, cause>>
  /\ UNCHANGED <<options, held, chat, sectionVars, file, flagVars, force, cancel, resultVars, faults, logged>>

Drain ==
  /\ At("drain") /\ TakeOldest
  /\ UNCHANGED <<options, held, chat, sectionVars, file, flagVars, force, cancel, resultVars, faults, logged>>

Drained ==
  /\ At("drain") /\ queue = <<>>
  /\ LeavePipeline("ok")
  /\ UNCHANGED <<options, held, chat, sectionVars, file, flagVars, force, cancel, resultVars, faults, logged>>

WalkCancelled ==
  /\ \E p \in Walking : CancelledAt(p)
  /\ LeavePipeline("cancel")
  /\ UNCHANGED <<options, held, chat, sectionVars, file, flagVars, force, resultVars, faults, logged>>

(* __aexit__ waits for what it cancelled, and a cancellation that comes     *)
(* during the wait is kept for after it.                                     *)
LeaveCancelled ==
  /\ CancelledAt("leave")
  /\ cause' = "cancel"
  /\ UNCHANGED <<options, pc, held, chat, queue, task, sectionVars, file, flagVars, force, resultVars, faults, logged>>

(* A failure of the chat is recorded; a full disk and a lost authorisation  *)
(* end the loop besides.  The rest of export_chat, counted in ChatExport, is *)
(* part of this await.                                                       *)
(* Mutation: a second cancellation ends the wait. *)
WaitCut == Running = {} \/ cause = "cancel"
WaitOver == Running = {}
(* Mutation: a full disk ends the loop and leaves no error. *)
DiskUnrecorded(why) == why \in {"failed", "unauthorized"}
Recorded(why) == why \in {"failed", "unauthorized", "disk"}
ChatLeft ==
  /\ At("leave") /\ WaitOver
  /\ errors' = IF Recorded(cause) THEN errors \cup {"chat"} ELSE errors
  /\ CASE cause \in {"ok", "failed"} -> pc' = "loop" /\ UNCHANGED <<stats, force>>
       [] cause \in {"disk", "unauthorized"} -> AfterLoop(FALSE) /\ UNCHANGED force
       [] cause = "cancel" -> ForcedOut
  /\ UNCHANGED <<options, held, chat, walkVars, sectionVars, file, flagVars, cancel, raised, code, faults, logged>>

(* A download: its bytes, then its row.  The write is shielded. *)
Fetched(n) ==
  /\ task[n] = "net" /\ pc # "leave"
  /\ \/ task' = [task EXCEPT ![n] = "write"] /\ Fine /\ UNCHANGED errors
     \/ task' = [task EXCEPT ![n] = "disk"] /\ Fault /\ UNCHANGED errors
     \/ task' = [task EXCEPT ![n] = "failed"] /\ Fault /\ errors' = errors \cup {"media"}
  /\ UNCHANGED <<options, pc, held, chat, queue, cause, sectionVars, file, flagVars, force, cancel,
                 stats, raised, code>>

Registered(n) ==
  /\ task[n] = "write"
  /\ task' = [task EXCEPT ![n] = "done"]
  /\ UNCHANGED <<options, pc, held, chat, queue, cause, sectionVars, file, flagVars, force, cancel,
                 resultVars, faults, logged>>

DownloadCancelled(n) ==
  /\ pc = "leave" /\ task[n] = "net"
  /\ task' = [task EXCEPT ![n] = "cancelled"]
  /\ UNCHANGED <<options, pc, held, chat, queue, cause, sectionVars, file, flagVars, force, cancel,
                 resultVars, faults, logged>>

-----------------------------------------------------------------------------
(* Global data and verification *)

(* The order of _global_data_sections, and the enabled section that is next *)
(* in it: the others are passed over.                                       *)
Table   == <<"personal info", "contacts", "sessions", "userpics", "stories", "other data">>
Due(i)  == i > section /\ Table[i] \in Sections /\ \A j \in (section + 1)..(i - 1) : Table[j] \notin Sections

(* Sections that download files, and those whose page is written even when  *)
(* what it shows could not be asked for.                                     *)
WithFiles == {"personal info", "userpics", "stories", "other data"}
PageKept  == {"stories", "other data"}

(* A section that raises is recorded and the next one runs; no stop is      *)
(* looked at between them.                                                   *)
SectionOver(i) == section' = i /\ step' = "fetch"
SectionRaises(i) == SectionOver(i) /\ errors' = errors \cup {"section"}

(* Without its frequent ones the page of the contacts is written all the same. *)
FetchSection(i) ==
  /\ step = "fetch" /\ UNCHANGED pages
  /\ \/ /\ step' = IF Table[i] \in WithFiles THEN "files" ELSE "page"
        /\ Fine \/ (Table[i] = "contacts" /\ Logged)
        /\ UNCHANGED <<section, errors>>
     \/ /\ Fault
        /\ IF Table[i] \in PageKept
             THEN step' = "last page" /\ UNCHANGED <<section, errors>>
             ELSE SectionRaises(i)

(* A file that fails is logged and no more: the section ends like a full one. *)
DownloadBatch ==
  /\ step = "files" /\ step' = "page"
  /\ Fine \/ Logged
  /\ UNCHANGED <<section, pages, errors>>

RenderSection(i) ==
  /\ step = "page"
  /\ \/ pages' = pages \cup {Table[i]} /\ SectionOver(i) /\ Fine /\ UNCHANGED errors
     \/ UNCHANGED pages /\ SectionRaises(i) /\ Fault

RenderAndRaise(i) ==
  /\ step = "last page" /\ SectionRaises(i)
  /\ pages' \in {pages, pages \cup {Table[i]}} /\ Fine

Section ==
  /\ At("section")
  /\ \E i \in DOMAIN Table :
       Due(i) /\ (FetchSection(i) \/ DownloadBatch \/ RenderSection(i) \/ RenderAndRaise(i))
  /\ UNCHANGED <<options, pc, held, chat, walkVars, file, flagVars, force, cancel, stats, raised, code>>

SectionsOver ==
  /\ At("section") /\ \A i \in DOMAIN Table : ~Due(i)
  /\ VerifyOrReturn(FALSE)
  /\ UNCHANGED <<options, held, chat, walkVars, sectionVars, file, flagVars, force, cancel, errors, raised,
                 code, faults, logged>>

(* Out of run, so its statistics are lost: the sections, the report. *)
RaisedOutOfRun ==
  /\ \E p \in {"section", "index", "summary"} : CancelledAt(p)
  /\ Raise("cancel")
  /\ UNCHANGED <<options, held, chat, walkVars, sectionVars, file, flagVars, force, stats, errors, code, faults, logged>>

(* Messages of the next broken files are asked for; the answer starts their *)
(* downloads.  A message that is gone is a failure of its file.              *)
Request ==
  /\ At("request") /\ ~shutdown
  /\ \E f \in Files :
       /\ file[f] = "broken" /\ \A g \in 1..(f - 1) : file[g] # "broken"
       /\ \/ file' = [file EXCEPT ![f] = "net"] /\ Fine
          \/ file' = [file EXCEPT ![f] = "failed"] /\ Fault
  /\ UNCHANGED <<options, pc, held, chat, walkVars, sectionVars, flagVars, force, cancel, resultVars>>

AllAsked ==
  /\ At("request") /\ (shutdown \/ \A f \in Files : file[f] # "broken")
  /\ pc' = "gather"
  /\ UNCHANGED <<options, held, chat, walkVars, sectionVars, file, flagVars, force, cancel, resultVars, faults, logged>>

(* The request fails or the pass is cancelled: the downloads are cancelled  *)
(* and waited for; a gather that collects exceptions waits for all of them. *)
RequestFails ==
  /\ At("request") /\ Fault
  /\ cause' = "failed" /\ pc' = "settle"
  /\ UNCHANGED <<options, held, chat, queue, task, sectionVars, file, flagVars, force, cancel, resultVars>>

PassCancelled ==
  /\ CancelledAt("request") \/ CancelledAt("settle")
  /\ cause' = "cancel" /\ pc' = "settle"
  /\ UNCHANGED <<options, held, chat, queue, task, sectionVars, file, flagVars, force, resultVars, faults, logged>>

Settled ==
  /\ At("settle") /\ Mending = {}
  /\ IF cause = "cancel"
       THEN Raise("cancel") /\ UNCHANGED <<stats, errors>>
       ELSE errors' = errors \cup {"verify"} /\ pc' = "report" /\ stats' = TRUE /\ UNCHANGED raised
  /\ UNCHANGED <<options, held, chat, walkVars, sectionVars, file, flagVars, force, cancel, code, faults, logged>>

(* Every file has its outcome; what failed is recorded now. *)
Gathered ==
  /\ At("gather") /\ Mending = {}
  /\ errors' = IF \E f \in Files : file[f] = "failed" THEN errors \cup {"file"} ELSE errors
  /\ pc' = "report" /\ stats' = TRUE
  /\ UNCHANGED <<options, held, chat, walkVars, sectionVars, file, flagVars, force, cancel, raised, code, faults, logged>>

(* The last gather of the pass ends with the first download that ends: one  *)
(* inside a shielded write is left behind.                                   *)
GatherCancelled ==
  /\ CancelledAt("gather")
  /\ LET fetching == {f \in Mending : file[f] = "net"} IN
     \/ /\ fetching # {} \/ Mending = {}
        /\ file' = [f \in Files |-> IF f \in fetching THEN "cancelled" ELSE file[f]]
     \/ /\ fetching = {}
        /\ \E f \in Mending : file' = [file EXCEPT ![f] = "fixed"]
  /\ Raise("cancel")
  /\ UNCHANGED <<options, held, chat, walkVars, sectionVars, flagVars, force, stats, errors, code, faults, logged>>

Repaired(f) ==
  /\ \/ file[f] = "net" /\ pc # "settle" /\ file' = [file EXCEPT ![f] = "write"] /\ Fine
     \/ file[f] = "net" /\ pc # "settle" /\ file' = [file EXCEPT ![f] = "failed"] /\ Fault
     \/ file[f] = "write" /\ file' = [file EXCEPT ![f] = "fixed"] /\ Fine
     \/ file[f] = "net" /\ pc = "settle" /\ file' = [file EXCEPT ![f] = "cancelled"] /\ Fine
  /\ UNCHANGED <<options, pc, held, chat, walkVars, sectionVars, flagVars, force, cancel, resultVars>>

-----------------------------------------------------------------------------
(* Report, release, exit *)

(* _report_export_result: nothing after a forced stop; after a graceful one *)
(* the summary without the index.                                            *)
Report ==
  /\ pc = "report"
  /\ pc' = CASE force -> "close"
             [] ~force /\ (options.dryRun \/ shutdown) -> "summary"
             [] OTHER -> "index"
  /\ UNCHANGED <<options, held, chat, walkVars, sectionVars, file, flagVars, force, cancel, resultVars, faults, logged>>

RenderIndex ==
  /\ At("index")
  /\ \/ pc' = "summary" /\ Fine /\ UNCHANGED raised
     \/ Raise("error") /\ Fault
  /\ UNCHANGED <<options, held, chat, walkVars, sectionVars, file, flagVars, force, cancel, stats, errors, code>>

PrintSummary ==
  /\ At("summary")
  /\ \/ pc' = "close" /\ Fine /\ UNCHANGED raised
     \/ Raise("error") /\ Fault
  /\ UNCHANGED <<options, held, chat, walkVars, sectionVars, file, flagVars, force, cancel, stats, errors, code>>

(* The stack closes what it holds, the last acquired first.  A failure or a *)
(* cancellation is kept until the rest is closed, and then only added to    *)
(* the errors.                                                               *)
ReleaseLast ==
  \/ held = {"state", "api", "downloader"} /\ held' = {"state", "api"}
  \/ held = {"state", "api"} /\ held' = {"state"}
  \/ held = {"state"} /\ held' = {}
Unreleased == IF stats THEN errors \cup {"release"} ELSE errors

Release ==
  /\ At("close") /\ held # {}
  /\ ReleaseLast
  /\ \/ Fine /\ UNCHANGED errors
     \/ Fault /\ errors' = Unreleased
  /\ UNCHANGED <<options, pc, chat, walkVars, sectionVars, file, flagVars, force, cancel, stats, raised, code>>

ReleaseCancelled ==
  /\ held # {} /\ CancelledAt("close")
  /\ ReleaseLast /\ errors' = Unreleased
  /\ UNCHANGED <<options, pc, chat, walkVars, sectionVars, file, flagVars, force, stats, raised, code, faults, logged>>

(* export_exit_code, and the clauses of run_cli for what was raised.  A     *)
(* second interrupt of asyncio.run is a KeyboardInterrupt.                   *)
ExitCode ==
  CASE runner > 1 -> 128 + SIGINT
    [] runner <= 1 /\ raised = "error" -> 1
    [] runner <= 1 /\ raised # "error" /\ sig # 0 -> 128 + sig
    [] OTHER -> IF stats /\ errors # {} THEN 1 ELSE 0

Exit ==
  /\ pc = "close" /\ held = {}
  /\ code' = ExitCode /\ pc' = "exit"
  /\ UNCHANGED <<options, held, chat, walkVars, sectionVars, file, flagVars, force, cancel, stats, errors, raised, faults, logged>>

-----------------------------------------------------------------------------
(* Signals *)

(* _handle_shutdown: a signal that comes within FORCE_SHUTDOWN_WINDOW_SECONDS *)
(* of the first forces; a later one asks for a graceful stop anew.           *)
HandleShutdown(signum, within) ==
  /\ handlers /\ pc \in Awaits /\ signals < MaxSignals
  /\ signals' = signals + 1 /\ sig' = signum
  /\ IF shutdown /\ within
       THEN force' = TRUE /\ cancel' = TRUE /\ UNCHANGED shutdown
       ELSE shutdown' = TRUE /\ UNCHANGED <<force, cancel>>
  /\ UNCHANGED <<options, pc, held, chat, walkVars, sectionVars, file, handlers, runner, resultVars, faults, logged>>

(* Before that asyncio.run answers: it cancels the main task, and raises    *)
(* KeyboardInterrupt the second time, which cancels it again.  SIGTERM has  *)
(* no handler yet.                                                           *)
RunnerInterrupt ==
  /\ ~handlers /\ pc \notin Ended /\ signals < MaxSignals /\ runner < 2
  /\ signals' = signals + 1 /\ runner' = runner + 1 /\ cancel' = TRUE
  /\ UNCHANGED <<options, pc, held, chat, walkVars, sectionVars, file, handlers, shutdown, sig, force,
                 resultVars, faults, logged>>

Terminated ==
  /\ ~handlers /\ pc \notin Ended /\ signals < MaxSignals
  /\ signals' = signals + 1 /\ held' = {} /\ pc' = "killed" /\ code' = 128 + SIGTERM
  /\ UNCHANGED <<options, chat, walkVars, sectionVars, file, handlers, shutdown, sig, runner, force,
                 cancel, stats, errors, raised, faults, logged>>

-----------------------------------------------------------------------------
Init ==
  /\ options \in [dryRun : BOOLEAN, verify : BOOLEAN, required : BOOLEAN]
  /\ pc = "open" /\ held = {} /\ chat = 0
  /\ queue = <<>> /\ task = [n \in Msgs |-> "none"] /\ cause = "none"
  /\ section = 0 /\ step = "fetch" /\ pages = {} /\ file = [f \in Files |-> "broken"]
  /\ handlers = FALSE /\ shutdown = FALSE /\ sig = 0 /\ runner = 0
  /\ force = FALSE /\ cancel = FALSE
  /\ stats = FALSE /\ errors = {} /\ raised = "none" /\ code = NoCode
  /\ signals = 0 /\ faults = 0 /\ logged = 0

(* What waits for Telegram, and may wait for ever. *)
Online ==
  \/ Connect \/ Takeout \/ FetchCatalog
  \/ Submit \/ StopWalk \/ WalkFails
  \/ Section \/ SectionsOver \/ Request \/ AllAsked \/ RequestFails
  \/ \E n \in Msgs : Fetched(n)

(* What needs this machine only. *)
Local ==
  \/ Open \/ OpeningCancelled \/ InstallHandlers
  \/ Loop \/ CacheCatalog \/ EntryCancelled
  \/ SubmitTakes \/ SubmitReturns \/ WindowTakes \/ Drain \/ Drained
  \/ WalkCancelled \/ LeaveCancelled \/ ChatLeft
  \/ RaisedOutOfRun \/ PassCancelled \/ Settled \/ Gathered \/ GatherCancelled
  \/ Report \/ RenderIndex \/ PrintSummary \/ Release \/ ReleaseCancelled \/ Exit

Signal ==
  \/ \E signum \in {SIGINT, SIGTERM}, within \in BOOLEAN : HandleShutdown(signum, within)
  \/ RunnerInterrupt \/ Terminated

(* Writes of this machine, and cancelled downloads. *)
Settling(n) == Registered(n) \/ DownloadCancelled(n)

Done == pc \in Ended /\ UNCHANGED vars

Next ==
  \/ Online \/ Local \/ Signal
  \/ \E n \in Msgs : Settling(n)
  \/ \E f \in Files : Repaired(f)
  \/ Done

Spec == Init /\ [][Next]_vars

(* The network owes nothing; the loop and the disk of this machine go on.   *)
(* Closing the API client is counted to them (Release): that Telethon's     *)
(* disconnect ends is assumed.                                               *)
(* A repair that was cancelled or writes is one of them.                     *)
RepairEnds(f) == Repaired(f) /\ file'[f] # "write"
Fairness ==
  /\ WF_vars(Local)
  /\ \A n \in Msgs : WF_vars(Settling(n))
  /\ \A f \in Files : WF_vars(RepairEnds(f) /\ (file[f] = "write" \/ pc = "settle"))

FairSpec == Spec /\ Fairness

-----------------------------------------------------------------------------
(* Properties *)

MainTypes ==
  /\ options \in [dryRun : BOOLEAN, verify : BOOLEAN, required : BOOLEAN]
  /\ pc \in Awaits \cup Ended \cup {"prepare", "loop", "report"}
  /\ held \in {{}, {"state"}, {"state", "api"}, {"state", "api", "downloader"}}
  /\ chat \in 0..Chats

WalkTypes ==
  /\ queue \in Seq(Msgs)
  /\ task \in [Msgs -> {"none", "plain", "net", "write", "disk", "failed", "done", "cancelled"}]
  /\ cause \in {"none", "ok", "failed", "unauthorized", "disk", "cancel"}

SectionTypes ==
  /\ section \in 0..Len(Table) /\ pages \subseteq Sections
  /\ step \in {"fetch", "files", "page", "last page"}

FileTypes ==
  file \in [Files -> {"broken", "net", "write", "failed", "fixed", "cancelled"}]

FlagTypes ==
  /\ handlers \in BOOLEAN /\ shutdown \in BOOLEAN /\ force \in BOOLEAN /\ cancel \in BOOLEAN
  /\ sig \in {0, SIGINT, SIGTERM} /\ runner \in 0..2
  /\ signals \in 0..MaxSignals

FaultTypes == faults \in 0..MaxFaults /\ logged \in 0..faults

ResultTypes ==
  /\ stats \in BOOLEAN
  /\ errors \subseteq {"chat", "media", "section", "verify", "file", "release"}
  /\ raised \in {"none", "error", "cancel"}
  /\ code \in {NoCode, 0, 1, 128 + SIGINT, 128 + SIGTERM}

Types ==
  MainTypes /\ WalkTypes /\ SectionTypes /\ FileTypes /\ FlagTypes /\ FaultTypes /\ ResultTypes

(* The messages still in the deque are the latest taken, in order; a message *)
(* with a download that runs is in it, so none is stored before its file;    *)
(* the window bounds what runs.                                              *)
Deque ==
  /\ \A i \in 1..Len(queue) : queue[i] = Taken - Len(queue) + i
  /\ \A n \in Running : \E i \in 1..Len(queue) : queue[i] = n
  /\ Cardinality(Running) <= Limit

(* Types, and the shape of the deque. *)
TypeOK == Types /\ Deque

(* Exit code 0 of a run nobody interrupted before it started says that all  *)
(* it was asked for is done: every chat walked, every section and repair    *)
(* gone through, everything closed, and nothing failed on the way but what  *)
(* the code logs and does not count: a file of a section (README.md:343     *)
(* promises 1 for it), the frequent contacts, the list of left channels.    *)
HonestExit ==
  pc = "exit" /\ code = 0 /\ runner = 0 =>
    /\ faults = logged /\ sig = 0 /\ chat = Chats
    /\ options.dryRun \/ pages = Sections
    /\ options.verify => \A f \in Files : file[f] = "fixed"

(* A download of a walk never outlives it: none is alive once the pipeline   *)
(* is left, however often the wait at its exit is cancelled.                 *)
WalkLeavesNothing ==
  Running # {} => pc \in Walking \cup {"leave"} /\ held = {"state", "api", "downloader"}

(* After a signal was handled no chat and no download of a walk begins and  *)
(* the global data is not begun; after a forced stop nothing of the run     *)
(* begins at all, and the report is left out.                                *)
StopRespected ==
  [][ /\ shutdown => chat' = chat /\ Cardinality({n \in Msgs : task'[n] = "net"})
                                      <= Cardinality({n \in Msgs : task[n] = "net"})
      /\ shutdown /\ pc # "section" => pc' # "section"
      /\ force /\ pc' # pc => pc' \in {"leave", "settle", "report", "close", "exit"}
    ]_vars

(* A forced stop ends the run whatever Telegram does. *)
EndsAfterForce == force ~> pc \in Ended

(* README.md:339: exit code 130 on Ctrl+C, before the start of the export   *)
(* included.                                                                 *)
InterruptedNonZero == pc = "exit" /\ signals > 0 => code # 0
=============================================================================
