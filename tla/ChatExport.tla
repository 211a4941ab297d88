----------------------------- MODULE ChatExport -----------------------------
(***************************************************************************)
(* The incremental export of one chat: export_chat, its two phases, the    *)
(* pointers of export_state, the message table and the rendered pages,     *)
(* with the process signalled, failing or killed at any step and started   *)
(* again.                                                                  *)
(*                                                                         *)
(* Simplifications.  A message is its id, and its date is its id: dates    *)
(* grow with ids.  The media pipeline is a set of messages whose download  *)
(* runs; it hands messages over oldest first (ExportRun has the window     *)
(* and the waits).  The month pages hold PageSize consecutive ids each.    *)
(* An edit of a stored message is left out.                                *)
(***************************************************************************)
EXTENDS Naturals, FiniteSets

CONSTANTS
  MaxId,      \* highest message id (bounds the chat)
  InitTop,    \* newest message when the story begins; 0 is an empty chat
  Kept,       \* ids that pass _keep_message
  Deletable,  \* ids that may disappear from the server
  BatchSize,  \* BATCH_SIZE
  PageSize,   \* messages per month page
  DateFroms,  \* values date_from may have in the configuration; 0 is none
  DateTos,    \* values date_to may have; MaxId is none
  Faults,     \* which disturbances the environment may cause
  MaxFaults   \* bound on their number

Ids == 1 .. MaxId
AllFaults == {"signal", "force", "fail", "kill", "delete", "reset", "purge"}

ASSUME BoundsAssumption ==
  /\ MaxId \in Nat \ {0}
  /\ BatchSize \in Nat \ {0}
  /\ PageSize \in Nat \ {0}
  /\ MaxFaults \in Nat

ASSUME ChatAssumption ==
  /\ InitTop \in 0 .. MaxId
  /\ Kept \subseteq Ids
  /\ Deletable \subseteq Ids
  /\ DateFroms \subseteq 0 .. MaxId
  /\ DateTos \subseteq Ids
  /\ Faults \subseteq AllFaults

VARIABLES
  server,     \* ids on the server
  top,        \* newest id ever posted
  db,         \* ids in the messages table
  last,       \* export_state.last_msg_id
  oldest,     \* export_state.oldest_msg_id
  full,       \* export_state.full_history
  count,      \* export_state.messages_count
  pages,      \* ids shown by the month pages on disk
  redirect,   \* messages.html is on disk
  faults      \* disturbances so far

VARIABLES
  pc,         \* where the exporter stands; "idle" when no process runs
  phase,      \* 1: newer than the pointer, 2: downward from the oldest
  shutdown,   \* _shutdown
  last0,      \* the pointers as export_chat read them
  oldest0,
  full0,
  stored0,    \* messages_in_db at that moment
  dateFrom,
  dateTo,
  goal,       \* newest id when the run began (history variable)
  floor,      \* min_id of the iterator
  cursor,     \* everything the iterator still has to yield is below this
  newest,     \* new_max_id, phase2_max_id
  lowest,     \* current_oldest
  exhausted,  \* the iterator ended by itself
  pending,    \* messages in the media pipeline
  batch,      \* messages ready to be stored
  wrote,      \* this chat's counters say something was exported
  outcome     \* how the last run of this chat ended

durable == <<last, oldest, full, count>>
disk == <<pages, redirect>>
env == <<server, top>>
snapshot == <<last0, oldest0, full0, stored0, dateFrom, dateTo, goal>>
walk == <<floor, cursor, newest, lowest, exhausted, pending, batch>>
process == <<pc, phase, shutdown, snapshot, walk, wrote, outcome>>
vars == <<env, db, durable, disk, faults, process>>

Min2(a, b) == IF a < b THEN a ELSE b
Max2(a, b) == IF a > b THEN a ELSE b

-----------------------------------------------------------------------------
(* The row of export_state.                                                *)

\* Mutant: the two marks added up instead of chosen between.
AnchorSum(o, l) == o + l

\* `oldest or last`, the offset_id of the descending pass.
Anchor(o, l) == IF o > 0 THEN o ELSE l

\* The oldest mark only falls; zero means "never descended" and loses.
MergeOldest(old, new) ==
  IF old = 0 THEN new ELSE IF new = 0 THEN old ELSE Min2(old, new)

\* Mutant: a plain assignment of what the writer remembered.
AssignLast(old, new) == new

\* The pointer only grows.
MergeLast(old, new) == Max2(old, new)

\* The flag only turns on.
MergeFull(old, new) == old \/ new

\* _upsert_chat_state with all four columns.
CommitPhaseProgress(l, o, f, c) ==
  /\ last' = MergeLast(last, l)
  /\ oldest' = MergeOldest(oldest, o)
  /\ full' = MergeFull(full, f)
  /\ count' = c

\* Mutant: the count read at the start is written back.
CountAtStart == stored0

\* _chat_message_count: recounted only when the run wrote something.
MessageCount == IF wrote THEN Cardinality(db) ELSE stored0

\* The ids a later run of the two phases will not ask the server for.
AskedByPhase1(i) == last > 0 /\ i > last
AskedByPhase2(i) ==
  ~full /\ (Anchor(oldest, last) = 0 \/ i < Anchor(oldest, last))
Claimed == {i \in Ids : ~AskedByPhase1(i) /\ ~AskedByPhase2(i)}

-----------------------------------------------------------------------------
(* The environment: the chat on the server and its user.                   *)

Disturb(kind) ==
  /\ kind \in Faults
  /\ faults < MaxFaults
  /\ faults' = faults + 1

Post ==
  /\ top < MaxId
  /\ top' = top + 1
  /\ server' = server \cup {top + 1}
  /\ UNCHANGED <<db, durable, disk, faults, process>>

DeleteMessage(m) ==
  /\ Disturb("delete")
  /\ m \in server \cap Deletable
  /\ server' = server \ {m}
  /\ UNCHANGED <<top, db, durable, disk, process>>

\* state reset: the pointers go back to zero, on request with the messages.
\* The lock over the export directory keeps it out of a running export.
ResetProgress(deleteMessages) ==
  /\ Disturb("reset")
  /\ pc = "idle"
  /\ last' = 0 /\ oldest' = 0 /\ full' = FALSE
  /\ IF deleteMessages
     THEN db' = {} /\ count' = 0
     ELSE UNCHANGED <<db, count>>
  /\ outcome' = "none"
  /\ UNCHANGED <<env, disk, pc, phase, shutdown, snapshot, walk, wrote>>

\* purge: the rows of the chat and its directory.
PurgeChat ==
  /\ Disturb("purge")
  /\ pc = "idle"
  /\ last' = 0 /\ oldest' = 0 /\ full' = FALSE /\ count' = 0
  /\ db' = {} /\ pages' = {} /\ redirect' = FALSE
  /\ outcome' = "none"
  /\ UNCHANGED <<env, pc, phase, shutdown, snapshot, walk, wrote>>

-----------------------------------------------------------------------------
(* A run over the chat.                                                    *)

Start(df, dt) ==
  /\ pc = "idle"
  /\ pc' = "phase1"
  /\ last0' = last /\ oldest0' = oldest /\ full0' = full
  /\ stored0' = Cardinality(db)
  /\ dateFrom' = df /\ dateTo' = dt /\ goal' = top
  /\ shutdown' = FALSE /\ wrote' = FALSE /\ outcome' = "none"
  /\ UNCHANGED <<env, db, durable, disk, faults, phase, walk>>

\* The iterator walks down from below `high` and stops above `low`.
BeginWalk(p, low, high) ==
  /\ pc' = "walk" /\ phase' = p
  /\ floor' = low /\ cursor' = high
  /\ exhausted' = FALSE /\ pending' = {} /\ batch' = {}
  /\ UNCHANGED <<env, db, durable, disk, faults, shutdown, snapshot, wrote,
                 outcome>>

FetchNewMessages ==
  /\ pc = "phase1" /\ last0 > 0
  /\ BeginWalk(1, last0, dateTo + 1)
  /\ newest' = last0 /\ lowest' = 0

SkipNewMessages ==
  /\ pc = "phase1" /\ last0 = 0
  /\ pc' = "gate"
  /\ UNCHANGED <<env, db, durable, disk, faults, phase, shutdown, snapshot,
                 walk, wrote, outcome>>

\* Mutant: the date wins over the anchor.
PhaseTwoByDate == dateTo + 1

\* phase_two_kwargs: an id anchor drops the date.
PhaseTwoStart == IF Anchor(oldest0, last0) > 0
                 THEN Anchor(oldest0, last0) ELSE dateTo + 1

FetchOldMessages ==
  /\ pc = "gate" /\ ~full0 /\ ~shutdown
  /\ BeginWalk(2, 0, PhaseTwoStart)
  /\ newest' = last0 /\ lowest' = oldest0

\* The iterator's next message: the newest one below the cursor.
Between(lo, hi) == {k \in server : lo < k /\ k < hi}
Yields(m) == m \in Between(floor, cursor) /\ Between(m, cursor) = {}

\* note(): both pointers move over a skipped message as well.
Note(m) ==
  /\ cursor' = m
  /\ newest' = Max2(newest, m)
  /\ lowest' = IF phase = 2 /\ (lowest = 0 \/ m < lowest) THEN m ELSE lowest

\* The pipeline hands messages back oldest first; older means a larger id.
HandedOver(ready, all) ==
  /\ ready \subseteq all
  /\ \A r \in ready, w \in all \ ready : r > w

TakeMessage(m) ==
  /\ pc = "walk" /\ ~shutdown
  /\ Yields(m) /\ m >= dateFrom /\ m \in Kept
  /\ Note(m)
  /\ \E ready \in SUBSET (pending \cup {m}) :
       /\ HandedOver(ready, pending \cup {m})
       /\ pending' = (pending \cup {m}) \ ready
       /\ batch' = batch \cup ready
       /\ pc' = IF Cardinality(batch \cup ready) >= BatchSize
                THEN "flush" ELSE "walk"
  /\ wrote' = TRUE
  /\ UNCHANGED <<env, db, durable, disk, faults, phase, shutdown, snapshot,
                 floor, exhausted, outcome>>

SkipMessage(m) ==
  /\ pc = "walk" /\ ~shutdown
  /\ Yields(m) /\ m >= dateFrom /\ m \notin Kept
  /\ Note(m)
  /\ UNCHANGED <<env, db, durable, disk, faults, pc, phase, shutdown, snapshot,
                 floor, exhausted, pending, batch, wrote, outcome>>

StoreBatch ==
  /\ pc = "flush"
  /\ db' = db \cup batch /\ batch' = {}
  /\ pc' = "walk"
  /\ UNCHANGED <<env, durable, disk, faults, phase, shutdown, snapshot, floor,
                 cursor, newest, lowest, exhausted, pending, wrote, outcome>>

\* Mutant: the loop is left without draining the pipeline.
LeaveUndrained(byItself) ==
  /\ pc' = "store" /\ exhausted' = byItself
  /\ pending' = {}
  /\ UNCHANGED <<env, db, durable, disk, faults, phase, shutdown, snapshot,
                 floor, cursor, newest, lowest, batch, wrote, outcome>>

\* Leaving the loop drains the pipeline into the last batch.
LeaveLoop(byItself) ==
  /\ pc' = "store" /\ exhausted' = byItself
  /\ batch' = batch \cup pending /\ pending' = {}
  /\ UNCHANGED <<env, db, durable, disk, faults, phase, shutdown, snapshot,
                 floor, cursor, newest, lowest, wrote, outcome>>

Break(m) ==
  /\ pc = "walk"
  /\ Yields(m)
  /\ shutdown \/ m < dateFrom
  /\ LeaveLoop(FALSE)

Exhaust ==
  /\ pc = "walk"
  /\ Between(floor, cursor) = {}
  /\ LeaveLoop(TRUE)

\* Mutant: a last batch below the threshold is forgotten.
ForgetRest ==
  /\ pc = "store"
  /\ batch' = {}
  /\ pc' = "mark"
  /\ UNCHANGED <<env, db, durable, disk, faults, phase, shutdown, snapshot,
                 floor, cursor, newest, lowest, exhausted, pending, wrote,
                 outcome>>

StoreRest ==
  /\ pc = "store"
  /\ db' = db \cup batch /\ batch' = {}
  /\ pc' = "mark"
  /\ UNCHANGED <<env, durable, disk, faults, phase, shutdown, snapshot, floor,
                 cursor, newest, lowest, exhausted, pending, wrote, outcome>>

\* Mutant: a walk that was stopped moves the pointer as well.
PointerMovesAnyway == newest > last0

\* The end of phase 1: the pointer moves only if nobody asked to stop.
PointerMayMove == newest > last0 /\ ~shutdown

MarkNewest ==
  /\ pc = "mark" /\ phase = 1
  /\ last' = IF PointerMayMove THEN MergeLast(last, newest) ELSE last
  /\ pc' = "gate"
  /\ UNCHANGED <<env, db, oldest, full, count, disk, faults, phase, shutdown,
                 snapshot, walk, wrote, outcome>>

\* The end of phase 2: one commit of all four columns.
NewFull == ~shutdown /\ exhausted

MarkPhaseTwo ==
  /\ pc = "mark" /\ phase = 2
  /\ CommitPhaseProgress(Max2(last0, newest),
                         IF lowest > 0 THEN lowest ELSE oldest0,
                         NewFull, MessageCount)
  /\ pc' = "render"
  /\ UNCHANGED <<env, db, disk, faults, phase, shutdown, snapshot, walk, wrote,
                 outcome>>

\* Phase 2 is skipped; phase 1 may still have changed the count.
SkipOldMessages ==
  /\ pc = "gate" /\ (full0 \/ shutdown)
  /\ count' = IF MessageCount > 0 THEN MessageCount ELSE count
  /\ pc' = "render"
  /\ UNCHANGED <<env, db, last, oldest, full, disk, faults, phase, shutdown,
                 snapshot, walk, wrote, outcome>>

-----------------------------------------------------------------------------
(* Rendering the pages.                                                    *)

Months == {(i - 1) \div PageSize : i \in Ids}
MonthIds(k) == {i \in Ids : (i - 1) \div PageSize = k}
MonthsToRender == {k \in Months : ~(db \cap MonthIds(k) \subseteq pages)}

\* Mutant: any page on disk counts, also one a stopped render left.
AnyPageIsCurrent == ~wrote /\ (redirect \/ pages # {})

PagesAreCurrent == ~wrote /\ redirect

\* The process is gone or has moved on; what it remembered is gone with it.
EndRun(how) ==
  /\ pc' = "idle" /\ phase' = 1 /\ shutdown' = FALSE
  /\ last0' = 0 /\ oldest0' = 0 /\ full0' = FALSE /\ stored0' = 0
  /\ dateFrom' = 0 /\ dateTo' = MaxId /\ goal' = 0
  /\ floor' = 0 /\ cursor' = 0 /\ newest' = 0 /\ lowest' = 0
  /\ exhausted' = FALSE /\ pending' = {} /\ batch' = {}
  /\ wrote' = FALSE
  /\ outcome' = how

Finish == EndRun(IF shutdown THEN "stopped" ELSE "ok")

KeepPages ==
  /\ pc = "render"
  /\ PagesAreCurrent \/ db = {}
  /\ Finish
  /\ UNCHANGED <<env, db, durable, disk, faults>>

BeginRender ==
  /\ pc = "render"
  /\ ~PagesAreCurrent /\ db # {}
  /\ pc' = "unlink"
  /\ UNCHANGED <<env, db, durable, disk, faults, phase, shutdown, snapshot,
                 walk, wrote, outcome>>

\* The old pages go one file at a time, in whatever order glob gives.
Unlink ==
  /\ pc = "unlink"
  /\ \/ \E k \in Months :
          /\ pages \cap MonthIds(k) # {}
          /\ pages' = pages \ MonthIds(k)
          /\ UNCHANGED redirect
     \/ redirect /\ redirect' = FALSE /\ UNCHANGED pages
  /\ UNCHANGED <<env, db, durable, faults, process>>

UnlinkDone ==
  /\ pc = "unlink" /\ pages = {} /\ ~redirect
  /\ pc' = "pages"
  /\ UNCHANGED <<env, db, durable, disk, faults, phase, shutdown, snapshot,
                 walk, wrote, outcome>>

RenderMonth(k) ==
  /\ pc = "pages" /\ ~shutdown
  /\ k \in MonthsToRender /\ \A j \in MonthsToRender : k <= j
  /\ pages' = pages \cup (db \cap MonthIds(k))
  /\ UNCHANGED <<env, db, durable, redirect, faults, process>>

\* Mutant: a stopped render writes messages.html as well.
RenderEndAlways ==
  /\ pc = "pages"
  /\ MonthsToRender = {} \/ shutdown
  /\ redirect' = TRUE
  /\ Finish
  /\ UNCHANGED <<env, db, durable, pages, faults>>

\* messages.html comes last, and not at all when the render was stopped.
RenderEnd ==
  /\ pc = "pages"
  /\ \/ MonthsToRender = {} /\ redirect' = TRUE
     \/ MonthsToRender # {} /\ shutdown /\ UNCHANGED redirect
  /\ Finish
  /\ UNCHANGED <<env, db, durable, pages, faults>>

-----------------------------------------------------------------------------
(* What goes wrong.                                                        *)

Signal ==
  /\ Disturb("signal")
  /\ pc # "idle" /\ ~shutdown
  /\ shutdown' = TRUE
  /\ UNCHANGED <<env, db, durable, disk, pc, phase, snapshot, walk, wrote,
                 outcome>>

\* A second signal within the window cancels the task.  A write under way is
\* completed or not begun.  The render thread is not cancelled: it stops at
\* its next look at the flag, which is RenderEnd.
ForceQuit ==
  /\ Disturb("force")
  /\ pc \notin {"idle", "unlink", "pages"} /\ shutdown
  /\ db' \in {db, IF pc \in {"flush", "store"} THEN db \cup batch ELSE db}
  /\ EndRun("forced")
  /\ UNCHANGED <<env, durable, disk>>

\* An exception anywhere: the chat is given up, the error recorded.  A batch
\* that fails midway may leave some of its rows.
Fail ==
  /\ Disturb("fail")
  /\ pc # "idle"
  /\ \E part \in SUBSET (IF pc \in {"flush", "store"} THEN batch ELSE {}) :
       db' = db \cup part
  /\ EndRun("failed")
  /\ UNCHANGED <<env, durable, disk>>

Kill ==
  /\ Disturb("kill")
  /\ pc # "idle"
  /\ EndRun("killed")
  /\ UNCHANGED <<env, db, durable, disk>>

-----------------------------------------------------------------------------
Init ==
  /\ top = InitTop /\ server = 1 .. InitTop
  /\ db = {} /\ last = 0 /\ oldest = 0 /\ full = FALSE /\ count = 0
  /\ pages = {} /\ redirect = FALSE
  /\ faults = 0
  /\ pc = "idle" /\ phase = 1 /\ shutdown = FALSE
  /\ last0 = 0 /\ oldest0 = 0 /\ full0 = FALSE /\ stored0 = 0
  /\ dateFrom = 0 /\ dateTo = MaxId /\ goal = 0
  /\ floor = 0 /\ cursor = 0 /\ newest = 0 /\ lowest = 0
  /\ exhausted = FALSE /\ pending = {} /\ batch = {}
  /\ wrote = FALSE /\ outcome = "none"

Run == \E df \in DateFroms, dt \in DateTos : Start(df, dt)

Walk ==
  \/ \E m \in Ids : TakeMessage(m) \/ SkipMessage(m) \/ Break(m)
  \/ StoreBatch \/ Exhaust \/ StoreRest

Step ==
  \/ FetchNewMessages \/ SkipNewMessages
  \/ FetchOldMessages \/ SkipOldMessages
  \/ Walk
  \/ MarkNewest \/ MarkPhaseTwo
  \/ KeepPages \/ BeginRender \/ Unlink \/ UnlinkDone
  \/ \E k \in Months : RenderMonth(k)
  \/ RenderEnd

Disturbance ==
  \/ \E m \in Ids : DeleteMessage(m)
  \/ \E d \in BOOLEAN : ResetProgress(d)
  \/ PurgeChat
  \/ Signal \/ ForceQuit \/ Fail \/ Kill

Next == Post \/ Run \/ Step \/ Disturbance

Spec == Init /\ [][Next]_vars

\* A run, once begun, keeps being scheduled; and the export is run again
\* (cron, or the user), which is what every guarantee about "next time" means.
FairSpec == Spec /\ WF_vars(Step) /\ WF_vars(Run)

-----------------------------------------------------------------------------
(* Properties.                                                             *)

\* Every variable has its type.
TypeOK ==
  /\ server \subseteq Ids /\ top \in 0 .. MaxId
  /\ db \subseteq Ids
  /\ last \in 0 .. MaxId /\ oldest \in 0 .. MaxId /\ full \in BOOLEAN
  /\ count \in Nat
  /\ pages \subseteq Ids /\ redirect \in BOOLEAN
  /\ faults \in Nat
  /\ pc \in {"idle", "phase1", "gate", "walk", "flush", "store", "mark",
             "render", "unlink", "pages"}
  /\ phase \in {1, 2} /\ shutdown \in BOOLEAN
  /\ last0 \in 0 .. MaxId /\ oldest0 \in 0 .. MaxId /\ full0 \in BOOLEAN
  /\ stored0 \in Nat
  /\ dateFrom \in 0 .. MaxId /\ dateTo \in Ids /\ goal \in 0 .. MaxId
  /\ floor \in 0 .. MaxId /\ cursor \in 0 .. MaxId + 1
  /\ newest \in 0 .. MaxId /\ lowest \in 0 .. MaxId
  /\ exhausted \in BOOLEAN
  /\ pending \subseteq Ids /\ batch \subseteq Ids
  /\ wrote \in BOOLEAN
  /\ outcome \in {"none", "ok", "stopped", "forced", "failed", "killed"}

\* What the configuration asks for, whichever of its date_from values was in
\* force: a message below one of them was excluded on purpose at some time.
Wanted == {i \in Kept : \A f \in DateFroms : f <= i}

\* An id is given up -- no later run of the two phases asks for it -- only if
\* its message is stored.  This is what "everything above this id is exported"
\* in _fetch_new_messages and the atomic commit of _fetch_old_messages are
\* for; it has to survive signals, failures and kills at every step.
NothingLost == \A i \in server \cap Wanted \cap Claimed : i \in db

\* The same for every kept message, whatever dates were configured before:
\* "Only a phase 1 that ran to the end may move the pointer", and a date_from
\* that ended the walk is not its end -- the filter can be lifted.
NothingKeptLost == \A i \in server \cap Kept \cap Claimed : i \in db

\* The step that ends a run nobody interrupted.
CleanExit == pc # "idle" /\ pc' = "idle" /\ outcome' = "ok"

\* A run that ends by itself leaves in the database every wanted message that
\* was on the server when it began, up to its date_to.
CleanRunComplete ==
  [][CleanExit => \A i \in server \cap Wanted :
                     i <= goal /\ i <= dateTo => i \in db]_vars

\* The count the index page advertises (message_counts prefers the recorded
\* number) is the number of stored messages after every uninterrupted run,
\* also when the runs before it stored messages and died before counting.
CountHonest == [][CleanExit /\ db # {} => count' = Cardinality(db)]_vars

\* After an uninterrupted run the pages show everything the database holds
\* and the index's link to messages.html leads somewhere, although a run that
\* wrote nothing does not render (_pages_are_current).
PagesShowDatabase ==
  [][CleanExit /\ db # {} => db \subseteq pages' /\ redirect']_vars

\* What only a rewind may do.
Rewind == pc = "idle" /\ pc' = "idle" /\ last' = 0

\* Neither a run nor any fault in it gives progress back: an id that no run
\* needs to ask for stays so until a deliberate rewind.  Phase 2 commits
\* pointers it read before phase 1 moved them, so this rests on the merge in
\* _upsert_chat_state.
ProgressKept == [][Rewind \/ Claimed \subseteq Claimed']_vars

\* Every wanted message no date_to keeps out is stored sooner or later, unless
\* it disappears from the server first.
EventuallyStored ==
  \A i \in {w \in Wanted : \A t \in DateTos : w <= t} :
    i \in server ~> (i \in db \/ i \notin server)

\* What is stored is shown sooner or later.
EventuallyShown == \A i \in Kept : i \in db ~> i \in pages \/ i \notin db

\* The abstract archive, and the claim the pointers stand for.
Archived == INSTANCE Archive
              WITH present <- server, stored <- db, claimed <- Claimed
ImplementsArchive == Archived!Spec
=============================================================================
