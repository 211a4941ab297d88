----------------------------- MODULE LiveStream -----------------------------
(***************************************************************************)
(* `tg watch` over one chat: live messages handled by one task each, the   *)
(* catch-up that replays what was missed at a start or after a reconnect,  *)
(* the mark that says up to where messages were handed to the reader, and  *)
(* the file the mark survives in.                                          *)
(*                                                                         *)
(* Simplifications.  Edits and deletions move no mark and are left out.    *)
(* The save interval is a choice at every save.  A write to the reader     *)
(* takes any time but does not fail.  Writing the file is atomic.          *)
(***************************************************************************)
EXTENDS Naturals, Sequences, FiniteSets

CONSTANTS
  MaxMsg,        \* highest message id (bounds the chat)
  InitMark,      \* mark on disk at first; 0: the chat has none
  Own,           \* the account's own messages
  ShowOutgoing,  \* FALSE with --no-outgoing
  CatchupLimit,  \* --catchup-limit
  TitleKnown,    \* the chat's name is known from the start
  Faults,        \* which disturbances may happen
  MaxFaults      \* bound on their number

Ids == 1 .. MaxMsg

ASSUME WatchAssumption ==
  /\ MaxMsg \in Nat \ {0} /\ InitMark \in 0 .. MaxMsg
  /\ Own \subseteq Ids
  /\ ShowOutgoing \in BOOLEAN /\ TitleKnown \in BOOLEAN
  /\ CatchupLimit \in Nat \ {0}
  /\ MaxFaults \in Nat

ASSUME DisturbancesAreKnown == Faults \subseteq {"disconnect", "askfail", "stop", "kill"}

VARIABLES
  posted,    \* newest message of the chat on the server
  online,    \* updates are flowing
  proc,      \* "down", "up", or "stopping" after the last save
  mark,      \* WatchState._chats[chat]; 0 is no mark
  saved,     \* the mark in the file
  titled,    \* the chat is in _titles
  shownGap,  \* _shown_in_gap[chat]
  openGaps,  \* _open_gaps
  unfilled,  \* _gap_unfilled
  fill,      \* the catch-up holding _filling
  starting,  \* that catch-up is the one run() waits for
  todo,      \* history it has read and not handed over
  turn,      \* the message of it on its way to the reader
  inbox,     \* updates received, their handlers not begun
  live,      \* where each live handler stands
  queue,     \* tasks at the sink's lock, first come first served
  copies,    \* how often the reader got each message (history variable)
  repeatOK,  \* messages whose repetition is accounted for (history variable)
  cut,       \* messages the limit left out (history variable)
  dropped,   \* under the saved mark and on their way when a process died (history)
  heard,     \* the reader follows the chat since this id (history variable)
  faults

world == <<posted, online>>
marks == <<mark, saved>>
gap == <<shownGap, openGaps, unfilled>>
replay == <<fill, starting, todo, turn>>
reader == <<copies, repeatOK, cut, dropped, heard>>
vars == <<world, proc, marks, titled, gap, replay, inbox, live, queue, reader,
          faults>>

Later(a, b) == IF a > b THEN a ELSE b
Newest(S) == CHOOSE i \in S : \A j \in S : j <= i
Hidden(m) == ~ShowOutgoing /\ m \in Own

\* Mutant: the mark is the next message expected.
NotedNext(m) == Later(mark, m + 1)

\* WatchState.note: the mark only moves forward.
Noted(m) == Later(mark, m)

\* save() writes, unless the last write is younger than the interval.
MaybeSave(m) == saved' \in {saved, m}

\* _pass_over.
PassOver(m) == mark' = Noted(m) /\ MaybeSave(Noted(m))

InFlight == {m \in Ids : live[m] # "none"}

-----------------------------------------------------------------------------
(* The chat and the connection.                                            *)

Disturb(kind) == kind \in Faults /\ faults < MaxFaults /\ faults' = faults + 1

Post ==
  /\ posted < MaxMsg
  /\ posted' = posted + 1
  /\ inbox' = IF proc = "up" /\ online THEN Append(inbox, posted + 1) ELSE inbox
  /\ UNCHANGED <<online, proc, marks, titled, gap, replay, live, queue, reader,
                 faults>>

Disconnect ==
  /\ Disturb("disconnect")
  /\ proc = "up" /\ online
  /\ online' = FALSE
  /\ UNCHANGED <<posted, proc, marks, titled, gap, replay, inbox, live, queue,
                 reader>>

\* open_gap: synchronous.  A live message already on its way to the reader
\* may come again from history, since the mark is not over it yet.
OpenGap ==
  /\ openGaps' = openGaps + 1
  /\ repeatOK' = repeatOK \cup InFlight

\* Mutant: nobody is told of a reconnect.
ReconnectUnnoticed ==
  /\ proc = "up" /\ ~online
  /\ online' = TRUE
  /\ UNCHANGED <<posted, proc, marks, titled, gap, replay, inbox, live, queue,
                 reader, faults>>

\* The chained callback opens its gap ahead of any update of the new
\* connection, then waits for the lock.
Reconnect ==
  /\ proc = "up" /\ ~online
  /\ online' = TRUE
  /\ OpenGap
  /\ UNCHANGED <<posted, proc, marks, titled, shownGap, unfilled, replay, inbox,
                 live, queue, copies, cut, dropped, heard, faults>>

-----------------------------------------------------------------------------
(* handle(), one task per update.                                          *)

\* Mutant: a catch-up that failed closes its gap.
InOpenGap == openGaps > 0

InGap == openGaps > 0 \/ unfilled

\* Mutant: the message the mark stands on does not count as seen.
SeenBefore(m) == mark # 0 /\ m < mark

Seen(m) == mark # 0 /\ m <= mark

\* The message goes to the sink, by way of the chat's name when that is new.
Send(m, stage) ==
  IF titled
  THEN /\ queue' = Append(queue, [by |-> "live", id |-> m])
       /\ live' = [live EXCEPT ![m] = stage]
  ELSE /\ live' = [live EXCEPT ![m] = IF stage = "gap" THEN "gapname" ELSE "name"]
       /\ UNCHANGED queue

\* Up to the first await of the handler.
Handle ==
  /\ proc = "up" /\ inbox # <<>>
  /\ inbox' = Tail(inbox)
  /\ heard' = IF heard = 0 THEN Head(inbox) ELSE heard
  /\ LET m == Head(inbox) IN
     \/ /\ Seen(m) \/ (InGap /\ m \in shownGap)
        /\ UNCHANGED <<marks, shownGap, live, queue>>
     \/ /\ ~Seen(m) /\ InGap /\ m \notin shownGap
        /\ shownGap' = shownGap \cup {m}
        /\ IF Hidden(m) THEN UNCHANGED <<live, queue>> ELSE Send(m, "gap")
        /\ UNCHANGED marks
     \/ /\ ~Seen(m) /\ ~InGap /\ Hidden(m)
        /\ PassOver(m)
        /\ UNCHANGED <<shownGap, live, queue>>
     \/ /\ ~Seen(m) /\ ~InGap /\ ~Hidden(m)
        /\ Send(m, "plain")
        /\ UNCHANGED <<marks, shownGap>>
  /\ UNCHANGED <<world, proc, titled, openGaps, unfilled, replay, copies,
                 repeatOK, cut, dropped, faults>>

\* _title_of: asked for once per chat; a failure is not remembered.
Title(m) ==
  /\ proc # "down" /\ live[m] \in {"name", "gapname"}
  /\ titled' \in {titled, TRUE}
  /\ live' = [live EXCEPT ![m] = IF live[m] = "gapname" THEN "gap" ELSE "plain"]
  /\ queue' = Append(queue, [by |-> "live", id |-> m])
  /\ UNCHANGED <<world, proc, marks, gap, replay, inbox, reader, faults>>

\* RecordSink.emit: one writer at a time, in order of arrival.
Emit ==
  /\ proc # "down" /\ queue # <<>>
  /\ LET e == Head(queue) IN
     /\ copies' = [copies EXCEPT ![e.id] = @ + 1]
     /\ IF e.by = "live"
        THEN /\ live' = [live EXCEPT ![e.id] =
                           IF @ = "gap" THEN "none" ELSE "written"]
             /\ UNCHANGED fill
        ELSE /\ fill' = IF fill = "writing" THEN "written" ELSE fill
             /\ UNCHANGED live
  /\ queue' = Tail(queue)
  /\ UNCHANGED <<world, proc, marks, titled, gap, starting, todo, turn, inbox,
                 repeatOK, cut, dropped, heard, faults>>

\* Back from the sink, a message outside any gap moves the mark.
NoteLive(m) ==
  /\ proc # "down" /\ live[m] = "written"
  /\ live' = [live EXCEPT ![m] = "none"]
  /\ PassOver(m)
  /\ UNCHANGED <<world, proc, titled, gap, replay, inbox, queue, reader, faults>>

-----------------------------------------------------------------------------
(* fill_gap(), one at a time.                                              *)

AcquireFilling ==
  /\ proc = "up" /\ fill = "none" /\ openGaps > 0
  /\ fill' = "asking"
  /\ UNCHANGED <<world, proc, marks, titled, gap, starting, todo, turn, inbox,
                 live, queue, reader, faults>>

\* Mutant: history is asked for from one message too late.
MissedLate == IF mark = 0 THEN {} ELSE (mark + 2) .. posted

\* missed_messages: nothing for a chat without a mark or not ahead of it,
\* otherwise the latest of what came after.
Missed == IF mark = 0 THEN {} ELSE (mark + 1) .. posted
Latest == {i \in Missed : i + CatchupLimit > posted}

Ask ==
  /\ proc = "up" /\ fill = "asking" /\ online
  /\ todo' = Latest
  /\ cut' = cut \cup (Missed \ Latest)
  /\ titled' = (titled \/ Latest # {})
  /\ fill' = "replaying"
  /\ UNCHANGED <<world, proc, marks, gap, starting, turn, inbox, live, queue,
                 copies, repeatOK, dropped, heard, faults>>

\* The oldest message of what is left: shown already, left out, or written.
ReplayNext(m) ==
  /\ proc = "up" /\ fill = "replaying"
  /\ m \in todo /\ \A i \in todo : m <= i
  /\ todo' = todo \ {m} /\ turn' = m
  /\ \/ /\ m \in shownGap
        /\ mark' = Noted(m)
        /\ UNCHANGED <<saved, shownGap, fill, queue>>
     \/ /\ m \notin shownGap /\ Hidden(m)
        /\ shownGap' = shownGap \cup {m}
        /\ PassOver(m)
        /\ UNCHANGED <<fill, queue>>
     \/ /\ m \notin shownGap /\ ~Hidden(m)
        /\ shownGap' = shownGap \cup {m}
        /\ queue' = Append(queue, [by |-> "replay", id |-> m])
        /\ fill' = "writing"
        /\ UNCHANGED marks
  /\ UNCHANGED <<world, proc, titled, openGaps, unfilled, starting, inbox, live,
                 reader, faults>>

NoteReplayed ==
  /\ proc = "up" /\ fill = "written"
  /\ fill' = "replaying"
  /\ PassOver(turn)
  /\ UNCHANGED <<world, proc, titled, gap, starting, todo, turn, inbox, live,
                 queue, reader, faults>>

\* Mutant: closing the last gap forgets what was shown in it.
ForgetGaps == UNCHANGED marks /\ shownGap' = {}

\* _close_gaps, the last gap closed: the marks move over what was shown in it.
CloseGaps ==
  IF shownGap = {}
  THEN UNCHANGED <<marks, shownGap>>
  ELSE PassOver(Newest(shownGap)) /\ shownGap' = {}

FillDone ==
  /\ proc = "up" /\ fill = "replaying" /\ todo = {}
  /\ fill' = "none" /\ starting' = FALSE /\ turn' = 0
  /\ openGaps' = openGaps - 1 /\ unfilled' = FALSE
  /\ IF openGaps = 1 THEN CloseGaps ELSE UNCHANGED <<marks, shownGap>>
  /\ UNCHANGED <<world, proc, titled, todo, inbox, live, queue, reader, faults>>

\* The request for history fails.  After a reconnect the stream goes on with
\* the gap unfilled; at the start the error ends the run.
FillFail ==
  /\ Disturb("askfail")
  /\ proc = "up" /\ fill = "asking"
  /\ fill' = "none" /\ starting' = FALSE
  /\ openGaps' = openGaps - 1 /\ unfilled' = TRUE
  /\ IF starting
     THEN proc' = "stopping" /\ saved' = mark
     ELSE UNCHANGED <<proc, saved>>
  /\ UNCHANGED <<world, mark, titled, shownGap, todo, turn, inbox, live, queue,
                 reader>>

-----------------------------------------------------------------------------
(* The process.                                                            *)

\* What dies with the process.
Forget ==
  /\ proc' = "down" /\ mark' = saved
  /\ titled' = TitleKnown
  /\ shownGap' = {} /\ openGaps' = 0 /\ unfilled' = FALSE
  /\ fill' = "none" /\ starting' = FALSE /\ todo' = {} /\ turn' = 0
  /\ inbox' = <<>> /\ live' = [m \in Ids |-> "none"] /\ queue' = <<>>
  /\ repeatOK' = repeatOK \cup {m \in Ids : m > saved /\ copies[m] > 0}
  /\ dropped' = dropped \cup {m \in InFlight : m <= saved}

\* run(): the gap is open before the first event can arrive.
Start ==
  /\ proc = "down"
  /\ proc' = "up" /\ online' = TRUE
  /\ mark' = saved
  /\ OpenGap
  /\ starting' = TRUE
  /\ UNCHANGED <<posted, saved, titled, shownGap, unfilled, fill, todo, turn,
                 inbox, live, queue, copies, cut, dropped, heard, faults>>

Without(k) == SubSeq(queue, 1, k - 1) \o SubSeq(queue, k + 1, Len(queue))

\* The end of run(): the marks reach the disk.  A catch-up the run was waiting
\* for is cancelled, and with it, perhaps, the record it had at the sink.
Stop ==
  /\ Disturb("stop")
  /\ proc = "up"
  /\ proc' = "stopping" /\ saved' = mark
  /\ IF starting
     THEN /\ fill' = "none" /\ starting' = FALSE
          /\ openGaps' = openGaps - 1 /\ unfilled' = TRUE
          /\ \/ UNCHANGED queue
             \/ \E k \in 1 .. Len(queue) : queue[k].by = "replay" /\ queue' = Without(k)
     ELSE UNCHANGED <<fill, starting, openGaps, unfilled, queue>>
  /\ UNCHANGED <<world, mark, titled, shownGap, todo, turn, inbox, live, reader>>

\* The sink closes behind the records already at its lock.
Exit ==
  /\ proc = "stopping" /\ queue = <<>>
  /\ Forget
  /\ UNCHANGED <<world, saved, copies, cut, heard, faults>>

Kill ==
  /\ Disturb("kill")
  /\ proc # "down"
  /\ Forget
  /\ UNCHANGED <<world, saved, copies, cut, heard>>

-----------------------------------------------------------------------------
Init ==
  /\ posted = InitMark /\ online = TRUE /\ proc = "down"
  /\ mark = InitMark /\ saved = InitMark
  /\ titled = TitleKnown
  /\ shownGap = {} /\ openGaps = 0 /\ unfilled = FALSE
  /\ fill = "none" /\ starting = FALSE /\ todo = {} /\ turn = 0
  /\ inbox = <<>> /\ live = [m \in Ids |-> "none"] /\ queue = <<>>
  /\ copies = [m \in Ids |-> 0] /\ repeatOK = {} /\ cut = {}
  /\ dropped = {}
  /\ heard = InitMark
  /\ faults = 0

Work ==
  \/ Reconnect \/ Handle \/ Emit
  \/ \E m \in Ids : Title(m) \/ NoteLive(m) \/ ReplayNext(m)
  \/ AcquireFilling \/ Ask \/ NoteReplayed \/ FillDone
  \/ Start \/ Exit

Disturbance == Disconnect \/ FillFail \/ Stop \/ Kill

Next == Post \/ Work \/ Disturbance

Spec == Init /\ [][Next]_vars

\* The event loop runs what is ready, the connection comes back, and the
\* listener is started again.
FairSpec == Spec /\ WF_vars(Work)

-----------------------------------------------------------------------------
(* Properties.                                                             *)

WorldTypes ==
  /\ posted \in 0 .. MaxMsg /\ online \in BOOLEAN
  /\ proc \in {"down", "up", "stopping"} /\ titled \in BOOLEAN
  /\ faults \in Nat

MarkTypes ==
  /\ mark \in 0 .. MaxMsg /\ saved \in 0 .. MaxMsg /\ heard \in 0 .. MaxMsg

GapTypes ==
  /\ shownGap \subseteq Ids /\ openGaps \in Nat /\ unfilled \in BOOLEAN

FillTypes ==
  /\ fill \in {"none", "asking", "replaying", "writing", "written"}
  /\ starting \in BOOLEAN /\ todo \subseteq Ids /\ turn \in 0 .. MaxMsg

StreamTypes ==
  /\ inbox \in Seq(Ids)
  /\ live \in [Ids -> {"none", "name", "gapname", "plain", "gap", "written"}]
  /\ queue \in Seq([by : {"live", "replay"}, id : Ids])

ReaderTypes ==
  /\ copies \in [Ids -> Nat] /\ repeatOK \subseteq Ids
  /\ cut \subseteq Ids /\ dropped \subseteq Ids

\* Every variable has its type.
TypeOK ==
  /\ WorldTypes /\ MarkTypes /\ GapTypes /\ FillTypes /\ StreamTypes /\ ReaderTypes

\* A message the reader is owed: newer than the first one it was given, not
\* left out by --no-outgoing and not reported as skipped by the limit.
Owed(m) == heard # 0 /\ heard < m /\ ~Hidden(m) /\ m \notin cut

\* On its way to the reader in this process.
AtSink(m) == \E k \in 1 .. Len(queue) : queue[k].id = m

\* WatchState.note: the mark says a message was handed to the reader.  No
\* message at or below the mark is still owed, except one that is on its way,
\* and one that was on its way, below the mark in the file, when a process
\* died: while a gap closes, the mark passes over messages that wait for the
\* sink or for the name of the chat.
LossAccountedFor ==
  \A m \in Ids :
    Owed(m) /\ m <= mark =>
      copies[m] > 0 \/ m \in InFlight \/ AtSink(m) \/ m \in dropped

\* When the connection is up, no gap is open and no handler is at work, the
\* mark is at the newest message and everything up to it was handed over:
\* what _close_gaps says, and what a crossing of live messages with the
\* catch-up could break.
CaughtUp ==
  proc = "up" /\ online /\ ~InGap /\ inbox = <<>> /\ InFlight = {} /\ heard # 0
    => /\ mark = posted
       /\ \A m \in 1 .. posted : Owed(m) => copies[m] > 0 \/ m \in dropped

\* "A message one path has shown, the other does not repeat" (docs/cli.md),
\* except after a restart and for a message on its way to the reader when the
\* connection came back.
RepeatsAccountedFor == \A m \in Ids : copies[m] > 1 => m \in repeatOK

\* Every message of a chat that is followed reaches the reader, or is one of
\* those the limit left out or a dying process took with it; a catch-up that
\* failed leaves the rest to the next reconnect or start.
EventuallyHanded ==
  \A m \in Ids :
    posted >= m /\ Owed(m)
      ~> copies[m] > 0 \/ m \in cut \/ m \in dropped \/ unfilled
=============================================================================
