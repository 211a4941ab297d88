------------------------------ MODULE LiveStatus ------------------------------
(***************************************************************************)
(* The live status of an export.  The event loop counts messages and files *)
(* chat after chat, starts and ends downloads and waits out the pauses     *)
(* Telegram asks for; the refresh thread of the display reads all of it at *)
(* any moment, one attribute at a time, with a lock around the downloads   *)
(* and the waits and none around the counters.                             *)
(*                                                                         *)
(* Simplifications.  Two counters stand for the nine.  Time is a clock of  *)
(* few ticks.  The text of the lines, rates and sizes are left out.  The   *)
(* total of a chat is what earlier runs stored of it and the most this run *)
(* may add: the code has the count the server gave when the chat began,    *)
(* and does not rule out that more messages arrive than that.              *)
(***************************************************************************)
EXTENDS Naturals, FiniteSets

CONSTANTS
  Tasks,     \* downloads that may run at once
  MaxChats,  \* bound on the chats of the run
  Stored,    \* messages of a chat that earlier runs stored
  MaxMsgs,   \* bound on the messages of a chat
  MaxFiles,  \* bound on the files of a chat
  MaxTime,   \* bound on the clock
  MinLogged, \* MIN_LOGGED_WAIT_SECONDS
  Telethon,  \* who notes the waits of the library
  None

ASSUME StatusAssumption ==
  /\ MaxChats \in Nat /\ Stored \subseteq Nat /\ MaxMsgs \in Nat /\ MaxFiles \in Nat /\ MaxTime \in Nat
  /\ MinLogged \in Nat /\ Telethon \notin Tasks 
  /\ None \notin [wait : [who : Tasks \cup {Telethon}, until : Nat, selfExpiring : BOOLEAN],
                  long : BOOLEAN, logged : BOOLEAN]

VARIABLES
  running,  \* the loop over the chats has not ended
  shown,    \* WaitBoard._shown_in_status
  chat,     \* which chat the loop is at
  counter,  \* the counters of the run
  start,    \* _chat_start
  produced, \* what each chat added to the counters
  task,     \* what a download does: idle, running or waiting
  hold,     \* the wait it is in, and how it was announced
  active,   \* active_downloads
  board,    \* the waits of the board
  now,
  step,     \* where the refresh thread stands in a frame
  seen,     \* the _chat_start it works from
  got,      \* the counters it has read since
  frame     \* what the frame being built shows

loop == <<running, shown, chat, counter, start, produced>>
work == <<task, hold, active, board>>
display == <<step, seen, got, frame>>
vars == <<loop, work, now, display>>

Counters == {"messages", "files"}
Zero == [f \in Counters |-> 0]

\* ChatStart
NoChat == [chat |-> 0, counters |-> Zero, inDb |-> 0, total |-> 0]

\* A Wait; what is logged is known to the log alone.
Wait(who, seconds, selfExpiring) ==
  [who |-> who, until |-> now + seconds, selfExpiring |-> selfExpiring]

Remaining(w) == IF w.until > now THEN w.until - now ELSE 0

-----------------------------------------------------------------------------
(* The event loop.                                                         *)

Idle == \A t \in Tasks : task[t] = "idle"

\* One frozen object: the counters so far and the totals of the chat.
ChatStart(inDb) == [chat |-> chat + 1, counters |-> counter, inDb |-> inDb, total |-> inDb + MaxMsgs]

BeginChat ==
  /\ running /\ chat < MaxChats /\ Idle
  /\ chat' = chat + 1
  /\ \E inDb \in Stored : start' = ChatStart(inDb)
  /\ UNCHANGED <<running, shown, counter, produced, work, now, display>>

Count(f) ==
  /\ counter' = [counter EXCEPT ![f] = @ + 1]
  /\ produced' = [produced EXCEPT ![chat][f] = @ + 1]

CountMessage ==
  /\ running /\ chat > 0 /\ produced[chat]["messages"] < MaxMsgs
  /\ Count("messages")
  /\ UNCHANGED <<running, shown, chat, start, work, now, display>>

\* _publish_progress
StartDownload(t) ==
  /\ running /\ chat > 0 /\ task[t] = "idle"
  /\ produced[chat]["files"] + Cardinality({u \in Tasks : task[u] # "idle"}) < MaxFiles
  /\ task' = [task EXCEPT ![t] = "running"]
  /\ active' = active \cup {t}
  /\ UNCHANGED <<loop, hold, board, now, display>>

EndDownload(t) ==
  /\ task[t] = "running"
  /\ task' = [task EXCEPT ![t] = "idle"]
  /\ active' = active \ {t}
  /\ Count("files")
  /\ UNCHANGED <<running, shown, chat, start, hold, board, now, display>>

\* Mutant: a wait is left to its deadline whoever holds it.
ExpiresAnyway == TRUE

\* waiting: the block that sleeps ends the wait, not the deadline.
HeldExpires == FALSE

\* waiting, with its line in the log when no display counts the wait down.
Hold(t) ==
  /\ task[t] = "running"
  /\ \E seconds \in 1 .. MinLogged :
       LET w == Wait(t, seconds, HeldExpires) IN
       /\ board' = board \cup {w}
       /\ hold' = [hold EXCEPT ![t] =
                     [wait |-> w, long |-> seconds >= MinLogged,
                      logged |-> seconds >= MinLogged /\ shown = 0]]
  /\ task' = [task EXCEPT ![t] = "waiting"]
  /\ UNCHANGED <<loop, active, now, display>>

\* The sleep is over, early or late, or the download was cancelled in it.
Release(t) ==
  /\ task[t] = "waiting"
  /\ board' = board \ {hold[t].wait}
  /\ hold' = [hold EXCEPT ![t] = None]
  /\ task' = [task EXCEPT ![t] = "running"]
  /\ UNCHANGED <<loop, active, now, display>>

\* FloodWaitNotices.filter: the library goes to sleep and does not say when it wakes.
NoteSleep ==
  /\ running /\ \A w \in board : w.who # Telethon
  /\ board' = board \cup {Wait(Telethon, 1, TRUE)}
  /\ UNCHANGED <<loop, task, hold, active, now, display>>

\* The loop over the chats ends, and the display with it.
EndChats ==
  /\ running /\ chat = MaxChats /\ Idle
  /\ step = "idle"
  /\ running' = FALSE
  /\ shown' = 0
  /\ UNCHANGED <<chat, counter, start, produced, work, now, display>>

Tick ==
  /\ now < MaxTime
  /\ now' = now + 1
  /\ UNCHANGED <<loop, work, display>>

-----------------------------------------------------------------------------
(* The refresh thread: chat_view, then the lines, then the files.          *)

\* _build_status_table, twice a second while the panel is shown.
Refresh ==
  /\ shown > 0 /\ step = "idle"
  /\ seen' = start
  /\ got' = <<>>
  /\ step' = "count"
  /\ UNCHANGED <<loop, work, now, frame>>

Read(f) ==
  /\ step = "count" /\ f \notin DOMAIN got
  /\ got' = [g \in DOMAIN got \cup {f} |-> IF g = f THEN counter[f] ELSE got[g]]
  /\ UNCHANGED <<loop, work, now, step, seen, frame>>

\* Mutant: what was read is taken as it is.
Trusted == TRUE

\* The counters still belong to the chat they are set against.
SameChat == start = seen

\* Mutant: the counters are read again, the start is not.
OldStart == seen

\* What a second attempt works from.
ReadStart == start

Delta(f) == IF got[f] >= seen.counters[f] THEN got[f] - seen.counters[f] ELSE 0

\* ChatView, with messages_done
ChatView ==
  [chat |-> seen.chat, counters |-> [f \in Counters |-> Delta(f)],
   done |-> seen.inDb + Delta("messages"), total |-> seen.total]

Viewed ==
  /\ step = "count" /\ DOMAIN got = Counters /\ SameChat
  /\ frame' = ChatView
  /\ step' = "lines"
  /\ seen' = NoChat /\ got' = <<>>
  /\ UNCHANGED <<loop, work, now>>

Retry ==
  /\ step = "count" /\ DOMAIN got = Counters /\ ~SameChat
  /\ seen' = ReadStart
  /\ got' = <<>>
  /\ UNCHANGED <<loop, work, now, step, frame>>

\* WaitBoard.pending
Pending == {w \in board : ~w.selfExpiring \/ Remaining(w) > 0}

\* The wait the status line names: the one with the most time left.
Longest(ws) == CHOOSE w \in ws : \A v \in ws : Remaining(v) <= Remaining(w)

\* Both lines come from that one view; the first names the wait that holds the export.
Lines ==
  /\ step = "lines"
  /\ board' = Pending
  /\ frame' = [chat |-> frame.chat, counters |-> frame.counters, done |-> frame.done,
               total |-> frame.total,
               waiting |-> IF Pending = {} THEN None ELSE Longest(Pending).who]
  /\ step' = "files"
  /\ UNCHANGED <<loop, task, hold, active, now, seen, got>>

\* A row per download of snapshot_active_downloads, and the frame is on the screen.
Files ==
  /\ step = "files"
  /\ frame' = None
  /\ step' = "idle"
  /\ UNCHANGED <<loop, work, now, seen, got>>

Init ==
  /\ running = TRUE /\ shown \in {0, 1}
  /\ chat = 0 /\ counter = Zero /\ start = NoChat
  /\ produced = [c \in 0 .. MaxChats |-> Zero]
  /\ task = [t \in Tasks |-> "idle"] /\ hold = [t \in Tasks |-> None] /\ active = {} /\ board = {} /\ now = 0
  /\ step = "idle" /\ seen = NoChat /\ got = <<>>
  /\ frame = None

EventLoop ==
  \/ BeginChat \/ CountMessage \/ NoteSleep \/ EndChats
  \/ \E t \in Tasks : StartDownload(t) \/ EndDownload(t) \/ Hold(t) \/ Release(t)

RefreshThread ==
  Refresh \/ (\E f \in Counters : Read(f)) \/ Viewed \/ Retry \/ Lines \/ Files

Next == EventLoop \/ RefreshThread \/ Tick

\* The thread is scheduled; nothing is assumed of the loop.
Spec == Init /\ [][Next]_vars /\ WF_vars(RefreshThread)

-----------------------------------------------------------------------------
\* A frame shows one chat: the counters set against its start are what that
\* chat added and nothing of the next one, so the bar cannot pass its own
\* total (exporter.py, ChatStart: "draw a progress bar far past its own total").
FrameOfOneChat ==
  frame # None =>
    /\ \A f \in Counters : frame.counters[f] <= produced[frame.chat][f]
    /\ frame.done <= frame.total

\* A pause this process sleeps through is on the board until the sleep ends,
\* however wrong the estimate, and not longer; and a long one is either counted
\* down on the screen or announced in the log (waits.py: a correct run must not
\* be "indistinguishable from a hung one").
WaitsReported ==
  /\ \A t \in Tasks : task[t] = "waiting" =>
       /\ hold[t].wait \in Pending
       /\ hold[t].long => shown > 0 \/ hold[t].logged
  /\ \A w \in board : w.who # Telethon => hold[w.who] # None /\ hold[w.who].wait = w

\* Every frame begun is drawn: the retry of chat_view ends although the loop
\* never waits for the display.
FrameDrawn == step = "count" ~> step = "files"
=============================================================================
