-------------------------- MODULE LiveStatusProofs --------------------------
(***************************************************************************)
(* Proofs about LiveStatus, for any number of chats, downloads and ticks:  *)
(* that a frame shows one chat although the thread that draws it shares no *)
(* lock with the loop that counts, and that the waits on the board are the *)
(* ones that are slept through.                                            *)
(***************************************************************************)
EXTENDS LiveStatus, TLAPS

Tally == [Counters -> Nat]
Chats == 0 .. MaxChats
StartType == [chat : Chats, counters : Tally, inDb : Nat, total : Nat]
WaitType == [who : Tasks \cup {Telethon}, until : Nat, selfExpiring : BOOLEAN]

\* What the loop writes.
LoopType ==
  /\ running \in BOOLEAN /\ shown \in {0, 1} /\ now \in Nat
  /\ chat \in Chats /\ counter \in Tally /\ start \in StartType
  /\ produced \in [Chats -> Tally]
  /\ task \in [Tasks -> {"idle", "running", "waiting"}]
  /\ board \subseteq WaitType

\* The waits of the downloads are a function.
HoldType == hold = [t \in Tasks |-> hold[t]]

\* What the thread works on.
DisplayType ==
  /\ step \in {"idle", "count", "lines", "files"}
  /\ seen \in StartType
  /\ DOMAIN got \subseteq Counters
  /\ \A f \in DOMAIN got : got[f] \in Nat

\* The counters are what the chat began with and what it added; the chats to
\* come have added nothing, and no chat passes its total.
Books ==
  /\ start.chat = chat
  /\ \A f \in Counters : counter[f] = start.counters[f] + produced[chat][f]
  /\ \A c \in Chats : c > chat => produced[c] = Zero
  /\ chat > 0 => start.total = start.inDb + MaxMsgs
  /\ start.inDb + produced[chat]["messages"] <= start.total

\* What the thread has read of a counter is not ahead of it.
ReadBehind == \A f \in DOMAIN got : got[f] <= counter[f]

\* What it shows was added by one chat; between the frames nothing is shown.
FrameTrue ==
  /\ step \in {"lines", "files"} =>
       /\ frame.chat \in Chats /\ frame.counters \in Tally
       /\ \A f \in Counters : frame.counters[f] <= produced[frame.chat][f]
       /\ frame.done <= frame.total
  /\ step \in {"idle", "count"} => frame = None

\* A download that waits has one wait of its own on the board, and every wait
\* there that is not the library's is of a download that waits.
HeldWaits ==
  /\ \A t \in Tasks : task[t] = "waiting" =>
       /\ hold[t] \in [wait : WaitType, long : BOOLEAN, logged : BOOLEAN]
       /\ hold[t].wait \in board
       /\ hold[t].wait.who = t /\ ~hold[t].wait.selfExpiring
       /\ hold[t].long => shown > 0 \/ hold[t].logged
  /\ \A w \in board : w.who # Telethon => task[w.who] = "waiting" /\ hold[w.who].wait = w

IInv == LoopType /\ HoldType /\ DisplayType /\ Books /\ ReadBehind /\ FrameTrue /\ HeldWaits

-----------------------------------------------------------------------------
(* The counters and the waits.                                             *)

LEMMA TheCounters == "messages" \in Counters /\ "files" \in Counters
BY DEF Counters

LEMMA NothingCounted == Zero \in Tally /\ \A f \in Counters : Zero[f] = 0
BY DEF Zero, Tally

\* Counting adds one to one counter and to what the chat added to it.
LEMMA Counted ==
  ASSUME LoopType, NEW f \in Counters, Count(f)
  PROVE  /\ counter' \in Tally /\ produced' \in [Chats -> Tally]
         /\ \A g \in Counters :
              /\ counter'[g] = IF g = f THEN counter[g] + 1 ELSE counter[g]
              /\ produced'[chat][g] = IF g = f THEN produced[chat][g] + 1 ELSE produced[chat][g]
         /\ \A c \in Chats : c # chat => produced'[c] = produced[c]
<1>1. chat \in Chats /\ counter \in Tally /\ produced \in [Chats -> Tally]
  BY DEF LoopType
<1>2. counter' = [counter EXCEPT ![f] = @ + 1]
  BY DEF Count
<1>3. produced' = [produced EXCEPT ![chat] = [produced[chat] EXCEPT ![f] = @ + 1]]
  BY DEF Count
<1>4. [produced[chat] EXCEPT ![f] = @ + 1] \in Tally
  BY <1>1 DEF Tally
<1>5. produced' \in [Chats -> Tally] /\ produced'[chat] = [produced[chat] EXCEPT ![f] = @ + 1]
  BY <1>1, <1>3, <1>4
<1> QED BY <1>1, <1>2, <1>3, <1>5 DEF Tally

\* Counting keeps the books, and what was read or shown stays behind.
LEMMA CountKeeps ==
  ASSUME IInv, NEW f \in Counters, Count(f), UNCHANGED <<chat, start, display>>,
         f = "messages" => chat > 0 /\ produced[chat]["messages"] < MaxMsgs
  PROVE  Books' /\ ReadBehind' /\ FrameTrue'
<1>1. LoopType /\ DisplayType /\ Books /\ ReadBehind /\ FrameTrue
  BY DEF IInv
<1>2. /\ chat \in Chats /\ start \in StartType
      /\ UNCHANGED <<chat, start, step, seen, got, frame>>
      /\ produced \in [Chats -> Tally] /\ counter \in Tally
  BY <1>1 DEF LoopType, display
<1>3. \A g \in Counters : /\ counter[g] \in Nat /\ start.counters[g] \in Nat /\ start.inDb \in Nat
                         /\ produced[chat][g] \in Nat
  BY <1>2 DEF Tally, StartType
<1>4. Books'
  <2>1. \A g \in Counters : counter'[g] = start.counters[g] + produced'[chat][g]
    BY <1>1, <1>2, <1>3, Counted DEF Books
  <2>2. \A c \in Chats : c > chat => produced'[c] = Zero
    BY <1>1, <1>2, Counted DEF Books, Chats
  <2>3. start.inDb + produced'[chat]["messages"] <= start.total
    <3>1. CASE f = "messages"
      BY <3>1, <1>1, <1>2, <1>3, Counted, TheCounters, StatusAssumption DEF Books
    <3>2. CASE f # "messages"
      BY <3>2, <1>1, <1>2, Counted, TheCounters DEF Books
    <3> QED BY <3>1, <3>2
  <2> QED BY <1>1, <1>2, <2>1, <2>2, <2>3 DEF Books
<1>5. ReadBehind'
  <2>1. \A g \in Counters : counter[g] \in Nat /\ counter'[g] \in Nat /\ counter[g] <= counter'[g]
    BY <1>2, Counted, <1>1 DEF Tally
  <2>2. \A g \in DOMAIN got : g \in Counters /\ got[g] \in Nat /\ got[g] <= counter[g]
    BY <1>1 DEF DisplayType, ReadBehind
  <2> QED BY <1>2, <2>1, <2>2 DEF ReadBehind
<1>6. FrameTrue'
  <2>1. \A c \in Chats, g \in Counters :
          /\ produced[c][g] \in Nat /\ produced'[c][g] \in Nat
          /\ produced[c][g] <= produced'[c][g]
    BY <1>1, <1>2, Counted DEF Tally
  <2>2. step \in {"lines", "files"} =>
          \A g \in Counters : frame.counters[g] \in Nat /\ frame.counters[g] <= produced[frame.chat][g]
    BY <1>1 DEF FrameTrue, Tally
  <2> QED BY <1>1, <1>2, <2>1, <2>2 DEF FrameTrue
<1> QED BY <1>4, <1>5, <1>6

LEMMA NewWait ==
  ASSUME NEW who \in Tasks \cup {Telethon}, NEW seconds \in Nat, NEW selfExpiring \in BOOLEAN,
         now \in Nat
  PROVE  /\ Wait(who, seconds, selfExpiring) \in WaitType
         /\ Wait(who, seconds, selfExpiring).who = who
         /\ Wait(who, seconds, selfExpiring).selfExpiring = selfExpiring
BY DEF Wait, WaitType

\* A download goes to sleep with a wait of its own.
LEMMA HoldStep ==
  ASSUME IInv, NEW t \in Tasks, Hold(t)
  PROVE  IInv'
<1>1. PICK seconds \in 1 .. MinLogged :
        /\ board' = board \cup {Wait(t, seconds, HeldExpires)}
        /\ hold' = [hold EXCEPT ![t] =
                      [wait |-> Wait(t, seconds, HeldExpires), long |-> seconds >= MinLogged,
                       logged |-> seconds >= MinLogged /\ shown = 0]]
  BY DEF Hold
<1>2. /\ task[t] = "running" /\ task' = [task EXCEPT ![t] = "waiting"]
      /\ UNCHANGED <<loop, now, display>>
  BY DEF Hold
<1>3. /\ Wait(t, seconds, HeldExpires) \in WaitType
      /\ Wait(t, seconds, HeldExpires).who = t /\ ~Wait(t, seconds, HeldExpires).selfExpiring
  <2>1. seconds \in Nat /\ HeldExpires \in BOOLEAN /\ ~HeldExpires /\ now \in Nat
    BY StatusAssumption DEF HeldExpires, IInv, LoopType
  <2> QED BY <2>1, NewWait
<1>4. LoopType'
  BY <1>1, <1>2, <1>3 DEF IInv, LoopType, loop
<1>5. HoldType'
  BY <1>1, Zenon DEF IInv, HoldType
<1>6. DisplayType' /\ Books' /\ ReadBehind' /\ FrameTrue'
  BY <1>2 DEF IInv, DisplayType, Books, ReadBehind, FrameTrue, loop, display
<1>7. HeldWaits'
  <2> DEFINE w == Wait(t, seconds, HeldExpires)
             h == [wait |-> w, long |-> seconds >= MinLogged,
                   logged |-> seconds >= MinLogged /\ shown = 0]
  <2>1. /\ w \in WaitType /\ w.who = t /\ ~w.selfExpiring
        /\ board' = board \cup {w} /\ t # Telethon
    BY <1>1, <1>3, StatusAssumption
  <2>2. /\ h \in [wait : WaitType, long : BOOLEAN, logged : BOOLEAN] /\ h.wait = w
        /\ h.long => shown > 0 \/ h.logged
    <3>1. shown \in {0, 1}
      BY DEF IInv, LoopType
    <3>2. h.wait = w /\ h.long = (seconds >= MinLogged) /\ h.logged = (seconds >= MinLogged /\ shown = 0)
      OBVIOUS
    <3>3. h \in [wait : WaitType, long : BOOLEAN, logged : BOOLEAN]
      <4> HIDE DEF w
      <4> QED BY <2>1
    <3> HIDE DEF h
    <3> QED BY <3>1, <3>2, <3>3
  <2>3. hold' = [hold EXCEPT ![t] = h]
    BY <1>1
  <2> HIDE DEF w, h
  <2>4. /\ hold'[t] = h /\ task'[t] = "waiting"
        /\ \A u \in Tasks : u # t => hold'[u] = hold[u] /\ task'[u] = task[u]
    BY <1>2, <2>3 DEF IInv, LoopType, HoldType
  <2>5. UNCHANGED shown
    BY <1>2 DEF loop
  <2>6. \A v \in board : v.who # Telethon => v.who \in Tasks /\ v.who # t
    BY <1>2 DEF IInv, HeldWaits, LoopType, WaitType
  <2> QED BY <2>1, <2>2, <2>4, <2>5, <2>6 DEF IInv, HeldWaits
<1> QED BY <1>4, <1>5, <1>6, <1>7 DEF IInv

\* The counters read belong to the chat they are set against.
LEMMA ViewedStep ==
  ASSUME IInv, Viewed
  PROVE  IInv'
<1>1. /\ step' = "lines" /\ frame' = ChatView /\ seen' = NoChat /\ got' = <<>>
      /\ DOMAIN got = Counters /\ start = seen /\ UNCHANGED <<loop, work, now>>
  BY DEF Viewed, SameChat
<1>2. LoopType' /\ HoldType' /\ Books' /\ HeldWaits'
  BY <1>1 DEF IInv, LoopType, HoldType, Books, HeldWaits, loop, work
<1>3. DisplayType' /\ ReadBehind'
  <2>1. NoChat \in StartType
    BY NothingCounted, StatusAssumption DEF NoChat, StartType, Chats
  <2>2. DOMAIN got' = {}
    BY <1>1
  <2> QED BY <1>1, <2>1, <2>2 DEF DisplayType, ReadBehind
<1>4. \A f \in Counters : Delta(f) \in Nat /\ Delta(f) <= produced[chat][f]
  <2> SUFFICES ASSUME NEW f \in Counters
               PROVE  Delta(f) \in Nat /\ Delta(f) <= produced[chat][f]
    OBVIOUS
  <2>1. /\ counter[f] = seen.counters[f] + produced[chat][f]
        /\ got[f] \in Nat /\ got[f] <= counter[f]
    BY <1>1 DEF IInv, Books, ReadBehind, DisplayType
  <2>2. seen.counters[f] \in Nat /\ produced[chat][f] \in Nat
    BY DEF IInv, DisplayType, LoopType, StartType, Tally
  <2> QED BY <2>1, <2>2 DEF Delta
<1>5. /\ ChatView.chat \in Chats
      /\ ChatView.counters = [f \in Counters |-> Delta(f)]
      /\ ChatView.done = seen.inDb + Delta("messages") /\ ChatView.total = seen.total
      /\ ChatView.chat = chat
  BY <1>1 DEF ChatView, IInv, Books, LoopType
<1>6. ChatView.done <= ChatView.total
  <2>1. seen.inDb + produced[chat]["messages"] <= seen.total
    BY <1>1 DEF IInv, Books
  <2>2. seen.inDb \in Nat /\ seen.total \in Nat /\ produced[chat]["messages"] \in Nat
    BY TheCounters DEF IInv, DisplayType, LoopType, StartType, Tally
  <2> QED BY <1>4, <1>5, <2>1, <2>2, TheCounters
<1>7. FrameTrue'
  BY <1>1, <1>4, <1>5, <1>6 DEF FrameTrue, Tally, loop
<1> QED BY <1>2, <1>3, <1>7 DEF IInv

-----------------------------------------------------------------------------
(* The other steps: what each of them disturbs.                            *)

LEMMA BeginChatStep ==
  ASSUME IInv, BeginChat
  PROVE  IInv'
<1>1. HoldType' /\ ReadBehind' /\ HeldWaits'
  BY DEF IInv, BeginChat, work, display, HoldType, ReadBehind, HeldWaits
<1>2. LoopType'
  <2>1. PICK inDb \in Stored : start' = ChatStart(inDb)
    BY DEF BeginChat
  <2>2. inDb \in Nat /\ inDb + MaxMsgs \in Nat
    BY StatusAssumption
  <2>3. chat' = chat + 1 /\ chat + 1 \in Chats /\ UNCHANGED <<running, shown, counter, produced, work, now>>
    BY StatusAssumption DEF BeginChat, IInv, LoopType, Chats
  <2>4. start' \in StartType
    BY <2>1, <2>2, <2>3 DEF ChatStart, StartType, IInv, LoopType
  <2> QED BY <2>3, <2>4 DEF IInv, LoopType, work
<1>3. DisplayType'
  BY DEF IInv, BeginChat, display, DisplayType
<1>4. Books'
  <2>1. PICK inDb \in Stored : start' = ChatStart(inDb)
    BY DEF BeginChat
  <2>2. inDb \in Nat
    BY StatusAssumption
  <2>3. /\ start'.chat = chat + 1 /\ start'.counters = counter
        /\ start'.inDb = inDb /\ start'.total = inDb + MaxMsgs
    BY <2>1 DEF ChatStart
  <2>4. chat' = chat + 1 /\ chat + 1 \in Chats /\ UNCHANGED <<counter, produced>>
    BY StatusAssumption DEF BeginChat, IInv, LoopType, Chats
  <2>5. produced[chat + 1] = Zero
    BY <2>4 DEF IInv, Books, LoopType, Chats
  <2> QED BY <2>2, <2>3, <2>4, <2>5, NothingCounted, TheCounters, StatusAssumption
    DEF IInv, Books, LoopType, Chats, Tally
<1>5. FrameTrue'
  BY DEF IInv, BeginChat, display, FrameTrue
<1> QED BY <1>1, <1>2, <1>3, <1>4, <1>5 DEF IInv

LEMMA CountMessageStep ==
  ASSUME IInv, CountMessage
  PROVE  IInv'
<1>1. HoldType' /\ DisplayType' /\ HeldWaits'
  BY DEF IInv, CountMessage, work, display, HoldType, DisplayType, HeldWaits
<1>2. LoopType'
  BY TheCounters, Counted DEF IInv, CountMessage, work, LoopType
<1>3. Books'
  BY CountKeeps, TheCounters DEF CountMessage, work, display
<1>4. ReadBehind'
  BY CountKeeps, TheCounters DEF CountMessage, work, display
<1>5. FrameTrue'
  BY CountKeeps, TheCounters DEF CountMessage, work, display
<1> QED BY <1>1, <1>2, <1>3, <1>4, <1>5 DEF IInv

LEMMA NoteSleepStep ==
  ASSUME IInv, NoteSleep
  PROVE  IInv'
<1>1. HoldType' /\ DisplayType' /\ Books' /\ ReadBehind' /\ FrameTrue'
  BY DEF IInv, NoteSleep, loop, display, HoldType, DisplayType, Books,
     ReadBehind, FrameTrue
<1>2. LoopType'
  <2>1. /\ board' = board \cup {Wait(Telethon, 1, TRUE)}
        /\ UNCHANGED <<loop, task, now>>
    BY DEF NoteSleep
  <2>2. Wait(Telethon, 1, TRUE) \in WaitType
    BY NewWait DEF IInv, LoopType
  <2> QED BY <2>1, <2>2 DEF IInv, LoopType, loop
<1>3. HeldWaits'
  <2>1. /\ board' = board \cup {Wait(Telethon, 1, TRUE)}
        /\ UNCHANGED <<shown, task, hold>>
    BY DEF NoteSleep, loop
  <2>2. Wait(Telethon, 1, TRUE).who = Telethon
    BY NewWait DEF IInv, LoopType
  <2> QED BY <2>1, <2>2 DEF IInv, HeldWaits
<1> QED BY <1>1, <1>2, <1>3 DEF IInv

LEMMA EndChatsStep ==
  ASSUME IInv, EndChats
  PROVE  IInv'
<1> USE DEF IInv, EndChats, work
<1>1. HoldType' /\ DisplayType' /\ Books' /\ ReadBehind' /\ FrameTrue'
  BY DEF display, HoldType, DisplayType, Books, ReadBehind, FrameTrue
<1>2. LoopType'
  BY DEF LoopType
<1>3. HeldWaits'
  BY DEF Idle, HeldWaits
<1> QED BY <1>1, <1>2, <1>3

LEMMA StartDownloadStep ==
  ASSUME IInv, NEW t \in Tasks, StartDownload(t)
  PROVE  IInv'
<1> USE DEF IInv, StartDownload, loop
<1>1. HoldType' /\ DisplayType' /\ Books' /\ ReadBehind' /\ FrameTrue'
  BY DEF display, HoldType, DisplayType, Books, ReadBehind, FrameTrue
<1>2. LoopType'
  BY DEF LoopType
<1>3. HeldWaits'
  BY DEF HeldWaits
<1> QED BY <1>1, <1>2, <1>3

LEMMA EndDownloadStep ==
  ASSUME IInv, NEW t \in Tasks, EndDownload(t)
  PROVE  IInv'
<1>1. HoldType' /\ DisplayType'
  BY DEF IInv, EndDownload, display, HoldType, DisplayType
<1>2. LoopType'
  BY TheCounters, Counted DEF IInv, EndDownload, LoopType
<1>3. Books'
  BY CountKeeps, TheCounters DEF EndDownload, display
<1>4. ReadBehind'
  BY CountKeeps, TheCounters DEF EndDownload, display
<1>5. FrameTrue'
  BY CountKeeps, TheCounters DEF EndDownload, display
<1>6. HeldWaits'
  BY DEF IInv, EndDownload, HeldWaits
<1> QED BY <1>1, <1>2, <1>3, <1>4, <1>5, <1>6 DEF IInv

LEMMA ReleaseStep ==
  ASSUME IInv, NEW t \in Tasks, Release(t)
  PROVE  IInv'
<1> USE DEF IInv, Release, loop
<1>1. DisplayType' /\ Books' /\ ReadBehind' /\ FrameTrue'
  BY DEF display, DisplayType, Books, ReadBehind, FrameTrue
<1>2. LoopType'
  BY DEF LoopType
<1>3. HoldType'
  BY DEF HoldType
<1>4. HeldWaits'
  BY DEF HeldWaits, LoopType
<1> QED BY <1>1, <1>2, <1>3, <1>4

LEMMA RefreshStep ==
  ASSUME IInv, Refresh
  PROVE  IInv'
<1> USE DEF IInv, Refresh
<1>1. LoopType' /\ HoldType' /\ Books' /\ HeldWaits'
  BY DEF loop, work, LoopType, HoldType, Books, HeldWaits
<1>2. DisplayType'
  BY DEF DisplayType, LoopType
<1>3. ReadBehind'
  BY DEF ReadBehind
<1>4. FrameTrue'
  BY DEF FrameTrue
<1> QED BY <1>1, <1>2, <1>3, <1>4

LEMMA ReadStep ==
  ASSUME IInv, NEW f \in Counters, Read(f)
  PROVE  IInv'
<1> USE DEF IInv, Read, loop
<1>1. LoopType' /\ HoldType' /\ Books' /\ FrameTrue' /\ HeldWaits'
  BY DEF work, LoopType, HoldType, Books, FrameTrue, HeldWaits
<1>2. DisplayType'
  BY DEF DisplayType, Tally, LoopType
<1>3. ReadBehind'
  BY DEF ReadBehind, LoopType, Tally
<1> QED BY <1>1, <1>2, <1>3

LEMMA RetryStep ==
  ASSUME IInv, Retry
  PROVE  IInv'
<1> USE DEF IInv, Retry
<1>1. LoopType' /\ HoldType' /\ Books' /\ FrameTrue' /\ HeldWaits'
  BY DEF loop, work, LoopType, HoldType, Books, FrameTrue, HeldWaits
<1>2. DisplayType'
  BY DEF ReadStart, DisplayType, LoopType
<1>3. ReadBehind'
  BY DEF ReadBehind
<1> QED BY <1>1, <1>2, <1>3

LEMMA LinesStep ==
  ASSUME IInv, Lines
  PROVE  IInv'
<1> USE DEF IInv, Lines, Pending, loop
<1>1. HoldType' /\ Books' /\ ReadBehind'
  BY DEF HoldType, Books, ReadBehind
<1>2. LoopType'
  BY DEF LoopType
<1>3. DisplayType'
  BY DEF DisplayType
<1>4. FrameTrue'
  BY DEF FrameTrue
<1>5. HeldWaits'
  BY DEF HeldWaits
<1> QED BY <1>1, <1>2, <1>3, <1>4, <1>5

LEMMA FilesStep ==
  ASSUME IInv, Files
  PROVE  IInv'
<1> USE DEF IInv, Files
<1>1. LoopType' /\ HoldType' /\ Books' /\ ReadBehind' /\ HeldWaits'
  BY DEF loop, work, LoopType, HoldType, Books, ReadBehind, HeldWaits
<1>2. DisplayType'
  BY DEF DisplayType
<1>3. FrameTrue'
  BY DEF FrameTrue
<1> QED BY <1>1, <1>2, <1>3

LEMMA TickStep ==
  ASSUME IInv, Tick
  PROVE  IInv'
<1> USE DEF IInv, Tick, loop, work
<1>1. HoldType' /\ DisplayType' /\ Books' /\ ReadBehind' /\ FrameTrue' /\ HeldWaits'
  BY DEF display, HoldType, DisplayType, Books, ReadBehind, FrameTrue,
     HeldWaits
<1>2. LoopType'
  BY DEF LoopType
<1> QED BY <1>1, <1>2

-----------------------------------------------------------------------------
(* The theorems.                                                           *)

LEMMA InitInv == Init => IInv
<1> SUFFICES ASSUME Init PROVE IInv
  OBVIOUS
<1>1. NoChat \in StartType /\ NoChat.counters = Zero /\ NoChat.chat = 0
      /\ NoChat.inDb = 0 /\ NoChat.total = 0
  BY NothingCounted, StatusAssumption DEF NoChat, StartType, Chats
<1>2. produced \in [Chats -> Tally] /\ \A c \in Chats : produced[c] = Zero
  BY NothingCounted DEF Init, Chats
<1>3. LoopType
  BY <1>1, <1>2, NothingCounted, StatusAssumption DEF Init, LoopType, Chats
<1>4. HoldType
  BY Zenon DEF Init, HoldType
<1>5. DOMAIN got = {}
  BY DEF Init
<1>6. DisplayType /\ ReadBehind
  BY <1>1, <1>5 DEF Init, DisplayType, ReadBehind
<1>7. Books
  BY <1>1, <1>2, NothingCounted, TheCounters, StatusAssumption DEF Init, Books, Chats
<1>8. FrameTrue /\ HeldWaits
  BY DEF Init, FrameTrue, HeldWaits
<1> QED BY <1>3, <1>4, <1>6, <1>7, <1>8 DEF IInv

LEMMA StepInv == IInv /\ [Next]_vars => IInv'
<1> SUFFICES ASSUME IInv, [Next]_vars PROVE IInv'
  OBVIOUS
<1>1. CASE EventLoop
  BY <1>1, BeginChatStep, CountMessageStep, NoteSleepStep, EndChatsStep, StartDownloadStep,
     EndDownloadStep, HoldStep, ReleaseStep DEF EventLoop
<1>2. CASE RefreshThread
  BY <1>2, RefreshStep, ReadStep, ViewedStep, RetryStep, LinesStep, FilesStep
     DEF RefreshThread
<1>3. CASE Tick
  BY <1>3, TickStep
<1>4. CASE UNCHANGED vars
  <2>1. UNCHANGED <<loop, task, hold, board, now, display>>
    BY <1>4 DEF vars, work
  <2>2. HoldType'
    BY <2>1 DEF IInv, HoldType
  <2> QED BY <2>1, <2>2 DEF loop, display, IInv, LoopType, DisplayType, Books, ReadBehind,
     FrameTrue, HeldWaits
<1> QED BY <1>1, <1>2, <1>3, <1>4 DEF Next

LEMMA ReachableInv == Spec => []IInv
BY InitInv, StepInv, PTL DEF Spec

\* However the reads of the thread fall between the steps of the loop, what a
\* frame shows was added by one chat and does not pass that chat's total.
THEOREM FramesOfOneChat == Spec => []FrameOfOneChat
<1>1. IInv => FrameOfOneChat
  <2> SUFFICES ASSUME IInv, frame # None
               PROVE  /\ \A f \in Counters : frame.counters[f] <= produced[frame.chat][f]
                      /\ frame.done <= frame.total
    BY DEF FrameOfOneChat
  <2>1. step \in {"lines", "files"}
    BY DEF IInv, DisplayType, FrameTrue
  <2> QED BY <2>1 DEF IInv, FrameTrue
<1> QED BY <1>1, ReachableInv, PTL

\* A download that sleeps has its wait on the board for exactly as long, and a
\* long wait is on the screen or in the log.
THEOREM WaitsAreReported == Spec => []WaitsReported
<1>1. IInv => WaitsReported
  <2> SUFFICES ASSUME IInv PROVE WaitsReported
    OBVIOUS
  <2>1. \A t \in Tasks : task[t] = "waiting" =>
          /\ hold[t].wait \in Pending
          /\ hold[t].long => shown > 0 \/ hold[t].logged
    BY DEF IInv, HeldWaits, Pending
  <2>2. \A w \in board : w.who # Telethon => hold[w.who] # None /\ hold[w.who].wait = w
    <3> SUFFICES ASSUME NEW w \in board, w.who # Telethon
                 PROVE  hold[w.who] # None /\ hold[w.who].wait = w
      OBVIOUS
    <3>1. w.who \in Tasks /\ task[w.who] = "waiting" /\ hold[w.who].wait = w
      BY DEF IInv, HeldWaits, LoopType, WaitType
    <3>2. hold[w.who] \in [wait : WaitType, long : BOOLEAN, logged : BOOLEAN]
      BY <3>1 DEF IInv, HeldWaits
    <3> QED BY <3>1, <3>2, StatusAssumption DEF WaitType
  <2> QED BY <2>1, <2>2 DEF WaitsReported
<1> QED BY <1>1, ReachableInv, PTL
=============================================================================
